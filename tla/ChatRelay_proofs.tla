-------------------------- MODULE ChatRelay_proofs --------------------------
(***************************************************************************)
(* What holds of the chat relay for every number of devices, batches and   *)
(* faults: its types (ChatTypeOK), and that it implements ChatLog, of a    *)
(* chat without checkpoints (PlainChatIsLog), and of any chat as long as   *)
(* no wipe and no checkpoint takes a batch out of the room (ImplementsLog).*)
(*                                                                         *)
(* The proof follows where a batch can be.  Within(O, P, R, N) says of     *)
(* every client, snapshot, frame and request that it names only batches of *)
(* O (what its device may hold), P (what it may send) and R (what the room *)
(* may hand out), and only tickets up to N.  Each action keeps it for fixed*)
(* sets; Base is Within for all that was ever written, and Sourced for     *)
(* what each device has still to send and what the room serves.            *)
(***************************************************************************)
EXTENDS ChatRelay, FiniteSetTheorems, TLAPS

-----------------------------------------------------------------------------
(* The least element of a set of batches or of rows *)

\* A finite set has no infinite chain of subsets.
LEMMA StrictSubset ==
  ASSUME NEW S, NEW A \in SUBSET S, NEW B \in SUBSET S, A \subseteq B, A # B
  PROVE  <<A, B>> \in StrictSubsetOrdering(S)
  BY DEF StrictSubsetOrdering

\* A nonempty set of naturals has a least element (the oldest batch).
LEMMA NatMin ==
  ASSUME NEW S, S # {}, S \subseteq Nat
  PROVE  \E m \in S : \A x \in S : m <= x
<1> DEFINE IsBelow(U, x) == \A y \in S : y \in U <=> y <= x
           T == {U \in SUBSET S : \E x \in S : IsBelow(U, x)}
<1>1. ASSUME NEW x \in S PROVE \E U \in SUBSET S : IsBelow(U, x)
  <2>1. IsBelow({y \in S : y <= x}, x)
    OBVIOUS
  <2> QED BY <2>1
<1>2. T # {} /\ T \subseteq FiniteSubsetsOf(S)
  <2>1. T # {}
    <3>1. PICK x \in S : TRUE
      OBVIOUS
    <3>2. PICK U \in SUBSET S : IsBelow(U, x)
      BY <1>1
    <3> QED BY <3>2
  <2>2. ASSUME NEW U \in T PROVE IsFiniteSet(U)
    <3>1. PICK x \in S : IsBelow(U, x)
      OBVIOUS
    <3>2. U \in SUBSET Nat /\ x \in Nat /\ \A s \in U : s <= x
      BY <3>1
    <3> QED BY <3>2, FS_BoundedSetOfNaturals
  <2> QED BY <2>1, <2>2 DEF FiniteSubsetsOf
<1>3. PICK U \in T : \A V \in T : ~ (<<V, U>> \in StrictSubsetOrdering(S))
  <2> HIDE DEF T
  <2> QED BY <1>2, FS_StrictSubsetOrderingWellFounded, WFMin
<1>4. PICK m \in S : IsBelow(U, m)
  OBVIOUS
<1>5. ASSUME NEW y \in S, ~(m <= y) PROVE FALSE
  <2>1. PICK V \in SUBSET S : IsBelow(V, y)
    BY <1>1
  <2>2. V \subseteq U
    BY <1>4, <1>5, <2>1
  <2>3. m \in U /\ m \notin V
    BY <1>4, <1>5, <2>1
  <2>4. <<V, U>> \in StrictSubsetOrdering(S)
    BY <2>2, <2>3, StrictSubset
  <2> QED BY <1>3, <2>1, <2>4
<1> QED BY <1>5

\* Min picks it.
LEMMA MinIn ==
  ASSUME NEW S, S # {}, S \subseteq Nat
  PROVE  Min(S) \in S /\ \A x \in S : Min(S) <= x
  BY NatMin DEF Min

-----------------------------------------------------------------------------
(* Records.  A batch is a natural number; the sets below bound which ones   *)
(* a record may name: B for the device, P for what it may push, R for what  *)
(* the room may have.  n bounds the tickets.                                *)

RowMap(R) == UNION {[S -> R] : S \in SUBSET Nat}

StateIn(R) == [head : Nat, rows : Int, seq : Nat, has : BOOLEAN, frontier : SUBSET R]

ClientIn(B, n) ==
  [ held : SUBSET B, cursor : Nat, pcursor : Nat, gap : BOOLEAN, needs : BOOLEAN,
    asking : BOOLEAN, caught : BOOLEAN, blocked : BOOLEAN, retry : BOOLEAN,
    resumed : BOOLEAN, asked : 0 .. n, done : 0 .. n,
    view : [known : BOOLEAN, rows : Int, has : BOOLEAN],
    sSame : BOOLEAN, hSame : BOOLEAN, hRow : BOOLEAN, hEpoch : BOOLEAN,
    boot : BOOLEAN, event : BOOLEAN ]

SessionIn(R, n) ==
  [ ph : {"down", "hello", "fetching", "importing", "filling", "up"},
    seq : Nat, blob : SUBSET R, ticket : 0 .. n, inFlight : SUBSET Nat,
    repairs : 0 .. MaxRepairs, refresh : 0 .. n ]

HttpRec(P, R, n) ==
  [ ph : {"idle", "spawned", "push", "acking", "pulling", "answered",
          "fetching", "importing", "applying"},
    todo : SUBSET P, seq : Nat, after : Nat, ticket : 0 .. n,
    st : StateIn(R), rows : RowMap(R), whole : BOOLEAN, blob : SUBSET R ]

\* What is left to push is never empty while the cycle pushes; the room has
\* the batch whose ack is on its way.
HttpIn(P, R, n) ==
  {h \in HttpRec(P, R, n) :
     /\ h.ph \in {"push", "acking"} => h.todo # {}
     /\ h.ph = "acking" => Min(h.todo) \in R
     /\ h.ph = "applying" => DOMAIN h.rows # {}}

PostIn(B) ==
  {p \in [ph : {"idle", "sampled", "exported"}, seq : Nat, content : SUBSET B,
          covers : SUBSET B] : p.covers \subseteq p.content}

DiskIn(B) == [doc : SUBSET B, cursor : Nat]

\* Frames to the room, and frames from it.
Up(P) ==
  [t : {"hello"}] \union [t : {"rowsReq"}, after : Nat, excludeOwn : BOOLEAN]
    \union [t : {"push"}, batches : (SUBSET P) \ {{}}]

Down(P, R) ==
  [t : {"state"}, st : StateIn(R)]
    \union [t : {"rows"}, rows : RowMap(R), done : BOOLEAN, head : Nat]
    \union [t : {"ack"}, batch : P \intersect R, seq : Nat]
    \union [t : {"quota"}]

LateIn(O) == {p \in [device : Devices, batch : Nat] : p.batch \in O[p.device]}

RoomIn == [log : Seq([device : Devices, batch : Nat]), floor : Nat,
           has : BOOLEAN, ckpt : SUBSET Nat]

\* A function on devices with f[d] in S[d].
Typed(f, S) == f = [d \in Devices |-> f[d]] /\ \A d \in Devices : f[d] \in S[d]

LEMMA TypedOne ==
  ASSUME NEW f, NEW S, Typed(f, S), NEW d \in Devices, NEW x \in S[d]
  PROVE  Typed([f EXCEPT ![d] = x], S)
  BY DEF Typed

-----------------------------------------------------------------------------
(* Rows and sequences *)

LEMMA RowMapFacts ==
  ASSUME NEW R, NEW m \in RowMap(R)
  PROVE  /\ DOMAIN m \subseteq Nat
         /\ \A s \in DOMAIN m : m[s] \in R
         /\ \A s : [t \in DOMAIN m \ {s} |-> m[t]] \in RowMap(R)
         /\ \A S \in SUBSET DOMAIN m : [t \in S |-> m[t]] \in RowMap(R)
<1>1. PICK S \in SUBSET Nat : m \in [S -> R]
  BY DEF RowMap
<1>2. DOMAIN m = S /\ \A s \in S : m[s] \in R
  BY <1>1
<1>3. ASSUME NEW T \in SUBSET S
      PROVE  [t \in T |-> m[t]] \in RowMap(R)
  <2>1. [t \in T |-> m[t]] \in [T -> R]
    BY <1>2
  <2>2. T \in SUBSET Nat
    OBVIOUS
  <2> QED BY <2>1, <2>2 DEF RowMap
<1> QED BY <1>2, <1>3

LEMMA RowMapOf ==
  ASSUME NEW R, NEW S \in SUBSET Nat, NEW m \in [S -> R]
  PROVE  m \in RowMap(R)
  BY DEF RowMap

LEMMA SeqHead ==
  ASSUME NEW S, NEW q \in Seq(S), q # <<>>
  PROVE  Head(q) \in S /\ Tail(q) \in Seq(S)
  OBVIOUS

LEMMA SeqCons ==
  ASSUME NEW S, NEW q \in Seq(S), NEW x \in S
  PROVE  <<x>> \o q \in Seq(S)
  OBVIOUS

LEMMA SeqGrow ==
  ASSUME NEW S, NEW T, S \subseteq T, NEW q \in Seq(S)
  PROVE  q \in Seq(T)
  OBVIOUS

-----------------------------------------------------------------------------
(* What may be named only grows *)

LEMMA RowMapGrows ==
  ASSUME NEW R, NEW T, R \subseteq T
  PROVE  RowMap(R) \subseteq RowMap(T)
<1>1. ASSUME NEW m \in RowMap(R) PROVE m \in RowMap(T)
  <2>1. PICK S \in SUBSET Nat : m \in [S -> R]
    BY DEF RowMap
  <2>2. m \in [S -> T]
    BY <2>1
  <2> QED BY <2>2, RowMapOf
<1> QED BY <1>1

LEMMA StateGrows ==
  ASSUME NEW R, NEW T, R \subseteq T
  PROVE  StateIn(R) \subseteq StateIn(T)
  BY DEF StateIn

LEMMA ClientGrows ==
  ASSUME NEW B, NEW C, B \subseteq C, NEW n \in Nat, NEW k \in Nat, n <= k
  PROVE  ClientIn(B, n) \subseteq ClientIn(C, k)
  BY DEF ClientIn

LEMMA SessionGrows ==
  ASSUME NEW R, NEW T, R \subseteq T, NEW n \in Nat, NEW k \in Nat, n <= k
  PROVE  SessionIn(R, n) \subseteq SessionIn(T, k)
  BY DEF SessionIn

LEMMA HttpGrows ==
  ASSUME NEW P, NEW Q, P \subseteq Q, NEW R, NEW T, R \subseteq T,
         NEW n \in Nat, NEW k \in Nat, n <= k
  PROVE  HttpIn(P, R, n) \subseteq HttpIn(Q, T, k)
  BY RowMapGrows, StateGrows DEF HttpIn, HttpRec

LEMMA PostGrows ==
  ASSUME NEW B, NEW C, B \subseteq C
  PROVE  PostIn(B) \subseteq PostIn(C) /\ DiskIn(B) \subseteq DiskIn(C)
  BY DEF PostIn, DiskIn

LEMMA UpGrows ==
  ASSUME NEW P, NEW Q, P \subseteq Q
  PROVE  Up(P) \subseteq Up(Q)
  BY DEF Up

LEMMA DownGrows ==
  ASSUME NEW P, NEW Q, P \subseteq Q, NEW R, NEW T, R \subseteq T
  PROVE  Down(P, R) \subseteq Down(Q, T)
  BY RowMapGrows, StateGrows DEF Down

-----------------------------------------------------------------------------
(* The state machine's data, within what may be named *)

\* O[d]: what device d may hold; P[d]: what it may push; R: what the room may
\* hand out; N[d]: the tickets it may have given.
Clients(O, N) == Typed(cl, [d \in Devices |-> ClientIn(O[d], N[d])])
Disks(O)      == Typed(disk, [d \in Devices |-> DiskIn(O[d])])
Flushes       == Typed(flush, [d \in Devices |-> Nat \union {NoFlush}])
Sessions(R, N) == Typed(ses, [d \in Devices |-> SessionIn(R, N[d])])
Sockets       == Typed(socket, [d \in Devices |-> {"new", "ready", "closed"}])
Ups(P)        == Typed(c2s, [d \in Devices |-> Seq(Up(P[d]))])
Downs(P, R)   == Typed(s2c, [d \in Devices |-> Seq(Down(P[d], R))])
Https(P, R, N) == Typed(http, [d \in Devices |-> HttpIn(P[d], R, N[d])])
Posts(O)      == Typed(post, [d \in Devices |-> PostIn(O[d])])

\* The hello comes first and only once, and so does the state that answers it;
\* there is nothing on a socket without a session.
NoHello(up) == \A i \in DOMAIN up : up[i].t # "hello"

GreetOK(ph, sk, up, down) ==
  /\ ph = "down" => sk = "closed" /\ up = <<>> /\ down = <<>>
  /\ sk = "new" => ph = "hello" /\ up = <<[t |-> "hello"]>> /\ down = <<>>
  /\ sk # "new" => NoHello(up)
  /\ ph = "hello" /\ sk = "ready" => down # <<>>
  /\ ph = "hello" /\ down # <<>> => Head(down).t = "state"

Greeted == \A d \in Devices : GreetOK(ses[d].ph, socket[d], c2s[d], s2c[d])

Within(O, P, R, N) ==
  /\ Clients(O, N) /\ Disks(O) /\ Flushes /\ Sessions(R, N) /\ Sockets
  /\ Ups(P) /\ Downs(P, R) /\ Https(P, R, N) /\ Posts(O)
  /\ late \subseteq LateIn(O)
  /\ Greeted

\* The frame of those sets: a device holds what it has to send, may push what
\* is pending, and reads what the room can serve.
Frames(O, P, R, N) ==
  /\ R \subseteq Nat
  /\ Readable(room) \subseteq R
  /\ \A d \in Devices :
       /\ O[d] \subseteq Nat /\ R \subseteq O[d] /\ P[d] \subseteq O[d]
       /\ outbox[d] \subseteq O[d] /\ Pending(d) \subseteq P[d]
       /\ N[d] \in Nat

LEMMA WithinGrows ==
  ASSUME NEW O, NEW P, NEW R, NEW N, NEW O2, NEW P2, NEW R2, NEW N2,
         Within(O, P, R, N), R \subseteq R2,
         \A d \in Devices : /\ O[d] \subseteq O2[d] /\ P[d] \subseteq P2[d]
                            /\ N[d] \in Nat /\ N2[d] \in Nat /\ N[d] <= N2[d]
  PROVE  Within(O2, P2, R2, N2)
<1>1. ASSUME NEW d \in Devices
      PROVE  /\ cl[d] \in ClientIn(O2[d], N2[d])
             /\ disk[d] \in DiskIn(O2[d])
             /\ ses[d] \in SessionIn(R2, N2[d])
             /\ http[d] \in HttpIn(P2[d], R2, N2[d])
             /\ post[d] \in PostIn(O2[d])
  <2>1. /\ cl[d] \in ClientIn(O[d], N[d])
        /\ disk[d] \in DiskIn(O[d])
        /\ ses[d] \in SessionIn(R, N[d])
        /\ http[d] \in HttpIn(P[d], R, N[d])
        /\ post[d] \in PostIn(O[d])
    BY DEF Within, Typed, Clients, Disks, Sessions, Https, Posts
  <2>2. cl[d] \in ClientIn(O2[d], N2[d])
    BY <2>1, ClientGrows
  <2>3. disk[d] \in DiskIn(O2[d]) /\ post[d] \in PostIn(O2[d])
    BY <2>1, PostGrows
  <2>4. ses[d] \in SessionIn(R2, N2[d])
    BY <2>1, SessionGrows
  <2>5. http[d] \in HttpIn(P2[d], R2, N2[d])
    BY <2>1, HttpGrows
  <2> QED BY <2>2, <2>3, <2>4, <2>5
<1>2. ASSUME NEW d \in Devices
      PROVE  c2s[d] \in Seq(Up(P2[d])) /\ s2c[d] \in Seq(Down(P2[d], R2))
  <2>1. c2s[d] \in Seq(Up(P[d])) /\ s2c[d] \in Seq(Down(P[d], R))
    BY DEF Within, Typed, Ups, Downs
  <2>2. Up(P[d]) \subseteq Up(P2[d])
    BY UpGrows
  <2>3. Down(P[d], R) \subseteq Down(P2[d], R2)
    BY DownGrows
  <2>4. c2s[d] \in Seq(Up(P2[d]))
    BY <2>1, <2>2, SeqGrow
  <2>5. s2c[d] \in Seq(Down(P2[d], R2))
    BY <2>1, <2>3, SeqGrow
  <2> QED BY <2>4, <2>5
<1>3. late \subseteq LateIn(O2)
  BY DEF Within, LateIn
<1> QED
  BY <1>1, <1>2, <1>3
  DEF Within, Typed, Clients, Disks, Flushes, Sessions, Sockets, Ups, Downs, Https, Posts

\* What a step may reach: what it adds to an outbox, to the room or to the
\* tickets is in those sets too.
Reaches(O, R, N) ==
  /\ Readable(room') \subseteq R
  /\ \A d \in Devices :
       /\ Write(d) => outbox'[d] \subseteq O[d]
       /\ RequestCatchUp(d) => cl'[d].asked <= N[d]

\* A step that leaves the other clients alone, and this one with what c has.
Becomes(d, c) ==
  /\ \A e \in Devices \ {d} : cl'[e] = cl[e]
  /\ cl'[d].held = c.held /\ cl'[d].asked = c.asked

\* A step that leaves every document and every ticket alone, and one that may
\* add to d's document.
Keeps(d) == Becomes(d, cl[d])
Learns(d) ==
  /\ \A e \in Devices \ {d} : cl'[e] = cl[e]
  /\ cl[d].held \subseteq cl'[d].held /\ cl'[d].asked = cl[d].asked

-----------------------------------------------------------------------------
(* What the room hands out *)

LEMMA RowsTyped ==
  ASSUME NEW r \in RoomIn, NEW after, NEW ex
  PROVE  /\ RowsAfter(r, after, ex) \in RowMap(Readable(r))
         /\ State(r) \in StateIn(Readable(r))
         /\ HeadSeq(r) \in Nat
<1>1. Rows(r) \subseteq 1 .. HeadSeq(r) /\ HeadSeq(r) \in Nat
  BY DEF Rows, HeadSeq, RoomIn
<1>2. ASSUME NEW s \in Rows(r)
      PROVE  r.log[s].batch \in Readable(r)
  BY <1>2 DEF Readable
<1> DEFINE S == {s \in Rows(r) : s > after /\ r.log[s].device # ex}
<1>3. RowsAfter(r, after, ex) = [s \in S |-> r.log[s].batch]
  BY DEF RowsAfter
<1>4. S \in SUBSET Nat
  BY <1>1
<1>5. [s \in S |-> r.log[s].batch] \in [S -> Readable(r)]
  BY <1>2
<1>6. RowsAfter(r, after, ex) \in RowMap(Readable(r))
  BY <1>3, <1>4, <1>5, RowMapOf
<1>7. State(r) \in StateIn(Readable(r))
  BY <1>1 DEF State, StateIn, RoomIn, Readable
<1> QED BY <1>1, <1>6, <1>7

LEMMA AckTyped ==
  ASSUME NEW r \in RoomIn, NEW b
  PROVE  AckSeq(r, b) \in Nat
<1>1. RowOf(r, b) \subseteq Nat /\ HeadSeq(r) \in Nat
  BY DEF RowOf, Rows, HeadSeq, RoomIn
<1>2. RowOf(r, b) # {} => (CHOOSE s \in RowOf(r, b) : TRUE) \in RowOf(r, b)
  OBVIOUS
<1> QED BY <1>1, <1>2 DEF AckSeq

\* An append loses nothing and adds the batch.
LEMMA AppendFacts ==
  ASSUME NEW r \in RoomIn, NEW d \in Devices, NEW b \in Nat
  PROVE  /\ AppendRow(r, d, b) \in RoomIn
         /\ AppendRow(r, d, b).floor = r.floor
         /\ HeadSeq(r) <= HeadSeq(AppendRow(r, d, b))
         /\ r.floor <= HeadSeq(r) =>
              Readable(AppendRow(r, d, b)) = Readable(r) \union {b}
<1>1. CASE RowOf(r, b) # {}
  <2>1. AppendRow(r, d, b) = r
    BY <1>1 DEF AppendRow
  <2>2. b \in Readable(r)
    BY <1>1 DEF RowOf, Readable
  <2>3. HeadSeq(r) \in Nat
    BY DEF HeadSeq, RoomIn
  <2> QED BY <2>1, <2>2, <2>3
<1>2. CASE RowOf(r, b) = {}
  <2> DEFINE row == [device |-> d, batch |-> b]
             q == AppendRow(r, d, b)
  <2>1. q = [r EXCEPT !.log = Append(r.log, row)]
    BY <1>2 DEF AppendRow
  <2>2. /\ r.log \in Seq([device : Devices, batch : Nat])
        /\ row \in [device : Devices, batch : Nat] /\ r.floor \in Nat
    BY DEF RoomIn
  <2>3. /\ Append(r.log, row) \in Seq([device : Devices, batch : Nat])
        /\ Len(Append(r.log, row)) = Len(r.log) + 1 /\ Len(r.log) \in Nat
        /\ \A s \in 1 .. Len(r.log) : Append(r.log, row)[s] = r.log[s]
        /\ Append(r.log, row)[Len(r.log) + 1] = row
    BY <2>2
  <2>4. /\ q \in RoomIn /\ q.floor = r.floor /\ q.ckpt = r.ckpt
        /\ q.log = Append(r.log, row)
    BY <2>1, <2>3 DEF RoomIn
  <2>5. HeadSeq(q) = HeadSeq(r) + 1 /\ HeadSeq(r) \in Nat
    BY <2>3, <2>4 DEF HeadSeq
  <2>6. ASSUME r.floor <= HeadSeq(r)
        PROVE  Readable(q) = Readable(r) \union {b}
    <3>1. Rows(q) = Rows(r) \union {HeadSeq(r) + 1}
      BY <2>2, <2>4, <2>5, <2>6 DEF Rows
    <3>2. \A s \in Rows(r) : q.log[s] = r.log[s]
      BY <2>2, <2>3, <2>4 DEF Rows, HeadSeq
    <3>3. q.log[HeadSeq(r) + 1].batch = b
      BY <2>3, <2>4 DEF HeadSeq
    <3> HIDE DEF q
    <3>4. {q.log[s].batch : s \in Rows(q)} = {r.log[s].batch : s \in Rows(r)} \union {b}
      BY <3>1, <3>2, <3>3
    <3> QED BY <3>4, <2>4 DEF Readable
  <2> QED BY <2>4, <2>5, <2>6
<1> QED BY <1>1, <1>2

\* A relayed row is one the room has.
LEMMA RelayedTyped ==
  ASSUME NEW O, NEW P, NEW R, NEW N, Within(O, P, R, N), room \in RoomIn,
         NEW b \in R, NEW e
  PROVE  Typed(Relayed(b, e), [d \in Devices |-> Seq(Down(P[d], R))])
<1> DEFINE s == AckSeq(room, b)
           m == [t |-> "rows", rows |-> [i \in {s} |-> b], done |-> FALSE, head |-> 0]
<1>1. s \in Nat
  BY AckTyped
<1>2. [i \in {s} |-> b] \in RowMap(R)
  <2>1. {s} \in SUBSET Nat /\ [i \in {s} |-> b] \in [{s} -> R]
    BY <1>1
  <2> HIDE DEF s
  <2> QED BY <2>1, RowMapOf
<1>3. ASSUME NEW d \in Devices
      PROVE  m \in Down(P[d], R)
  BY <1>2 DEF Down
<1>4. ASSUME NEW d \in Devices
      PROVE  s2c[d] \in Seq(Down(P[d], R))
  BY DEF Within, Typed, Downs
<1> HIDE DEF m
<1>5. ASSUME NEW d \in Devices
      PROVE  Append(s2c[d], m) \in Seq(Down(P[d], R))
  BY <1>3, <1>4
<1> QED BY <1>4, <1>5 DEF Relayed, Typed, m

-----------------------------------------------------------------------------
(* What an answer makes of a client *)

LEMMA ClientFields ==
  ASSUME NEW B, NEW n \in Nat, NEW c \in ClientIn(B, n)
  PROVE  /\ c.held \subseteq B
         /\ c.cursor \in Nat /\ c.pcursor \in Nat
         /\ c.asked \in 0 .. n /\ c.done \in 0 .. n
  BY DEF ClientIn

LEMMA LargerOf ==
  ASSUME NEW a \in Nat, NEW b \in Nat
  PROVE  /\ Larger(a, b) \in Nat /\ Larger(a, b) \in {a, b}
         /\ a <= Larger(a, b) /\ b <= Larger(a, b)
  BY DEF Larger

LEMMA ApplyRowTyped ==
  ASSUME NEW B, NEW n \in Nat, NEW c \in ClientIn(B, n), NEW s \in Nat, NEW b \in B, NEW D
  PROVE  /\ ApplyRow(c, s, b, D) \in ClientIn(B, n)
         /\ ApplyRow(c, s, b, D).held = c.held \union {b}
         /\ ApplyRow(c, s, b, D).asked = c.asked
<1> DEFINE walk == s <= c.cursor + 1
           cur == IF walk THEN Larger(c.cursor, s) ELSE c.cursor
           pcur == Larger(c.pcursor, cur)
           gap == c.gap \/ ~walk
           row == c.hRow /\ walk
           held == c.held \union {b}
<1>1. cur \in Nat /\ pcur \in Nat
  BY LargerOf DEF ClientIn
<1>2. gap \in BOOLEAN /\ row \in BOOLEAN /\ held \subseteq B
  BY DEF ClientIn
<1>3. ApplyRow(c, s, b, D) =
        IF D[b] \subseteq c.held
          THEN [[c EXCEPT !.held = held, !.gap = gap, !.hRow = row]
                 EXCEPT !.cursor = cur, !.pcursor = pcur]
          ELSE [[c EXCEPT !.held = held, !.gap = gap, !.hRow = row]
                 EXCEPT !.needs = TRUE, !.sSame = FALSE, !.hSame = FALSE]
  BY DEF ApplyRow
<1> HIDE DEF cur, pcur, gap, row, held
<1>4. [[c EXCEPT !.held = held, !.gap = gap, !.hRow = row]
        EXCEPT !.cursor = cur, !.pcursor = pcur] \in ClientIn(B, n)
  BY <1>1, <1>2 DEF ClientIn
<1>5. [[c EXCEPT !.held = held, !.gap = gap, !.hRow = row]
        EXCEPT !.needs = TRUE, !.sSame = FALSE, !.hSame = FALSE] \in ClientIn(B, n)
  BY <1>1, <1>2 DEF ClientIn
<1>6. ApplyRow(c, s, b, D).held = held /\ ApplyRow(c, s, b, D).asked = c.asked
  BY <1>3 DEF ClientIn
<1>7. held = c.held \union {b}
  BY DEF held
<1> QED BY <1>3, <1>4, <1>5, <1>6, <1>7

LEMMA AckApplied ==
  ASSUME NEW B, NEW n \in Nat, NEW c \in ClientIn(B, n), NEW s \in Nat, NEW left \in BOOLEAN
  PROVE  /\ ApplyAck(c, s, left) \in ClientIn(B, n)
         /\ ApplyAck(c, s, left).held = c.held
         /\ ApplyAck(c, s, left).asked = c.asked
<1> DEFINE walk == s <= c.cursor + 1
           cur == IF walk THEN Larger(c.cursor, s) ELSE c.cursor
           pcur == Larger(c.pcursor, cur)
           gap == c.gap \/ ~walk
           row == c.hRow /\ walk
           blocked == c.blocked /\ left
           retry == c.retry \/ (c.blocked /\ left)
<1>1. cur \in Nat /\ pcur \in Nat
  BY LargerOf DEF ClientIn
<1>2. gap \in BOOLEAN /\ row \in BOOLEAN /\ blocked \in BOOLEAN /\ retry \in BOOLEAN
  BY DEF ClientIn
<1>3. ApplyAck(c, s, left) = [c EXCEPT !.cursor = cur, !.pcursor = pcur, !.gap = gap,
                                !.hRow = row, !.blocked = blocked, !.retry = retry]
  BY DEF ApplyAck
<1> HIDE DEF cur, pcur, gap, row, blocked, retry
<1>4. [c EXCEPT !.cursor = cur, !.pcursor = pcur, !.gap = gap,
                !.hRow = row, !.blocked = blocked, !.retry = retry] \in ClientIn(B, n)
  BY <1>1, <1>2 DEF ClientIn
<1>5. ApplyAck(c, s, left).held = c.held /\ ApplyAck(c, s, left).asked = c.asked
  BY <1>3 DEF ClientIn
<1> QED BY <1>3, <1>4, <1>5

LEMMA HttpAckApplied ==
  ASSUME NEW B, NEW n \in Nat, NEW c \in ClientIn(B, n), NEW s \in Nat
  PROVE  /\ ApplyHttpAck(c, s) \in ClientIn(B, n)
         /\ ApplyHttpAck(c, s).held = c.held
         /\ ApplyHttpAck(c, s).asked = c.asked
<1> DEFINE cur == IF s <= c.cursor + 1 THEN Larger(c.cursor, s) ELSE c.cursor
           pcur == Larger(c.pcursor, cur)
<1>1. cur \in Nat /\ pcur \in Nat
  BY LargerOf DEF ClientIn
<1>2. ApplyHttpAck(c, s) = [c EXCEPT !.cursor = cur, !.pcursor = pcur]
  BY DEF ApplyHttpAck
<1> HIDE DEF cur, pcur
<1>3. [c EXCEPT !.cursor = cur, !.pcursor = pcur] \in ClientIn(B, n)
  BY <1>1 DEF ClientIn
<1>4. ApplyHttpAck(c, s).held = c.held /\ ApplyHttpAck(c, s).asked = c.asked
  BY <1>2 DEF ClientIn
<1> QED BY <1>2, <1>3, <1>4

LEMMA CheckpointApplied ==
  ASSUME NEW B, NEW n \in Nat, NEW c \in ClientIn(B, n), NEW s \in Nat, NEW blob \in SUBSET B
  PROVE  /\ ApplyCheckpoint(c, blob, s) \in ClientIn(B, n)
         /\ ApplyCheckpoint(c, blob, s).held = c.held \union blob
         /\ ApplyCheckpoint(c, blob, s).asked = c.asked
  BY DEF ApplyCheckpoint, ClientIn, Larger

LEMMA Answered ==
  ASSUME NEW B, NEW n \in Nat, NEW c \in ClientIn(B, n), NEW d, NEW head \in Nat,
         ses[d].ticket \in 0 .. n, ses[d].refresh \in 0 .. n
  PROVE  /\ Joined(d, c, head) \in ClientIn(B, n)
         /\ Joined(d, c, head).held = c.held
         /\ Joined(d, c, head).asked = c.asked
         /\ Refreshed(d, c, head) \in ClientIn(B, n)
         /\ Refreshed(d, c, head).held = c.held
         /\ Refreshed(d, c, head).asked = c.asked
<1> DEFINE caught == c.caught \/ ~c.needs
           fresh == IF ~c.needs /\ ~c.gap /\ c.cursor >= head
                      THEN Larger(c.done, ses[d].ticket) ELSE c.done
           ticket == ses[d].refresh
           short == ticket # 0 /\ c.cursor < head
           again == IF ticket # 0 /\ c.cursor >= head /\ ~c.needs /\ ~c.gap
                      THEN Larger(c.done, ticket) ELSE c.done
           gap == c.gap \/ short
           row == c.hRow /\ ~short
<1>1. fresh \in 0 .. n /\ again \in 0 .. n
  <2>1. c.done \in 0 .. n /\ ses[d].ticket \in 0 .. n /\ ses[d].refresh \in 0 .. n
    BY DEF ClientIn
  <2>2. Larger(c.done, ses[d].ticket) \in 0 .. n /\ Larger(c.done, ticket) \in 0 .. n
    BY <2>1 DEF Larger
  <2> QED BY <2>1, <2>2
<1>2. caught \in BOOLEAN /\ gap \in BOOLEAN /\ row \in BOOLEAN
  BY DEF ClientIn
<1>3. /\ Joined(d, c, head) = [c EXCEPT !.resumed = TRUE, !.caught = caught, !.done = fresh]
      /\ Refreshed(d, c, head) = [c EXCEPT !.asking = FALSE, !.done = again, !.gap = gap,
                                            !.hRow = row]
  BY DEF Joined, Refreshed
<1> HIDE DEF caught, fresh, ticket, again, gap, row
<1>4. [c EXCEPT !.resumed = TRUE, !.caught = caught, !.done = fresh] \in ClientIn(B, n)
  BY <1>1, <1>2 DEF ClientIn
<1>5. [c EXCEPT !.asking = FALSE, !.done = again, !.gap = gap, !.hRow = row]
        \in ClientIn(B, n)
  BY <1>1, <1>2 DEF ClientIn
<1>6. /\ Joined(d, c, head).held = c.held /\ Joined(d, c, head).asked = c.asked
      /\ Refreshed(d, c, head).held = c.held /\ Refreshed(d, c, head).asked = c.asked
  BY <1>3 DEF ClientIn
<1> QED BY <1>3, <1>4, <1>5, <1>6

-----------------------------------------------------------------------------
(* One variable changes at one device *)

LEMMA ClientSet ==
  ASSUME NEW O, NEW N, Clients(O, N), NEW d \in Devices, NEW x \in ClientIn(O[d], N[d]),
         cl' = [cl EXCEPT ![d] = x]
  PROVE  Clients(O, N)' /\ Becomes(d, x)
  BY DEF Clients, Typed, Becomes

LEMMA SessionSet ==
  ASSUME NEW R, NEW N, Sessions(R, N), NEW d \in Devices, NEW x \in SessionIn(R, N[d]),
         ses' = [ses EXCEPT ![d] = x]
  PROVE  Sessions(R, N)'
  BY DEF Sessions, Typed

LEMMA SocketSet ==
  ASSUME Sockets, NEW d \in Devices, NEW x \in {"new", "ready", "closed"},
         socket' = [socket EXCEPT ![d] = x]
  PROVE  Sockets'
  BY DEF Sockets, Typed

LEMMA UpSet ==
  ASSUME NEW P, Ups(P), NEW d \in Devices, NEW x \in Seq(Up(P[d])),
         c2s' = [c2s EXCEPT ![d] = x]
  PROVE  Ups(P)'
  BY DEF Ups, Typed

LEMMA DownSet ==
  ASSUME NEW P, NEW R, Downs(P, R), NEW d \in Devices, NEW x \in Seq(Down(P[d], R)),
         s2c' = [s2c EXCEPT ![d] = x]
  PROVE  Downs(P, R)'
  BY DEF Downs, Typed

LEMMA HttpSet ==
  ASSUME NEW P, NEW R, NEW N, Https(P, R, N), NEW d \in Devices, NEW x \in HttpIn(P[d], R, N[d]),
         http' = [http EXCEPT ![d] = x]
  PROVE  Https(P, R, N)'
  BY DEF Https, Typed

LEMMA PostSet ==
  ASSUME NEW O, Posts(O), NEW d \in Devices, NEW x \in PostIn(O[d]),
         post' = [post EXCEPT ![d] = x]
  PROVE  Posts(O)'
  BY DEF Posts, Typed

LEMMA DiskSet ==
  ASSUME NEW O, Disks(O), NEW d \in Devices, NEW x \in DiskIn(O[d]),
         disk' = [disk EXCEPT ![d] = x]
  PROVE  Disks(O)'
  BY DEF Disks, Typed

LEMMA FlushSet ==
  ASSUME Flushes, NEW d \in Devices, NEW x \in Nat \union {NoFlush},
         flush' = [flush EXCEPT ![d] = x]
  PROVE  Flushes'
  BY DEF Flushes, Typed

\* What is known of one device.
LEMMA WithinAt ==
  ASSUME NEW O, NEW P, NEW R, NEW N, Within(O, P, R, N), NEW d \in Devices
  PROVE  /\ cl[d] \in ClientIn(O[d], N[d])
         /\ disk[d] \in DiskIn(O[d])
         /\ flush[d] \in Nat \union {NoFlush}
         /\ ses[d] \in SessionIn(R, N[d])
         /\ c2s[d] \in Seq(Up(P[d]))
         /\ s2c[d] \in Seq(Down(P[d], R))
         /\ http[d] \in HttpIn(P[d], R, N[d])
         /\ post[d] \in PostIn(O[d])
  BY DEF Within, Typed, Clients, Disks, Flushes, Sessions, Ups, Downs, Https, Posts

-----------------------------------------------------------------------------
(* The steps' common parts *)

\* The idle records are in every set.
LEMMA Blank ==
  ASSUME NEW B, NEW P, NEW R, NEW n \in Nat, ChatAssumption
  PROVE  /\ NoState \in StateIn(R)
         /\ NoRows \in RowMap(R)
         /\ NoSession \in SessionIn(R, n)
         /\ IdleHttp \in HttpIn(P, R, n)
         /\ NoPost \in PostIn(B)
         /\ IdleHttp.ph = "idle" /\ NoSession.ph = "down" /\ NoPost.ph = "idle"
<1>1. NoState \in StateIn(R)
  BY DEF NoState, State, NewRoom, StateIn, HeadSeq
<1>2. NoRows \in RowMap(R)
  <2>1. {} \in SUBSET Nat /\ NoRows \in [{} -> R]
    BY DEF NoRows
  <2> QED BY <2>1, RowMapOf
<1>3. NoSession \in SessionIn(R, n) /\ NoSession.ph = "down"
  BY ChatAssumption DEF NoSession, SessionIn, ChatAssumption
<1>4. IdleHttp \in HttpIn(P, R, n) /\ IdleHttp.ph = "idle"
  BY <1>1, <1>2 DEF IdleHttp, HttpIn, HttpRec
<1>5. NoPost \in PostIn(B) /\ NoPost.ph = "idle"
  BY DEF NoPost, PostIn
<1> QED BY <1>1, <1>2, <1>3, <1>4, <1>5

LEMMA SpawnedTyped ==
  ASSUME NEW P, NEW R, NEW n \in Nat, NEW d, NEW h \in HttpIn(P, R, n)
  PROVE  Spawned(d, h) \in HttpIn(P, R, n)
  BY DEF Spawned, HttpIn, HttpRec

\* A step that touches one socket at most.
LEMMA GreetOne ==
  ASSUME Greeted, NEW d \in Devices,
         GreetOK(ses'[d].ph, socket'[d], c2s'[d], s2c'[d]),
         \A e \in Devices \ {d} : /\ ses'[e] = ses[e] /\ socket'[e] = socket[e]
                                  /\ c2s'[e] = c2s[e] /\ s2c'[e] = s2c[e]
  PROVE  Greeted'
<1>1. ASSUME NEW e \in Devices
      PROVE  GreetOK(ses'[e].ph, socket'[e], c2s'[e], s2c'[e])
  BY DEF Greeted
<1> QED BY <1>1 DEF Greeted

LEMMA OrphansLate ==
  ASSUME NEW O, NEW P, NEW R, NEW N, Within(O, P, R, N), Frames(O, P, R, N),
         NEW d \in Devices
  PROVE  Orphans(d) \subseteq LateIn(O)
<1>1. c2s[d] \in Seq(Up(P[d])) /\ P[d] \subseteq O[d] /\ O[d] \subseteq Nat
  BY WithinAt DEF Frames
<1>2. ASSUME NEW i \in DOMAIN c2s[d], c2s[d][i].t = "push"
      PROVE  c2s[d][i].batches \subseteq P[d]
  <2>1. c2s[d][i] \in Up(P[d])
    BY <1>1
  <2> QED BY <1>2, <2>1 DEF Up
<1> QED BY <1>1, <1>2 DEF Orphans, LateIn

LEMMA EndSessionOK ==
  ASSUME NEW O, NEW P, NEW R, NEW N, Within(O, P, R, N), Frames(O, P, R, N),
         NEW d \in Devices, NEW c \in ClientIn(O[d], N[d]),
         EndSession(d, c), UNCHANGED <<disk, flush, post>>
  PROVE  Within(O, P, R, N)' /\ Becomes(d, c)
<1>1. N[d] \in Nat
  BY DEF Frames
<1> DEFINE same == c.hEpoch /\ ses[d].ph = "hello"
           left == [c EXCEPT !.hEpoch = same, !.sSame = FALSE]
<1>2. left \in ClientIn(O[d], N[d])
  <2>1. same \in BOOLEAN
    OBVIOUS
  <2> HIDE DEF same
  <2> QED BY <2>1 DEF ClientIn
<1>3. left.held = c.held /\ left.asked = c.asked
  BY DEF ClientIn
<1> HIDE DEF left
<1>4. Clients(O, N)' /\ Becomes(d, left)
  BY <1>2, ClientSet DEF EndSession, SetClient, Within, left
<1>5. Sessions(R, N)'
  BY <1>1, Blank, ChatAssumption, SessionSet DEF EndSession, Within
<1>6. Sockets'
  BY SocketSet DEF EndSession, Within
<1>7. Ups(P)'
  <2>1. <<>> \in Seq(Up(P[d]))
    OBVIOUS
  <2> QED BY <2>1, UpSet DEF EndSession, Within
<1>8. Downs(P, R)'
  <2>1. <<>> \in Seq(Down(P[d], R))
    OBVIOUS
  <2> QED BY <2>1, DownSet DEF EndSession, Within
<1>9. Https(P, R, N)'
  BY <1>1, WithinAt, SpawnedTyped, HttpSet DEF EndSession, Within
<1>10. late' \subseteq LateIn(O)
  BY OrphansLate DEF EndSession, Within
<1>11. Greeted'
  <2>1. /\ ses'[d].ph = "down" /\ socket'[d] = "closed"
        /\ c2s'[d] = <<>> /\ s2c'[d] = <<>>
        /\ \A e \in Devices \ {d} : /\ ses'[e] = ses[e] /\ socket'[e] = socket[e]
                                    /\ c2s'[e] = c2s[e] /\ s2c'[e] = s2c[e]
    BY DEF EndSession, Within, Typed, Sockets, Sessions, Ups, Downs, NoSession
  <2>2. GreetOK("down", "closed", <<>>, <<>>)
    BY DEF GreetOK, NoHello
  <2> QED BY <2>1, <2>2, GreetOne DEF Within
<1>12. Disks(O)' /\ Flushes' /\ Posts(O)'
  BY DEF Within, Disks, Flushes, Posts, Typed
<1>13. Becomes(d, c)
  BY <1>3, <1>4 DEF Becomes
<1> QED BY <1>4, <1>5, <1>6, <1>7, <1>8, <1>9, <1>10, <1>11, <1>12, <1>13 DEF Within

LEMMA NoHelloAppend ==
  ASSUME NEW S, NEW q \in Seq(S), NEW m, m.t # "hello", NoHello(q)
  PROVE  NoHello(Append(q, m))
<1>1. ASSUME NEW i \in DOMAIN Append(q, m)
      PROVE  Append(q, m)[i] = m \/ (i \in DOMAIN q /\ Append(q, m)[i] = q[i])
  OBVIOUS
<1> QED BY <1>1 DEF NoHello

LEMMA SendTyped ==
  ASSUME NEW O, NEW P, NEW R, NEW N, Within(O, P, R, N), NEW d \in Devices,
         NEW m \in Up(P[d]), Send(d, m)
  PROVE  /\ Ups(P)'
         /\ \A e \in Devices \ {d} : c2s'[e] = c2s[e]
         /\ c2s'[d] = Append(c2s[d], m)
         /\ m.t # "hello" /\ NoHello(c2s[d]) => NoHello(c2s'[d])
<1>1. Append(c2s[d], m) \in Seq(Up(P[d])) /\ c2s[d] \in Seq(Up(P[d]))
  BY WithinAt
<1>2. Ups(P)'
  BY <1>1, UpSet DEF Send, Within
<1>3. c2s'[d] = Append(c2s[d], m) /\ \A e \in Devices \ {d} : c2s'[e] = c2s[e]
  BY DEF Send, Within, Ups, Typed
<1> QED BY <1>1, <1>2, <1>3, NoHelloAppend

LEMMA RowsReqTyped ==
  ASSUME NEW P, NEW after \in Nat, NEW own \in BOOLEAN
  PROVE  RowsReq(after, own) \in Up(P)
  BY DEF RowsReq, Up

\* A session that goes on.
LEMMA SessionGoesOn ==
  ASSUME NEW O, NEW P, NEW R, NEW N, Within(O, P, R, N), NEW d \in Devices,
         ses[d].ph \notin {"down", "hello"},
         NEW s \in SessionIn(R, N[d]), s.ph \notin {"down", "hello"},
         ses' = [ses EXCEPT ![d] = s], UNCHANGED socket,
         NoHello(c2s[d]) => NoHello(c2s'[d]),
         \A e \in Devices \ {d} : c2s'[e] = c2s[e] /\ s2c'[e] = s2c[e]
  PROVE  Sessions(R, N)' /\ Sockets' /\ Greeted'
<1>1. Sessions(R, N)' /\ Sockets'
  BY SessionSet DEF Within, Sockets, Typed
<1>2. ses'[d] = s /\ \A e \in Devices \ {d} : ses'[e] = ses[e]
  BY DEF Within, Sessions, Typed
<1>3. GreetOK(ses'[d].ph, socket'[d], c2s'[d], s2c'[d])
  BY <1>2 DEF Within, Greeted, GreetOK
<1>4. Greeted'
  BY <1>2, <1>3, GreetOne DEF Within
<1> QED BY <1>1, <1>4

LEMMA RepairGapOK ==
  ASSUME NEW O, NEW P, NEW R, NEW N, Within(O, P, R, N), Frames(O, P, R, N),
         NEW d \in Devices, NEW left \in ClientIn(O[d], N[d]),
         ses[d].ph \notin {"down", "hello"},
         NEW s \in SessionIn(R, N[d]), s.ph \notin {"down", "hello"},
         NEW rest \in Seq(Down(P[d], R)),
         RepairGap(d, left, s, rest), UNCHANGED <<disk, flush, post>>
  PROVE  Within(O, P, R, N)' /\ Becomes(d, left)
<1> DEFINE repair == ~left.needs /\ ~left.asking /\ left.gap
           gap == left.gap /\ ~repair
           asking == left.asking \/ repair
           asked == [left EXCEPT !.gap = gap, !.asking = asking]
           n == s.repairs + (IF repair THEN 1 ELSE 0)
<1>1. asked \in ClientIn(O[d], N[d])
  <2>1. gap \in BOOLEAN /\ asking \in BOOLEAN
    BY DEF ClientIn
  <2> HIDE DEF gap, asking
  <2> QED BY <2>1 DEF ClientIn
<1>2. asked.held = left.held /\ asked.asked = left.asked
  BY DEF ClientIn
<1>3. CASE left.needs \/ (repair /\ s.repairs = MaxRepairs)
  <2>1. EndSession(d, asked)
    BY <1>3 DEF RepairGap
  <2> HIDE DEF asked
  <2>2. Within(O, P, R, N)' /\ Becomes(d, asked)
    BY <1>1, <2>1, EndSessionOK
  <2> QED BY <1>2, <2>2 DEF Becomes
<1>4. CASE ~(left.needs \/ (repair /\ s.repairs = MaxRepairs))
  <2>1. /\ SetClient(d, asked)
        /\ ses' = [ses EXCEPT ![d] = [s EXCEPT !.repairs = n]]
        /\ s2c' = [s2c EXCEPT ![d] = rest]
        /\ IF repair THEN Send(d, RowsReq(left.cursor, FALSE)) ELSE UNCHANGED c2s
        /\ UNCHANGED <<socket, http, late>>
    BY <1>4 DEF RepairGap
  <2>2. n \in 0 .. MaxRepairs
    <3>1. s.repairs \in 0 .. MaxRepairs /\ MaxRepairs \in Nat
      BY ChatAssumption DEF SessionIn, ChatAssumption
    <3> QED BY <3>1, <1>4
  <2> HIDE DEF n
  <2>3. [s EXCEPT !.repairs = n] \in SessionIn(R, N[d])
    BY <2>2 DEF SessionIn
  <2>4. [s EXCEPT !.repairs = n].ph = s.ph
    BY DEF SessionIn
  <2>5. Downs(P, R)' /\ \A e \in Devices \ {d} : s2c'[e] = s2c[e]
    BY <2>1, DownSet DEF Within, Downs, Typed
  <2>6. /\ Ups(P)' /\ \A e \in Devices \ {d} : c2s'[e] = c2s[e]
        /\ NoHello(c2s[d]) => NoHello(c2s'[d])
    <3>1. left.cursor \in Nat
      BY DEF ClientIn
    <3>2. RowsReq(left.cursor, FALSE) \in Up(P[d]) /\ RowsReq(left.cursor, FALSE).t # "hello"
      BY <3>1, RowsReqTyped DEF RowsReq
    <3>3. CASE repair
      BY <2>1, <3>2, <3>3, SendTyped
    <3>4. CASE ~repair
      BY <2>1, <3>4 DEF Within, Ups, Typed
    <3> QED BY <3>3, <3>4
  <2>7. Sessions(R, N)' /\ Sockets' /\ Greeted'
    <3>1. PICK t : t = [s EXCEPT !.repairs = n]
      OBVIOUS
    <3>2. t \in SessionIn(R, N[d]) /\ t.ph \notin {"down", "hello"} /\ ses' = [ses EXCEPT ![d] = t]
      BY <2>1, <2>3, <2>4, <3>1
    <3>3. /\ NoHello(c2s[d]) => NoHello(c2s'[d])
          /\ UNCHANGED socket
          /\ \A e \in Devices \ {d} : c2s'[e] = c2s[e] /\ s2c'[e] = s2c[e]
      BY <2>1, <2>5, <2>6
    <3> QED
      BY ONLY Within(O, P, R, N), ses[d].ph \notin {"down", "hello"}, <3>2, <3>3, SessionGoesOn
  <2> HIDE DEF asked
  <2>8. cl' = [cl EXCEPT ![d] = asked]
    BY <2>1 DEF SetClient
  <2>9. Clients(O, N)' /\ Becomes(d, left)
    <3>1. Clients(O, N)' /\ Becomes(d, asked)
      BY <1>1, <2>8, ClientSet DEF Within
    <3> QED BY <1>2, <3>1 DEF Becomes
  <2>10. /\ Disks(O)' /\ Flushes' /\ Https(P, R, N)' /\ Posts(O)'
        /\ late' \subseteq LateIn(O)
    BY <2>1 DEF Within, Disks, Flushes, Https, Posts, Typed
  <2> QED BY <2>5, <2>6, <2>9, <2>10, <2>7 DEF Within
<1> QED BY <1>3, <1>4

LEMMA HandledOK ==
  ASSUME NEW O, NEW P, NEW R, NEW N, Within(O, P, R, N), Frames(O, P, R, N),
         NEW d \in Devices, NEW c \in ClientIn(O[d], N[d]),
         ses[d].ph \notin {"down", "hello"}, NEW rest \in Seq(Down(P[d], R)),
         Handled(d, c, rest), UNCHANGED <<disk, flush, post>>
  PROVE  Within(O, P, R, N)' /\ Becomes(d, c)
<1>1. CASE ses[d].ph = "up"
  <2>1. RepairGap(d, c, ses[d], rest)
    BY <1>1 DEF Handled
  <2> QED BY <2>1, WithinAt, RepairGapOK
<1>2. CASE ses[d].ph # "up"
  <2>1. /\ cl' = [cl EXCEPT ![d] = c] /\ s2c' = [s2c EXCEPT ![d] = rest]
        /\ UNCHANGED <<ses, socket, c2s, http, late>>
    BY <1>2 DEF Handled, SetClient
  <2>2. Clients(O, N)' /\ Becomes(d, c)
    BY <2>1, ClientSet DEF Within
  <2>3. Downs(P, R)' /\ \A e \in Devices \ {d} : s2c'[e] = s2c[e]
    BY <2>1, DownSet DEF Within, Downs, Typed
  <2>4. Sessions(R, N)' /\ Sockets'
    BY <2>1 DEF Within, Sessions, Sockets, Typed
  <2>5. Greeted'
    <3>1. GreetOK(ses'[d].ph, socket'[d], c2s'[d], s2c'[d])
      BY <2>1 DEF Within, Greeted, GreetOK
    <3> QED BY <2>1, <2>3, <3>1, GreetOne DEF Within
  <2> QED
    BY <2>1, <2>2, <2>3, <2>4, <2>5 DEF Within, Disks, Flushes, Ups, Https, Posts, Typed
<1> QED BY <1>1, <1>2

\* What is not touched stays within.
LEMMA Stays ==
  ASSUME NEW O, NEW P, NEW R, NEW N, Within(O, P, R, N)
  PROVE  /\ UNCHANGED cl => Clients(O, N)' /\ \A d \in Devices : Keeps(d)
         /\ UNCHANGED disk => Disks(O)'
         /\ UNCHANGED flush => Flushes'
         /\ UNCHANGED ses => Sessions(R, N)'
         /\ UNCHANGED socket => Sockets'
         /\ UNCHANGED c2s => Ups(P)'
         /\ UNCHANGED s2c => Downs(P, R)'
         /\ UNCHANGED http => Https(P, R, N)'
         /\ UNCHANGED post => Posts(O)'
         /\ UNCHANGED late => late' \subseteq LateIn(O)
         /\ UNCHANGED <<ses, socket, c2s, s2c>> => Greeted'
  BY DEF Within, Clients, Disks, Flushes, Sessions, Sockets, Ups, Downs, Https, Posts,
         Typed, Greeted, Keeps, Becomes

-----------------------------------------------------------------------------
(* The user, the persister, and how a session begins and ends *)

LEMMA WriteWithin ==
  ASSUME NEW O, NEW P, NEW R, NEW N, Within(O, P, R, N), Frames(O, P, R, N),
         Reaches(O, R, N), outbox \in [Devices -> SUBSET Nat], NEW d \in Devices, Write(d)
  PROVE  /\ Within(O, P, R, N)' /\ Learns(d)
         /\ cl'[d].held = cl[d].held \union {Len(deps) + 1}
<1> DEFINE b == Len(deps) + 1
<1>1. PICK big \in BOOLEAN :
        /\ outbox' = [outbox EXCEPT ![d] = outbox[d] \union {b}]
        /\ SetClient(d, [cl[d] EXCEPT !.held = cl[d].held \union {b},
                                      !.event = cl[d].event \/ (big /\ d = Host)])
        /\ UNCHANGED <<room, files, ses, wire, http, post, wanted>>
  BY DEF Write
<1> DEFINE held == cl[d].held \union {b}
           event == cl[d].event \/ (big /\ d = Host)
           c == [cl[d] EXCEPT !.held = held, !.event = event]
<1>2. cl[d] \in ClientIn(O[d], N[d])
  BY WithinAt
<1>3. held \subseteq O[d]
  <2>1. outbox'[d] = outbox[d] \union {b}
    BY <1>1
  <2>2. cl[d].held \subseteq O[d]
    BY <1>2 DEF ClientIn
  <2> QED BY <2>1, <2>2 DEF Reaches
<1>4. c.held = held /\ c.asked = cl[d].asked
  BY <1>2 DEF ClientIn
<1>5. c \in ClientIn(O[d], N[d])
  <2>1. event \in BOOLEAN
    BY <1>2 DEF ClientIn
  <2> HIDE DEF held, event
  <2> QED BY <1>2, <1>3, <2>1 DEF ClientIn
<1> HIDE DEF c
<1>6. cl' = [cl EXCEPT ![d] = c]
  BY <1>1 DEF SetClient, c
<1>7. Clients(O, N)' /\ Becomes(d, c)
  BY <1>5, <1>6, ClientSet DEF Within
<1>8. Learns(d) /\ cl'[d].held = held
  BY <1>4, <1>7 DEF Becomes, Learns
<1> QED BY <1>1, <1>7, <1>8, Stays DEF Within, files, wire

LEMMA RequestCatchUpWithin ==
  ASSUME NEW O, NEW P, NEW R, NEW N, Within(O, P, R, N), Frames(O, P, R, N),
         Reaches(O, R, N), NEW d \in Devices, RequestCatchUp(d)
  PROVE  /\ Within(O, P, R, N)'
         /\ \A e \in Devices \ {d} : cl'[e] = cl[e]
         /\ cl'[d].held = cl[d].held /\ cl'[d].asked = cl[d].asked + 1
<1> DEFINE n == cl[d].asked + 1
           c == [cl[d] EXCEPT !.asked = n]
<1>1. cl[d] \in ClientIn(O[d], N[d]) /\ N[d] \in Nat
  BY WithinAt DEF Frames
<1>2. /\ cl' = [cl EXCEPT ![d] = c]
      /\ UNCHANGED <<deps, room, store, files, ses, wire, http, post>>
  BY DEF RequestCatchUp, SetClient
<1>3. cl'[d] = c
  BY <1>2 DEF Within, Clients, Typed
<1>4. c.asked = n /\ c.held = cl[d].held
  BY <1>1 DEF ClientIn
<1>5. n \in 0 .. N[d]
  <2>1. cl[d].asked \in 0 .. N[d]
    BY <1>1 DEF ClientIn
  <2>2. cl'[d].asked <= N[d]
    BY DEF Reaches
  <2> QED BY <1>1, <1>3, <1>4, <2>1, <2>2
<1>6. c \in ClientIn(O[d], N[d])
  <2> HIDE DEF n
  <2> QED BY <1>1, <1>5 DEF ClientIn
<1> HIDE DEF c
<1>7. Clients(O, N)' /\ Becomes(d, c)
  BY <1>2, <1>6, ClientSet DEF Within
<1>8. /\ \A e \in Devices \ {d} : cl'[e] = cl[e]
      /\ cl'[d].held = cl[d].held /\ cl'[d].asked = n
  BY <1>4, <1>7 DEF Becomes
<1> QED BY <1>2, <1>7, <1>8, Stays DEF Within, files, wire

LEMMA PersisterWithin ==
  ASSUME NEW O, NEW P, NEW R, NEW N, Within(O, P, R, N), Frames(O, P, R, N),
         NEW d \in Devices, Persister(d)
  PROVE  /\ Within(O, P, R, N)' /\ Keeps(d)
         /\ UNCHANGED disk \/ disk' = [disk EXCEPT ![d] = [doc |-> Doc(d), cursor |-> flush[d]]]
<1>1. cl[d] \in ClientIn(O[d], N[d]) /\ flush[d] \in Nat \union {NoFlush}
  BY WithinAt
<1>2. CASE FlushSample(d)
  <2>1. /\ flush' = [flush EXCEPT ![d] = cl[d].pcursor]
        /\ UNCHANGED <<cl, disk, ses, wire, http, post>>
    BY <1>2 DEF FlushSample
  <2>2. cl[d].pcursor \in Nat \union {NoFlush}
    BY <1>1 DEF ClientIn
  <2>3. Flushes'
    BY <2>1, <2>2, FlushSet DEF Within
  <2> QED BY <2>1, <2>3, Stays DEF Within, wire
<1>3. CASE FlushSave(d)
  <2>1. /\ flush[d] # NoFlush
        /\ disk' = [disk EXCEPT ![d] = [doc |-> Doc(d), cursor |-> flush[d]]]
        /\ flush' = [flush EXCEPT ![d] = NoFlush]
        /\ UNCHANGED <<cl, ses, wire, http, post>>
    BY <1>3 DEF FlushSave
  <2>2. Doc(d) \subseteq O[d]
    BY <1>1 DEF Doc, Visible, ClientIn
  <2>3. [doc |-> Doc(d), cursor |-> flush[d]] \in DiskIn(O[d])
    BY <1>1, <2>1, <2>2 DEF DiskIn
  <2>4. Disks(O)'
    BY <2>1, <2>3, DiskSet DEF Within
  <2>5. Flushes'
    BY <2>1, FlushSet DEF Within
  <2> QED BY <2>1, <2>4, <2>5, Stays DEF Within, wire
<1> QED BY <1>2, <1>3 DEF Persister

LEMMA DialWithin ==
  ASSUME NEW O, NEW P, NEW R, NEW N, Within(O, P, R, N), Frames(O, P, R, N),
         ChatAssumption, NEW d \in Devices, Dial(d)
  PROVE  Within(O, P, R, N)' /\ Keeps(d)
<1> DEFINE s == [NoSession EXCEPT !.ph = "hello"]
           c == [cl[d] EXCEPT !.asking = FALSE]
<1>1. /\ ses' = [ses EXCEPT ![d] = s]
      /\ cl' = [cl EXCEPT ![d] = c]
      /\ socket' = [socket EXCEPT ![d] = "new"]
      /\ Send(d, [t |-> "hello"])
      /\ UNCHANGED <<files, s2c, http, post, late>>
  BY DEF Dial, SetClient
<1>2. cl[d] \in ClientIn(O[d], N[d]) /\ N[d] \in Nat
  BY WithinAt DEF Frames
<1>3. s \in SessionIn(R, N[d]) /\ s.ph # "down"
  <2>1. NoSession \in SessionIn(R, N[d])
    BY <1>2, Blank
  <2> QED BY <2>1 DEF SessionIn
<1>4. c \in ClientIn(O[d], N[d])
  BY <1>2 DEF ClientIn
<1>5. c.held = cl[d].held /\ c.asked = cl[d].asked
  BY <1>2 DEF ClientIn
<1> HIDE DEF c, s
<1>6. Clients(O, N)' /\ Keeps(d)
  <2>1. Clients(O, N)' /\ Becomes(d, c)
    BY <1>1, <1>4, ClientSet DEF Within
  <2> QED BY <1>5, <2>1 DEF Becomes, Keeps
<1>7. Sessions(R, N)'
  BY <1>1, <1>3, SessionSet DEF Within
<1>8. Sockets'
  BY <1>1, SocketSet DEF Within
<1>9. Ups(P)' /\ c2s'[d] = <<[t |-> "hello"]>> /\ \A e \in Devices \ {d} : c2s'[e] = c2s[e]
  <2>1. [t |-> "hello"] \in Up(P[d])
    BY DEF Up
  <2>2. ses[d].ph = "down"
    BY DEF Dial
  <2>3. c2s[d] = <<>>
    BY <2>2 DEF Within, Greeted, GreetOK
  <2>4. Append(<<>>, [t |-> "hello"]) = <<[t |-> "hello"]>>
    OBVIOUS
  <2> QED BY <1>1, <2>1, <2>3, <2>4, SendTyped
<1>10. Greeted'
  <2>1. s2c'[d] = <<>>
    BY <1>1 DEF Dial, Within, Greeted, GreetOK
  <2>2. ses'[d].ph = "hello" /\ socket'[d] = "new"
    BY <1>1 DEF Within, Sessions, Sockets, Typed, s, NoSession
  <2>3. GreetOK(ses'[d].ph, socket'[d], c2s'[d], s2c'[d])
    BY <1>9, <2>1, <2>2 DEF GreetOK
  <2> QED BY <1>1, <1>9, <2>3, GreetOne DEF Within, Sessions, Sockets, Typed
<1> QED BY <1>1, <1>6, <1>7, <1>8, <1>9, <1>10, Stays DEF Within, files

LEMMA EndsWithin ==
  ASSUME NEW O, NEW P, NEW R, NEW N, Within(O, P, R, N), Frames(O, P, R, N),
         NEW d \in Devices, DialFails(d) \/ Disconnect(d) \/ RecvClose(d)
  PROVE  Within(O, P, R, N)' /\ Keeps(d)
<1>1. CASE DialFails(d)
  <2>1. /\ http' = [http EXCEPT ![d] = Spawned(d, http[d])]
        /\ UNCHANGED <<cl, files, ses, wire, post>>
    BY <1>1 DEF DialFails
  <2>2. Spawned(d, http[d]) \in HttpIn(P[d], R, N[d])
    BY WithinAt, SpawnedTyped DEF Frames
  <2>3. Https(P, R, N)'
    BY <2>1, <2>2, HttpSet DEF Within
  <2> QED BY <2>1, <2>3, Stays DEF Within, files, wire
<1>2. CASE Disconnect(d) \/ RecvClose(d)
  <2>1. EndSession(d, cl[d]) /\ UNCHANGED <<disk, flush, post>>
    BY <1>2 DEF Disconnect, RecvClose, files
  <2> QED BY <2>1, WithinAt, EndSessionOK DEF Keeps
<1> QED BY <1>1, <1>2

\* What push_pending sends may be sent.
LEMMA UnsentTyped ==
  ASSUME NEW O, NEW P, NEW R, NEW N, Frames(O, P, R, N), NEW d \in Devices, NEW sent
  PROVE  /\ Unsent(d, sent) \subseteq P[d] /\ Unsent(d, sent) \subseteq Nat
         /\ Unsent(d, sent) # {} => [t |-> "push", batches |-> Unsent(d, sent)] \in Up(P[d])
<1>1. Unsent(d, sent) \subseteq P[d] /\ P[d] \subseteq Nat
  BY DEF Unsent, Frames
<1> QED BY <1>1 DEF Up

LEMMA PlanTyped ==
  ASSUME NEW cursor \in Nat, NEW R, NEW st \in StateIn(R), NEW contained
  PROVE  CatchUpAfter(cursor, st, contained) \in Nat
<1>1. st.seq \in Nat
  BY DEF StateIn
<1>2. (IF cursor > st.head THEN 0 ELSE cursor) \in Nat
  OBVIOUS
<1> QED BY <1>1, <1>2, LargerOf DEF CatchUpAfter

LEMMA RecvStateWithin ==
  ASSUME NEW O, NEW P, NEW R, NEW N, Within(O, P, R, N), Frames(O, P, R, N),
         NEW d \in Devices, RecvState(d)
  PROVE  Within(O, P, R, N)' /\ Keeps(d)
<1> DEFINE c == cl[d]
           st == Head(s2c[d]).st
           wiped == c.cursor > st.head
           cont == Contained(c, st, deps)
           after == CatchUpAfter(c.cursor, st, cont)
           push == Unsent(d, {})
           pcur == IF wiped THEN 0 ELSE c.pcursor
           event == c.event \/ (wiped /\ d = Host)
           needs == c.needs /\ ~cont
           same == ~cont
           own == c.resumed /\ ~c.needs
           left == [c EXCEPT !.view = ViewOf(st), !.asking = FALSE, !.cursor = after,
                             !.pcursor = pcur, !.event = event, !.needs = needs,
                             !.sSame = same]
           ph == IF cont THEN "filling" ELSE "fetching"
           seq == IF cont THEN 0 ELSE st.seq
           req == RowsReq(after, own)
           msg == [t |-> "push", batches |-> push]
           out == c2s[d] \o <<req>> \o (IF push = {} THEN <<>> ELSE <<msg>>)
<1>1. /\ ses[d].ph = "hello" /\ s2c[d] # <<>>
      /\ cl' = [cl EXCEPT ![d] = left]
      /\ ses' = [ses EXCEPT ![d].ph = ph, ![d].seq = seq,
                            ![d].ticket = c.asked, ![d].inFlight = push]
      /\ c2s' = [c2s EXCEPT ![d] = out]
      /\ s2c' = [s2c EXCEPT ![d] = Tail(s2c[d])]
      /\ UNCHANGED <<files, socket, http, post, late>>
  BY DEF RecvState, SetClient
<1>2. /\ c \in ClientIn(O[d], N[d]) /\ ses[d] \in SessionIn(R, N[d]) /\ N[d] \in Nat
      /\ s2c[d] \in Seq(Down(P[d], R)) /\ c2s[d] \in Seq(Up(P[d]))
  BY WithinAt DEF Frames
<1>3. st \in StateIn(R) /\ Tail(s2c[d]) \in Seq(Down(P[d], R))
  <2>1. Head(s2c[d]).t = "state"
    BY <1>1 DEF Within, Greeted, GreetOK
  <2>2. Head(s2c[d]) \in Down(P[d], R) /\ Tail(s2c[d]) \in Seq(Down(P[d], R))
    BY <1>1, <1>2, SeqHead
  <2> QED BY <2>1, <2>2 DEF Down
<1>4. socket[d] # "new" /\ NoHello(c2s[d])
  BY <1>1 DEF Within, Greeted, GreetOK
<1>5. c.cursor \in Nat /\ c.pcursor \in Nat /\ c.asked \in 0 .. N[d]
  BY <1>2 DEF ClientIn
<1> HIDE DEF c
<1>6. after \in Nat
  BY <1>3, <1>5, PlanTyped
<1>7. /\ pcur \in Nat /\ event \in BOOLEAN /\ needs \in BOOLEAN /\ same \in BOOLEAN
      /\ own \in BOOLEAN /\ ph \in {"filling", "fetching"} /\ seq \in Nat
      /\ ViewOf(st) \in [known : BOOLEAN, rows : Int, has : BOOLEAN]
  BY <1>2, <1>3, <1>5 DEF ClientIn, StateIn, ViewOf
<1>8. push \subseteq Nat /\ (push # {} => msg \in Up(P[d]))
  BY UnsentTyped
<1>9. req \in Up(P[d]) /\ req.t # "hello" /\ msg.t # "hello"
  BY <1>6, <1>7, RowsReqTyped DEF RowsReq
<1> HIDE DEF st, wiped, cont, after, push, pcur, event, needs, same, own, ph, seq, req, msg
<1>10. left \in ClientIn(O[d], N[d])
  BY <1>2, <1>6, <1>7 DEF ClientIn
<1>11. left.held = c.held /\ left.asked = c.asked
  BY <1>2 DEF ClientIn
<1> HIDE DEF left
<1>12. Clients(O, N)' /\ Keeps(d)
  <2>1. Clients(O, N)' /\ Becomes(d, left)
    BY <1>1, <1>10, ClientSet DEF Within
  <2> QED BY <1>11, <2>1 DEF Becomes, Keeps, c
<1> DEFINE s == [ses[d] EXCEPT !.ph = ph, !.seq = seq, !.ticket = c.asked, !.inFlight = push]
<1>13. s \in SessionIn(R, N[d])
  BY <1>2, <1>5, <1>7, <1>8 DEF SessionIn
<1>14. s.ph = ph
  BY <1>2 DEF SessionIn
<1>15. ses' = [ses EXCEPT ![d] = s]
  BY <1>1 DEF Within, Sessions, Typed
<1> HIDE DEF s
<1>16. Sessions(R, N)' /\ ses'[d] = s
  BY <1>13, <1>15, SessionSet DEF Within, Sessions, Typed
<1>17. out \in Seq(Up(P[d])) /\ NoHello(out)
  <2>1. /\ c2s[d] \o <<req>> \in Seq(Up(P[d])) /\ c2s[d] \o <<req>> = Append(c2s[d], req)
    BY <1>2, <1>9
  <2>2. NoHello(c2s[d] \o <<req>>)
    BY <1>2, <1>4, <1>9, <2>1, NoHelloAppend
  <2>3. CASE push = {}
    <3>1. out = c2s[d] \o <<req>>
      BY <2>1, <2>3
    <3> QED BY <2>1, <2>2, <3>1
  <2>4. CASE push # {}
    <3> DEFINE q == c2s[d] \o <<req>>
    <3>1. out = q \o <<msg>>
      BY <2>4
    <3> HIDE DEF q, out
    <3>2. q \in Seq(Up(P[d])) /\ NoHello(q)
      BY <2>1, <2>2 DEF q
    <3>3. q \o <<msg>> = Append(q, msg) /\ Append(q, msg) \in Seq(Up(P[d]))
      BY <1>8, <2>4, <3>2
    <3> QED BY <1>9, <3>1, <3>2, <3>3, NoHelloAppend
  <2> QED BY <2>3, <2>4
<1> HIDE DEF out
<1>18. Ups(P)' /\ Downs(P, R)' /\ Sockets'
  BY <1>1, <1>3, <1>17, UpSet, DownSet, Stays DEF Within
<1>19. Greeted'
  <2>1. c2s'[d] = out /\ socket'[d] # "new" /\ ses'[d].ph \in {"filling", "fetching"}
    BY <1>1, <1>4, <1>7, <1>14, <1>16 DEF Within, Ups, Typed
  <2>2. GreetOK(ses'[d].ph, socket'[d], c2s'[d], s2c'[d])
    BY <1>17, <2>1 DEF GreetOK
  <2> QED BY <1>1, <1>15, <2>2, GreetOne DEF Within, Ups, Downs, Sessions, Typed
<1> QED BY <1>1, <1>12, <1>16, <1>18, <1>19, Stays DEF Within, files

\* A blob is what the room can serve.
LEMMA FetchWithin ==
  ASSUME NEW O, NEW P, NEW R, NEW N, Within(O, P, R, N), Frames(O, P, R, N),
         NEW d \in Devices, Fetch(d)
  PROVE  Within(O, P, R, N)' /\ Keeps(d)
<1>1. ses[d] \in SessionIn(R, N[d]) /\ cl[d] \in ClientIn(O[d], N[d])
  BY WithinAt
<1>2. CASE room.has
  <2> DEFINE s == [ses[d] EXCEPT !.ph = "importing", !.blob = room.ckpt]
  <2>1. UNCHANGED <<cl, wire, http, files, post>>
    BY <1>2 DEF Fetch
  <2>2. ses' = [ses EXCEPT ![d] = s] /\ ses[d].ph = "fetching"
    BY <1>2 DEF Fetch, Within, Sessions, Typed
  <2>3. s \in SessionIn(R, N[d]) /\ s.ph = "importing"
    <3>1. room.ckpt \subseteq R
      BY DEF Frames, Readable
    <3> QED BY <1>1, <3>1 DEF SessionIn
  <2> HIDE DEF s
  <2>4. Sessions(R, N)' /\ Sockets' /\ Greeted'
    <3>1. s.ph \notin {"down", "hello"} /\ ses[d].ph \notin {"down", "hello"}
      BY <2>2, <2>3
    <3> QED BY <2>1, <2>2, <2>3, <3>1, SessionGoesOn DEF wire
  <2> QED BY <2>1, <2>4, Stays DEF Within, files, wire
<1>3. CASE ~room.has
  <2>1. EndSession(d, cl[d]) /\ UNCHANGED <<disk, flush, post>>
    BY <1>3 DEF Fetch, files
  <2> QED BY <1>1, <2>1, EndSessionOK DEF Keeps
<1> QED BY <1>2, <1>3

LEMMA ImportWithin ==
  ASSUME NEW O, NEW P, NEW R, NEW N, Within(O, P, R, N), Frames(O, P, R, N),
         NEW d \in Devices, Import(d)
  PROVE  Within(O, P, R, N)' /\ Learns(d)
<1> DEFINE c == ApplyCheckpoint(cl[d], ses[d].blob, ses[d].seq)
           cur == Larger(c.cursor, ses[d].seq)
           needs == c.needs /\ ~c.sSame
           left == [c EXCEPT !.cursor = cur, !.needs = needs, !.sSame = FALSE]
           s == [ses[d] EXCEPT !.ph = "filling", !.blob = {}, !.seq = 0]
<1>1. /\ ses[d].ph = "importing"
      /\ cl' = [cl EXCEPT ![d] = left]
      /\ UNCHANGED <<files, wire, http, post>>
  BY DEF Import, SetClient
<1>2. ses[d] \in SessionIn(R, N[d]) /\ cl[d] \in ClientIn(O[d], N[d])
  BY WithinAt
<1>3. ses[d].blob \subseteq O[d] /\ ses[d].seq \in Nat /\ N[d] \in Nat
  BY <1>2 DEF SessionIn, Frames
<1>4. /\ c \in ClientIn(O[d], N[d])
      /\ c.held = cl[d].held \union ses[d].blob /\ c.asked = cl[d].asked
  BY <1>2, <1>3, CheckpointApplied
<1> HIDE DEF c
<1>5. cur \in Nat /\ needs \in BOOLEAN
  BY <1>3, <1>4, LargerOf DEF ClientIn
<1> HIDE DEF cur, needs
<1>6. left \in ClientIn(O[d], N[d])
  BY <1>4, <1>5 DEF ClientIn
<1>7. left.held = c.held /\ left.asked = c.asked
  BY <1>4 DEF ClientIn
<1> HIDE DEF left
<1>8. Clients(O, N)' /\ Learns(d)
  <2>1. Clients(O, N)' /\ Becomes(d, left)
    BY <1>1, <1>6, ClientSet DEF Within
  <2> QED BY <1>4, <1>7, <2>1 DEF Becomes, Learns
<1>9. ses' = [ses EXCEPT ![d] = s]
  BY DEF Import, Within, Sessions, Typed
<1>10. s \in SessionIn(R, N[d]) /\ s.ph = "filling"
  BY <1>2 DEF SessionIn
<1> HIDE DEF s
<1>11. Sessions(R, N)' /\ Sockets' /\ Greeted'
  <2>1. s.ph \notin {"down", "hello"} /\ ses[d].ph \notin {"down", "hello"}
    BY <1>1, <1>10
  <2> QED BY <1>1, <1>9, <1>10, <2>1, SessionGoesOn DEF wire
<1> QED BY <1>1, <1>8, <1>11, Stays DEF Within, files, wire

-----------------------------------------------------------------------------
(* The frames of a session *)

LEMMA FrameTyped ==
  ASSUME NEW O, NEW P, NEW R, NEW N, Within(O, P, R, N), NEW d \in Devices, NEW t, Frame(d, t)
  PROVE  /\ Head(s2c[d]) \in Down(P[d], R) /\ Head(s2c[d]).t = t
         /\ Tail(s2c[d]) \in Seq(Down(P[d], R))
         /\ ses[d].ph \notin {"down", "hello"}
         /\ t = "rows" => /\ Head(s2c[d]).rows \in RowMap(R)
                          /\ Head(s2c[d]).head \in Nat
         /\ t = "ack" => Head(s2c[d]).batch \in P[d] \intersect R /\ Head(s2c[d]).seq \in Nat
<1>1. s2c[d] \in Seq(Down(P[d], R)) /\ s2c[d] # <<>>
  BY WithinAt DEF Frame
<1>2. Head(s2c[d]) \in Down(P[d], R) /\ Tail(s2c[d]) \in Seq(Down(P[d], R))
  BY <1>1, SeqHead
<1> QED BY <1>2 DEF Frame, Down

LEMMA RecvRowWithin ==
  ASSUME NEW O, NEW P, NEW R, NEW N, Within(O, P, R, N), Frames(O, P, R, N),
         NEW d \in Devices, RecvRow(d)
  PROVE  Within(O, P, R, N)' /\ Learns(d)
<1> DEFINE m == Head(s2c[d])
           s == Min(DOMAIN m.rows)
           map == [t \in DOMAIN m.rows \ {s} |-> m.rows[t]]
           left == [m EXCEPT !.rows = map]
           rest == IF DOMAIN left.rows = {} /\ ~m.done THEN Tail(s2c[d])
                   ELSE <<left>> \o Tail(s2c[d])
           c == ApplyRow(cl[d], s, m.rows[s], deps)
<1>1. /\ Frame(d, "rows") /\ DOMAIN m.rows # {}
      /\ Handled(d, c, rest) /\ UNCHANGED <<disk, flush, post>>
  BY DEF RecvRow, files
<1>2. /\ m \in Down(P[d], R) /\ m.t = "rows" /\ Tail(s2c[d]) \in Seq(Down(P[d], R))
      /\ m.rows \in RowMap(R) /\ ses[d].ph \notin {"down", "hello"}
  BY <1>1, FrameTyped
<1>3. /\ s \in DOMAIN m.rows /\ s \in Nat /\ m.rows[s] \in R
      /\ map \in RowMap(R)
  <2>1. /\ DOMAIN m.rows \subseteq Nat
        /\ \A x \in DOMAIN m.rows : m.rows[x] \in R
        /\ \A x : [t \in DOMAIN m.rows \ {x} |-> m.rows[t]] \in RowMap(R)
    BY <1>2, RowMapFacts
  <2>2. s \in DOMAIN m.rows
    BY <1>1, <2>1, MinIn
  <2> QED BY <2>1, <2>2
<1> HIDE DEF s, map
<1>4. left \in Down(P[d], R)
  BY <1>2, <1>3 DEF Down
<1> HIDE DEF left
<1>5. rest \in Seq(Down(P[d], R))
  BY <1>2, <1>4, SeqCons
<1> HIDE DEF rest
<1>6. cl[d] \in ClientIn(O[d], N[d]) /\ N[d] \in Nat /\ m.rows[s] \in O[d]
  BY <1>3, WithinAt DEF Frames
<1>7. /\ c \in ClientIn(O[d], N[d])
      /\ c.held = cl[d].held \union {m.rows[s]} /\ c.asked = cl[d].asked
  BY <1>3, <1>6, ApplyRowTyped
<1> HIDE DEF c
<1>8. Within(O, P, R, N)' /\ Becomes(d, c)
  BY <1>1, <1>2, <1>5, <1>7, HandledOK
<1> QED BY <1>7, <1>8 DEF Becomes, Learns

\* An ack names a batch that may be pushed and that the room has.
LEMMA RecvAckWithin ==
  ASSUME NEW O, NEW P, NEW R, NEW N, Within(O, P, R, N), Frames(O, P, R, N),
         NEW d \in Devices, RecvAck(d)
  PROVE  /\ Within(O, P, R, N)' /\ Keeps(d)
         /\ \E b \in P[d] \intersect R : outbox' = [outbox EXCEPT ![d] = outbox[d] \ {b}]
<1> DEFINE m == Head(s2c[d])
           more == Pending(d) \ {m.batch} # {}
           c == ApplyAck(cl[d], m.seq, more)
<1>1. /\ Frame(d, "ack") /\ Handled(d, c, Tail(s2c[d]))
      /\ outbox' = [outbox EXCEPT ![d] = outbox[d] \ {m.batch}]
      /\ UNCHANGED <<disk, flush, post>>
  BY DEF RecvAck, files
<1>2. /\ Tail(s2c[d]) \in Seq(Down(P[d], R)) /\ ses[d].ph \notin {"down", "hello"}
      /\ m.batch \in P[d] \intersect R /\ m.seq \in Nat
  BY <1>1, FrameTyped
<1>3. cl[d] \in ClientIn(O[d], N[d]) /\ N[d] \in Nat /\ more \in BOOLEAN
  BY WithinAt DEF Frames
<1>4. c \in ClientIn(O[d], N[d]) /\ c.held = cl[d].held /\ c.asked = cl[d].asked
  <2>1. ASSUME NEW x \in BOOLEAN
        PROVE  /\ ApplyAck(cl[d], m.seq, x) \in ClientIn(O[d], N[d])
               /\ ApplyAck(cl[d], m.seq, x).held = cl[d].held
               /\ ApplyAck(cl[d], m.seq, x).asked = cl[d].asked
    <3>1. m.seq \in Nat /\ cl[d] \in ClientIn(O[d], N[d]) /\ N[d] \in Nat
      BY <1>2, <1>3
    <3> HIDE DEF m, more
    <3> QED BY ONLY <3>1, AckApplied, x \in BOOLEAN
  <2> HIDE DEF more, m
  <2> QED BY <1>3, <2>1
<1> HIDE DEF c
<1>5. Within(O, P, R, N)' /\ Becomes(d, c)
  BY <1>1, <1>2, <1>4, HandledOK
<1>6. Keeps(d)
  BY <1>4, <1>5 DEF Becomes, Keeps
<1> QED BY <1>1, <1>2, <1>5, <1>6

LEMMA RecvQuotaWithin ==
  ASSUME NEW O, NEW P, NEW R, NEW N, Within(O, P, R, N), Frames(O, P, R, N),
         NEW d \in Devices, RecvQuota(d)
  PROVE  Within(O, P, R, N)' /\ Keeps(d)
<1> DEFINE c == [cl[d] EXCEPT !.blocked = TRUE, !.retry = TRUE]
<1>1. /\ Frame(d, "quota") /\ Handled(d, c, Tail(s2c[d]))
      /\ UNCHANGED <<disk, flush, post>>
  BY DEF RecvQuota, files
<1>2. Tail(s2c[d]) \in Seq(Down(P[d], R)) /\ ses[d].ph \notin {"down", "hello"}
  BY <1>1, FrameTyped
<1>3. cl[d] \in ClientIn(O[d], N[d])
  BY WithinAt
<1>4. c \in ClientIn(O[d], N[d])
  BY <1>3 DEF ClientIn
<1>5. c.held = cl[d].held /\ c.asked = cl[d].asked
  BY <1>3 DEF ClientIn
<1> HIDE DEF c
<1>6. Within(O, P, R, N)' /\ Becomes(d, c)
  BY <1>1, <1>2, <1>4, HandledOK
<1> QED BY <1>5, <1>6 DEF Becomes, Keeps

LEMMA RecvDoneWithin ==
  ASSUME NEW O, NEW P, NEW R, NEW N, Within(O, P, R, N), Frames(O, P, R, N),
         NEW d \in Devices, RecvDone(d)
  PROVE  Within(O, P, R, N)' /\ Keeps(d)
<1> DEFINE m == Head(s2c[d])
           s1 == [ses[d] EXCEPT !.ph = "up", !.ticket = 0]
           s2 == [ses[d] EXCEPT !.refresh = 0]
<1>1. Frame(d, "rows") /\ UNCHANGED <<disk, flush, post>>
  BY DEF RecvDone, files
<1>2. /\ Tail(s2c[d]) \in Seq(Down(P[d], R)) /\ ses[d].ph \notin {"down", "hello"}
      /\ m.head \in Nat
  BY <1>1, FrameTyped
<1>3. /\ cl[d] \in ClientIn(O[d], N[d]) /\ ses[d] \in SessionIn(R, N[d]) /\ N[d] \in Nat
  BY WithinAt DEF Frames
<1>4. ses[d].ticket \in 0 .. N[d] /\ ses[d].refresh \in 0 .. N[d]
  BY <1>3 DEF SessionIn
<1>5. CASE ses[d].ph = "filling"
  <2> DEFINE c == Joined(d, cl[d], m.head)
  <2>1. RepairGap(d, c, s1, Tail(s2c[d]))
    BY <1>5 DEF RecvDone
  <2>2. c \in ClientIn(O[d], N[d]) /\ c.held = cl[d].held /\ c.asked = cl[d].asked
    BY <1>2, <1>3, <1>4, Answered
  <2>3. s1 \in SessionIn(R, N[d]) /\ s1.ph = "up"
    <3>1. 0 \in 0 .. N[d]
      BY <1>3
    <3>2. s1 \in SessionIn(R, N[d])
      BY <1>3, <3>1 DEF SessionIn
    <3>3. s1.ph = "up"
      BY <1>3 DEF SessionIn
    <3> QED BY <3>2, <3>3
  <2> HIDE DEF c, s1
  <2>4. Within(O, P, R, N)' /\ Becomes(d, c)
    <3>1. s1.ph \notin {"down", "hello"}
      BY <2>3
    <3> QED BY <1>1, <1>2, <2>1, <2>2, <2>3, <3>1, RepairGapOK
  <2> QED BY <2>2, <2>4 DEF Becomes, Keeps
<1>6. CASE ses[d].ph # "filling"
  <2> DEFINE c == Refreshed(d, cl[d], m.head)
  <2>1. RepairGap(d, c, s2, Tail(s2c[d]))
    BY <1>6 DEF RecvDone
  <2>2. c \in ClientIn(O[d], N[d]) /\ c.held = cl[d].held /\ c.asked = cl[d].asked
    BY <1>2, <1>3, <1>4, Answered
  <2>3. s2 \in SessionIn(R, N[d]) /\ s2.ph = ses[d].ph
    BY <1>3 DEF SessionIn
  <2> HIDE DEF c, s2
  <2>4. Within(O, P, R, N)' /\ Becomes(d, c)
    <3>1. s2.ph \notin {"down", "hello"}
      BY <1>2, <2>3
    <3> QED BY <1>1, <1>2, <2>1, <2>2, <2>3, <3>1, RepairGapOK
  <2> QED BY <2>2, <2>4 DEF Becomes, Keeps
<1> QED BY <1>5, <1>6

-----------------------------------------------------------------------------
(* The timers of a session *)

LEMMA RefreshWithin ==
  ASSUME NEW O, NEW P, NEW R, NEW N, Within(O, P, R, N), Frames(O, P, R, N),
         NEW d \in Devices, Refresh(d)
  PROVE  Within(O, P, R, N)' /\ Keeps(d)
<1> DEFINE c == [cl[d] EXCEPT !.asking = TRUE]
           s == [ses[d] EXCEPT !.refresh = cl[d].asked]
           m == RowsReq(cl[d].cursor, FALSE)
<1>1. /\ ses[d].ph = "up" /\ cl' = [cl EXCEPT ![d] = c] /\ Send(d, m)
      /\ UNCHANGED <<files, socket, s2c, http, post, late>>
  BY DEF Refresh, SetClient
<1>2. ses' = [ses EXCEPT ![d] = s]
  BY DEF Refresh, Within, Sessions, Typed
<1>3. /\ cl[d] \in ClientIn(O[d], N[d]) /\ ses[d] \in SessionIn(R, N[d])
  BY WithinAt
<1>4. c \in ClientIn(O[d], N[d])
  BY <1>3 DEF ClientIn
<1>5. c.held = cl[d].held /\ c.asked = cl[d].asked
  BY <1>3 DEF ClientIn
<1>6. cl[d].asked \in 0 .. N[d] /\ cl[d].cursor \in Nat
  BY <1>3 DEF ClientIn
<1>7. s \in SessionIn(R, N[d]) /\ s.ph = "up"
  BY <1>1, <1>3, <1>6 DEF SessionIn
<1>8. m \in Up(P[d]) /\ m.t # "hello"
  BY <1>6, RowsReqTyped DEF RowsReq
<1> HIDE DEF c, s, m
<1>9. Clients(O, N)' /\ Keeps(d)
  <2>1. Clients(O, N)' /\ Becomes(d, c)
    BY <1>1, <1>4, ClientSet DEF Within
  <2> QED BY <1>5, <2>1 DEF Becomes, Keeps
<1>10. /\ Ups(P)' /\ \A e \in Devices \ {d} : c2s'[e] = c2s[e]
       /\ NoHello(c2s[d]) => NoHello(c2s'[d])
  BY <1>1, <1>8, SendTyped
<1>11. Sessions(R, N)' /\ Sockets' /\ Greeted'
  <2>1. s.ph \notin {"down", "hello"} /\ ses[d].ph \notin {"down", "hello"}
    BY <1>1, <1>7
  <2> QED BY <1>1, <1>2, <1>7, <1>10, <2>1, SessionGoesOn
<1> QED BY <1>1, <1>9, <1>10, <1>11, Stays DEF Within, files

LEMMA PushPendingWithin ==
  ASSUME NEW O, NEW P, NEW R, NEW N, Within(O, P, R, N), Frames(O, P, R, N),
         NEW d \in Devices, PushPending(d)
  PROVE  Within(O, P, R, N)' /\ Keeps(d)
<1> DEFINE sent == ses[d].inFlight \intersect Pending(d)
           more == Unsent(d, sent)
           m == [t |-> "push", batches |-> more]
           out == sent \union more
           s == [ses[d] EXCEPT !.inFlight = out]
<1>1. /\ ses[d].ph = "up" /\ more # {} /\ Send(d, m)
      /\ UNCHANGED <<cl, files, socket, s2c, http, post, late>>
  BY DEF PushPending
<1>2. ses' = [ses EXCEPT ![d] = s]
  BY DEF PushPending, Within, Sessions, Typed
<1>3. ses[d] \in SessionIn(R, N[d])
  BY WithinAt
<1>4. m \in Up(P[d]) /\ m.t # "hello" /\ more \subseteq Nat
  BY <1>1, UnsentTyped
<1>5. out \subseteq Nat
  BY <1>3, <1>4 DEF SessionIn
<1> HIDE DEF out, m
<1>6. s \in SessionIn(R, N[d]) /\ s.ph = "up"
  BY <1>1, <1>3, <1>5 DEF SessionIn
<1> HIDE DEF s
<1>7. /\ Ups(P)' /\ \A e \in Devices \ {d} : c2s'[e] = c2s[e]
      /\ NoHello(c2s[d]) => NoHello(c2s'[d])
  BY <1>1, <1>4, SendTyped
<1>8. Sessions(R, N)' /\ Sockets' /\ Greeted'
  <2>1. s.ph \notin {"down", "hello"} /\ ses[d].ph \notin {"down", "hello"}
    BY <1>1, <1>6
  <2> QED BY <1>1, <1>2, <1>6, <1>7, <2>1, SessionGoesOn
<1> QED BY <1>1, <1>7, <1>8, Stays DEF Within, files

LEMMA PushHeadWithin ==
  ASSUME NEW O, NEW P, NEW R, NEW N, Within(O, P, R, N), Frames(O, P, R, N),
         NEW d \in Devices, PushHead(d)
  PROVE  Within(O, P, R, N)' /\ Keeps(d)
<1> DEFINE c == [cl[d] EXCEPT !.retry = FALSE]
           m == [t |-> "push", batches |-> {Min(Pending(d))}]
<1>1. /\ ses[d].ph = "up" /\ cl' = [cl EXCEPT ![d] = c]
      /\ IF Pending(d) = {} THEN UNCHANGED c2s ELSE Send(d, m)
      /\ UNCHANGED <<files, ses, socket, s2c, http, post, late>>
  BY DEF PushHead, SetClient
<1>2. cl[d] \in ClientIn(O[d], N[d])
  BY WithinAt
<1>3. c \in ClientIn(O[d], N[d])
  BY <1>2 DEF ClientIn
<1>4. c.held = cl[d].held /\ c.asked = cl[d].asked
  BY <1>2 DEF ClientIn
<1> HIDE DEF c
<1>5. Clients(O, N)' /\ Keeps(d)
  <2>1. Clients(O, N)' /\ Becomes(d, c)
    BY <1>1, <1>3, ClientSet DEF Within
  <2> QED BY <1>4, <2>1 DEF Becomes, Keeps
<1>6. /\ Ups(P)' /\ \A e \in Devices \ {d} : c2s'[e] = c2s[e]
      /\ NoHello(c2s[d]) => NoHello(c2s'[d])
  <2>1. CASE Pending(d) = {}
    BY <1>1, <2>1 DEF Within, Ups, Typed
  <2>2. CASE Pending(d) # {}
    <3>1. Pending(d) \subseteq P[d] /\ Pending(d) \subseteq Nat
      BY DEF Frames
    <3>2. Min(Pending(d)) \in P[d]
      BY <2>2, <3>1, MinIn
    <3>3. m \in Up(P[d]) /\ m.t # "hello"
      BY <3>2 DEF Up
    <3> QED BY <1>1, <2>2, <3>3, SendTyped
  <2> QED BY <2>1, <2>2
<1>7. Greeted'
  <2>1. GreetOK(ses'[d].ph, socket'[d], c2s'[d], s2c'[d])
    BY <1>1, <1>6 DEF Within, Greeted, GreetOK
  <2> QED BY <1>1, <1>6, <2>1, GreetOne DEF Within
<1> QED BY <1>1, <1>5, <1>6, <1>7, Stays DEF Within, files

-----------------------------------------------------------------------------
(* The HTTPS cycle *)

\* A cycle touches its own record and its device's client.
LEMMA CycleWithin ==
  ASSUME NEW O, NEW P, NEW R, NEW N, Within(O, P, R, N), NEW d \in Devices,
         NEW c \in ClientIn(O[d], N[d]), NEW h \in HttpIn(P[d], R, N[d]),
         SetClient(d, c), SetHttp(d, h)
  PROVE  Clients(O, N)' /\ Becomes(d, c) /\ Https(P, R, N)'
  BY ClientSet, HttpSet DEF SetClient, SetHttp, Within

LEMMA PushWithin ==
  ASSUME NEW O, NEW P, NEW R, NEW N, Within(O, P, R, N), Frames(O, P, R, N),
         ChatAssumption, NEW d \in Devices,
         NEW c \in ClientIn(O[d], N[d]), NEW todo \in SUBSET P[d], Push(d, c, todo)
  PROVE  Clients(O, N)' /\ Becomes(d, c) /\ Https(P, R, N)'
<1>1. N[d] \in Nat /\ IdleHttp \in HttpIn(P[d], R, N[d])
  BY Blank DEF Frames
<1>2. CASE todo # {}
  <2> DEFINE h == [IdleHttp EXCEPT !.ph = "push", !.todo = todo]
  <2>1. SetHttp(d, h) /\ SetClient(d, c)
    BY <1>2 DEF Push
  <2>2. h \in HttpIn(P[d], R, N[d])
    BY <1>1, <1>2 DEF HttpIn, HttpRec
  <2> HIDE DEF h
  <2> QED BY <2>1, <2>2, CycleWithin
<1>3. CASE todo = {}
  <2> DEFINE h == [IdleHttp EXCEPT !.ph = "pulling", !.after = c.cursor, !.ticket = c.asked]
             k == [c EXCEPT !.hEpoch = TRUE, !.hRow = TRUE]
  <2>1. SetHttp(d, h) /\ SetClient(d, k)
    BY <1>3 DEF Push
  <2>2. c.cursor \in Nat /\ c.asked \in 0 .. N[d]
    BY DEF ClientIn
  <2>3. h \in HttpIn(P[d], R, N[d])
    BY <1>1, <2>2 DEF HttpIn, HttpRec
  <2>4. k \in ClientIn(O[d], N[d])
    BY DEF ClientIn
  <2>5. k.held = c.held /\ k.asked = c.asked
    BY DEF ClientIn
  <2> HIDE DEF h, k
  <2>6. Clients(O, N)' /\ Becomes(d, k) /\ Https(P, R, N)'
    BY <2>1, <2>3, <2>4, CycleWithin
  <2> QED BY <2>5, <2>6 DEF Becomes
<1> QED BY <1>2, <1>3

LEMMA AppendHead ==
  ASSUME NEW S, NEW q \in Seq(S), NEW m
  PROVE  Append(q, m) # <<>> /\ (q # <<>> => Head(Append(q, m)) = Head(q))
<1> DEFINE T == S \union {m}
<1>1. q \in Seq(T) /\ m \in T
  BY SeqGrow
<1> HIDE DEF T
<1> QED BY <1>1

\* A live row finds a socket whose hello is answered.
LEMMA RelayedGreets ==
  ASSUME NEW O, NEW P, NEW R, NEW N, Within(O, P, R, N), NEW b, NEW e,
         s2c' = Relayed(b, e), UNCHANGED <<ses, socket, c2s>>
  PROVE  Greeted'
<1> DEFINE s == AckSeq(room, b)
           m == [t |-> "rows", rows |-> [i \in {s} |-> b], done |-> FALSE, head |-> 0]
<1>1. ASSUME NEW d \in Devices
      PROVE  GreetOK(ses[d].ph, socket[d], c2s[d], s2c'[d])
  <2>1. GreetOK(ses[d].ph, socket[d], c2s[d], s2c[d])
    BY DEF Within, Greeted
  <2>2. s2c'[d] = s2c[d] \/ (socket[d] = "ready" /\ s2c'[d] = Append(s2c[d], m))
    BY DEF Relayed
  <2> HIDE DEF m
  <2>3. s2c[d] \in Seq(Down(P[d], R))
    BY WithinAt
  <2>4. Append(s2c[d], m) # <<>> /\ (s2c[d] # <<>> => Head(Append(s2c[d], m)) = Head(s2c[d]))
    BY <2>3, AppendHead
  <2> QED BY <2>1, <2>2, <2>4 DEF GreetOK
<1> QED BY <1>1 DEF Greeted

\* What a push or a late push leaves: the batch is in the room.
LEMMA AppendedIn ==
  ASSUME NEW O, NEW R, NEW N, Reaches(O, R, N), room \in RoomIn, room.floor <= HeadSeq(room),
         NEW d \in Devices, NEW b \in Nat, room' = AppendRow(room, d, b)
  PROVE  b \in R
  BY AppendFacts DEF Reaches

LEMMA HttpPostWithin ==
  ASSUME NEW O, NEW P, NEW R, NEW N, Within(O, P, R, N), Frames(O, P, R, N),
         Reaches(O, R, N), room \in RoomIn, room.floor <= HeadSeq(room),
         NEW d \in Devices, HttpPost(d)
  PROVE  /\ Within(O, P, R, N)' /\ Keeps(d)
         /\ \E b \in P[d] : room' = AppendRow(room, d, b)
<1> DEFINE b == Min(http[d].todo)
           seq == AckSeq(room, b)
           h == [http[d] EXCEPT !.ph = "acking", !.seq = seq]
<1>1. /\ http[d].ph = "push" /\ room' = AppendRow(room, d, b)
      /\ s2c' = Relayed(b, NoDevice) /\ SetHttp(d, h)
      /\ UNCHANGED <<cl, files, ses, socket, c2s, late, post>>
  BY DEF HttpPost
<1>2. http[d] \in HttpIn(P[d], R, N[d]) /\ P[d] \subseteq Nat
  BY WithinAt DEF Frames
<1>3. b \in http[d].todo /\ b \in P[d]
  <2>1. http[d].todo \subseteq P[d] /\ http[d].todo # {}
    BY <1>1, <1>2 DEF HttpIn, HttpRec
  <2> QED BY <1>2, <2>1, MinIn
<1>4. b \in R
  BY <1>1, <1>2, <1>3, AppendedIn
<1>5. seq \in Nat
  BY AckTyped
<1>6. http[d].todo = {} \/ Min(http[d].todo) \in R
  BY <1>4
<1> HIDE DEF b, seq
<1>7. h \in HttpIn(P[d], R, N[d])
  BY <1>1, <1>2, <1>5, <1>6 DEF HttpIn, HttpRec
<1> HIDE DEF h
<1>8. Https(P, R, N)'
  BY <1>1, <1>7, HttpSet DEF SetHttp, Within
<1>9. Downs(P, R)'
  BY <1>1, <1>4, RelayedTyped DEF Downs
<1>10. Greeted'
  BY <1>1, RelayedGreets
<1> QED BY <1>1, <1>3, <1>8, <1>9, <1>10, Stays DEF Within, files

LEMMA HttpPushWithin ==
  ASSUME NEW O, NEW P, NEW R, NEW N, Within(O, P, R, N), Frames(O, P, R, N),
         ChatAssumption, NEW d \in Devices,
         HttpStart(d) \/ HttpQuota(d) \/ HttpPostFails(d)
  PROVE  Within(O, P, R, N)' /\ Keeps(d)
<1>1. /\ cl[d] \in ClientIn(O[d], N[d]) /\ http[d] \in HttpIn(P[d], R, N[d])
      /\ Pending(d) \subseteq P[d] /\ P[d] \subseteq O[d] /\ P[d] \subseteq Nat
  BY WithinAt DEF Frames
<1>2. PICK todo \in SUBSET P[d] : Push(d, cl[d], todo)
  <2>1. {} \in SUBSET P[d] /\ Pending(d) \in SUBSET P[d]
    BY <1>1
  <2> QED BY <2>1 DEF HttpStart, HttpQuota, HttpPostFails
<1>3. Clients(O, N)' /\ Becomes(d, cl[d]) /\ Https(P, R, N)'
  BY <1>1, <1>2, PushWithin
<1>4. UNCHANGED <<files, ses, socket, c2s, s2c, post>>
  BY DEF HttpStart, HttpQuota, HttpPostFails, wire
<1>5. late' \subseteq LateIn(O)
  <2>1. CASE HttpPostFails(d)
    <3>1. /\ http[d].ph = "push"
          /\ late' = late \union {[device |-> d, batch |-> Min(http[d].todo)]}
      BY <2>1 DEF HttpPostFails
    <3>2. http[d].todo \subseteq P[d] /\ http[d].todo # {}
      BY <1>1, <3>1 DEF HttpIn, HttpRec
    <3>3. Min(http[d].todo) \in P[d]
      BY <1>1, <3>2, MinIn
    <3> QED BY <1>1, <3>1, <3>3 DEF Within, LateIn
  <2>2. CASE HttpStart(d) \/ HttpQuota(d)
    BY <2>2 DEF HttpStart, HttpQuota, wire, Within
  <2> QED BY <2>1, <2>2
<1> QED BY <1>3, <1>4, <1>5, Stays DEF Within, Keeps, files

LEMMA HttpAckWithin ==
  ASSUME NEW O, NEW P, NEW R, NEW N, Within(O, P, R, N), Frames(O, P, R, N),
         ChatAssumption, NEW d \in Devices, HttpAck(d)
  PROVE  /\ Within(O, P, R, N)' /\ Keeps(d)
         /\ \E b \in P[d] \intersect R : outbox' = [outbox EXCEPT ![d] = outbox[d] \ {b}]
<1> DEFINE b == Min(http[d].todo)
           c == ApplyHttpAck(cl[d], http[d].seq)
           todo == http[d].todo \ {b}
<1>1. /\ http[d].ph = "acking" /\ Push(d, c, todo)
      /\ outbox' = [outbox EXCEPT ![d] = outbox[d] \ {b}]
      /\ UNCHANGED <<files, ses, wire, post>>
  BY DEF HttpAck
<1>2. /\ cl[d] \in ClientIn(O[d], N[d]) /\ http[d] \in HttpIn(P[d], R, N[d])
      /\ P[d] \subseteq Nat /\ N[d] \in Nat
  BY WithinAt DEF Frames
<1>3. http[d].todo \subseteq P[d] /\ http[d].todo # {} /\ b \in R /\ http[d].seq \in Nat
  BY <1>1, <1>2 DEF HttpIn, HttpRec
<1>4. b \in P[d]
  BY <1>2, <1>3, MinIn
<1>5. c \in ClientIn(O[d], N[d]) /\ c.held = cl[d].held /\ c.asked = cl[d].asked
  <2>1. cl[d] \in ClientIn(O[d], N[d]) /\ http[d].seq \in Nat /\ N[d] \in Nat
    BY <1>2, <1>3
  <2> QED BY ONLY <2>1, HttpAckApplied
<1> HIDE DEF b, c
<1>6. todo \in SUBSET P[d]
  BY <1>3
<1>7. Clients(O, N)' /\ Becomes(d, c) /\ Https(P, R, N)'
  BY <1>1, <1>5, <1>6, PushWithin
<1>8. Keeps(d)
  BY <1>5, <1>7 DEF Becomes, Keeps
<1> QED BY <1>1, <1>3, <1>4, <1>7, <1>8, Stays DEF Within, files, wire

\* CycleOver forgets samples only.
LEMMA CycleOverTyped ==
  ASSUME NEW B, NEW n, NEW c \in ClientIn(B, n)
  PROVE  /\ CycleOver(c) \in ClientIn(B, n)
         /\ CycleOver(c).held = c.held /\ CycleOver(c).asked = c.asked
<1>1. CycleOver(c) \in ClientIn(B, n)
  BY DEF CycleOver, ClientIn
<1>2. CycleOver(c).held = c.held /\ CycleOver(c).asked = c.asked
  BY DEF CycleOver, ClientIn
<1> QED BY <1>1, <1>2

LEMMA ApplyWithin ==
  ASSUME NEW O, NEW P, NEW R, NEW N, Within(O, P, R, N), Frames(O, P, R, N),
         ChatAssumption, NEW d \in Devices, NEW left \in ClientIn(O[d], N[d]),
         NEW h \in HttpRec(P[d], R, N[d]), Apply(d, left, h)
  PROVE  Clients(O, N)' /\ Becomes(d, left) /\ Https(P, R, N)'
<1>1. N[d] \in Nat /\ IdleHttp \in HttpIn(P[d], R, N[d])
  BY Blank DEF Frames
<1>2. CASE DOMAIN h.rows # {}
  <2> DEFINE k == [h EXCEPT !.ph = "applying", !.after = 0, !.blob = {}]
  <2>1. SetClient(d, left) /\ SetHttp(d, k)
    BY <1>2 DEF Apply
  <2>2. k \in HttpIn(P[d], R, N[d])
    BY <1>2 DEF HttpIn, HttpRec
  <2> HIDE DEF k
  <2> QED BY <2>1, <2>2, CycleWithin
<1>3. CASE DOMAIN h.rows = {}
  <2> DEFINE whole == h.whole /\ left.hEpoch /\ left.cursor >= h.st.head /\ ~left.needs
             gap == left.gap /\ ~(whole /\ left.hRow)
             caught == left.caught \/ whole
             done == IF whole /\ ~gap THEN Larger(left.done, h.ticket) ELSE left.done
             over == CycleOver(left)
             c == [over EXCEPT !.caught = caught, !.gap = gap, !.done = done]
  <2>1. SetClient(d, c) /\ SetHttp(d, IdleHttp)
    BY <1>3 DEF Apply
  <2>2. over \in ClientIn(O[d], N[d]) /\ over.held = left.held /\ over.asked = left.asked
    BY CycleOverTyped
  <2>3. gap \in BOOLEAN /\ caught \in BOOLEAN
    BY DEF ClientIn
  <2>4. done \in 0 .. N[d]
    <3>1. left.done \in 0 .. N[d] /\ h.ticket \in 0 .. N[d]
      BY DEF ClientIn, HttpIn, HttpRec
    <3>2. Larger(left.done, h.ticket) \in 0 .. N[d]
      BY <3>1 DEF Larger
    <3> QED BY <3>1, <3>2
  <2> HIDE DEF gap, caught, done, over
  <2>5. c \in ClientIn(O[d], N[d])
    BY <2>2, <2>3, <2>4 DEF ClientIn
  <2>6. c.held = over.held /\ c.asked = over.asked
    BY <2>2 DEF ClientIn
  <2> HIDE DEF c
  <2>7. Clients(O, N)' /\ Becomes(d, c) /\ Https(P, R, N)'
    BY <1>1, <2>1, <2>5, CycleWithin
  <2> QED BY <2>2, <2>6, <2>7 DEF Becomes
<1> QED BY <1>2, <1>3

LEMMA AdoptTyped ==
  ASSUME NEW B, NEW n, NEW c \in ClientIn(B, n), NEW st, NEW after \in Nat, NEW same
  PROVE  /\ Adopt(c, st, after, same) \in ClientIn(B, n)
         /\ Adopt(c, st, after, same).held = c.held
         /\ Adopt(c, st, after, same).asked = c.asked
<1> DEFINE cur == IF c.cursor > st.head THEN after ELSE Larger(c.cursor, after)
           needs == c.needs /\ ~same
<1>1. cur \in Nat /\ needs \in BOOLEAN
  BY LargerOf DEF ClientIn
<1>2. Adopt(c, st, after, same) = [c EXCEPT !.cursor = cur, !.needs = needs]
  BY DEF Adopt
<1> HIDE DEF cur, needs
<1>3. [c EXCEPT !.cursor = cur, !.needs = needs] \in ClientIn(B, n)
  BY <1>1 DEF ClientIn
<1>4. Adopt(c, st, after, same).held = c.held /\ Adopt(c, st, after, same).asked = c.asked
  BY <1>2 DEF ClientIn
<1> QED BY <1>2, <1>3, <1>4

LEMMA HttpGetWithin ==
  ASSUME NEW O, NEW P, NEW R, NEW N, Within(O, P, R, N), Frames(O, P, R, N),
         room \in RoomIn, ChatAssumption, NEW d \in Devices,
         HttpGet(d) \/ HttpFails(d) \/ HttpFetch(d)
  PROVE  Within(O, P, R, N)' /\ Keeps(d)
<1>1. /\ cl[d] \in ClientIn(O[d], N[d]) /\ http[d] \in HttpIn(P[d], R, N[d])
      /\ N[d] \in Nat /\ IdleHttp \in HttpIn(P[d], R, N[d]) /\ Readable(room) \subseteq R
  BY WithinAt, Blank DEF Frames
<1>2. UNCHANGED <<files, ses, wire, post>>
  BY DEF HttpGet, HttpFails, HttpFetch
<1>3. CASE HttpGet(d)
  <2> DEFINE all == RowsAfter(room, http[d].after, NoDevice)
             page == {s \in DOMAIN all : Cardinality({t \in DOMAIN all : t <= s}) <= PageRows}
             rows == [s \in page |-> all[s]]
             whole == page = DOMAIN all
             h == [http[d] EXCEPT !.ph = "answered", !.st = State(room),
                                  !.rows = rows, !.whole = whole]
  <2>1. SetHttp(d, h) /\ UNCHANGED cl
    BY <1>3 DEF HttpGet
  <2>2. all \in RowMap(R) /\ State(room) \in StateIn(R)
    BY <1>1, RowsTyped, RowMapGrows, StateGrows
  <2>3. rows \in RowMap(R) /\ whole \in BOOLEAN
    <3>1. page \in SUBSET DOMAIN all
      OBVIOUS
    <3> HIDE DEF all, page
    <3> QED BY <2>2, <3>1, RowMapFacts
  <2> HIDE DEF rows, whole
  <2>4. h \in HttpIn(P[d], R, N[d])
    BY <1>1, <2>2, <2>3 DEF HttpIn, HttpRec
  <2> HIDE DEF h
  <2>5. Https(P, R, N)'
    BY <2>1, <2>4, HttpSet DEF SetHttp, Within
  <2> QED BY <1>2, <2>1, <2>5, Stays DEF Within, files, wire
<1>4. CASE HttpFails(d) \/ (HttpFetch(d) /\ ~room.has)
  <2>1. SetHttp(d, IdleHttp) /\ SetClient(d, CycleOver(cl[d]))
    BY <1>4 DEF HttpFails, HttpFetch
  <2>2. /\ CycleOver(cl[d]) \in ClientIn(O[d], N[d])
        /\ CycleOver(cl[d]).held = cl[d].held /\ CycleOver(cl[d]).asked = cl[d].asked
    BY <1>1, CycleOverTyped
  <2>3. Clients(O, N)' /\ Becomes(d, CycleOver(cl[d])) /\ Https(P, R, N)'
    BY <1>1, <2>1, <2>2, CycleWithin
  <2>4. Keeps(d)
    BY <2>2, <2>3 DEF Keeps, Becomes
  <2> QED BY <1>2, <2>3, <2>4, Stays DEF Within, files, wire
<1>5. CASE HttpFetch(d) /\ room.has
  <2> DEFINE h == [http[d] EXCEPT !.ph = "importing", !.blob = room.ckpt]
  <2>1. SetHttp(d, h) /\ UNCHANGED cl
    BY <1>5 DEF HttpFetch
  <2>2. h \in HttpIn(P[d], R, N[d])
    <3>1. room.ckpt \subseteq R
      BY <1>1 DEF Readable
    <3> QED BY <1>1, <3>1 DEF HttpIn, HttpRec
  <2> HIDE DEF h
  <2>3. Https(P, R, N)'
    BY <2>1, <2>2, HttpSet DEF SetHttp, Within
  <2> QED BY <1>2, <2>1, <2>3, Stays DEF Within, files, wire
<1> QED BY <1>3, <1>4, <1>5

LEMMA HttpStateWithin ==
  ASSUME NEW O, NEW P, NEW R, NEW N, Within(O, P, R, N), Frames(O, P, R, N),
         ChatAssumption, NEW d \in Devices, HttpState(d)
  PROVE  Within(O, P, R, N)' /\ Keeps(d)
<1> DEFINE h == http[d]
           wiped == h.after > h.st.head
           pcur == IF wiped THEN 0 ELSE cl[d].pcursor
           c == [cl[d] EXCEPT !.view = ViewOf(h.st), !.pcursor = pcur]
           cont == Contained(c, h.st, deps)
           after == CatchUpAfter(h.after, h.st, TRUE)
<1>1. /\ IF c.cursor < h.after /\ ~wiped
           THEN SetClient(d, CycleOver(c)) /\ SetHttp(d, IdleHttp)
           ELSE IF cont
             THEN Apply(d, Adopt(c, h.st, after, TRUE), h)
             ELSE /\ SetClient(d, [c EXCEPT !.hSame = TRUE])
                  /\ SetHttp(d, [h EXCEPT !.ph = "fetching", !.after = 0])
      /\ UNCHANGED <<files, ses, wire, post>>
  BY DEF HttpState
<1>2. /\ cl[d] \in ClientIn(O[d], N[d]) /\ h \in HttpIn(P[d], R, N[d])
      /\ N[d] \in Nat /\ IdleHttp \in HttpIn(P[d], R, N[d])
  BY WithinAt, Blank DEF Frames
<1>3. /\ h.st \in StateIn(R) /\ h.after \in Nat /\ pcur \in Nat
      /\ ViewOf(h.st) \in [known : BOOLEAN, rows : Int, has : BOOLEAN]
  BY <1>2 DEF HttpIn, HttpRec, StateIn, ClientIn, ViewOf
<1>4. after \in Nat
  BY <1>3, PlanTyped
<1> HIDE DEF wiped, pcur, cont, after, h
<1>5. c \in ClientIn(O[d], N[d])
  BY <1>2, <1>3 DEF ClientIn
<1>6. c.held = cl[d].held /\ c.asked = cl[d].asked
  BY <1>2 DEF ClientIn
<1> HIDE DEF c
<1>7. Clients(O, N)' /\ Https(P, R, N)' /\ Keeps(d)
  <2>1. CASE c.cursor < h.after /\ ~wiped
    <3>1. /\ CycleOver(c) \in ClientIn(O[d], N[d])
          /\ CycleOver(c).held = c.held /\ CycleOver(c).asked = c.asked
      BY <1>5, CycleOverTyped
    <3>2. Clients(O, N)' /\ Becomes(d, CycleOver(c)) /\ Https(P, R, N)'
      BY <1>1, <1>2, <2>1, <3>1, CycleWithin
    <3> QED BY <1>6, <3>1, <3>2 DEF Becomes, Keeps
  <2>2. CASE ~(c.cursor < h.after /\ ~wiped) /\ cont
    <3>1. PICK same \in BOOLEAN : same = TRUE
      OBVIOUS
    <3> DEFINE a == Adopt(c, h.st, after, same)
    <3>2. Apply(d, a, h)
      BY <1>1, <2>2, <3>1
    <3>3. a \in ClientIn(O[d], N[d]) /\ a.held = c.held /\ a.asked = c.asked
      BY <1>4, <1>5, AdoptTyped
    <3> HIDE DEF a
    <3>4. Clients(O, N)' /\ Becomes(d, a) /\ Https(P, R, N)'
      <4>1. h \in HttpRec(P[d], R, N[d])
        BY <1>2 DEF HttpIn, HttpRec
      <4> QED BY <3>2, <3>3, <4>1, ApplyWithin
    <3> QED BY <1>6, <3>3, <3>4 DEF Becomes, Keeps
  <2>3. CASE ~(c.cursor < h.after /\ ~wiped) /\ ~cont
    <3> DEFINE a == [c EXCEPT !.hSame = TRUE]
               k == [h EXCEPT !.ph = "fetching", !.after = 0]
    <3>1. SetClient(d, a) /\ SetHttp(d, k)
      BY <1>1, <2>3
    <3>2. a \in ClientIn(O[d], N[d])
      BY <1>5 DEF ClientIn
    <3>3. a.held = c.held /\ a.asked = c.asked
      BY <1>5 DEF ClientIn
    <3>4. k \in HttpIn(P[d], R, N[d])
      BY <1>2 DEF HttpIn, HttpRec
    <3> HIDE DEF a, k
    <3>5. Clients(O, N)' /\ Becomes(d, a) /\ Https(P, R, N)'
      BY <3>1, <3>2, <3>4, CycleWithin
    <3> QED BY <1>6, <3>3, <3>5 DEF Becomes, Keeps
  <2> QED BY <2>1, <2>2, <2>3
<1> QED BY <1>1, <1>7, Stays DEF Within, files, wire

LEMMA HttpImportWithin ==
  ASSUME NEW O, NEW P, NEW R, NEW N, Within(O, P, R, N), Frames(O, P, R, N),
         ChatAssumption, NEW d \in Devices, HttpImport(d)
  PROVE  Within(O, P, R, N)' /\ Learns(d)
<1> DEFINE st == http[d].st
           c == ApplyCheckpoint(cl[d], http[d].blob, st.seq)
           a == Adopt(c, st, st.seq, c.hSame)
           left == [a EXCEPT !.hSame = FALSE]
<1>1. Apply(d, left, http[d]) /\ UNCHANGED <<files, ses, wire, post>>
  BY DEF HttpImport
<1>2. /\ cl[d] \in ClientIn(O[d], N[d]) /\ http[d] \in HttpIn(P[d], R, N[d])
      /\ N[d] \in Nat /\ R \subseteq O[d]
  BY WithinAt DEF Frames
<1>3. http[d].blob \subseteq O[d] /\ st.seq \in Nat
  BY <1>2 DEF HttpIn, HttpRec, StateIn
<1>4. /\ c \in ClientIn(O[d], N[d])
      /\ c.held = cl[d].held \union http[d].blob /\ c.asked = cl[d].asked
  <2>1. http[d].blob \in SUBSET O[d]
    BY <1>3
  <2> QED BY <1>2, <1>3, <2>1, CheckpointApplied
<1> HIDE DEF st, c
<1>5. a \in ClientIn(O[d], N[d]) /\ a.held = c.held /\ a.asked = c.asked
  <2>1. c.hSame \in BOOLEAN
    BY <1>4 DEF ClientIn
  <2> QED BY <1>3, <1>4, <2>1, AdoptTyped
<1> HIDE DEF a
<1>6. left \in ClientIn(O[d], N[d])
  BY <1>5 DEF ClientIn
<1>7. left.held = a.held /\ left.asked = a.asked
  BY <1>5 DEF ClientIn
<1> HIDE DEF left
<1>8. Clients(O, N)' /\ Becomes(d, left) /\ Https(P, R, N)'
  <2>1. http[d] \in HttpRec(P[d], R, N[d])
    BY <1>2 DEF HttpIn, HttpRec
  <2> QED BY <1>1, <1>6, <2>1, ApplyWithin
<1>9. Learns(d)
  BY <1>4, <1>5, <1>7, <1>8 DEF Becomes, Learns
<1> QED BY <1>1, <1>8, <1>9, Stays DEF Within, files, wire

LEMMA HttpRowWithin ==
  ASSUME NEW O, NEW P, NEW R, NEW N, Within(O, P, R, N), Frames(O, P, R, N),
         ChatAssumption, NEW d \in Devices, HttpRow(d)
  PROVE  Within(O, P, R, N)' /\ Learns(d)
<1> DEFINE s == Min(DOMAIN http[d].rows)
           b == http[d].rows[s]
           c == ApplyRow(cl[d], s, b, deps)
           rows == [t \in DOMAIN http[d].rows \ {s} |-> http[d].rows[t]]
           k == [http[d] EXCEPT !.rows = rows]
<1>1. /\ http[d].ph = "applying" /\ Apply(d, c, k)
      /\ UNCHANGED <<files, ses, wire, post>>
  BY DEF HttpRow
<1>2. /\ cl[d] \in ClientIn(O[d], N[d]) /\ http[d] \in HttpIn(P[d], R, N[d])
      /\ N[d] \in Nat /\ R \subseteq O[d]
  BY WithinAt DEF Frames
<1>3. http[d].rows \in RowMap(R) /\ DOMAIN http[d].rows # {}
  BY <1>1, <1>2 DEF HttpIn, HttpRec
<1>4. s \in Nat /\ b \in O[d] /\ rows \in RowMap(R)
  <2>1. /\ DOMAIN http[d].rows \subseteq Nat
        /\ \A x \in DOMAIN http[d].rows : http[d].rows[x] \in R
        /\ \A x : [t \in DOMAIN http[d].rows \ {x} |-> http[d].rows[t]] \in RowMap(R)
    BY <1>3, RowMapFacts
  <2>2. s \in DOMAIN http[d].rows
    BY <1>3, <2>1, MinIn
  <2> QED BY <1>2, <2>1, <2>2
<1> HIDE DEF s, b, rows
<1>5. c \in ClientIn(O[d], N[d]) /\ c.held = cl[d].held \union {b} /\ c.asked = cl[d].asked
  BY <1>2, <1>4, ApplyRowTyped
<1>6. k \in HttpRec(P[d], R, N[d])
  BY <1>2, <1>4 DEF HttpIn, HttpRec
<1> HIDE DEF c, k
<1>7. Clients(O, N)' /\ Becomes(d, c) /\ Https(P, R, N)'
  BY <1>1, <1>5, <1>6, ApplyWithin
<1>8. Learns(d)
  BY <1>5, <1>7 DEF Becomes, Learns
<1> QED BY <1>1, <1>7, <1>8, Stays DEF Within, files, wire

-----------------------------------------------------------------------------
(* The checkpoint post *)

LEMMA StartPostTyped ==
  ASSUME NEW O, NEW P, NEW R, NEW N, Within(O, P, R, N), NEW d \in Devices, StartPost(d)
  PROVE  Posts(O)'
<1> DEFINE p == IF post[d].ph # "idle" THEN post[d]
                ELSE [NoPost EXCEPT !.ph = "sampled", !.seq = cl[d].cursor]
<1>1. post[d] \in PostIn(O[d]) /\ cl[d].cursor \in Nat
  BY WithinAt DEF ClientIn
<1>2. p \in PostIn(O[d])
  BY <1>1 DEF PostIn, NoPost
<1>3. post' = [post EXCEPT ![d] = p]
  BY DEF StartPost
<1> HIDE DEF p
<1> QED BY <1>2, <1>3, PostSet DEF Within

LEMMA PosterWithin ==
  ASSUME NEW O, NEW P, NEW R, NEW N, Within(O, P, R, N), Frames(O, P, R, N),
         NEW d \in Devices, PostDue(d) \/ Bootstrap(d) \/ HostEvent(d) \/ Export(d)
  PROVE  Within(O, P, R, N)' /\ Keeps(d)
<1>1. UNCHANGED <<files, ses, wire, http>>
  BY DEF PostDue, Bootstrap, HostEvent, Export
<1>2. cl[d] \in ClientIn(O[d], N[d]) /\ post[d] \in PostIn(O[d])
  BY WithinAt
<1>3. CASE PostDue(d)
  <2>1. Posts(O)' /\ UNCHANGED cl
    BY <1>3, StartPostTyped DEF PostDue
  <2> QED BY <1>1, <2>1, Stays DEF Within, files, wire
<1>4. CASE Bootstrap(d) \/ HostEvent(d)
  <2> DEFINE c1 == [cl[d] EXCEPT !.boot = FALSE]
             c2 == [cl[d] EXCEPT !.event = FALSE]
  <2>1. c1 \in ClientIn(O[d], N[d])
    BY <1>2 DEF ClientIn
  <2>2. c2 \in ClientIn(O[d], N[d])
    BY <1>2 DEF ClientIn
  <2>3. c1.held = cl[d].held /\ c1.asked = cl[d].asked
    BY <1>2 DEF ClientIn
  <2>4. c2.held = cl[d].held /\ c2.asked = cl[d].asked
    BY <1>2 DEF ClientIn
  <2>5. cl' = [cl EXCEPT ![d] = c1] \/ cl' = [cl EXCEPT ![d] = c2]
    BY <1>4 DEF Bootstrap, HostEvent, SetClient
  <2>6. StartPost(d) \/ UNCHANGED post
    BY <1>4 DEF Bootstrap, HostEvent
  <2> HIDE DEF c1, c2
  <2>7. PICK c \in ClientIn(O[d], N[d]) :
          /\ cl' = [cl EXCEPT ![d] = c]
          /\ c.held = cl[d].held /\ c.asked = cl[d].asked
    BY <2>1, <2>2, <2>3, <2>4, <2>5
  <2>8. Clients(O, N)' /\ Becomes(d, c)
    BY <2>7, ClientSet DEF Within
  <2>9. Keeps(d)
    BY <2>7, <2>8 DEF Becomes, Keeps
  <2>10. Posts(O)'
    BY <2>6, StartPostTyped, Stays
  <2> QED BY <1>1, <2>8, <2>9, <2>10, Stays DEF Within, files, wire
<1>5. CASE Export(d)
  <2> DEFINE covers == rejected[d] \intersect Doc(d)
             p == [post[d] EXCEPT !.ph = "exported", !.content = Doc(d), !.covers = covers]
  <2>1. UNCHANGED cl
    BY <1>5 DEF Export
  <2>2. post' = [post EXCEPT ![d] = p]
    BY <1>5 DEF Export, Within, Posts, Typed
  <2>3. Doc(d) \subseteq O[d] /\ covers \subseteq Doc(d)
    BY <1>2 DEF Doc, Visible, ClientIn
  <2> HIDE DEF covers
  <2>4. p \in PostIn(O[d])
    BY <1>2, <2>3 DEF PostIn
  <2> HIDE DEF p
  <2>5. Posts(O)'
    BY <2>2, <2>4, PostSet DEF Within
  <2> QED BY <1>1, <2>1, <2>5, Stays DEF Within, files, wire
<1> QED BY <1>3, <1>4, <1>5

\* The room after the POST, and what the author retires: it is in the room.
Posted(d) ==
  \/ room' = room
  \/ Acceptable(room, post[d].seq)
     /\ room' = CommitCheckpoint(room, post[d].seq, post[d].content)

LEMMA NotedTyped ==
  ASSUME NEW B, NEW n, NEW c \in ClientIn(B, n)
  PROVE  /\ [c EXCEPT !.view.rows = 0, !.view.has = TRUE] \in ClientIn(B, n)
         /\ [c EXCEPT !.view.rows = 0, !.view.has = TRUE].held = c.held
         /\ [c EXCEPT !.view.rows = 0, !.view.has = TRUE].asked = c.asked
<1> DEFINE view == [c.view EXCEPT !.rows = 0, !.has = TRUE]
<1>1. c.view \in [known : BOOLEAN, rows : Int, has : BOOLEAN]
  BY DEF ClientIn
<1>2. view \in [known : BOOLEAN, rows : Int, has : BOOLEAN]
  <2>1. ASSUME NEW v \in [known : BOOLEAN, rows : Int, has : BOOLEAN],
               NEW z \in Int, NEW t \in BOOLEAN
        PROVE  [v EXCEPT !.rows = z, !.has = t] \in [known : BOOLEAN, rows : Int, has : BOOLEAN]
    OBVIOUS
  <2>2. 0 \in Int /\ TRUE \in BOOLEAN
    OBVIOUS
  <2> QED BY ONLY <1>1, <2>1, <2>2
<1>3. [c EXCEPT !.view.rows = 0, !.view.has = TRUE] = [c EXCEPT !.view = view]
  BY DEF ClientIn
<1> HIDE DEF view
<1>4. [c EXCEPT !.view = view] \in ClientIn(B, n)
  BY <1>2 DEF ClientIn
<1>5. [c EXCEPT !.view = view].held = c.held /\ [c EXCEPT !.view = view].asked = c.asked
  BY DEF ClientIn
<1> QED BY <1>3, <1>4, <1>5

LEMMA PostCheckpointWithin ==
  ASSUME NEW O, NEW P, NEW R, NEW N, Within(O, P, R, N), Frames(O, P, R, N),
         ChatAssumption, NEW d \in Devices, PostCheckpoint(d)
  PROVE  /\ Within(O, P, R, N)' /\ Keeps(d) /\ Posted(d)
         /\ \E gone \in SUBSET post[d].content :
              /\ gone # {} => room' = CommitCheckpoint(room, post[d].seq, post[d].content)
              /\ outbox' = [outbox EXCEPT ![d] = outbox[d] \ gone]
              /\ rejected' = [rejected EXCEPT ![d] = rejected[d] \ gone]
<1> DEFINE ok == Acceptable(room, post[d].seq)
           gone == IF ok THEN post[d].covers ELSE {}
           noted == [cl[d] EXCEPT !.view.rows = 0, !.view.has = TRUE]
           c == IF ok /\ cl[d].view.known THEN noted ELSE cl[d]
<1>1. /\ room' = IF ok THEN CommitCheckpoint(room, post[d].seq, post[d].content) ELSE room
      /\ outbox' = [outbox EXCEPT ![d] = outbox[d] \ gone]
      /\ rejected' = [rejected EXCEPT ![d] = rejected[d] \ gone]
      /\ cl' = [cl EXCEPT ![d] = c]
      /\ post' = [post EXCEPT ![d] = NoPost]
      /\ UNCHANGED <<files, ses, wire, http>>
  BY DEF PostCheckpoint, Commit, SetClient
<1>2. cl[d] \in ClientIn(O[d], N[d]) /\ post[d] \in PostIn(O[d])
  BY WithinAt
<1>3. noted \in ClientIn(O[d], N[d])
  BY <1>2, NotedTyped
<1>4. noted.held = cl[d].held
  BY <1>2 DEF ClientIn
<1>5. noted.asked = cl[d].asked
  BY <1>2 DEF ClientIn
<1> HIDE DEF noted
<1>6. c \in ClientIn(O[d], N[d]) /\ c.held = cl[d].held /\ c.asked = cl[d].asked
  BY <1>2, <1>3, <1>4, <1>5
<1> HIDE DEF c
<1>7. Clients(O, N)' /\ Becomes(d, c)
  BY <1>1, <1>6, ClientSet DEF Within
<1>8. Keeps(d)
  BY <1>6, <1>7 DEF Becomes, Keeps
<1>9. Posts(O)'
  <2>1. NoPost \in PostIn(O[d])
    BY DEF NoPost, PostIn
  <2> QED BY <1>1, <2>1, PostSet DEF Within
<1>10. gone \in SUBSET post[d].content
  BY <1>2 DEF PostIn
<1>11. gone # {} => room' = CommitCheckpoint(room, post[d].seq, post[d].content)
  BY <1>1
<1>12. Posted(d)
  BY <1>1 DEF Posted
<1> HIDE DEF gone
<1> QED BY <1>1, <1>7, <1>8, <1>9, <1>10, <1>11, <1>12, Stays DEF Within, files, wire

LEMMA PostFailsWithin ==
  ASSUME NEW O, NEW P, NEW R, NEW N, Within(O, P, R, N), Frames(O, P, R, N),
         NEW d \in Devices, PostFails(d)
  PROVE  Within(O, P, R, N)' /\ Keeps(d) /\ Posted(d)
<1>1. /\ Commit(d) \/ UNCHANGED room
      /\ post' = [post EXCEPT ![d] = NoPost]
      /\ UNCHANGED <<cl, files, ses, wire, http>>
  BY DEF PostFails
<1>2. Posts(O)'
  <2>1. NoPost \in PostIn(O[d])
    BY DEF NoPost, PostIn
  <2> QED BY <1>1, <2>1, PostSet DEF Within
<1>3. Posted(d)
  BY <1>1 DEF Posted, Commit
<1> QED BY <1>1, <1>2, <1>3, Stays DEF Within, files, wire

-----------------------------------------------------------------------------
(* The room *)

LEMMA ReceivedTyped ==
  ASSUME NEW O, NEW P, NEW R, NEW N, Within(O, P, R, N), NEW d \in Devices, NEW t,
         Received(d, t)
  PROVE  /\ Head(c2s[d]) \in Up(P[d]) /\ Head(c2s[d]).t = t
         /\ Tail(c2s[d]) \in Seq(Up(P[d]))
         /\ t = "hello" => socket[d] = "new"
         /\ t # "hello" => socket[d] = "ready" /\ NoHello(Tail(c2s[d]))
<1>1. /\ c2s[d] \in Seq(Up(P[d])) /\ c2s[d] # <<>> /\ Head(c2s[d]).t = t
      /\ socket[d] \in {"new", "ready"}
  BY WithinAt DEF Received, Within, Sockets, Typed
<1>2. GreetOK(ses[d].ph, socket[d], c2s[d], s2c[d])
  BY DEF Within, Greeted
<1>3. Head(c2s[d]) = c2s[d][1] /\ 1 \in DOMAIN c2s[d]
  BY <1>1
<1>4. \A i \in DOMAIN Tail(c2s[d]) : i + 1 \in DOMAIN c2s[d] /\ Tail(c2s[d])[i] = c2s[d][i + 1]
  BY <1>1
<1>5. t = "hello" => socket[d] = "new"
  BY <1>1, <1>2, <1>3 DEF GreetOK, NoHello
<1>6. t # "hello" => socket[d] # "new"
  <2>1. Head(<<[t |-> "hello"]>>).t = "hello"
    OBVIOUS
  <2> QED BY <1>1, <1>2, <2>1 DEF GreetOK
<1>7. NoHello(c2s[d]) => NoHello(Tail(c2s[d]))
  BY <1>4 DEF NoHello
<1>8. Head(c2s[d]) \in Up(P[d]) /\ Tail(c2s[d]) \in Seq(Up(P[d]))
  BY <1>1, SeqHead
<1> QED BY <1>1, <1>2, <1>5, <1>6, <1>7, <1>8 DEF GreetOK

\* The room appends to queues whose hello it has answered.
LEMMA RoomGreets ==
  ASSUME NEW O, NEW P, NEW R, NEW N, Within(O, P, R, N), UNCHANGED <<ses, socket>>,
         \A d \in Devices : \/ c2s'[d] = c2s[d]
                            \/ socket[d] = "ready" /\ NoHello(c2s'[d]),
         \A d \in Devices : \/ s2c'[d] = s2c[d]
                            \/ socket[d] = "ready" /\ \E m : s2c'[d] = Append(s2c[d], m)
  PROVE  Greeted'
<1>1. ASSUME NEW d \in Devices
      PROVE  GreetOK(ses[d].ph, socket[d], c2s'[d], s2c'[d])
  <2>1. GreetOK(ses[d].ph, socket[d], c2s[d], s2c[d])
    BY DEF Within, Greeted
  <2>2. s2c[d] \in Seq(Down(P[d], R))
    BY WithinAt
  <2>3. CASE s2c'[d] = s2c[d]
    BY <2>1, <2>3 DEF GreetOK
  <2>4. CASE socket[d] = "ready" /\ \E m : s2c'[d] = Append(s2c[d], m)
    <3>1. s2c'[d] # <<>> /\ (s2c[d] # <<>> => Head(s2c'[d]) = Head(s2c[d]))
      BY <2>2, <2>4, AppendHead
    <3> QED BY <2>1, <2>4, <3>1 DEF GreetOK
  <2> QED BY <2>3, <2>4
<1> QED BY <1>1 DEF Greeted

LEMMA RoomHelloWithin ==
  ASSUME NEW O, NEW P, NEW R, NEW N, Within(O, P, R, N), Frames(O, P, R, N),
         room \in RoomIn, NEW d \in Devices, RoomHello(d)
  PROVE  Within(O, P, R, N)' /\ Keeps(d)
<1> DEFINE m == [t |-> "state", st |-> State(room)]
<1>1. /\ Received(d, "hello")
      /\ socket' = [socket EXCEPT ![d] = "ready"]
      /\ c2s' = [c2s EXCEPT ![d] = Tail(c2s[d])]
      /\ s2c' = [s2c EXCEPT ![d] = Append(s2c[d], m)]
      /\ UNCHANGED <<cl, files, ses, http, post, late>>
  BY DEF RoomHello
<1>2. Tail(c2s[d]) \in Seq(Up(P[d])) /\ socket[d] = "new"
  BY <1>1, ReceivedTyped
<1>3. ses[d].ph = "hello" /\ c2s[d] = <<[t |-> "hello"]>> /\ s2c[d] = <<>>
  BY <1>2 DEF Within, Greeted, GreetOK
<1>4. m \in Down(P[d], R)
  <2>1. State(room) \in StateIn(R)
    BY RowsTyped, StateGrows DEF Frames
  <2> QED BY <2>1 DEF Down
<1>5. m.t = "state"
  OBVIOUS
<1> HIDE DEF m
<1>6. Ups(P)' /\ Sockets'
  BY <1>1, <1>2, UpSet, SocketSet DEF Within
<1>7. Append(s2c[d], m) = <<m>> /\ <<m>> \in Seq(Down(P[d], R))
  BY <1>3, <1>4
<1>8. Downs(P, R)'
  BY <1>1, <1>7, DownSet DEF Within
<1>9. /\ ses'[d].ph = "hello" /\ socket'[d] = "ready" /\ c2s'[d] = <<>> /\ s2c'[d] = <<m>>
      /\ \A e \in Devices \ {d} : /\ ses'[e] = ses[e] /\ socket'[e] = socket[e]
                                  /\ c2s'[e] = c2s[e] /\ s2c'[e] = s2c[e]
  <2>1. Tail(c2s[d]) = <<>>
    BY <1>3
  <2> QED BY <1>1, <1>3, <1>7, <2>1 DEF Within, Typed, Sockets, Ups, Downs
<1>10. GreetOK("hello", "ready", <<>>, <<m>>)
  <2>1. <<m>> # <<>> /\ Head(<<m>>) = m
    OBVIOUS
  <2> QED BY <1>5, <2>1 DEF GreetOK, NoHello
<1>11. Greeted'
  BY <1>9, <1>10, GreetOne DEF Within
<1> QED BY <1>1, <1>6, <1>8, <1>11, Stays DEF Within, files

\* What a room event that is not a hello's leaves of the sockets.
LEMMA RoomAnswers ==
  ASSUME NEW O, NEW P, NEW R, NEW N, Within(O, P, R, N), NEW d \in Devices,
         socket[d] = "ready", NEW up \in Seq(Up(P[d])), NoHello(up), NEW down,
         c2s' = [c2s EXCEPT ![d] = up],
         s2c' = [s2c EXCEPT ![d] = Append(s2c[d], down)], down \in Down(P[d], R),
         UNCHANGED <<ses, socket>>
  PROVE  Ups(P)' /\ Downs(P, R)' /\ Greeted'
<1>1. Ups(P)'
  BY UpSet DEF Within
<1>2. s2c[d] \in Seq(Down(P[d], R))
  BY WithinAt
<1>3. Append(s2c[d], down) \in Seq(Down(P[d], R))
  BY <1>2
<1>4. Downs(P, R)'
  BY <1>3, DownSet DEF Within
<1>5. \A e \in Devices : \/ c2s'[e] = c2s[e]
                         \/ socket[e] = "ready" /\ NoHello(c2s'[e])
  BY DEF Within, Typed, Ups
<1>6. \A e \in Devices : \/ s2c'[e] = s2c[e]
                         \/ socket[e] = "ready" /\ \E m : s2c'[e] = Append(s2c[e], m)
  BY DEF Within, Typed, Downs
<1>7. Greeted'
  BY <1>5, <1>6, RoomGreets
<1> QED BY <1>1, <1>4, <1>7

LEMMA RoomRowsWithin ==
  ASSUME NEW O, NEW P, NEW R, NEW N, Within(O, P, R, N), Frames(O, P, R, N),
         room \in RoomIn, NEW d \in Devices, RoomRows(d)
  PROVE  Within(O, P, R, N)' /\ Keeps(d)
<1> DEFINE rows == RowsAfter(room, Head(c2s[d]).after,
                             IF Head(c2s[d]).excludeOwn THEN d ELSE NoDevice)
           m == [t |-> "rows", rows |-> rows, done |-> TRUE, head |-> HeadSeq(room)]
<1>1. /\ Received(d, "rowsReq")
      /\ c2s' = [c2s EXCEPT ![d] = Tail(c2s[d])]
      /\ s2c' = [s2c EXCEPT ![d] = Append(s2c[d], m)]
      /\ UNCHANGED <<cl, files, ses, socket, http, post, late>>
  BY DEF RoomRows
<1>2. Tail(c2s[d]) \in Seq(Up(P[d])) /\ socket[d] = "ready" /\ NoHello(Tail(c2s[d]))
  BY <1>1, ReceivedTyped
<1>3. m \in Down(P[d], R)
  <2>1. rows \in RowMap(R)
    BY RowsTyped, RowMapGrows DEF Frames
  <2>2. HeadSeq(room) \in Nat
    BY RowsTyped
  <2> HIDE DEF rows
  <2> QED BY <2>1, <2>2 DEF Down
<1> HIDE DEF m
<1>4. Ups(P)' /\ Downs(P, R)' /\ Greeted'
  BY <1>1, <1>2, <1>3, RoomAnswers
<1> QED BY <1>1, <1>4, Stays DEF Within, files

LEMMA NoHelloCons ==
  ASSUME NEW S, NEW q \in Seq(S), NEW m, m.t # "hello", NoHello(q)
  PROVE  NoHello(<<m>> \o q)
<1>1. ASSUME NEW i \in DOMAIN (<<m>> \o q)
      PROVE  (<<m>> \o q)[i] = m \/ (i - 1 \in DOMAIN q /\ (<<m>> \o q)[i] = q[i - 1])
  OBVIOUS
<1> QED BY <1>1 DEF NoHello

\* The first push of a queue: its oldest batch, and the queue without it.
LEMMA PushTakenTyped ==
  ASSUME NEW O, NEW P, NEW R, NEW N, Within(O, P, R, N), Frames(O, P, R, N),
         NEW d \in Devices, Received(d, "push"), PushTaken(d)
  PROVE  /\ Min(Head(c2s[d]).batches) \in P[d]
         /\ socket[d] = "ready"
         /\ \E up \in Seq(Up(P[d])) : NoHello(up) /\ c2s' = [c2s EXCEPT ![d] = up]
<1> DEFINE m == Head(c2s[d])
           left == m.batches \ {Min(m.batches)}
           k == [m EXCEPT !.batches = left]
           up == (IF left = {} THEN <<>> ELSE <<k>>) \o Tail(c2s[d])
<1>1. /\ m \in Up(P[d]) /\ m.t = "push" /\ Tail(c2s[d]) \in Seq(Up(P[d]))
      /\ socket[d] = "ready" /\ NoHello(Tail(c2s[d]))
  BY ReceivedTyped
<1>2. /\ m \in [t : {"push"}, batches : (SUBSET P[d]) \ {{}}]
      /\ P[d] \subseteq Nat
  BY <1>1 DEF Up, Frames
<1>3. Min(m.batches) \in P[d] /\ left \subseteq P[d]
  <2>1. m.batches # {} /\ m.batches \subseteq P[d]
    BY <1>2
  <2> QED BY <1>2, <2>1, MinIn
<1>4. c2s' = [c2s EXCEPT ![d] = up]
  BY DEF PushTaken
<1> HIDE DEF left
<1>5. CASE left = {}
  <2>1. up = Tail(c2s[d])
    BY <1>1, <1>5
  <2> QED BY <1>1, <1>3, <1>4, <2>1
<1>6. CASE left # {}
  <2>1. k \in [t : {"push"}, batches : (SUBSET P[d]) \ {{}}] /\ k.t = "push"
    BY <1>2, <1>3, <1>6
  <2>2. k \in Up(P[d])
    BY <2>1 DEF Up
  <2> HIDE DEF k, m
  <2>3. up = <<k>> \o Tail(c2s[d])
    BY <1>6
  <2>4. up \in Seq(Up(P[d]))
    BY <1>1, <2>2, <2>3, SeqCons
  <2>5. NoHello(up)
    BY <1>1, <2>1, <2>3, NoHelloCons
  <2> HIDE DEF up
  <2> QED BY <1>1, <1>3, <1>4, <2>4, <2>5 DEF m
<1> QED BY <1>5, <1>6

LEMMA RoomQuotaWithin ==
  ASSUME NEW O, NEW P, NEW R, NEW N, Within(O, P, R, N), Frames(O, P, R, N),
         NEW d \in Devices, RoomQuota(d)
  PROVE  Within(O, P, R, N)' /\ Keeps(d)
<1>1. /\ Received(d, "push") /\ PushTaken(d)
      /\ s2c' = [s2c EXCEPT ![d] = Append(s2c[d], [t |-> "quota"])]
      /\ UNCHANGED <<cl, files, ses, socket, http, post, late>>
  BY DEF RoomQuota
<1>2. PICK up \in Seq(Up(P[d])) : NoHello(up) /\ c2s' = [c2s EXCEPT ![d] = up]
  BY <1>1, PushTakenTyped
<1>3. [t |-> "quota"] \in Down(P[d], R)
  BY DEF Down
<1>4. Ups(P)' /\ Downs(P, R)' /\ Greeted'
  BY <1>1, <1>2, <1>3, PushTakenTyped, RoomAnswers
<1> QED BY <1>1, <1>4, Stays DEF Within, files

LEMMA RoomPushWithin ==
  ASSUME NEW O, NEW P, NEW R, NEW N, Within(O, P, R, N), Frames(O, P, R, N),
         Reaches(O, R, N), room \in RoomIn, room.floor <= HeadSeq(room),
         NEW d \in Devices, RoomPush(d)
  PROVE  /\ Within(O, P, R, N)' /\ Keeps(d)
         /\ \E b \in P[d] : room' = AppendRow(room, d, b)
<1> DEFINE b == Min(Head(c2s[d]).batches)
           ack == [t |-> "ack", batch |-> b, seq |-> AckSeq(room, b)]
           down == Append(s2c[d], ack)
<1>1. /\ Received(d, "push") /\ PushTaken(d)
      /\ room' = AppendRow(room, d, b)
      /\ s2c' = [Relayed(b, d) EXCEPT ![d] = down]
      /\ UNCHANGED <<cl, files, ses, socket, http, post, late>>
  BY DEF RoomPush
<1>2. b \in P[d] /\ socket[d] = "ready"
  BY <1>1, PushTakenTyped
<1>3. PICK up \in Seq(Up(P[d])) : NoHello(up) /\ c2s' = [c2s EXCEPT ![d] = up]
  BY <1>1, PushTakenTyped
<1>4. b \in R /\ b \in Nat
  <2>1. b \in Nat
    BY <1>2 DEF Frames
  <2> QED BY <1>1, <2>1, AppendedIn
<1>5. AckSeq(room, b) \in Nat
  BY AckTyped
<1> HIDE DEF b
<1>6. ack \in Down(P[d], R)
  BY <1>2, <1>4, <1>5 DEF Down
<1> HIDE DEF ack
<1>7. s2c[d] \in Seq(Down(P[d], R))
  BY WithinAt
<1>8. down \in Seq(Down(P[d], R))
  BY <1>6, <1>7
<1>9. Typed(Relayed(b, d), [e \in Devices |-> Seq(Down(P[e], R))])
  BY <1>4, RelayedTyped
<1>10. Downs(P, R)'
  <2> DEFINE S == [e \in Devices |-> Seq(Down(P[e], R))]
  <2>1. S[d] = Seq(Down(P[d], R))
    OBVIOUS
  <2>2. Typed([Relayed(b, d) EXCEPT ![d] = down], S)
    <3> HIDE DEF S, down
    <3> QED BY <1>8, <1>9, <2>1, TypedOne DEF S
  <2> QED BY <1>1, <2>2 DEF Downs
<1>11. Ups(P)'
  BY <1>3, UpSet DEF Within
<1>12. \A e \in Devices : \/ c2s'[e] = c2s[e]
                          \/ socket[e] = "ready" /\ NoHello(c2s'[e])
  BY <1>2, <1>3 DEF Within, Typed, Ups
<1>13. ASSUME NEW e \in Devices
       PROVE  \/ s2c'[e] = s2c[e]
              \/ socket[e] = "ready" /\ \E m : s2c'[e] = Append(s2c[e], m)
  <2>1. CASE e = d
    BY <1>1, <1>2, <1>9, <2>1 DEF Typed
  <2>2. CASE e # d
    <3>1. s2c'[e] = Relayed(b, d)[e]
      BY <1>1, <1>9, <2>2 DEF Typed
    <3>2. \/ Relayed(b, d)[e] = s2c[e]
          \/ socket[e] = "ready" /\ \E m : Relayed(b, d)[e] = Append(s2c[e], m)
      BY DEF Relayed
    <3> QED BY <3>1, <3>2
  <2> QED BY <2>1, <2>2
<1>14. Greeted'
  BY <1>1, <1>12, <1>13, RoomGreets
<1> QED BY <1>1, <1>2, <1>10, <1>11, <1>14, Stays DEF Within, files

LEMMA RoomLateWithin ==
  ASSUME NEW O, NEW P, NEW R, NEW N, Within(O, P, R, N), Frames(O, P, R, N),
         Reaches(O, R, N), room \in RoomIn, room.floor <= HeadSeq(room), RoomLate
  PROVE  /\ Within(O, P, R, N)' /\ UNCHANGED cl
         /\ \E p \in late : room' = AppendRow(room, p.device, p.batch)
<1>1. PICK p \in late :
        /\ room' = AppendRow(room, p.device, p.batch)
        /\ s2c' = Relayed(p.batch, NoDevice)
        /\ late' = late \ {p}
        /\ UNCHANGED <<cl, files, ses, socket, c2s, http, post>>
  BY DEF RoomLate
<1>2. p.device \in Devices /\ p.batch \in Nat
  BY DEF Within, LateIn
<1>3. p.batch \in R
  BY <1>1, <1>2, AppendedIn
<1>4. Downs(P, R)'
  BY <1>1, <1>3, RelayedTyped DEF Downs
<1>5. Greeted'
  BY <1>1, RelayedGreets
<1>6. late' \subseteq LateIn(O)
  BY <1>1 DEF Within
<1> QED BY <1>1, <1>4, <1>5, <1>6, Stays DEF Within, files

-----------------------------------------------------------------------------
(* Faults *)

LEMMA ResetWithin ==
  ASSUME NEW O, NEW P, NEW R, NEW N, Within(O, P, R, N), Reset
  PROVE  Within(O, P, R, N)' /\ room' = NewRoom /\ UNCHANGED <<deps, store, cl, files>>
<1>1. /\ room' = NewRoom
      /\ socket' = [d \in Devices |-> "closed"]
      /\ c2s' = [d \in Devices |-> <<>>]
      /\ UNCHANGED <<deps, store, cl, files, ses, s2c, http, post, late>>
  BY DEF Reset
<1>2. Sockets'
  BY <1>1 DEF Sockets, Typed
<1>3. Ups(P)'
  BY <1>1 DEF Ups, Typed
<1>4. Greeted'
  <2>1. ASSUME NEW d \in Devices
        PROVE  GreetOK(ses[d].ph, "closed", <<>>, s2c[d])
    BY DEF Within, Greeted, GreetOK, NoHello
  <2> QED BY <1>1, <2>1 DEF Greeted
<1> QED BY <1>1, <1>2, <1>3, <1>4, Stays DEF Within, files

\* The client of a document within O, over no ticket.
LEMMA NewClientTyped ==
  ASSUME NEW B, NEW n \in Nat, NEW held \in SUBSET B, NEW cursor \in Nat, NEW host \in BOOLEAN
  PROVE  /\ NewClient(held, cursor, host) \in ClientIn(B, n)
         /\ NewClient(held, cursor, host).held = held
         /\ NewClient(held, cursor, host).asked = 0
<1>1. NoView \in [known : BOOLEAN, rows : Int, has : BOOLEAN]
  BY DEF NoView
<1> QED BY <1>1 DEF NewClient, ClientIn

\* A crash takes the device's tickets with it: M may bound them anew.
LEMMA CrashWithin ==
  ASSUME NEW O, NEW P, NEW R, NEW N, Within(O, P, R, N), Frames(O, P, R, N),
         ChatAssumption, NEW d \in Devices, Crash(d),
         NEW M, M[d] \in Nat, \A e \in Devices \ {d} : M[e] = N[e]
  PROVE  /\ Within(O, P, R, M)'
         /\ \A e \in Devices \ {d} : cl'[e] = cl[e]
         /\ cl'[d].held = Reopened(d) /\ cl'[d].asked = 0
<1> DEFINE c == NewClient(Reopened(d), disk[d].cursor, d = Host)
           h == Spawned(d, IdleHttp)
<1>1. /\ cl' = [cl EXCEPT ![d] = c]
      /\ flush' = [flush EXCEPT ![d] = NoFlush]
      /\ ses' = [ses EXCEPT ![d] = NoSession]
      /\ socket' = [socket EXCEPT ![d] = "closed"]
      /\ c2s' = [c2s EXCEPT ![d] = <<>>]
      /\ s2c' = [s2c EXCEPT ![d] = <<>>]
      /\ http' = [http EXCEPT ![d] = h]
      /\ post' = [post EXCEPT ![d] = NoPost]
      /\ late' = late \union Orphans(d)
      /\ UNCHANGED <<deps, room, store, disk>>
  BY DEF Crash
<1>2. disk[d] \in DiskIn(O[d]) /\ outbox[d] \subseteq O[d]
  BY WithinAt DEF Frames
<1>3. c \in ClientIn(O[d], M[d]) /\ c.held = Reopened(d) /\ c.asked = 0
  <2>1. Reopened(d) \subseteq O[d] /\ disk[d].cursor \in Nat
    BY <1>2 DEF Reopened, DiskIn
  <2>2. PICK host \in BOOLEAN : host = (d = Host)
    OBVIOUS
  <2>3. NewClient(Reopened(d), disk[d].cursor, host) \in ClientIn(O[d], M[d])
    BY <2>1, NewClientTyped
  <2>4. /\ NewClient(Reopened(d), disk[d].cursor, host).held = Reopened(d)
        /\ NewClient(Reopened(d), disk[d].cursor, host).asked = 0
    BY DEF NewClient
  <2> QED BY <2>2, <2>3, <2>4
<1>4. h \in HttpIn(P[d], R, M[d]) /\ NoSession \in SessionIn(R, M[d])
  BY Blank, SpawnedTyped
<1>5. ASSUME NEW e \in Devices
      PROVE  /\ cl[e] \in ClientIn(O[e], N[e]) /\ ses[e] \in SessionIn(R, N[e])
             /\ http[e] \in HttpIn(P[e], R, N[e])
  BY WithinAt
<1> HIDE DEF c, h
<1>6. Clients(O, M)' /\ Becomes(d, c)
  BY <1>1, <1>3, <1>5 DEF Within, Clients, Typed, Becomes
<1>7. Sessions(R, M)'
  BY <1>1, <1>4, <1>5 DEF Within, Sessions, Typed
<1>8. Https(P, R, M)'
  BY <1>1, <1>4, <1>5 DEF Within, Https, Typed
<1>9. Flushes' /\ Sockets'
  BY <1>1, FlushSet, SocketSet DEF Within
<1>10. Posts(O)'
  BY <1>1, <1>4, Blank, PostSet DEF Within, PostIn, NoPost
<1>11. Ups(P)'
  <2>1. <<>> \in Seq(Up(P[d]))
    OBVIOUS
  <2> QED BY <1>1, <2>1, UpSet DEF Within
<1>12. Downs(P, R)'
  <2>1. <<>> \in Seq(Down(P[d], R))
    OBVIOUS
  <2> QED BY <1>1, <2>1, DownSet DEF Within
<1>13. late' \subseteq LateIn(O)
  BY <1>1, OrphansLate DEF Within
<1>14. Greeted'
  <2>1. /\ ses'[d].ph = "down" /\ socket'[d] = "closed"
        /\ c2s'[d] = <<>> /\ s2c'[d] = <<>>
        /\ \A e \in Devices \ {d} : /\ ses'[e] = ses[e] /\ socket'[e] = socket[e]
                                    /\ c2s'[e] = c2s[e] /\ s2c'[e] = s2c[e]
    BY <1>1 DEF Within, Typed, Sockets, Sessions, Ups, Downs, NoSession
  <2>2. GreetOK("down", "closed", <<>>, <<>>)
    BY DEF GreetOK, NoHello
  <2> QED BY <2>1, <2>2, GreetOne DEF Within
<1>15. Disks(O)'
  BY <1>1, Stays
<1>16. /\ \A e \in Devices \ {d} : cl'[e] = cl[e]
       /\ cl'[d].held = Reopened(d) /\ cl'[d].asked = 0
  BY <1>3, <1>6 DEF Becomes
<1> QED BY <1>6, <1>7, <1>8, <1>9, <1>10, <1>11, <1>12, <1>13, <1>14, <1>15, <1>16 DEF Within

LEMMA InitWithin ==
  ASSUME NEW O, NEW P, NEW R, NEW N, ChatAssumption, Init, \A d \in Devices : N[d] \in Nat
  PROVE  Within(O, P, R, N)
<1>1. ASSUME NEW d \in Devices
      PROVE  /\ NewClient({}, 0, d = Host) \in ClientIn(O[d], N[d])
             /\ NoSession \in SessionIn(R, N[d])
             /\ Spawned(d, IdleHttp) \in HttpIn(P[d], R, N[d])
             /\ NoPost \in PostIn(O[d])
  <2>1. PICK host \in BOOLEAN : host = (d = Host)
    OBVIOUS
  <2>2. NewClient({}, 0, host) \in ClientIn(O[d], N[d])
    BY NewClientTyped
  <2> QED BY <2>1, <2>2, Blank, SpawnedTyped
<1>2. Clients(O, N) /\ Sessions(R, N) /\ Https(P, R, N) /\ Posts(O)
  BY <1>1 DEF Init, Clients, Sessions, Https, Posts, Typed
<1>3. Disks(O) /\ Flushes /\ Sockets
  BY DEF Init, Disks, Flushes, Sockets, Typed, DiskIn
<1>4. Ups(P) /\ Downs(P, R)
  BY DEF Init, Ups, Downs, Typed
<1>5. Greeted
  BY DEF Init, Greeted, GreetOK, NoHello, NoSession
<1>6. late \subseteq LateIn(O)
  BY DEF Init
<1> QED BY <1>2, <1>3, <1>4, <1>5, <1>6 DEF Within

-----------------------------------------------------------------------------
(* Every step, as what it does to the room and to the documents *)

\* The room in terms of the batches B.
RoomOf(r, B) == /\ r \in [log : Seq([device : Devices, batch : B]), floor : Nat,
                          has : BOOLEAN, ckpt : SUBSET B]
                /\ r.floor <= HeadSeq(r)

Appends(O) == \E d \in Devices : \E b \in O[d] : room' = AppendRow(room, d, b)

Compacts ==
  \E d \in Devices : /\ post[d].ph = "exported" /\ Acceptable(room, post[d].seq)
                     /\ room' = CommitCheckpoint(room, post[d].seq, post[d].content)

\* What a step may do to the room.
RoomMoves(O) == UNCHANGED room \/ Appends(O) \/ Compacts
                \/ ("reset" \in Faults /\ room' = NewRoom)

LEMMA RoomMoved ==
  ASSUME NEW O, NEW P, NEW R, NEW N, Within(O, P, R, N), Frames(O, P, R, N), Next
  PROVE  RoomMoves(O)
<1>1. ASSUME NEW d \in Devices, HttpPost(d)
      PROVE  Appends(O)
  <2>1. http[d] \in HttpIn(P[d], R, N[d]) /\ P[d] \subseteq Nat /\ P[d] \subseteq O[d]
    BY WithinAt DEF Frames
  <2>2. http[d].todo \subseteq P[d] /\ http[d].todo # {}
    BY <1>1, <2>1 DEF HttpIn, HttpRec, HttpPost
  <2>3. Min(http[d].todo) \in http[d].todo
    BY <2>1, <2>2, MinIn
  <2> QED BY <1>1, <2>1, <2>2, <2>3 DEF Appends, HttpPost
<1>2. ASSUME NEW d \in Devices, RoomPush(d)
      PROVE  Appends(O)
  <2>1. Min(Head(c2s[d]).batches) \in P[d] /\ P[d] \subseteq O[d]
    BY <1>2, PushTakenTyped DEF RoomPush, Frames
  <2> QED BY <1>2, <2>1 DEF Appends, RoomPush
<1>3. ASSUME RoomLate
      PROVE  Appends(O)
  BY <1>3 DEF RoomLate, Within, LateIn, Appends
<1>4. ASSUME NEW d \in Devices, Commit(d), post[d].ph = "exported"
      PROVE  UNCHANGED room \/ Compacts
  BY <1>4 DEF Commit, Compacts
<1>5. ASSUME NEW d \in Devices, PostCheckpoint(d) \/ PostFails(d)
      PROVE  UNCHANGED room \/ Compacts
  BY <1>4, <1>5 DEF PostCheckpoint, PostFails
<1>6. Reset => "reset" \in Faults /\ room' = NewRoom
  BY DEF Reset, Fault
<1>7. ASSUME NEW d \in Devices, Write(d) \/ RequestCatchUp(d) \/ Actor(d) \/ Clock(d)
      PROVE  UNCHANGED room
  BY <1>7 DEF Write, RequestCatchUp, Actor, Clock, Dial, RecvClose, RecvState, Fetch, Import,
       RecvRow, RecvAck, RecvQuota, RecvDone, Refresh, PushPending, PushHead
<1>8. ASSUME NEW d \in Devices, Cycle(d), ~HttpPost(d)
      PROVE  UNCHANGED room
  BY <1>8 DEF Cycle, HttpStart, HttpAck, HttpGet, HttpState, HttpFetch, HttpImport, HttpRow
<1>9. ASSUME NEW d \in Devices, Poster(d) \/ Persister(d), ~PostCheckpoint(d)
      PROVE  UNCHANGED room
  BY <1>9 DEF Poster, Persister, PostDue, Bootstrap, HostEvent, Export, FlushSample, FlushSave
<1>10. ASSUME NEW d \in Devices, Room(d) \/ Failure(d), ~RoomPush(d), ~PostFails(d)
       PROVE  UNCHANGED room
  BY <1>10 DEF Room, Failure, RoomHello, RoomRows, DialFails, Disconnect, HttpQuota,
       HttpPostFails, HttpFails, RoomQuota, Crash
<1>11. ASSUME NEW d \in Devices,
              \/ Write(d) \/ RequestCatchUp(d) \/ Actor(d) \/ Clock(d) \/ Cycle(d)
              \/ Poster(d) \/ Persister(d) \/ Room(d) \/ Failure(d)
       PROVE  RoomMoves(O)
  BY <1>1, <1>2, <1>5, <1>7, <1>8, <1>9, <1>10, <1>11 DEF RoomMoves
<1> QED BY <1>3, <1>6, <1>11 DEF Next, RoomMoves

\* The room stays a room of those batches.
LEMMA RoomKept ==
  ASSUME NEW O, NEW P, NEW R, NEW N, Within(O, P, R, N), RoomMoves(O), NEW B, RoomOf(room, B),
         B \subseteq Nat, \A d \in Devices : O[d] \subseteq B
  PROVE  RoomOf(room', B)
<1>1. CASE UNCHANGED room
  BY <1>1 DEF RoomOf
<1>2. CASE Appends(O)
  <2>1. PICK d \in Devices : \E b \in O[d] : room' = AppendRow(room, d, b)
    BY <1>2 DEF Appends
  <2>2. PICK b \in O[d] : room' = AppendRow(room, d, b)
    BY <2>1
  <2> DEFINE row == [device |-> d, batch |-> b]
             log == Append(room.log, row)
  <2>3. CASE RowOf(room, b) # {}
    BY <2>2, <2>3 DEF AppendRow, RoomOf
  <2>4. CASE RowOf(room, b) = {}
    <3>1. room' = [room EXCEPT !.log = log]
      BY <2>2, <2>4 DEF AppendRow
    <3>2. row \in [device : Devices, batch : B]
      OBVIOUS
    <3>3. room.log \in Seq([device : Devices, batch : B]) /\ room.floor <= Len(room.log)
      BY DEF RoomOf, HeadSeq
    <3> HIDE DEF row
    <3>4. /\ log \in Seq([device : Devices, batch : B])
          /\ Len(log) = Len(room.log) + 1 /\ Len(room.log) \in Nat
      BY <3>2, <3>3
    <3> HIDE DEF log
    <3>5. room' \in [log : Seq([device : Devices, batch : B]), floor : Nat,
                     has : BOOLEAN, ckpt : SUBSET B]
      BY <3>1, <3>4 DEF RoomOf
    <3>6. room'.floor = room.floor /\ room'.log = log /\ room.floor \in Nat
      BY <3>1 DEF RoomOf
    <3> QED BY <3>3, <3>4, <3>5, <3>6 DEF RoomOf, HeadSeq
  <2> QED BY <2>3, <2>4
<1>3. CASE Compacts
  <2>1. PICK d \in Devices :
          /\ Acceptable(room, post[d].seq)
          /\ room' = CommitCheckpoint(room, post[d].seq, post[d].content)
    BY <1>3 DEF Compacts
  <2>2. post[d].seq \in Nat /\ post[d].content \subseteq B
    BY WithinAt DEF PostIn
  <2> QED BY <2>1, <2>2 DEF RoomOf, CommitCheckpoint, Acceptable, HeadSeq
<1>4. CASE room' = NewRoom
  BY <1>4 DEF RoomOf, NewRoom, HeadSeq
<1> QED BY <1>1, <1>2, <1>3, <1>4 DEF RoomMoves

LEMMA RoomOfGrows ==
  ASSUME NEW r, NEW B, NEW C, B \subseteq C, RoomOf(r, B)
  PROVE  RoomOf(r, C)
<1>1. [device : Devices, batch : B] \subseteq [device : Devices, batch : C]
  OBVIOUS
<1>2. Seq([device : Devices, batch : B]) \subseteq Seq([device : Devices, batch : C])
  BY <1>1, SeqGrow
<1> QED BY <1>2 DEF RoomOf

\* What it serves, and what it ever had, is what it was given.
LEMMA RoomServes ==
  ASSUME NEW r, NEW B, RoomOf(r, B)
  PROVE  Readable(r) \subseteq B /\ Admitted(r) \subseteq B
<1>1. ASSUME NEW s \in 1 .. HeadSeq(r)
      PROVE  r.log[s].batch \in B
  <2>1. s \in 1 .. Len(r.log) /\ r.log \in Seq([device : Devices, batch : B])
    BY DEF HeadSeq, RoomOf
  <2>2. ASSUME NEW T, NEW q \in Seq(T), NEW i \in 1 .. Len(q)
        PROVE  q[i] \in T
    OBVIOUS
  <2>3. r.log[s] \in [device : Devices, batch : B]
    BY <2>1, <2>2
  <2> QED BY <2>3
<1>2. Rows(r) \subseteq 1 .. HeadSeq(r) /\ r.ckpt \subseteq B
  BY DEF Rows, RoomOf, HeadSeq
<1> QED BY <1>1, <1>2 DEF Readable, Admitted

-----------------------------------------------------------------------------

\* A step that only reads; one that saves; one that learns that the room has b;
\* one that adds a row; one that posts a checkpoint.
Reading(d)   == Learns(d) /\ UNCHANGED <<deps, room, store, disk, wanted>>
Saving(d)    == /\ Keeps(d) /\ UNCHANGED <<deps, room, store, wanted>>
                /\ disk' = [disk EXCEPT ![d] = [doc |-> Doc(d), cursor |-> flush[d]]]
Retiring(d, S) == /\ Keeps(d) /\ UNCHANGED <<deps, room, rejected, disk, wanted>>
                  /\ \E b \in S : outbox' = [outbox EXCEPT ![d] = outbox[d] \ {b}]
Appending(O) == /\ UNCHANGED <<deps, store, disk, wanted>> /\ Appends(O)
                /\ \A d \in Devices : Keeps(d)
Posting(d)   == /\ Keeps(d) /\ UNCHANGED <<deps, disk, wanted>> /\ Posted(d)
                /\ \/ UNCHANGED store
                   \/ \E gone \in SUBSET post[d].content :
                        /\ gone # {} =>
                             room' = CommitCheckpoint(room, post[d].seq, post[d].content)
                        /\ outbox' = [outbox EXCEPT ![d] = outbox[d] \ gone]
                        /\ rejected' = [rejected EXCEPT ![d] = rejected[d] \ gone]
Writing(d)   == Write(d) /\ Learns(d) /\ cl'[d].held = cl[d].held \union {Len(deps) + 1}
Asking(d)    == /\ RequestCatchUp(d) /\ \A e \in Devices \ {d} : cl'[e] = cl[e]
                /\ cl'[d].held = cl[d].held /\ cl'[d].asked = cl[d].asked + 1
Wiping       == /\ Reset /\ room' = NewRoom /\ UNCHANGED <<deps, store, cl, files>>

\* What a step other than a crash does, of sets it stays in.
Effect(O, P, R) ==
  \/ \E d \in Devices : \/ Reading(d) \/ Saving(d) \/ Retiring(d, P[d] \intersect R)
                        \/ Posting(d) \/ Writing(d) \/ Asking(d)
  \/ Appending(O)
  \/ Wiping

LEMMA StepWithin ==
  ASSUME NEW O, NEW P, NEW R, NEW N, Within(O, P, R, N), Frames(O, P, R, N),
         Reaches(O, R, N), ChatAssumption, room \in RoomIn, room.floor <= HeadSeq(room),
         outbox \in [Devices -> SUBSET Nat], Next, \A d \in Devices : ~Crash(d)
  PROVE  Within(O, P, R, N)' /\ Effect(O, P, R)
<1> DEFINE Goal == Within(O, P, R, N)' /\ Effect(O, P, R)
<1>1. ASSUME NEW d \in Devices, Keeps(d) \/ Learns(d),
             UNCHANGED <<deps, room, store, disk, wanted>>
      PROVE  Reading(d)
  BY <1>1 DEF Reading, Keeps, Learns, Becomes
<1>2. ASSUME NEW d \in Devices, Reading(d) \/ Saving(d) \/ Posting(d) \/ Writing(d) \/ Asking(d)
      PROVE  Effect(O, P, R)
  BY <1>2 DEF Effect
<1>3. ASSUME NEW d \in Devices, Write(d) PROVE Goal
  <2>1. Within(O, P, R, N)' /\ Writing(d)
    BY <1>3, WriteWithin DEF Writing
  <2> QED BY <1>2, <2>1
<1>4. ASSUME NEW d \in Devices, RequestCatchUp(d) PROVE Goal
  <2>1. Within(O, P, R, N)' /\ Asking(d)
    BY <1>4, RequestCatchUpWithin DEF Asking
  <2> QED BY <1>2, <2>1
<1>5. ASSUME NEW d \in Devices, Actor(d), ~RecvAck(d) PROVE Goal
  <2>1. UNCHANGED <<deps, room, store, disk, wanted>>
    BY <1>5 DEF Actor, Dial, RecvClose, RecvState, Fetch, Import, RecvRow, RecvQuota, RecvDone,
       files
  <2>2. Within(O, P, R, N)' /\ (Keeps(d) \/ Learns(d))
    BY <1>5, DialWithin, EndsWithin, RecvStateWithin, FetchWithin, ImportWithin, RecvRowWithin,
       RecvQuotaWithin, RecvDoneWithin DEF Actor
  <2> QED BY <1>1, <1>2, <2>1, <2>2
<1>6. ASSUME NEW d \in Devices, RecvAck(d) PROVE Goal
  <2>1. /\ Within(O, P, R, N)' /\ Keeps(d)
        /\ \E b \in P[d] \intersect R : outbox' = [outbox EXCEPT ![d] = outbox[d] \ {b}]
    BY <1>6, RecvAckWithin
  <2>2. UNCHANGED <<deps, room, rejected, disk, wanted>>
    BY <1>6 DEF RecvAck, files
  <2> QED BY <2>1, <2>2 DEF Retiring, Effect
<1>7. ASSUME NEW d \in Devices, Clock(d) PROVE Goal
  <2>1. UNCHANGED <<deps, room, store, disk, wanted>>
    BY <1>7 DEF Clock, Refresh, PushPending, PushHead, files
  <2>2. Within(O, P, R, N)' /\ Keeps(d)
    BY <1>7, RefreshWithin, PushPendingWithin, PushHeadWithin DEF Clock
  <2> QED BY <1>1, <1>2, <2>1, <2>2
<1>8. ASSUME NEW d \in Devices, Cycle(d), ~HttpPost(d), ~HttpAck(d) PROVE Goal
  <2>1. UNCHANGED <<deps, room, store, disk, wanted>>
    BY <1>8 DEF Cycle, HttpStart, HttpGet, HttpState, HttpFetch, HttpImport, HttpRow, files
  <2>2. Within(O, P, R, N)' /\ (Keeps(d) \/ Learns(d))
    BY <1>8, HttpPushWithin, HttpGetWithin, HttpStateWithin, HttpImportWithin, HttpRowWithin
    DEF Cycle
  <2> QED BY <1>1, <1>2, <2>1, <2>2
<1>9. ASSUME NEW d \in Devices, HttpPost(d) PROVE Goal
  <2>1. /\ Within(O, P, R, N)'
        /\ \E b \in P[d] : room' = AppendRow(room, d, b)
    BY <1>9, HttpPostWithin
  <2>2. Appends(O)
    BY <2>1 DEF Appends, Frames
  <2>3. UNCHANGED <<deps, store, cl, disk, wanted>>
    BY <1>9 DEF HttpPost, files
  <2> QED BY <2>1, <2>2, <2>3, Stays DEF Appending, Effect
<1>10. ASSUME NEW d \in Devices, HttpAck(d) PROVE Goal
  <2>1. /\ Within(O, P, R, N)' /\ Keeps(d)
        /\ \E b \in P[d] \intersect R : outbox' = [outbox EXCEPT ![d] = outbox[d] \ {b}]
    BY <1>10, HttpAckWithin
  <2>2. UNCHANGED <<deps, room, rejected, disk, wanted>>
    BY <1>10 DEF HttpAck, files
  <2> QED BY <2>1, <2>2 DEF Retiring, Effect
<1>11. ASSUME NEW d \in Devices, Poster(d), ~PostCheckpoint(d) PROVE Goal
  <2>1. UNCHANGED <<deps, room, store, disk, wanted>>
    BY <1>11 DEF Poster, PostDue, Bootstrap, HostEvent, Export, files
  <2>2. Within(O, P, R, N)' /\ Keeps(d)
    BY <1>11, PosterWithin DEF Poster
  <2> QED BY <1>1, <1>2, <2>1, <2>2
<1>12. ASSUME NEW d \in Devices, PostCheckpoint(d) PROVE Goal
  <2>1. UNCHANGED <<deps, disk, wanted>>
    BY <1>12 DEF PostCheckpoint, files
  <2>2. Within(O, P, R, N)' /\ Posting(d)
    BY <1>12, <2>1, PostCheckpointWithin DEF Posting
  <2> QED BY <1>2, <2>2
<1>13. ASSUME NEW d \in Devices, PostFails(d) PROVE Goal
  <2>1. UNCHANGED <<deps, store, disk, wanted>>
    BY <1>13 DEF PostFails, files
  <2>2. Within(O, P, R, N)' /\ Keeps(d) /\ Posted(d)
    BY <1>13, PostFailsWithin
  <2>3. Posting(d)
    BY <2>1, <2>2 DEF Posting
  <2> QED BY <1>2, <2>2, <2>3
<1>14. ASSUME NEW d \in Devices, Persister(d) PROVE Goal
  <2>1. /\ Within(O, P, R, N)' /\ Keeps(d)
        /\ UNCHANGED disk \/ disk' = [disk EXCEPT ![d] = [doc |-> Doc(d), cursor |-> flush[d]]]
    BY <1>14, PersisterWithin
  <2>2. UNCHANGED <<deps, room, store, wanted>>
    BY <1>14 DEF Persister, FlushSample, FlushSave
  <2>3. Reading(d) \/ Saving(d)
    BY <1>1, <2>1, <2>2 DEF Saving
  <2> QED BY <1>2, <2>1, <2>3
<1>15. ASSUME NEW d \in Devices, RoomHello(d) \/ RoomRows(d) PROVE Goal
  <2>1. UNCHANGED <<deps, room, store, disk, wanted>>
    BY <1>15 DEF RoomHello, RoomRows, files
  <2>2. Within(O, P, R, N)' /\ Keeps(d)
    BY <1>15, RoomHelloWithin, RoomRowsWithin
  <2> QED BY <1>1, <1>2, <2>1, <2>2
<1>16. ASSUME NEW d \in Devices, RoomPush(d) PROVE Goal
  <2>1. /\ Within(O, P, R, N)'
        /\ \E b \in P[d] : room' = AppendRow(room, d, b)
    BY <1>16, RoomPushWithin
  <2>2. Appends(O)
    BY <2>1 DEF Appends, Frames
  <2>3. UNCHANGED <<deps, store, cl, disk, wanted>>
    BY <1>16 DEF RoomPush, files
  <2> QED BY <2>1, <2>2, <2>3, Stays DEF Appending, Effect
<1>17. ASSUME NEW d \in Devices, Failure(d), ~PostFails(d) PROVE Goal
  <2>1. ~Crash(d)
    OBVIOUS
  <2>2. UNCHANGED <<deps, room, store, disk, wanted>>
    BY <1>17, <2>1 DEF Failure, DialFails, Disconnect, HttpQuota, HttpPostFails, HttpFails,
       RoomQuota, files
  <2>3. Within(O, P, R, N)' /\ Keeps(d)
    BY <1>17, <2>1, EndsWithin, HttpPushWithin, HttpGetWithin, RoomQuotaWithin DEF Failure
  <2> QED BY <1>1, <1>2, <2>2, <2>3
<1>18. ASSUME RoomLate PROVE Goal
  <2>1. Within(O, P, R, N)' /\ UNCHANGED cl
    BY <1>18, RoomLateWithin
  <2>2. Appends(O)
    BY <1>18 DEF RoomLate, Within, LateIn, Appends
  <2>3. UNCHANGED <<deps, store, disk, wanted>>
    BY <1>18 DEF RoomLate, files
  <2> QED BY <2>1, <2>2, <2>3, Stays DEF Appending, Effect
<1>19. ASSUME Reset PROVE Goal
  <2>1. Within(O, P, R, N)' /\ Wiping
    BY <1>19, ResetWithin DEF Wiping
  <2> QED BY <2>1 DEF Effect
<1> QED
  BY <1>3, <1>4, <1>5, <1>6, <1>7, <1>8, <1>9, <1>10, <1>11, <1>12, <1>13, <1>14, <1>15,
     <1>16, <1>17, <1>18, <1>19 DEF Next, Room

-----------------------------------------------------------------------------
(* The types, of everything that was ever written *)

\* The steps that change what the others leave alone.
LEMMA HistoryMoved ==
  ASSUME Next
  PROVE  /\ UNCHANGED deps \/ \E d \in Devices : Write(d)
         /\ UNCHANGED wanted \/ Reset \/ \E d \in Devices : RequestCatchUp(d) \/ Crash(d)
         /\ UNCHANGED rejected \/ \E d \in Devices : Write(d) \/ PostCheckpoint(d)
<1>1. ASSUME NEW d \in Devices, Actor(d) \/ Clock(d) \/ Cycle(d)
      PROVE  UNCHANGED <<deps, wanted, rejected>>
  BY <1>1 DEF Actor, Clock, Cycle, Dial, RecvClose, RecvState, Fetch, Import, RecvRow, RecvAck,
       RecvQuota, RecvDone, Refresh, PushPending, PushHead, HttpStart, HttpPost, HttpAck,
       HttpGet, HttpState, HttpFetch, HttpImport, HttpRow, store
<1>2. ASSUME NEW d \in Devices, Poster(d)
      PROVE  UNCHANGED <<deps, wanted>> /\ (UNCHANGED rejected \/ PostCheckpoint(d))
  BY <1>2 DEF Poster, PostDue, Bootstrap, HostEvent, Export, PostCheckpoint, store
<1>3. ASSUME NEW d \in Devices, Persister(d) \/ Room(d)
      PROVE  UNCHANGED <<deps, wanted, rejected>>
  BY <1>3 DEF Persister, Room, FlushSample, FlushSave, RoomHello, RoomRows, RoomPush, store
<1>4. ASSUME NEW d \in Devices, Failure(d), ~Crash(d)
      PROVE  UNCHANGED <<deps, wanted, rejected>>
  BY <1>4 DEF Failure, DialFails, Disconnect, HttpQuota, HttpPostFails, HttpFails, PostFails,
       RoomQuota, store
<1>5. ASSUME NEW d \in Devices, Crash(d)
      PROVE  UNCHANGED <<deps, rejected>>
  BY <1>5 DEF Crash, store
<1>6. ASSUME NEW d \in Devices, Write(d)
      PROVE  UNCHANGED wanted
  BY <1>6 DEF Write
<1>7. ASSUME NEW d \in Devices, RequestCatchUp(d)
      PROVE  UNCHANGED <<deps, rejected>>
  BY <1>7 DEF RequestCatchUp, store
<1>8. RoomLate => UNCHANGED <<deps, wanted, rejected>>
  BY DEF RoomLate, store
<1>9. Reset => UNCHANGED <<deps, rejected>>
  BY DEF Reset, store
<1>10. ASSUME NEW d \in Devices,
              \/ Write(d) \/ RequestCatchUp(d) \/ Actor(d) \/ Clock(d) \/ Cycle(d)
              \/ Poster(d) \/ Persister(d) \/ Room(d) \/ Failure(d)
       PROVE  /\ UNCHANGED deps \/ Write(d)
              /\ UNCHANGED wanted \/ RequestCatchUp(d) \/ Crash(d)
              /\ UNCHANGED rejected \/ Write(d) \/ PostCheckpoint(d)
  BY <1>1, <1>2, <1>3, <1>4, <1>5, <1>6, <1>7, <1>10
<1> QED BY <1>8, <1>9, <1>10 DEF Next

\* Every batch, those a device may send, and the tickets it gave.
Every   == [d \in Devices |-> Batches]
Allowed == [d \in Devices |-> Batches \ rejected[d]]
Tickets == [d \in Devices |-> Len(wanted[d])]

\* What Spec keeps, before where a batch came from is considered.
Base ==
  /\ deps \in Seq(SUBSET Nat)
  /\ outbox \in [Devices -> SUBSET Nat] /\ rejected \in [Devices -> SUBSET Nat]
  /\ RoomOf(room, Batches)
  /\ wanted \in [Devices -> Seq(SUBSET Nat)]
  /\ \A d \in Devices :
       /\ rejected[d] \subseteq outbox[d] /\ outbox[d] \subseteq cl[d].held
       /\ cl[d].asked = Len(wanted[d])
  /\ Within(Every, Allowed, Batches, Tickets)

LEMMA BaseAt ==
  ASSUME Base, NEW d \in Devices
  PROVE  /\ cl[d] \in ClientIn(Batches, Len(wanted[d]))
         /\ disk[d] \in DiskIn(Batches)
         /\ ses[d] \in SessionIn(Batches, Len(wanted[d]))
         /\ post[d] \in PostIn(Batches)
         /\ Len(wanted[d]) \in Nat
         /\ cl[d].held \subseteq Batches /\ Batches \subseteq Nat
         /\ Doc(d) \subseteq cl[d].held
<1>1. Every[d] = Batches /\ Tickets[d] = Len(wanted[d])
  BY DEF Every, Tickets
<1>2. /\ cl[d] \in ClientIn(Every[d], Tickets[d])
      /\ disk[d] \in DiskIn(Every[d])
      /\ ses[d] \in SessionIn(Batches, Tickets[d])
      /\ post[d] \in PostIn(Every[d])
  BY DEF Base, Within, Typed, Clients, Disks, Sessions, Posts
<1>3. cl[d].held \subseteq Batches
  BY <1>1, <1>2 DEF ClientIn
<1>4. Len(wanted[d]) \in Nat
  BY DEF Base
<1>5. Batches \subseteq Nat
  BY DEF Batches
<1> QED BY <1>1, <1>2, <1>3, <1>4, <1>5 DEF Doc, Visible

LEMMA DepsMoved ==
  ASSUME Base, Next
  PROVE  /\ deps' \in Seq(SUBSET Nat)
         /\ Len(deps) \in Nat /\ Len(deps') \in Nat /\ Len(deps) <= Len(deps')
         /\ \A b \in 1 .. Len(deps) : deps'[b] = deps[b]
         /\ \A d \in Devices : Write(d) => Len(deps') = Len(deps) + 1
<1>1. deps \in Seq(SUBSET Nat)
  BY DEF Base
<1>2. ASSUME NEW d \in Devices, Write(d)
      PROVE  /\ deps' \in Seq(SUBSET Nat) /\ Len(deps') = Len(deps) + 1
             /\ \A b \in 1 .. Len(deps) : deps'[b] = deps[b]
  <2>1. deps' = Append(deps, Doc(d))
    BY <1>2 DEF Write
  <2>2. Doc(d) \in SUBSET Nat
    BY BaseAt
  <2> QED BY <1>1, <2>1, <2>2
<1> QED BY <1>1, <1>2, HistoryMoved

LEMMA RejectedMoved ==
  ASSUME Base, Next, NEW d \in Devices
  PROVE  /\ rejected' \in [Devices -> SUBSET Nat]
         /\ rejected'[d] \intersect Batches \subseteq rejected[d]
<1>1. rejected \in [Devices -> SUBSET Nat]
  BY DEF Base
<1>2. ASSUME NEW e \in Devices, Write(e)
      PROVE  /\ rejected' \in [Devices -> SUBSET Nat]
             /\ rejected'[d] \intersect Batches \subseteq rejected[d]
  <2> DEFINE b == Len(deps) + 1
  <2>1. \/ rejected' = [rejected EXCEPT ![e] = rejected[e] \union {b}]
        \/ rejected' = rejected
    BY <1>2 DEF Write
  <2>2. b \in Nat /\ b \notin Batches
    BY DEF Base, Batches
  <2> HIDE DEF b
  <2> QED BY <1>1, <2>1, <2>2
<1>3. ASSUME NEW e \in Devices, PostCheckpoint(e)
      PROVE  /\ rejected' \in [Devices -> SUBSET Nat]
             /\ rejected'[d] \intersect Batches \subseteq rejected[d]
  <2>1. \E gone : rejected' = [rejected EXCEPT ![e] = rejected[e] \ gone]
    BY <1>3 DEF PostCheckpoint
  <2> QED BY <1>1, <2>1
<1> QED BY <1>1, <1>2, <1>3, HistoryMoved

LEMMA WantedMoved ==
  ASSUME Base, Next, \A d \in Devices : ~Crash(d), NEW d \in Devices
  PROVE  /\ wanted' \in [Devices -> Seq(SUBSET Nat)]
         /\ Len(wanted'[d]) \in Nat /\ Len(wanted[d]) <= Len(wanted'[d])
         /\ RequestCatchUp(d) => Len(wanted'[d]) = Len(wanted[d]) + 1
<1>1. wanted \in [Devices -> Seq(SUBSET Nat)]
  BY DEF Base
<1>2. ASSUME NEW e \in Devices, RequestCatchUp(e)
      PROVE  /\ wanted' \in [Devices -> Seq(SUBSET Nat)]
             /\ wanted'[e] = Append(wanted[e], Admitted(room))
             /\ e # d => wanted'[d] = wanted[d]
  <2>1. wanted' = [wanted EXCEPT ![e] = Append(wanted[e], Admitted(room))]
    BY <1>2 DEF RequestCatchUp
  <2>2. Admitted(room) \in SUBSET Nat
    BY RoomServes, BaseAt DEF Base
  <2>3. Append(wanted[e], Admitted(room)) \in Seq(SUBSET Nat)
    BY <1>1, <2>2
  <2> QED BY <1>1, <2>1, <2>3
<1>3. ASSUME RequestCatchUp(d)
      PROVE  /\ wanted' \in [Devices -> Seq(SUBSET Nat)]
             /\ Len(wanted'[d]) = Len(wanted[d]) + 1
  <2>1. Admitted(room) \in SUBSET Nat
    BY RoomServes, BaseAt DEF Base
  <2> QED BY <1>1, <1>2, <1>3, <2>1
<1>4. ASSUME Reset
      PROVE  /\ wanted' \in [Devices -> Seq(SUBSET Nat)] /\ Len(wanted'[d]) = Len(wanted[d])
  <2>1. wanted' = [e \in Devices |-> [i \in DOMAIN wanted[e] |-> {}]]
    BY <1>4 DEF Reset
  <2>2. ASSUME NEW e \in Devices
        PROVE  /\ [i \in DOMAIN wanted[e] |-> {}] \in Seq(SUBSET Nat)
               /\ Len([i \in DOMAIN wanted[e] |-> {}]) = Len(wanted[e])
    <3>1. DOMAIN wanted[e] = 1 .. Len(wanted[e]) /\ Len(wanted[e]) \in Nat
      BY <1>1
    <3>2. [i \in 1 .. Len(wanted[e]) |-> {}] \in Seq(SUBSET Nat)
      BY <3>1
    <3>3. Len([i \in 1 .. Len(wanted[e]) |-> {}]) = Len(wanted[e])
      BY <3>1
    <3> QED BY <3>1, <3>2, <3>3
  <2> QED BY <2>1, <2>2
<1>5. Len(wanted[d]) \in Nat
  BY <1>1
<1> QED BY <1>1, <1>2, <1>3, <1>4, <1>5, HistoryMoved, SMTT(30)

\* Where each step finds the sets of the state it leads to.
LEMMA BaseFrames ==
  ASSUME NEW O, NEW P, NEW R, NEW N, Base, R \subseteq Nat, Batches \subseteq R,
         \A d \in Devices : /\ O[d] = R /\ P[d] \subseteq R /\ Allowed[d] \subseteq P[d]
                            /\ N[d] \in Nat
  PROVE  Frames(O, P, R, N)
<1>1. Readable(room) \subseteq R
  BY RoomServes DEF Base
<1>2. ASSUME NEW d \in Devices
      PROVE  outbox[d] \subseteq O[d] /\ Pending(d) \subseteq P[d]
  <2>1. outbox[d] \subseteq Batches
    BY BaseAt DEF Base
  <2>2. Pending(d) \subseteq Allowed[d]
    BY <2>1 DEF Pending, Allowed
  <2> QED BY <2>1, <2>2
<1> QED BY <1>1, <1>2 DEF Frames

\* Within, of the sets that the next state has.
LEMMA WithinNext ==
  ASSUME NEW O, NEW P, NEW R, NEW N, Within(O, P, R, N)',
         O = Every', P = Allowed', R = Batches', N = Tickets'
  PROVE  Within(Every, Allowed, Batches, Tickets)'
<1>1. Clients(Every, Tickets)' /\ Disks(Every)' /\ Flushes' /\ Posts(Every)' /\ Sockets' /\ Greeted'
  BY DEF Within, Clients, Disks, Posts, Typed
<1>2. Sessions(Batches, Tickets)' /\ Https(Allowed, Batches, Tickets)'
  BY DEF Within, Sessions, Https, Typed
<1>3. Ups(Allowed)' /\ Downs(Allowed, Batches)'
  BY DEF Within, Ups, Downs, Typed
<1>4. late' \subseteq LateIn(Every)'
  BY DEF Within, LateIn
<1> QED BY <1>1, <1>2, <1>3, <1>4 DEF Within

LEMMA BaseGrows ==
  ASSUME NEW O, NEW P, NEW R, NEW N, Base, Next, O = Every', P = Allowed', R = Batches',
         \A d \in Devices : N[d] \in Nat /\ Len(wanted[d]) <= N[d]
  PROVE  /\ Within(O, P, R, N) /\ Frames(O, P, R, N)
         /\ Batches \subseteq R /\ R \subseteq Nat /\ \A d \in Devices : O[d] = R
         /\ RoomOf(room', R)
<1>1. Batches \subseteq R /\ R \subseteq Nat
  BY DepsMoved DEF Batches
<1>2. ASSUME NEW d \in Devices
      PROVE  /\ O[d] = R /\ P[d] \subseteq R /\ Allowed[d] \subseteq P[d] /\ N[d] \in Nat
             /\ Every[d] \subseteq O[d] /\ Tickets[d] \in Nat /\ Tickets[d] <= N[d]
  <2>1. P[d] = R \ rejected'[d] /\ O[d] = R
    BY DEF Allowed, Every
  <2>2. rejected'[d] \intersect Batches \subseteq rejected[d]
    BY RejectedMoved
  <2>3. Allowed[d] = Batches \ rejected[d] /\ Every[d] = Batches /\ Tickets[d] = Len(wanted[d])
    BY DEF Allowed, Every, Tickets
  <2>4. Len(wanted[d]) \in Nat
    BY BaseAt
  <2> QED BY <1>1, <2>1, <2>2, <2>3, <2>4
<1>3. Frames(O, P, R, N)
  BY <1>1, <1>2, BaseFrames
<1>4. Within(O, P, R, N)
  <2>1. Within(Every, Allowed, Batches, Tickets)
    BY DEF Base
  <2>2. \A d \in Devices : /\ Every[d] \subseteq O[d] /\ Allowed[d] \subseteq P[d]
                           /\ Tickets[d] \in Nat /\ N[d] \in Nat /\ Tickets[d] <= N[d]
    BY <1>2
  <2> QED BY ONLY <1>1, <2>1, <2>2, WithinGrows
<1>5. RoomOf(room', R)
  <2>1. RoomMoves(O)
    BY <1>3, <1>4, RoomMoved
  <2>2. RoomOf(room, R)
    BY <1>1, RoomOfGrows DEF Base
  <2> QED BY <1>1, <1>2, <1>4, <2>1, <2>2, RoomKept
<1> QED BY <1>1, <1>2, <1>3, <1>4, <1>5

LEMMA RoomOfIn ==
  ASSUME NEW r, NEW B, RoomOf(r, B), B \subseteq Nat
  PROVE  r \in RoomIn /\ r.floor <= HeadSeq(r)
  BY RoomOfGrows DEF RoomOf, RoomIn

\* What a step other than a crash does, and where it leads.
LEMMA BaseEffect ==
  ASSUME NEW O, NEW P, NEW R, NEW N, ChatAssumption, Base, Next, \A d \in Devices : ~Crash(d),
         O = Every', P = Allowed', R = Batches', N = Tickets'
  PROVE  Within(O, P, R, N)' /\ Effect(O, P, R)
<1>1. ASSUME NEW d \in Devices
      PROVE  /\ N[d] \in Nat /\ Len(wanted[d]) <= N[d]
             /\ RequestCatchUp(d) => N[d] = Len(wanted[d]) + 1
  BY WantedMoved DEF Tickets
<1>2. /\ Within(O, P, R, N) /\ Frames(O, P, R, N)
      /\ Batches \subseteq R /\ R \subseteq Nat /\ \A d \in Devices : O[d] = R
      /\ RoomOf(room', R)
  BY <1>1, BaseGrows
<1>3. ASSUME NEW d \in Devices, Write(d)
      PROVE  outbox'[d] \subseteq O[d]
  <2>1. outbox' = [outbox EXCEPT ![d] = outbox[d] \union {Len(deps) + 1}]
    BY <1>3 DEF Write
  <2>2. outbox[d] \subseteq Batches
    BY BaseAt DEF Base
  <2>3. Len(deps) + 1 \in R
    BY <1>3, DepsMoved DEF Batches
  <2>4. outbox \in [Devices -> SUBSET Nat]
    BY DEF Base
  <2> QED BY <1>2, <2>1, <2>2, <2>3, <2>4
<1>4. ASSUME NEW d \in Devices, RequestCatchUp(d)
      PROVE  cl'[d].asked <= N[d]
  <2>1. cl' = [cl EXCEPT ![d] = [cl[d] EXCEPT !.asked = cl[d].asked + 1]]
    BY <1>4 DEF RequestCatchUp, SetClient
  <2>2. cl[d] \in ClientIn(Batches, Len(wanted[d])) /\ cl[d].asked = Len(wanted[d])
    BY BaseAt DEF Base
  <2>3. cl'[d] = [cl[d] EXCEPT !.asked = cl[d].asked + 1]
    BY <2>1 DEF Base, Within, Clients, Typed
  <2>4. cl'[d].asked = Len(wanted[d]) + 1
    BY <2>2, <2>3 DEF ClientIn
  <2> QED BY <1>1, <1>4, <2>4
<1>5. Readable(room') \subseteq R
  BY <1>2, RoomServes
<1>6. Reaches(O, R, N)
  BY <1>3, <1>4, <1>5 DEF Reaches
<1>7. room \in RoomIn /\ room.floor <= HeadSeq(room)
  BY RoomOfIn DEF Base, Batches
<1>8. outbox \in [Devices -> SUBSET Nat]
  BY DEF Base
<1> QED BY <1>2, <1>6, <1>7, <1>8, StepWithin

LEMMA BaseStep ==
  ASSUME ChatAssumption, Base, Next, \A d \in Devices : ~Crash(d)
  PROVE  Base'
<1>1. PICK O : O = Every'
  OBVIOUS
<1>2. PICK P : P = Allowed'
  OBVIOUS
<1>3. PICK R : R = Batches'
  OBVIOUS
<1>4. PICK N : N = Tickets'
  OBVIOUS
<1>5. Within(O, P, R, N)' /\ Effect(O, P, R)
  BY <1>1, <1>2, <1>3, <1>4, BaseEffect
<1>6. Within(Every, Allowed, Batches, Tickets)'
  BY <1>1, <1>2, <1>3, <1>4, <1>5, WithinNext
<1>7. deps' \in Seq(SUBSET Nat)
  BY DepsMoved
<1>8. RoomOf(room, Batches)'
  <2>1. PICK M : M = [d \in Devices |-> Len(wanted[d])]
    OBVIOUS
  <2>2. ASSUME NEW d \in Devices
        PROVE  M[d] \in Nat /\ Len(wanted[d]) <= M[d]
    BY <2>1, BaseAt
  <2>3. RoomOf(room', R)
    BY <1>1, <1>2, <1>3, <2>2, BaseGrows
  <2> QED BY <1>3, <2>3
<1>9. ASSUME NEW d \in Devices
      PROVE  rejected' \in [Devices -> SUBSET Nat] /\ wanted' \in [Devices -> Seq(SUBSET Nat)]
  BY RejectedMoved, WantedMoved
<1> DEFINE Kept(e) == /\ rejected'[e] \subseteq outbox'[e] /\ outbox'[e] \subseteq cl'[e].held
                      /\ cl'[e].asked = Len(wanted'[e])
<1>10. ASSUME NEW e \in Devices
       PROVE  /\ rejected[e] \subseteq outbox[e] /\ outbox[e] \subseteq cl[e].held
              /\ cl[e].asked = Len(wanted[e]) /\ cl[e].held \subseteq Batches
  BY BaseAt DEF Base
<1>11. /\ outbox \in [Devices -> SUBSET Nat] /\ rejected \in [Devices -> SUBSET Nat]
       /\ wanted \in [Devices -> Seq(SUBSET Nat)]
  BY DEF Base
<1>12. ASSUME NEW d \in Devices, Reading(d) \/ Saving(d)
       PROVE  outbox' \in [Devices -> SUBSET Nat] /\ \A e \in Devices : Kept(e)
  BY <1>10, <1>11, <1>12 DEF Reading, Saving, Learns, Keeps, Becomes, store
<1>13. ASSUME NEW d \in Devices, Retiring(d, P[d] \intersect R)
       PROVE  outbox' \in [Devices -> SUBSET Nat] /\ \A e \in Devices : Kept(e)
  <2>1. PICK b \in P[d] : outbox' = [outbox EXCEPT ![d] = outbox[d] \ {b}]
    BY <1>13 DEF Retiring
  <2>2. UNCHANGED <<rejected, wanted>> /\ Keeps(d)
    BY <1>13 DEF Retiring
  <2>3. b \notin rejected[d]
    BY <1>2, <2>2 DEF Allowed
  <2> QED BY <1>10, <1>11, <2>1, <2>2, <2>3 DEF Keeps, Becomes
<1>14. ASSUME NEW d \in Devices, Posting(d)
       PROVE  outbox' \in [Devices -> SUBSET Nat] /\ \A e \in Devices : Kept(e)
  <2>1. UNCHANGED wanted /\ Keeps(d)
    BY <1>14 DEF Posting
  <2>2. CASE UNCHANGED store
    BY <1>10, <1>11, <2>1, <2>2 DEF store, Keeps, Becomes
  <2>3. CASE \E gone : /\ outbox' = [outbox EXCEPT ![d] = outbox[d] \ gone]
                       /\ rejected' = [rejected EXCEPT ![d] = rejected[d] \ gone]
    BY <1>10, <1>11, <2>1, <2>3, SMTT(30) DEF Keeps, Becomes
  <2> QED BY <1>14, <2>2, <2>3 DEF Posting
<1>15. ASSUME NEW d \in Devices, Writing(d)
       PROVE  outbox' \in [Devices -> SUBSET Nat] /\ \A e \in Devices : Kept(e)
  <2> DEFINE b == Len(deps) + 1
  <2>1. /\ outbox' = [outbox EXCEPT ![d] = outbox[d] \union {b}]
        /\ \/ rejected' = [rejected EXCEPT ![d] = rejected[d] \union {b}]
           \/ rejected' = rejected
        /\ UNCHANGED wanted
    BY <1>15 DEF Writing, Write
  <2>2. /\ \A e \in Devices \ {d} : cl'[e] = cl[e]
        /\ cl'[d].held = cl[d].held \union {b} /\ cl'[d].asked = cl[d].asked
    BY <1>15 DEF Writing, Learns
  <2>3. b \in Nat
    BY DepsMoved
  <2> HIDE DEF b
  <2>4. outbox' \in [Devices -> SUBSET Nat]
    BY <1>11, <2>1, <2>3
  <2>5. Kept(d)
    BY <1>10, <1>11, <2>1, <2>2
  <2>6. ASSUME NEW e \in Devices \ {d} PROVE Kept(e)
    BY <1>10, <1>11, <2>1, <2>2
  <2> QED BY <2>4, <2>5, <2>6
<1>16. ASSUME NEW d \in Devices, Asking(d)
       PROVE  outbox' \in [Devices -> SUBSET Nat] /\ \A e \in Devices : Kept(e)
  <2>1. /\ UNCHANGED <<outbox, rejected>>
        /\ wanted' = [wanted EXCEPT ![d] = Append(wanted[d], Admitted(room))]
    BY <1>16 DEF Asking, RequestCatchUp, store
  <2>2. /\ \A e \in Devices \ {d} : cl'[e] = cl[e]
        /\ cl'[d].held = cl[d].held /\ cl'[d].asked = cl[d].asked + 1
    BY <1>16 DEF Asking
  <2>3. Len(wanted'[d]) = Len(wanted[d]) + 1
    BY <1>16, WantedMoved DEF Asking
  <2>4. \A e \in Devices \ {d} : wanted'[e] = wanted[e]
    BY <1>10, <1>11, <2>1
  <2> HIDE DEF Kept
  <2>5. ASSUME NEW e \in Devices PROVE Kept(e)
    BY <1>10, <1>11, <2>1, <2>2, <2>3, <2>4 DEF Kept
  <2> QED BY <1>10, <1>11, <2>1, <2>5
<1>17. ASSUME Appending(O)
       PROVE  outbox' \in [Devices -> SUBSET Nat] /\ \A e \in Devices : Kept(e)
  <2>1. UNCHANGED <<outbox, rejected, wanted>> /\ \A e \in Devices : Keeps(e)
    BY <1>17 DEF Appending, store
  <2> QED BY <1>10, <1>11, <2>1 DEF Keeps, Becomes
<1>18. ASSUME Wiping
       PROVE  outbox' \in [Devices -> SUBSET Nat] /\ \A e \in Devices : Kept(e)
  <2>1. UNCHANGED <<outbox, rejected, cl>>
    BY <1>18 DEF Wiping, store
  <2>2. wanted' = [e \in Devices |-> [i \in DOMAIN wanted[e] |-> {}]]
    BY <1>18 DEF Wiping, Reset
  <2>3. ASSUME NEW e \in Devices
        PROVE  Len(wanted'[e]) = Len(wanted[e])
    <3>1. DOMAIN wanted[e] = 1 .. Len(wanted[e]) /\ Len(wanted[e]) \in Nat
      BY <1>10
    <3> QED BY <2>2, <3>1
  <2> QED BY <1>10, <1>11, <2>1, <2>3
<1>19. outbox' \in [Devices -> SUBSET Nat] /\ \A e \in Devices : Kept(e)
  BY <1>5, <1>12, <1>13, <1>14, <1>15, <1>16, <1>17, <1>18 DEF Effect
<1>20. wanted' \in [Devices -> Seq(SUBSET Nat)] /\ rejected' \in [Devices -> SUBSET Nat]
  <2>1. CASE Devices = {}
    <3>1. UNCHANGED <<wanted, rejected>> \/ Reset
      BY <2>1, HistoryMoved
    <3> QED BY <2>1, <3>1 DEF Base, Reset, store
  <2> QED BY <1>9, <2>1
<1> QED BY <1>6, <1>7, <1>8, <1>19, <1>20 DEF Base

LEMMA BaseCrash ==
  ASSUME ChatAssumption, Base, Next, NEW d \in Devices, Crash(d)
  PROVE  Base' /\ cl'[d].held = Reopened(d) /\ \A e \in Devices \ {d} : cl'[e] = cl[e]
<1>1. PICK O : O = Every'
  OBVIOUS
<1>2. PICK P : P = Allowed'
  OBVIOUS
<1>3. PICK R : R = Batches'
  OBVIOUS
<1>4. PICK M : M = Tickets'
  OBVIOUS
<1>5. PICK N : N = Tickets
  OBVIOUS
<1>6. /\ wanted' = [wanted EXCEPT ![d] = <<>>]
      /\ UNCHANGED <<deps, room, outbox, rejected, disk>>
  BY DEF Crash, store
<1>7. /\ outbox \in [Devices -> SUBSET Nat] /\ rejected \in [Devices -> SUBSET Nat]
      /\ wanted \in [Devices -> Seq(SUBSET Nat)]
  BY DEF Base
<1>8. <<>> \in Seq(SUBSET Nat) /\ Len(<<>>) = 0
  OBVIOUS
<1>9. /\ wanted' \in [Devices -> Seq(SUBSET Nat)]
      /\ wanted'[d] = <<>> /\ \A e \in Devices \ {d} : wanted'[e] = wanted[e]
  BY <1>6, <1>7, <1>8
<1>10. ASSUME NEW e \in Devices
       PROVE  N[e] \in Nat /\ Len(wanted[e]) <= N[e]
  BY <1>5, BaseAt DEF Tickets
<1>11. Within(O, P, R, N) /\ Frames(O, P, R, N)
  BY <1>1, <1>2, <1>3, <1>10, BaseGrows
<1>12. M[d] \in Nat /\ \A e \in Devices \ {d} : M[e] = N[e]
  BY <1>4, <1>5, <1>8, <1>9 DEF Tickets
<1>13. /\ Within(O, P, R, M)'
       /\ \A e \in Devices \ {d} : cl'[e] = cl[e]
       /\ cl'[d].held = Reopened(d) /\ cl'[d].asked = 0
  BY <1>11, <1>12, CrashWithin
<1>14. Within(Every, Allowed, Batches, Tickets)'
  BY <1>1, <1>2, <1>3, <1>4, <1>13, WithinNext
<1>15. RoomOf(room, Batches)' /\ deps' \in Seq(SUBSET Nat)
  BY <1>6 DEF Base, Batches
<1>16. ASSUME NEW e \in Devices
       PROVE  /\ rejected'[e] \subseteq outbox'[e] /\ outbox'[e] \subseteq cl'[e].held
              /\ cl'[e].asked = Len(wanted'[e])
  <2>1. /\ rejected[e] \subseteq outbox[e] /\ outbox[e] \subseteq cl[e].held
        /\ cl[e].asked = Len(wanted[e])
    BY DEF Base
  <2>2. outbox[e] \subseteq Reopened(e)
    BY DEF Reopened
  <2> QED BY <1>6, <1>8, <1>9, <1>13, <2>1, <2>2
<1> QED BY <1>6, <1>7, <1>9, <1>13, <1>14, <1>15, <1>16 DEF Base

LEMMA BaseInit ==
  ASSUME ChatAssumption, Init
  PROVE  Base
<1>1. ASSUME NEW d \in Devices
      PROVE  Tickets[d] \in Nat /\ cl[d].asked = Len(wanted[d])
  BY DEF Init, Tickets, NewClient
<1>2. Within(Every, Allowed, Batches, Tickets)
  BY <1>1, InitWithin
<1>3. RoomOf(room, Batches)
  BY DEF Init, NewRoom, RoomOf, HeadSeq
<1>4. deps \in Seq(SUBSET Nat) /\ wanted \in [Devices -> Seq(SUBSET Nat)]
  BY DEF Init
<1>5. /\ outbox \in [Devices -> SUBSET Nat] /\ rejected \in [Devices -> SUBSET Nat]
      /\ \A d \in Devices : rejected[d] \subseteq outbox[d] /\ outbox[d] \subseteq cl[d].held
  BY DEF Init
<1> QED BY <1>1, <1>2, <1>3, <1>4, <1>5 DEF Base

\* vars does not change, and neither does what is said of it.
LEMMA BaseStutters ==
  ASSUME Base, UNCHANGED vars
  PROVE  Base'
<1> USE DEF vars, wire, store, files
<1>1. Every' = Every /\ Allowed' = Allowed /\ Batches' = Batches /\ Tickets' = Tickets
  BY DEF Every, Allowed, Batches, Tickets
<1>2. Within(Every, Allowed, Batches, Tickets)'
  <2>1. PICK O : O = Every
    OBVIOUS
  <2>2. PICK P : P = Allowed
    OBVIOUS
  <2>3. PICK R : R = Batches
    OBVIOUS
  <2>4. PICK N : N = Tickets
    OBVIOUS
  <2>5. Within(O, P, R, N)
    BY <2>1, <2>2, <2>3, <2>4 DEF Base
  <2>6. Within(O, P, R, N)'
    BY <2>5, Stays DEF Within
  <2> QED BY <1>1, <2>1, <2>2, <2>3, <2>4, <2>6, WithinNext
<1>3. RoomOf(room, Batches)'
  BY <1>1 DEF Base
<1> QED BY <1>2, <1>3 DEF Base

LEMMA SpecBase == Spec => []Base
<1>1. Init => Base
  BY ChatAssumption, BaseInit
<1>2. Base /\ [Next]_vars => Base'
  BY ChatAssumption, BaseStep, BaseCrash, BaseStutters
<1> QED BY <1>1, <1>2, PTL DEF Spec

\* ChatTypeOK: whatever is lost, retried or restarted, a batch that awaits the
\* room is in its author's document, no ticket is answered unasked, and no
\* frame, request or snapshot names a batch nobody wrote.
THEOREM ChatTypes == Spec => []ChatTypeOK
<1>1. Base => ChatTypeOK
  <2> SUFFICES ASSUME Base PROVE ChatTypeOK
    OBVIOUS
  <2>1. /\ room \in [log : Seq([device : Devices, batch : Batches]), floor : Nat,
                     has : BOOLEAN, ckpt : SUBSET Batches]
        /\ room.floor <= HeadSeq(room) /\ deps \in Seq(SUBSET Nat)
    BY DEF Base, RoomOf
  <2>2. ASSUME NEW d \in Devices
        PROVE  /\ rejected[d] \subseteq outbox[d]
               /\ outbox[d] \subseteq cl[d].held
               /\ cl[d].held \subseteq Batches
               /\ cl[d].cursor \in Nat /\ cl[d].pcursor \in Nat
               /\ cl[d].done <= cl[d].asked /\ cl[d].asked = Len(wanted[d])
               /\ disk[d].doc \subseteq Batches /\ disk[d].cursor \in Nat
               /\ ses[d].repairs \in 0 .. MaxRepairs
               /\ socket[d] = "ready" => ses[d].ph # "down"
    <3>1. /\ cl[d] \in ClientIn(Batches, Len(wanted[d]))
          /\ disk[d] \in DiskIn(Batches)
          /\ ses[d] \in SessionIn(Batches, Len(wanted[d]))
      BY BaseAt
    <3>2. /\ rejected[d] \subseteq outbox[d] /\ outbox[d] \subseteq cl[d].held
          /\ cl[d].asked = Len(wanted[d])
      BY DEF Base
    <3>3. /\ cl[d].held \subseteq Batches /\ cl[d].cursor \in Nat /\ cl[d].pcursor \in Nat
          /\ cl[d].done \in 0 .. Len(wanted[d])
      BY <3>1 DEF ClientIn
    <3>4. disk[d].doc \subseteq Batches /\ disk[d].cursor \in Nat
      BY <3>1 DEF DiskIn
    <3>5. ses[d].repairs \in 0 .. MaxRepairs
      BY <3>1 DEF SessionIn
    <3>6. socket[d] = "ready" => ses[d].ph # "down"
      BY DEF Base, Within, Greeted, GreetOK
    <3>7. cl[d].done <= cl[d].asked
      BY <3>2, <3>3
    <3> QED BY <3>2, <3>3, <3>4, <3>5, <3>6, <3>7
  <2> QED BY <2>1, <2>2 DEF ChatTypeOK
<1> QED BY <1>1, SpecBase, PTL

-----------------------------------------------------------------------------
(* Where a batch comes from *)

\* A device has what it wrote and what the room served.
Own      == [d \in Devices |-> outbox[d] \union Readable(room)]
Sendable == [d \in Devices |-> Own[d] \ rejected[d]]

\* What a batch's author saw was written before it, and came with its history.
Causal == \A b \in Batches : /\ deps[b] \subseteq 1 .. b - 1
                             /\ \A c \in deps[b] : deps[c] \subseteq deps[b]

\* A snapshot is of an earlier state of its document.
Saved == \A d \in Devices : disk[d].doc \subseteq cl[d].held

\* Every document, snapshot, frame and request holds only what its device has
\* still to send and what the room can serve.
Sourced == Within(Own, Sendable, Readable(room), Tickets)

\* The room serves what it has served.
Serves == Readable(room) \subseteq Readable(room')

LEMMA NextBase ==
  ASSUME Base, Next
  PROVE  Base'
  BY ChatAssumption, BaseStep, BaseCrash

LEMMA SourcedNext ==
  ASSUME NEW O, NEW P, NEW R, NEW N, Within(O, P, R, N)',
         O = Own', P = Sendable', R = Readable(room'), N = Tickets'
  PROVE  Sourced'
<1>1. /\ Clients(Own, Tickets)' /\ Disks(Own)' /\ Flushes' /\ Posts(Own)' /\ Sockets'
      /\ Greeted'
  BY DEF Within, Clients, Disks, Posts, Typed
<1>2. /\ Sessions(Readable(room), Tickets)'
      /\ Https(Sendable, Readable(room), Tickets)'
  BY DEF Within, Sessions, Https, Typed
<1>3. Ups(Sendable)' /\ Downs(Sendable, Readable(room))'
  BY DEF Within, Ups, Downs, Typed
<1>4. late' \subseteq LateIn(Own)'
  BY DEF Within, LateIn
<1> QED BY <1>1, <1>2, <1>3, <1>4 DEF Within, Sourced

LEMMA SourcedGrows ==
  ASSUME NEW O, NEW P, NEW R, NEW N, Base, Base', Sourced, Next, Serves,
         O = [d \in Devices |-> Own[d] \union outbox'[d] \union Readable(room')],
         P = [d \in Devices |-> O[d] \ rejected'[d]], R = Readable(room'),
         \A d \in Devices : N[d] \in Nat /\ Len(wanted[d]) <= N[d]
  PROVE  Within(O, P, R, N) /\ Frames(O, P, R, N)
<1>1. R \subseteq Nat /\ Readable(room) \subseteq Batches
  <2>1. RoomOf(room', Batches') /\ RoomOf(room, Batches)
    BY DEF Base
  <2>2. Batches' \subseteq Nat
    BY DEF Batches
  <2> QED BY <2>1, <2>2, RoomServes
<1>2. ASSUME NEW d \in Devices
      PROVE  /\ Own[d] \subseteq O[d] /\ Sendable[d] \subseteq P[d]
             /\ Tickets[d] \in Nat /\ N[d] \in Nat /\ Tickets[d] <= N[d]
             /\ O[d] \subseteq Nat /\ R \subseteq O[d] /\ P[d] \subseteq O[d]
             /\ outbox[d] \subseteq O[d] /\ Pending(d) \subseteq P[d]
  <2>1. /\ O[d] = Own[d] \union outbox'[d] \union R /\ P[d] = O[d] \ rejected'[d]
        /\ Own[d] = outbox[d] \union Readable(room) /\ Sendable[d] = Own[d] \ rejected[d]
        /\ Tickets[d] = Len(wanted[d])
    BY DEF Own, Sendable, Tickets
  <2>2. outbox[d] \subseteq Batches /\ Batches \subseteq Nat /\ Len(wanted[d]) \in Nat
    BY BaseAt DEF Base
  <2>3. rejected'[d] \intersect Batches \subseteq rejected[d]
    BY RejectedMoved
  <2>4. outbox' \in [Devices -> SUBSET Nat]
    BY DEF Base
  <2>5. Own[d] \subseteq Batches
    BY <1>1, <2>1, <2>2
  <2>6. Sendable[d] \subseteq P[d]
    BY <2>1, <2>3, <2>5
  <2>7. Pending(d) \subseteq Sendable[d]
    BY <2>1 DEF Pending
  <2>8. O[d] \subseteq Nat
    BY <1>1, <2>1, <2>2, <2>4, <2>5
  <2> QED BY <2>1, <2>2, <2>6, <2>7, <2>8
<1>3. Within(O, P, R, N)
  <2>1. Within(Own, Sendable, Readable(room), Tickets)
    BY DEF Sourced
  <2>2. \A d \in Devices : /\ Own[d] \subseteq O[d] /\ Sendable[d] \subseteq P[d]
                           /\ Tickets[d] \in Nat /\ N[d] \in Nat /\ Tickets[d] <= N[d]
    BY <1>2
  <2>3. Readable(room) \subseteq R
    BY DEF Serves
  <2> QED BY ONLY <2>1, <2>2, <2>3, WithinGrows
<1>4. Frames(O, P, R, N)
  BY <1>1, <1>2 DEF Frames, Serves
<1> QED BY <1>3, <1>4

LEMMA SourcedEffect ==
  ASSUME NEW O, NEW P, NEW R, NEW N, Base, Base', Sourced, Next, Serves,
         \A d \in Devices : ~Crash(d),
         O = [d \in Devices |-> Own[d] \union outbox'[d] \union Readable(room')],
         P = [d \in Devices |-> O[d] \ rejected'[d]], R = Readable(room'), N = Tickets'
  PROVE  Within(O, P, R, N)' /\ Effect(O, P, R)
<1>1. ASSUME NEW d \in Devices
      PROVE  N[d] \in Nat /\ Len(wanted[d]) <= N[d]
  BY WantedMoved DEF Tickets
<1>2. Within(O, P, R, N) /\ Frames(O, P, R, N)
  BY <1>1, SourcedGrows
<1>3. Reaches(O, R, N)
  <2>1. ASSUME NEW d \in Devices
        PROVE  outbox'[d] \subseteq O[d] /\ cl'[d].asked <= N[d]
    <3>1. cl'[d].asked = Len(wanted'[d]) /\ N[d] = Len(wanted'[d])
      BY DEF Base, Tickets
    <3> QED BY <1>1, <3>1
  <2> QED BY <2>1 DEF Reaches
<1>4. room \in RoomIn /\ room.floor <= HeadSeq(room)
  <2>1. RoomOf(room, Batches)
    BY DEF Base
  <2>2. Batches \subseteq Nat
    BY DEF Batches
  <2> QED BY <2>1, <2>2, RoomOfIn
<1>5. outbox \in [Devices -> SUBSET Nat]
  BY DEF Base
<1> QED BY <1>2, <1>3, <1>4, <1>5, ChatAssumption, StepWithin

\* Nothing leaves an outbox before the room can serve it.
LEMMA OwnKept ==
  ASSUME NEW O, NEW P, NEW R, Base, Next, Serves, Effect(O, P, R), R = Readable(room')
  PROVE  \A d \in Devices : Own[d] \subseteq Own'[d]
<1> SUFFICES ASSUME NEW e \in Devices
             PROVE  outbox[e] \subseteq outbox'[e] \union Readable(room')
  BY DEF Own, Serves
<1>1. outbox \in [Devices -> SUBSET Nat]
  BY DEF Base
<1>2. ASSUME NEW d \in Devices, Reading(d) \/ Saving(d) \/ Asking(d)
      PROVE  UNCHANGED outbox
  BY <1>2 DEF Reading, Saving, Asking, RequestCatchUp, store
<1>3. ASSUME NEW d \in Devices, Retiring(d, P[d] \intersect R)
      PROVE  outbox[e] \subseteq outbox'[e] \union R
  BY <1>1, <1>3 DEF Retiring
<1>4. ASSUME NEW d \in Devices, Posting(d)
      PROVE  outbox[e] \subseteq outbox'[e] \union Readable(room')
  <2>1. CASE UNCHANGED store
    BY <2>1 DEF store
  <2>2. CASE ~UNCHANGED store
    <3>1. PICK gone \in SUBSET post[d].content :
            /\ gone # {} => room' = CommitCheckpoint(room, post[d].seq, post[d].content)
            /\ outbox' = [outbox EXCEPT ![d] = outbox[d] \ gone]
      BY <1>4, <2>2 DEF Posting
    <3>2. gone \subseteq Readable(room')
      <4>1. CASE gone # {}
        <5>1. room' = CommitCheckpoint(room, post[d].seq, post[d].content)
          BY <3>1, <4>1
        <5>2. room'.ckpt = post[d].content
          BY <5>1 DEF CommitCheckpoint, Base, RoomOf
        <5> QED BY <5>2 DEF Readable
      <4> QED BY <4>1
    <3> QED BY <1>1, <3>1, <3>2
  <2> QED BY <2>1, <2>2
<1>5. ASSUME NEW d \in Devices, Writing(d)
      PROVE  outbox[e] \subseteq outbox'[e]
  <2>1. outbox' = [outbox EXCEPT ![d] = outbox[d] \union {Len(deps) + 1}]
    BY <1>5 DEF Writing, Write
  <2> QED BY <1>1, <2>1
<1>6. Appending(O) \/ Wiping => UNCHANGED outbox
  BY DEF Appending, Wiping, store
<1> QED BY <1>2, <1>3, <1>4, <1>5, <1>6 DEF Effect

LEMMA SourcedStep ==
  ASSUME Base, Base', Sourced, Next, Serves, \A d \in Devices : ~Crash(d)
  PROVE  /\ Sourced'
         /\ \E P : Effect(Own', P, Readable(room'))
<1>1. PICK O : O = [d \in Devices |-> Own[d] \union outbox'[d] \union Readable(room')]
  OBVIOUS
<1>2. PICK R : R = Readable(room')
  OBVIOUS
<1>3. PICK P : P = [d \in Devices |-> O[d] \ rejected'[d]]
  OBVIOUS
<1>4. PICK N : N = Tickets'
  OBVIOUS
<1>5. Within(O, P, R, N)' /\ Effect(O, P, R)
  BY <1>1, <1>2, <1>3, <1>4, SourcedEffect
<1>6. \A d \in Devices : Own[d] \subseteq Own'[d]
  BY <1>2, <1>5, OwnKept
<1>7. O = Own' /\ P = Sendable'
  <2>1. \A d \in Devices : Own'[d] = outbox'[d] \union Readable(room')
    BY DEF Own
  <2>2. O = [d \in Devices |-> outbox'[d] \union Readable(room')]
    BY <1>1, <1>6, <2>1
  <2>3. O = Own'
    BY <2>2 DEF Own
  <2> QED BY <1>3, <2>3 DEF Sendable
<1>8. Sourced'
  BY <1>2, <1>4, <1>5, <1>7, SourcedNext
<1> QED BY <1>2, <1>5, <1>7, <1>8

LEMMA SourcedCrash ==
  ASSUME Base, Base', Sourced, Next, Serves, NEW d \in Devices, Crash(d)
  PROVE  Sourced'
<1>1. UNCHANGED <<room, outbox, rejected>>
  BY DEF Crash, store
<1>2. PICK O : O = [e \in Devices |-> Own[e] \union outbox'[e] \union Readable(room')]
  OBVIOUS
<1>3. PICK R : R = Readable(room')
  OBVIOUS
<1>4. PICK P : P = [e \in Devices |-> O[e] \ rejected'[e]]
  OBVIOUS
<1>5. PICK M : M = Tickets'
  OBVIOUS
<1>6. PICK N : N = Tickets
  OBVIOUS
<1>7. O = Own' /\ P = Sendable'
  BY <1>1, <1>2, <1>4 DEF Own, Sendable
<1>8. ASSUME NEW e \in Devices
      PROVE  N[e] \in Nat /\ Len(wanted[e]) <= N[e]
  BY <1>6, BaseAt DEF Tickets
<1>9. Within(O, P, R, N) /\ Frames(O, P, R, N)
  BY <1>2, <1>3, <1>4, <1>8, SourcedGrows
<1>10. M[d] \in Nat /\ \A e \in Devices \ {d} : M[e] = N[e]
  <2>1. wanted' = [wanted EXCEPT ![d] = <<>>] /\ wanted \in [Devices -> Seq(SUBSET Nat)]
    BY DEF Crash, Base
  <2>2. Len(<<>>) = 0
    OBVIOUS
  <2> QED BY <1>5, <1>6, <2>1, <2>2 DEF Tickets
<1>11. Within(O, P, R, M)'
  BY <1>9, <1>10, ChatAssumption, CrashWithin
<1> QED BY <1>3, <1>5, <1>7, <1>11, SourcedNext

LEMMA SourcedStutters ==
  ASSUME Sourced, UNCHANGED vars
  PROVE  Sourced'
<1> USE DEF vars, wire, store, files
<1>1. /\ Own' = Own /\ Sendable' = Sendable /\ Tickets' = Tickets
  BY DEF Own, Sendable, Tickets
<1>2. PICK O : O = Own
  OBVIOUS
<1>3. PICK P : P = Sendable
  OBVIOUS
<1>4. PICK R : R = Readable(room)
  OBVIOUS
<1>5. PICK N : N = Tickets
  OBVIOUS
<1>6. Within(O, P, R, N)
  BY <1>2, <1>3, <1>4, <1>5 DEF Sourced
<1>7. Within(O, P, R, N)'
  BY <1>6, Stays DEF Within
<1> QED BY <1>1, <1>2, <1>3, <1>4, <1>5, <1>7, SourcedNext

-----------------------------------------------------------------------------
(* What was seen, and what is shown *)

\* A batch is shown with everything its author saw.
LEMMA Shown ==
  ASSUME Base, Causal, NEW H \in SUBSET Batches
  PROVE  /\ \A b \in Visible(H, deps) : deps[b] \subseteq Visible(H, deps)
         /\ \A G \in SUBSET H : Visible(G, deps) \subseteq Visible(H, deps)
<1>1. ASSUME NEW b \in Visible(H, deps), NEW c \in deps[b]
      PROVE  c \in Visible(H, deps)
  <2>1. b \in Batches /\ deps[b] \subseteq H
    BY DEF Visible
  <2>2. deps[c] \subseteq deps[b]
    BY <2>1 DEF Causal
  <2> QED BY <2>1, <2>2 DEF Visible
<1>2. ASSUME NEW G \in SUBSET H
      PROVE  Visible(G, deps) \subseteq Visible(H, deps)
  BY DEF Visible
<1> QED BY <1>1, <1>2

\* The batch a device writes, and what the others show of it.
LEMMA Wrote ==
  ASSUME Base, Base', Causal, NEW d \in Devices, Writing(d)
  PROVE  /\ Causal'
         /\ Doc(d)' = Doc(d) \union {Len(deps) + 1}
         /\ \A e \in Devices \ {d} : Doc(e)' = Doc(e)
<1> DEFINE b == Len(deps) + 1
<1>1. deps \in Seq(SUBSET Nat) /\ deps' = Append(deps, Doc(d))
  BY DEF Base, Writing, Write
<1>2. /\ Len(deps') = b /\ b \in Nat /\ Len(deps) \in Nat
      /\ \A c \in Batches : deps'[c] = deps[c]
      /\ deps'[b] = Doc(d) /\ Batches = 1 .. b - 1
  <2>1. Doc(d) \in SUBSET Nat
    BY BaseAt
  <2> QED BY <1>1, <2>1 DEF Batches
<1>3. Batches' = Batches \union {b} /\ b \notin Batches
  BY <1>2 DEF Batches
<1>4. /\ \A e \in Devices : cl[e].held \subseteq Batches
      /\ \A e \in Devices \ {d} : cl'[e].held = cl[e].held
      /\ cl'[d].held = cl[d].held \union {b}
  BY BaseAt DEF Writing, Learns
<1>5. \A c \in Batches : deps[c] \subseteq Batches /\ b \notin deps[c]
  BY <1>2 DEF Causal, Batches
<1>6. Doc(d) \subseteq cl[d].held /\ \A c \in Doc(d) : deps[c] \subseteq Doc(d)
  BY BaseAt, Shown DEF Doc
<1> HIDE DEF b
<1>7. Causal'
  <2> SUFFICES ASSUME NEW c \in Batches'
               PROVE  /\ deps'[c] \subseteq 1 .. c - 1
                      /\ \A a \in deps'[c] : deps'[a] \subseteq deps'[c]
    BY DEF Causal
  <2>1. CASE c \in Batches
    <3>1. deps[c] \subseteq 1 .. c - 1 /\ \A a \in deps[c] : deps[a] \subseteq deps[c]
      BY <2>1 DEF Causal
    <3>2. deps[c] \subseteq Batches /\ deps'[c] = deps[c]
      BY <1>2, <1>5, <2>1
    <3> QED BY <1>2, <3>1, <3>2
  <2>2. CASE c = b
    <3>1. Doc(d) \subseteq Batches
      BY <1>4, <1>6
    <3> QED BY <1>2, <1>6, <2>2, <3>1
  <2> QED BY <1>3, <2>1, <2>2
<1>8. Doc(d)' = Doc(d) \union {b}
  <2>1. \A c \in cl[d].held :
          (deps'[c] \subseteq cl[d].held \union {b}) <=> (deps[c] \subseteq cl[d].held)
    BY <1>2, <1>4, <1>5
  <2>2. Doc(d)' = {c \in cl[d].held \union {b} : deps'[c] \subseteq cl[d].held \union {b}}
    BY <1>4 DEF Doc, Visible
  <2>3. Doc(d) = {c \in cl[d].held : deps[c] \subseteq cl[d].held}
    BY DEF Doc, Visible
  <2>4. deps'[b] \subseteq cl[d].held
    BY <1>2, <1>6
  <2> QED BY <2>1, <2>2, <2>3, <2>4
<1>9. ASSUME NEW e \in Devices \ {d}
      PROVE  Doc(e)' = Doc(e)
  <2>1. cl'[e].held = cl[e].held /\ cl[e].held \subseteq Batches
    BY <1>4
  <2> QED BY <1>2, <2>1 DEF Doc, Visible
<1> QED BY <1>7, <1>8, <1>9 DEF b

\* What a document shows changes with the document and with what was written.
LEMMA SameDocs ==
  ASSUME UNCHANGED deps, NEW d \in Devices, cl'[d].held = cl[d].held
  PROVE  Doc(d)' = Doc(d)
  BY DEF Doc, Visible

\* A crash leaves what the disk had and what awaits the room, which the
\* document had too.
LEMMA Reopens ==
  ASSUME Base, Base', Causal, Saved, NEW d \in Devices, Crash(d),
         cl'[d].held = Reopened(d), \A e \in Devices \ {d} : cl'[e] = cl[e]
  PROVE  /\ Causal' /\ Saved'
         /\ Doc(d)' \subseteq Doc(d) /\ \A b \in Doc(d)' : deps[b] \subseteq Doc(d)'
         /\ \A e \in Devices \ {d} : Doc(e)' = Doc(e)
<1>1. UNCHANGED <<deps, outbox, disk>>
  BY DEF Crash, store
<1>2. Reopened(d) \subseteq cl[d].held /\ cl[d].held \subseteq Batches
  BY BaseAt DEF Reopened, Saved, Base
<1>3. Doc(d)' = Visible(Reopened(d), deps) /\ Doc(d) = Visible(cl[d].held, deps)
  BY <1>1 DEF Doc
<1>4. /\ Visible(Reopened(d), deps) \subseteq Visible(cl[d].held, deps)
      /\ \A b \in Visible(Reopened(d), deps) : deps[b] \subseteq Visible(Reopened(d), deps)
  <2>1. Reopened(d) \in SUBSET Batches
    BY <1>2
  <2> QED BY <1>2, <2>1, Shown
<1>5. Causal'
  BY <1>1 DEF Causal, Batches
<1>6. Saved'
  BY <1>1 DEF Saved, Reopened
<1>7. \A e \in Devices \ {d} : Doc(e)' = Doc(e)
  BY <1>1, SameDocs
<1> QED BY <1>3, <1>4, <1>5, <1>6, <1>7

LEMMA ProvenanceKept ==
  ASSUME Base, Base', Causal, Saved, NEW O, NEW P, NEW R, Effect(O, P, R)
  PROVE  Causal' /\ Saved'
<1>1. ASSUME UNCHANGED deps
      PROVE  Causal'
  BY <1>1 DEF Causal, Batches
<1>2. ASSUME UNCHANGED disk, \A e \in Devices : cl[e].held \subseteq cl'[e].held
      PROVE  Saved'
  BY <1>2 DEF Saved
<1>3. ASSUME NEW d \in Devices, \/ Reading(d) \/ Retiring(d, P[d] \intersect R)
                                \/ Posting(d) \/ Asking(d)
      PROVE  Causal' /\ Saved'
  <2>1. UNCHANGED <<deps, disk>>
    BY <1>3 DEF Reading, Retiring, Posting, Asking, RequestCatchUp, files
  <2>2. \A e \in Devices : cl[e].held \subseteq cl'[e].held
    BY <1>3 DEF Reading, Retiring, Posting, Asking, Keeps, Learns, Becomes
  <2> QED BY <1>1, <1>2, <2>1, <2>2
<1>4. ASSUME NEW d \in Devices, Saving(d)
      PROVE  Causal' /\ Saved'
  <2>1. UNCHANGED deps /\ \A e \in Devices : cl'[e].held = cl[e].held
    BY <1>4 DEF Saving, Keeps, Becomes
  <2>2. \A e \in Devices : disk'[e].doc = disk[e].doc \/ (e = d /\ disk'[e].doc = Doc(d))
    BY <1>4 DEF Saving, Base, Within, Disks, Typed
  <2>3. Doc(d) \subseteq cl[d].held
    BY BaseAt
  <2> QED BY <1>1, <2>1, <2>2, <2>3 DEF Saved
<1>5. ASSUME NEW d \in Devices, Writing(d)
      PROVE  Causal' /\ Saved'
  <2>1. UNCHANGED disk
    BY <1>5 DEF Writing, Write, files
  <2>2. \A e \in Devices : cl[e].held \subseteq cl'[e].held
    BY <1>5 DEF Writing, Learns
  <2> QED BY <1>2, <1>5, <2>1, <2>2, Wrote
<1>6. ASSUME Appending(O) \/ Wiping
      PROVE  Causal' /\ Saved'
  <2>1. UNCHANGED <<deps, disk>>
    BY <1>6 DEF Appending, Wiping, files
  <2>2. \A e \in Devices : cl[e].held \subseteq cl'[e].held
    BY <1>6 DEF Appending, Wiping, Keeps, Becomes
  <2> QED BY <1>1, <1>2, <2>1, <2>2
<1> QED BY <1>3, <1>4, <1>5, <1>6 DEF Effect

\* What the room comes to serve was in someone's outbox.
LEMMA Published ==
  ASSUME Base, Sourced, Next
  PROVE  Readable(room') \subseteq Readable(room) \union UNION {outbox[e] : e \in Devices}
<1> DEFINE All == Readable(room) \union UNION {outbox[e] : e \in Devices}
<1>1. PICK O : O = Own
  OBVIOUS
<1>2. PICK P : P = Sendable
  OBVIOUS
<1>3. PICK R : R = Readable(room)
  OBVIOUS
<1>4. PICK N : N = Tickets
  OBVIOUS
<1>5. Within(O, P, R, N)
  BY <1>1, <1>2, <1>3, <1>4 DEF Sourced
<1>6. /\ \A d \in Devices : outbox[d] \subseteq Nat /\ N[d] \in Nat
      /\ Readable(room) \subseteq Nat /\ RoomOf(room, Batches) /\ Batches \subseteq Nat
  <2>1. RoomOf(room, Batches) /\ Batches \subseteq Nat
    BY DEF Base, Batches
  <2>2. \A d \in Devices : outbox[d] \subseteq Nat /\ N[d] \in Nat
    BY <1>4, BaseAt DEF Base, Tickets
  <2> QED BY <2>1, <2>2, RoomServes
<1>7. Frames(O, P, R, N)
  <2>1. ASSUME NEW d \in Devices
        PROVE  O[d] = outbox[d] \union R /\ P[d] = O[d] \ rejected[d]
    BY <1>1, <1>2, <1>3 DEF Own, Sendable
  <2>2. R \subseteq Nat /\ Readable(room) \subseteq R
    BY <1>3, <1>6
  <2>3. ASSUME NEW d \in Devices
        PROVE  /\ O[d] \subseteq Nat /\ R \subseteq O[d] /\ P[d] \subseteq O[d]
               /\ outbox[d] \subseteq O[d] /\ Pending(d) \subseteq P[d] /\ N[d] \in Nat
    BY <1>6, <2>1, <2>2 DEF Pending
  <2> QED BY <2>2, <2>3 DEF Frames
<1>8. RoomMoves(O)
  BY <1>5, <1>7, RoomMoved
<1>9. \A d \in Devices : O[d] \subseteq All
  BY <1>1 DEF Own
<1>10. CASE Appends(O)
  <2>1. PICK d \in Devices : \E b \in O[d] : room' = AppendRow(room, d, b)
    BY <1>10 DEF Appends
  <2>2. PICK b \in O[d] : room' = AppendRow(room, d, b)
    BY <2>1
  <2>3. b \in Nat /\ b \in All
    BY <1>7, <1>9 DEF Frames
  <2>4. room \in RoomIn /\ room.floor <= HeadSeq(room)
    BY <1>6, RoomOfIn
  <2>5. Readable(AppendRow(room, d, b)) = Readable(room) \union {b}
    BY <2>3, <2>4, AppendFacts
  <2> HIDE DEF All
  <2>6. Readable(room) \subseteq All
    BY DEF All
  <2> QED BY <2>2, <2>3, <2>5, <2>6 DEF All
<1>11. CASE Compacts
  <2>1. PICK d \in Devices :
          /\ Acceptable(room, post[d].seq)
          /\ room' = CommitCheckpoint(room, post[d].seq, post[d].content)
    BY <1>11 DEF Compacts
  <2>2. post[d].content \subseteq All /\ post[d].seq \in Nat
    BY <1>5, <1>9, WithinAt DEF PostIn
  <2>3. /\ room'.log = room.log /\ room'.floor = post[d].seq /\ room'.ckpt = post[d].content
        /\ room.floor \in Nat /\ HeadSeq(room) \in Nat /\ room.floor <= post[d].seq
    BY <1>6, <2>1 DEF CommitCheckpoint, RoomOf, Acceptable, HeadSeq
  <2>4. Rows(room') \subseteq Rows(room)
    BY <2>2, <2>3 DEF Rows, HeadSeq
  <2>5. Readable(room') \subseteq Readable(room) \union post[d].content
    BY <2>3, <2>4 DEF Readable
  <2> QED BY <2>2, <2>5
<1>12. CASE room' = NewRoom
  BY <1>12 DEF NewRoom, Readable, Rows, HeadSeq
<1> QED BY <1>8, <1>10, <1>11, <1>12 DEF RoomMoves

-----------------------------------------------------------------------------
(* The relay implements the log *)

\* The documents, as ChatLog has them.
Docs == [d \in Devices |-> Doc(d)]

LEMMA DocsOf ==
  ASSUME NEW d \in Devices, \A e \in Devices \ {d} : Doc(e)' = Doc(e)
  PROVE  Docs' = [Docs EXCEPT ![d] = Doc(d)']
  BY DEF Docs

LEMMA DocsKept ==
  ASSUME UNCHANGED deps, \A d \in Devices : cl'[d].held = cl[d].held
  PROVE  Docs' = Docs
  BY SameDocs DEF Docs

LEMMA WritingLogs ==
  ASSUME Base, Base', Causal, NEW d \in Devices, Writing(d)
  PROVE  Log!Write(d)
<1> DEFINE b == Len(deps) + 1
<1>1. /\ deps' = Append(deps, Doc(d)) /\ UNCHANGED room
      /\ outbox' = [outbox EXCEPT ![d] = outbox[d] \union {b}]
  BY DEF Writing, Write
<1>2. Docs' = [Docs EXCEPT ![d] = Docs[d] \union {b}]
  BY Wrote, DocsOf DEF Docs
<1>3. Docs[d] = Doc(d)
  BY DEF Docs
<1> QED BY <1>1, <1>2, <1>3 DEF Log!Write, Docs

LEMMA ReadingLogs ==
  ASSUME Base, Base', Causal, Sourced', NEW d \in Devices, Reading(d)
  PROVE  Log!Read(d)
<1>1. /\ UNCHANGED <<deps, room, outbox>>
      /\ \A e \in Devices \ {d} : cl'[e] = cl[e]
      /\ cl[d].held \subseteq cl'[d].held
  BY DEF Reading, Learns, store
<1> DEFINE new == Doc(d)'
<1>2. Docs' = [Docs EXCEPT ![d] = new]
  BY <1>1, SameDocs, DocsOf
<1>3. cl'[d].held \subseteq Batches
  <2>1. cl'[d] \in ClientIn(Every'[d], Tickets'[d])
    BY DEF Base, Within, Clients, Typed
  <2>2. Every'[d] = Batches
    BY <1>1 DEF Every, Batches
  <2> QED BY <2>1, <2>2 DEF ClientIn
<1>4. new = Visible(cl'[d].held, deps) /\ Doc(d) = Visible(cl[d].held, deps)
  BY <1>1 DEF Doc
<1>5. Doc(d) \subseteq new /\ \A b \in new : deps[b] \subseteq new
  BY <1>1, <1>3, <1>4, Shown
<1>6. new \subseteq Readable(room) \union outbox[d]
  <2>1. cl'[d] \in ClientIn(Own'[d], Tickets'[d])
    BY DEF Sourced, Within, Clients, Typed
  <2>2. cl'[d].held \subseteq Own'[d]
    BY <2>1 DEF ClientIn
  <2>3. Own'[d] = outbox[d] \union Readable(room)
    BY <1>1 DEF Own
  <2>4. new \subseteq cl'[d].held
    BY <1>4 DEF Visible
  <2> QED BY <2>2, <2>3, <2>4
<1> HIDE DEF new
<1>7. Docs[d] \union new = new
  BY <1>5 DEF Docs
<1>8. Log!Closed(Docs[d] \union new)
  BY <1>5, <1>7 DEF Log!Closed
<1>9. /\ new \in SUBSET (Readable(room) \union outbox[d])
      /\ Docs' = [Docs EXCEPT ![d] = Docs[d] \union new]
  BY <1>2, <1>6, <1>7
<1> QED BY <1>1, <1>8, <1>9 DEF Log!Read, Docs

\* What the room takes in, and what an author retires once it is there.
LEMMA PublishLogs ==
  ASSUME Base, Sourced, Next, Serves, NEW d \in Devices, UNCHANGED deps, Docs' = Docs,
         NEW gone, gone \intersect outbox[d] \subseteq Readable(room'),
         outbox' = [outbox EXCEPT ![d] = outbox[d] \ gone]
  PROVE  Log!Publish(d)
<1> DEFINE new == Readable(room') \ Readable(room)
           seen == gone \intersect outbox[d]
<1>1. new \in SUBSET UNION {outbox[e] : e \in Devices}
  BY Published
<1>2. Readable(room') = Readable(room) \union new
  BY DEF Serves
<1>3. seen \in SUBSET outbox[d] /\ seen \subseteq Readable(room')
  OBVIOUS
<1>4. outbox' = [outbox EXCEPT ![d] = outbox[d] \ seen]
  <2>1. outbox[d] \ gone = outbox[d] \ seen
    OBVIOUS
  <2> QED BY <2>1
<1> HIDE DEF new, seen
<1>5. UNCHANGED <<deps, Docs>>
  OBVIOUS
<1> QED BY <1>1, <1>2, <1>3, <1>4, <1>5 DEF Log!Publish, Docs

LEMMA CrashLogs ==
  ASSUME Base, Base', Causal, Saved, NEW d \in Devices, Crash(d),
         cl'[d].held = Reopened(d), \A e \in Devices \ {d} : cl'[e] = cl[e]
  PROVE  Log!Reopen(d)
<1> DEFINE kept == Doc(d)'
<1>1. UNCHANGED <<deps, room, outbox>>
  BY DEF Crash, store
<1>2. /\ kept \subseteq Docs[d] /\ \A b \in kept : deps[b] \subseteq kept
      /\ Docs' = [Docs EXCEPT ![d] = kept]
  BY Reopens, DocsOf DEF Docs
<1> HIDE DEF kept
<1>3. Log!Closed(kept)
  BY <1>2 DEF Log!Closed
<1> QED BY <1>1, <1>2, <1>3 DEF Log!Reopen, Docs

LEMMA StepLogs ==
  ASSUME Base, Base', Causal, Sourced, Sourced', Next, Serves, NEW P,
         Effect(Own', P, Readable(room'))
  PROVE  [Log!Next]_(Log!vars)
<1> DEFINE Same == UNCHANGED <<deps, Readable(room), Docs, outbox>>
<1>1. Same => UNCHANGED Log!vars
  BY DEF Log!vars, Docs
<1>2. ASSUME NEW d \in Devices, Log!Write(d) \/ Log!Publish(d) \/ Log!Read(d)
      PROVE  [Log!Next]_(Log!vars)
  BY <1>2 DEF Log!Next
<1>3. ASSUME NEW d \in Devices, Writing(d)
      PROVE  [Log!Next]_(Log!vars)
  BY <1>2, <1>3, WritingLogs
<1>4. ASSUME NEW d \in Devices, Reading(d)
      PROVE  [Log!Next]_(Log!vars)
  BY <1>2, <1>4, ReadingLogs
<1>5. ASSUME NEW d \in Devices, Saving(d) \/ Asking(d)
      PROVE  [Log!Next]_(Log!vars)
  <2>1. UNCHANGED <<deps, room, outbox>>
    BY <1>5 DEF Saving, Asking, RequestCatchUp, store
  <2>2. \A e \in Devices : cl'[e].held = cl[e].held
    BY <1>5 DEF Saving, Asking, Keeps, Becomes
  <2> QED BY <1>1, <2>1, <2>2, DocsKept
<1>6. ASSUME NEW d \in Devices, Retiring(d, P[d] \intersect Readable(room'))
      PROVE  [Log!Next]_(Log!vars)
  <2>1. PICK b \in Readable(room') : outbox' = [outbox EXCEPT ![d] = outbox[d] \ {b}]
    BY <1>6 DEF Retiring
  <2>2. UNCHANGED deps /\ \A e \in Devices : cl'[e].held = cl[e].held
    BY <1>6 DEF Retiring, Keeps, Becomes
  <2>3. Log!Publish(d)
    BY <2>1, <2>2, DocsKept, PublishLogs
  <2> QED BY <1>2, <2>3
<1>7. ASSUME NEW d \in Devices, UNCHANGED <<deps, outbox>>,
             \A e \in Devices : cl'[e].held = cl[e].held
      PROVE  [Log!Next]_(Log!vars)
  <2>1. PICK gone : gone = {}
    OBVIOUS
  <2>2. outbox' = [outbox EXCEPT ![d] = outbox[d] \ gone]
    <3>1. outbox = [outbox EXCEPT ![d] = outbox[d]] /\ outbox[d] \ gone = outbox[d]
      BY <2>1 DEF Base
    <3> QED BY <1>7, <3>1
  <2>3. gone \intersect outbox[d] \subseteq Readable(room')
    BY <2>1
  <2>4. UNCHANGED deps /\ Docs' = Docs
    BY <1>7, DocsKept
  <2>5. Log!Publish(d)
    BY <2>2, <2>3, <2>4, PublishLogs
  <2> QED BY <1>2, <2>5
<1>8. ASSUME NEW d \in Devices, Posting(d)
      PROVE  [Log!Next]_(Log!vars)
  <2>1. UNCHANGED deps /\ \A e \in Devices : cl'[e].held = cl[e].held
    BY <1>8 DEF Posting, Keeps, Becomes
  <2>2. CASE UNCHANGED store
    BY <1>7, <2>1, <2>2 DEF store
  <2>3. CASE ~UNCHANGED store
    <3>1. PICK gone \in SUBSET post[d].content :
            /\ gone # {} => room' = CommitCheckpoint(room, post[d].seq, post[d].content)
            /\ outbox' = [outbox EXCEPT ![d] = outbox[d] \ gone]
      BY <1>8, <2>3 DEF Posting
    <3>2. gone \subseteq Readable(room')
      <4>1. CASE gone # {}
        <5>1. room' = CommitCheckpoint(room, post[d].seq, post[d].content)
          BY <3>1, <4>1
        <5>2. room'.ckpt = post[d].content
          BY <5>1 DEF CommitCheckpoint, Base, RoomOf
        <5> QED BY <5>2 DEF Readable
      <4> QED BY <4>1
    <3>3. Log!Publish(d)
      BY <2>1, <3>1, <3>2, DocsKept, PublishLogs
    <3> QED BY <1>2, <3>3
  <2> QED BY <2>2, <2>3
<1>9. ASSUME Appending(Own')
      PROVE  [Log!Next]_(Log!vars)
  <2>1. PICK d \in Devices : TRUE
    BY <1>9 DEF Appending, Appends
  <2>2. UNCHANGED <<deps, outbox>> /\ \A e \in Devices : cl'[e].held = cl[e].held
    BY <1>9 DEF Appending, Keeps, Becomes, store
  <2> QED BY <1>7, <2>2
<1>10. ASSUME Wiping
       PROVE  [Log!Next]_(Log!vars)
  <2>1. UNCHANGED <<deps, outbox, cl>> /\ room' = NewRoom
    BY <1>10 DEF Wiping, store
  <2>2. Readable(NewRoom) = {}
    BY DEF NewRoom, Readable, Rows, HeadSeq
  <2>3. Readable(room') = Readable(room)
    BY <2>1, <2>2 DEF Serves
  <2> QED BY <1>1, <2>1, <2>3, DocsKept
<1> QED BY <1>3, <1>4, <1>5, <1>6, <1>8, <1>9, <1>10 DEF Effect

\* What Spec keeps: types, and where everything came from.
Provenance == Base /\ Causal /\ Saved /\ Sourced

LEMMA ProvenanceStep ==
  ASSUME Provenance, [Next]_vars, [Serves]_vars
  PROVE  Provenance' /\ [Log!Next]_(Log!vars)
<1> USE DEF Provenance
<1>1. CASE UNCHANGED vars
  <2>1. Base' /\ Sourced'
    BY <1>1, BaseStutters, SourcedStutters
  <2>2. Causal' /\ Saved'
    BY <1>1 DEF vars, files, Causal, Saved, Batches
  <2>3. UNCHANGED Log!vars
    BY <1>1 DEF vars, store, Log!vars, Doc, Visible
  <2> QED BY <2>1, <2>2, <2>3
<1>2. CASE Next /\ Serves
  <2>1. Base'
    BY <1>2, NextBase
  <2>2. ASSUME NEW d \in Devices, Crash(d)
        PROVE  Provenance' /\ [Log!Next]_(Log!vars)
    <3>1. cl'[d].held = Reopened(d) /\ \A e \in Devices \ {d} : cl'[e] = cl[e]
      BY <1>2, <2>2, ChatAssumption, BaseCrash
    <3>2. Causal' /\ Saved' /\ Log!Reopen(d)
      BY <2>1, <2>2, <3>1, Reopens, CrashLogs
    <3>3. Sourced'
      BY <1>2, <2>1, <2>2, SourcedCrash
    <3> QED BY <2>1, <3>2, <3>3 DEF Log!Next
  <2>3. ASSUME \A d \in Devices : ~Crash(d)
        PROVE  Provenance' /\ [Log!Next]_(Log!vars)
    <3>1. Sourced' /\ \E P : Effect(Own', P, Readable(room'))
      BY <1>2, <2>1, <2>3, SourcedStep
    <3>2. PICK P : Effect(Own', P, Readable(room'))
      BY <3>1
    <3>3. PICK O : O = Own'
      OBVIOUS
    <3>4. PICK R : R = Readable(room')
      OBVIOUS
    <3>5. Effect(O, P, R)
      BY <3>2, <3>3, <3>4
    <3>6. Causal' /\ Saved'
      BY <2>1, <3>5, ProvenanceKept
    <3>7. [Log!Next]_(Log!vars)
      BY <1>2, <2>1, <3>1, <3>2, StepLogs
    <3> QED BY <2>1, <3>1, <3>6, <3>7
  <2> QED BY <2>2, <2>3
<1> QED BY <1>1, <1>2

LEMMA ProvenanceInit ==
  ASSUME Init
  PROVE  Provenance /\ Log!Init
<1>1. Base
  BY ChatAssumption, BaseInit
<1>2. Causal /\ Saved
  BY DEF Init, Causal, Saved, Batches
<1>3. Sourced
  <2>1. \A d \in Devices : Tickets[d] \in Nat
    BY <1>1, BaseAt DEF Tickets
  <2> QED BY <2>1, ChatAssumption, InitWithin DEF Sourced
<1>4. Readable(room) = {}
  BY DEF Init, NewRoom, Readable, Rows, HeadSeq
<1>5. \A d \in Devices : Doc(d) = {}
  BY DEF Init, NewClient, Doc, Visible
<1> QED BY <1>1, <1>2, <1>3, <1>4, <1>5 DEF Provenance, Log!Init, Init

\* RefinesLog: as long as the room serves what it has served, which only a
\* wipe and a checkpoint can end, whatever else is lost, repeated or restarted
\* is a step of the log: no batch leaves its author's outbox before the room
\* can serve it, and no document shows one without its history.
THEOREM ImplementsLog == Spec /\ [][Serves]_vars => RefinesLog
<1>1. Init => Provenance /\ Log!Init
  BY ProvenanceInit
<1>2. Provenance /\ [Next]_vars /\ [Serves]_vars => Provenance' /\ [Log!Next]_(Log!vars)
  BY ProvenanceStep
<1> QED BY <1>1, <1>2, PTL DEF Spec, RefinesLog, Log!Spec

-----------------------------------------------------------------------------
(* A chat that no checkpoint is posted for *)

\* No host, no device that posts for the room's size, no batch too large for a
\* row, and no operator that wipes the room.
NoCheckpoints == Host = NoDevice /\ Posters = {} /\ MaxBig = 0 /\ "reset" \notin Faults

\* The client has nothing for the host's watcher.
Calm(c) == {"boot", "event"} \subseteq DOMAIN c /\ c.boot = FALSE /\ c.event = FALSE

\* No post is begun, and nothing asks for one.
NoPosts ==
  /\ used \in [{"big", "wakes", "faults"} -> Nat]
  /\ rejected = [d \in Devices |-> {}] /\ post = [d \in Devices |-> NoPost]
  /\ DOMAIN cl = Devices /\ \A d \in Devices : Calm(cl[d])

LEMMA CalmSet ==
  ASSUME NEW c, Calm(c), NoPosts, NEW d \in Devices, cl' = [cl EXCEPT ![d] = c]
  PROVE  DOMAIN cl' = Devices /\ \A e \in Devices : Calm(cl'[e])
  BY DEF NoPosts

LEMMA CalmRow ==
  ASSUME NEW c, Calm(c), NEW s, NEW b, NEW D
  PROVE  Calm(ApplyRow(c, s, b, D))
  BY DEF Calm, ApplyRow

LEMMA CalmAck ==
  ASSUME NEW c, Calm(c), NEW s, NEW left
  PROVE  Calm(ApplyAck(c, s, left)) /\ Calm(ApplyHttpAck(c, s))
  BY DEF Calm, ApplyAck, ApplyHttpAck

LEMMA CalmCheckpoint ==
  ASSUME NEW c, Calm(c), NEW blob, NEW s
  PROVE  Calm(ApplyCheckpoint(c, blob, s)) /\ Calm(CycleOver(c))
  BY DEF Calm, ApplyCheckpoint, CycleOver

\* Calm, of every client after the step.
Calms == DOMAIN cl' = Devices /\ \A e \in Devices : Calm(cl'[e])

LEMMA CalmEnd ==
  ASSUME NoPosts, NEW d \in Devices, NEW c, Calm(c), EndSession(d, c)
  PROVE  Calms
<1>1. PICK x, y \in BOOLEAN : cl' = [cl EXCEPT ![d] = [c EXCEPT !.hEpoch = x, !.sSame = y]]
  BY DEF EndSession, SetClient
<1>2. Calm([c EXCEPT !.hEpoch = x, !.sSame = y])
  BY DEF Calm
<1> QED BY <1>1, <1>2, CalmSet DEF Calms

LEMMA CalmRepair ==
  ASSUME NoPosts, NEW d \in Devices, NEW c, Calm(c), NEW s, NEW rest, RepairGap(d, c, s, rest)
  PROVE  Calms
<1> DEFINE repair == ~c.needs /\ ~c.asking /\ c.gap
           asked  == [c EXCEPT !.gap = c.gap /\ ~repair, !.asking = c.asking \/ repair]
<1>1. EndSession(d, asked) \/ SetClient(d, asked)
  BY DEF RepairGap
<1>2. Calm(asked)
  BY DEF Calm
<1> HIDE DEF asked
<1> QED BY <1>1, <1>2, CalmEnd, CalmSet DEF Calms, SetClient

LEMMA CalmHandled ==
  ASSUME NoPosts, NEW d \in Devices, NEW c, Calm(c), NEW rest, Handled(d, c, rest)
  PROVE  Calms
  BY CalmRepair, CalmSet DEF Handled, SetClient, Calms

LEMMA CalmActor ==
  ASSUME NoPosts, NoCheckpoints, ChatAssumption, NEW d \in Devices, Actor(d) \/ Disconnect(d)
  PROVE  Calms
<1> DEFINE c == cl[d]
<1>1. Calm(c)
  BY DEF NoPosts
<1>2. ASSUME Dial(d) PROVE Calms
  <2>1. Calm([c EXCEPT !.asking = FALSE])
    BY <1>1 DEF Calm
  <2> QED BY <1>2, <2>1, CalmSet DEF Dial, SetClient, Calms
<1>3. ASSUME RecvClose(d) \/ Disconnect(d) PROVE Calms
  BY <1>1, <1>3, CalmEnd DEF RecvClose, Disconnect
<1>4. ASSUME RecvState(d) PROVE Calms
  <2> DEFINE st == Head(s2c[d]).st
             wiped == c.cursor > st.head
             cont == Contained(c, st, deps)
             joins == [c EXCEPT !.view = ViewOf(st), !.asking = FALSE,
                         !.cursor = CatchUpAfter(c.cursor, st, cont),
                         !.pcursor = IF wiped THEN 0 ELSE c.pcursor,
                         !.event = c.event \/ (wiped /\ d = Host),
                         !.needs = c.needs /\ ~cont, !.sSame = ~cont]
  <2>1. SetClient(d, joins)
    BY <1>4 DEF RecvState
  <2>2. (c.event \/ (wiped /\ d = Host)) = FALSE
    BY <1>1 DEF Calm, NoCheckpoints, ChatAssumption
  <2>3. Calm(joins)
    <3> HIDE DEF wiped, cont, st
    <3> QED BY <1>1, <2>2 DEF Calm
  <2> HIDE DEF joins
  <2> QED BY <2>1, <2>3, CalmSet DEF Calms, SetClient
<1>5. ASSUME Fetch(d) PROVE Calms
  <2>1. UNCHANGED cl \/ EndSession(d, c)
    BY <1>5 DEF Fetch
  <2> QED BY <1>1, <2>1, CalmEnd DEF Calms, NoPosts
<1>6. ASSUME Import(d) PROVE Calms
  <2>1. PICK cur, needs : cl' = [cl EXCEPT ![d] =
          [ApplyCheckpoint(c, ses[d].blob, ses[d].seq) EXCEPT
             !.cursor = cur, !.needs = needs, !.sSame = FALSE]]
    BY <1>6 DEF Import, SetClient
  <2>2. ASSUME NEW x, Calm(x)
        PROVE  Calm([x EXCEPT !.cursor = cur, !.needs = needs, !.sSame = FALSE])
    BY <2>2 DEF Calm
  <2> QED BY <1>1, <2>1, <2>2, CalmCheckpoint, CalmSet DEF Calms
<1>7. ASSUME RecvRow(d) PROVE Calms
  <2>1. PICK s, b, rest : Handled(d, ApplyRow(c, s, b, deps), rest)
    BY <1>7 DEF RecvRow
  <2> QED BY <1>1, <2>1, CalmRow, CalmHandled
<1>8. ASSUME RecvAck(d) PROVE Calms
  <2>1. PICK s, left, rest : Handled(d, ApplyAck(c, s, left), rest)
    BY <1>8 DEF RecvAck
  <2> QED BY <1>1, <2>1, CalmAck, CalmHandled
<1>9. ASSUME RecvQuota(d) PROVE Calms
  <2>1. PICK rest : Handled(d, [c EXCEPT !.blocked = TRUE, !.retry = TRUE], rest)
    BY <1>9 DEF RecvQuota
  <2>2. Calm([c EXCEPT !.blocked = TRUE, !.retry = TRUE])
    BY <1>1 DEF Calm
  <2> QED BY <2>1, <2>2, CalmHandled
<1>10. ASSUME RecvDone(d) PROVE Calms
  <2>1. PICK head, s, rest : \/ RepairGap(d, Joined(d, c, head), s, rest)
                             \/ RepairGap(d, Refreshed(d, c, head), s, rest)
    BY <1>10 DEF RecvDone
  <2>2. Calm(Joined(d, c, head)) /\ Calm(Refreshed(d, c, head))
    BY <1>1 DEF Calm, Joined, Refreshed
  <2> QED BY <2>1, <2>2, CalmRepair
<1> QED BY <1>2, <1>3, <1>4, <1>5, <1>6, <1>7, <1>8, <1>9, <1>10 DEF Actor

LEMMA CalmApply ==
  ASSUME NoPosts, NEW d \in Devices, NEW c, Calm(c), NEW h, Apply(d, c, h)
  PROVE  Calms
<1> DEFINE whole == h.whole /\ c.hEpoch /\ c.cursor >= h.st.head /\ ~c.needs
           gap   == c.gap /\ ~(whole /\ c.hRow)
           ended == [CycleOver(c) EXCEPT !.caught = c.caught \/ whole, !.gap = gap,
                       !.done = IF whole /\ ~gap THEN Larger(c.done, h.ticket) ELSE c.done]
<1>1. SetClient(d, c) \/ SetClient(d, ended)
  BY DEF Apply
<1>2. Calm(ended)
  <2>1. ASSUME NEW x, Calm(x), NEW caught, NEW lost, NEW done
        PROVE  Calm([x EXCEPT !.caught = caught, !.gap = lost, !.done = done])
    BY <2>1 DEF Calm
  <2> HIDE DEF whole, gap
  <2> QED BY <2>1, CalmCheckpoint
<1> HIDE DEF ended
<1> QED BY <1>1, <1>2, CalmSet DEF Calms, SetClient

LEMMA CalmPush ==
  ASSUME NoPosts, NEW d \in Devices, NEW c, Calm(c), NEW todo, Push(d, c, todo)
  PROVE  Calms
<1>1. Calm([c EXCEPT !.hEpoch = TRUE, !.hRow = TRUE])
  BY DEF Calm
<1> QED BY <1>1, CalmSet DEF Push, SetClient, Calms

LEMMA CalmCycle ==
  ASSUME NoPosts, NEW d \in Devices,
         Cycle(d) \/ HttpQuota(d) \/ HttpPostFails(d) \/ HttpFails(d)
  PROVE  Calms
<1> DEFINE c == cl[d]
<1>1. Calm(c)
  BY DEF NoPosts
<1>2. ASSUME HttpStart(d) \/ HttpQuota(d) \/ HttpPostFails(d) PROVE Calms
  BY <1>1, <1>2, CalmPush DEF HttpStart, HttpQuota, HttpPostFails
<1>3. ASSUME HttpAck(d) PROVE Calms
  BY <1>1, <1>3, CalmAck, CalmPush DEF HttpAck
<1>4. ASSUME HttpPost(d) \/ HttpGet(d) PROVE Calms
  BY <1>4 DEF HttpPost, HttpGet, NoPosts, Calms
<1>5. ASSUME HttpFails(d) \/ HttpFetch(d) PROVE Calms
  <2>1. UNCHANGED cl \/ cl' = [cl EXCEPT ![d] = CycleOver(c)]
    BY <1>5 DEF HttpFails, HttpFetch, SetClient
  <2> QED BY <1>1, <2>1, CalmCheckpoint, CalmSet DEF Calms, NoPosts
<1>6. ASSUME HttpState(d) PROVE Calms
  <2>1. PICK view, pcur, seen :
          /\ seen = [c EXCEPT !.view = view, !.pcursor = pcur]
          /\ \/ cl' = [cl EXCEPT ![d] = CycleOver(seen)]
             \/ cl' = [cl EXCEPT ![d] = [seen EXCEPT !.hSame = TRUE]]
             \/ \E st, after, h : Apply(d, Adopt(seen, st, after, TRUE), h)
    BY <1>6 DEF HttpState, SetClient
  <2>2. Calm(seen)
    BY <1>1, <2>1 DEF Calm
  <2>3. Calm(CycleOver(seen)) /\ Calm([seen EXCEPT !.hSame = TRUE])
    BY <2>2, CalmCheckpoint DEF Calm
  <2>4. \A st, after : Calm(Adopt(seen, st, after, TRUE))
    BY <2>2 DEF Calm, Adopt
  <2> QED BY <2>1, <2>3, <2>4, CalmApply, CalmSet DEF Calms
<1>7. ASSUME HttpImport(d) PROVE Calms
  <2>1. PICK blob, seq, st, same, h :
          Apply(d, [Adopt(ApplyCheckpoint(c, blob, seq), st, seq, same) EXCEPT !.hSame = FALSE], h)
    BY <1>7 DEF HttpImport
  <2>2. ASSUME NEW x, Calm(x)
        PROVE  Calm([Adopt(x, st, seq, same) EXCEPT !.hSame = FALSE])
    BY <2>2 DEF Calm, Adopt
  <2> QED BY <1>1, <2>1, <2>2, CalmCheckpoint, CalmApply
<1>8. ASSUME HttpRow(d) PROVE Calms
  <2>1. PICK s, b, h : Apply(d, ApplyRow(c, s, b, deps), h)
    BY <1>8 DEF HttpRow
  <2> QED BY <1>1, <2>1, CalmRow, CalmApply
<1> QED BY <1>2, <1>3, <1>4, <1>5, <1>6, <1>7, <1>8 DEF Cycle

\* Spend, of what may be spent, and of a bound that allows it.
LEMMA SpendKeeps ==
  ASSUME used \in [{"big", "wakes", "faults"} -> Nat],
         NEW what \in {"big", "wakes", "faults"}, NEW bound \in Nat, Spend(what, bound)
  PROVE  used' \in [{"big", "wakes", "faults"} -> Nat] /\ bound # 0
  BY DEF Spend

LEMMA NoPostsStep ==
  ASSUME ChatAssumption, NoCheckpoints, NoPosts, Next
  PROVE  NoPosts'
<1> DEFINE Rest == UNCHANGED <<rejected, post>> /\ used' \in [{"big", "wakes", "faults"} -> Nat]
<1>1. NoPosts' <=> /\ used' \in [{"big", "wakes", "faults"} -> Nat]
                   /\ rejected' = [d \in Devices |-> {}] /\ post' = [d \in Devices |-> NoPost]
                   /\ Calms
  BY DEF NoPosts, Calms
<1>2. Rest /\ Calms => NoPosts'
  BY <1>1 DEF NoPosts
<1>3. UNCHANGED cl => Calms
  BY DEF NoPosts, Calms
<1>4. UNCHANGED <<rejected, post, used>> => Rest
  BY DEF NoPosts
<1>5. ASSUME NEW kind, Fault(kind), UNCHANGED <<rejected, post>> PROVE Rest
  BY <1>5, SpendKeeps DEF Fault, NoPosts, ChatAssumption
<1>6. ASSUME NEW d \in Devices
      PROVE  /\ Calm(cl[d]) /\ post[d] = NoPost /\ post[d].ph = "idle" /\ rejected[d] = {}
  BY DEF NoPosts, NoPost
<1>7. ASSUME NEW d \in Devices, Write(d) PROVE Rest /\ Calms
  <2>1. PICK big \in BOOLEAN, b \in {Len(deps) + 1} :
          /\ big => Spend("big", MaxBig)
          /\ ~big => UNCHANGED <<rejected, used>>
          /\ SetClient(d, [cl[d] EXCEPT !.held = cl[d].held \union {b},
                                        !.event = cl[d].event \/ (big /\ d = Host)])
          /\ UNCHANGED post
    BY <1>7 DEF Write
  <2>2. ~big
    BY <2>1, SpendKeeps DEF NoPosts, NoCheckpoints
  <2>3. (cl[d].event \/ (big /\ d = Host)) = FALSE
    BY <1>6, <2>2 DEF Calm
  <2>4. Calm([cl[d] EXCEPT !.held = cl[d].held \union {b},
                           !.event = cl[d].event \/ (big /\ d = Host)])
    BY <1>6, <2>3 DEF Calm
  <2> QED BY <1>4, <2>1, <2>2, <2>4, CalmSet DEF SetClient, Calms
<1>8. ASSUME NEW d \in Devices, RequestCatchUp(d) PROVE Rest /\ Calms
  <2>1. Rest
    BY <1>8, SpendKeeps DEF RequestCatchUp, NoPosts, ChatAssumption, store
  <2>2. Calm([cl[d] EXCEPT !.asked = cl[d].asked + 1])
    BY <1>6 DEF Calm
  <2> QED BY <1>8, <2>1, <2>2, CalmSet DEF RequestCatchUp, SetClient, Calms
<1>9. ASSUME NEW d \in Devices, Actor(d) PROVE Rest /\ Calms
  <2>1. UNCHANGED <<rejected, post, used>>
    BY <1>9 DEF Actor, Dial, RecvClose, RecvState, Fetch, Import, RecvRow, RecvAck, RecvQuota,
       RecvDone, store
  <2> QED BY <1>4, <1>9, <2>1, CalmActor
<1>10. ASSUME NEW d \in Devices, Clock(d) PROVE Rest /\ Calms
  <2>1. UNCHANGED <<rejected, post, used>>
    BY <1>10 DEF Clock, Refresh, PushPending, PushHead, store
  <2>2. \/ UNCHANGED cl \/ SetClient(d, [cl[d] EXCEPT !.asking = TRUE])
        \/ SetClient(d, [cl[d] EXCEPT !.retry = FALSE])
    BY <1>10 DEF Clock, Refresh, PushPending, PushHead
  <2>3. /\ Calm([cl[d] EXCEPT !.asking = TRUE]) /\ Calm([cl[d] EXCEPT !.retry = FALSE])
    BY <1>6 DEF Calm
  <2> QED BY <1>3, <1>4, <2>1, <2>2, <2>3, CalmSet DEF SetClient, Calms
<1>11. ASSUME NEW d \in Devices, Cycle(d) PROVE Rest /\ Calms
  <2>1. UNCHANGED <<rejected, post, used>>
    BY <1>11 DEF Cycle, HttpStart, HttpPost, HttpAck, HttpGet, HttpState, HttpFetch, HttpImport,
       HttpRow, store
  <2> QED BY <1>4, <1>11, <2>1, CalmCycle
<1>12. ASSUME NEW d \in Devices PROVE ~Poster(d) /\ ~PostFails(d)
  BY <1>6 DEF Poster, PostDue, Bootstrap, HostEvent, Export, PostCheckpoint, PostFails, Calm,
     NoCheckpoints
<1>13. ASSUME NEW d \in Devices, Persister(d) \/ Room(d) PROVE Rest /\ Calms
  <2>1. UNCHANGED <<rejected, post, used, cl>>
    BY <1>13 DEF Persister, Room, FlushSample, FlushSave, RoomHello, RoomRows, RoomPush, store
  <2> QED BY <1>3, <1>4, <2>1
<1>14. ASSUME NEW d \in Devices, Failure(d), ~Crash(d) PROVE Rest /\ Calms
  <2>1. UNCHANGED <<rejected, post>> /\ \E kind : Fault(kind)
    BY <1>12, <1>14 DEF Failure, DialFails, Disconnect, HttpQuota, HttpPostFails, HttpFails,
       RoomQuota, store
  <2>2. Rest
    BY <1>5, <2>1
  <2>3. UNCHANGED cl \/ Disconnect(d) \/ HttpQuota(d) \/ HttpPostFails(d) \/ HttpFails(d)
    BY <1>12, <1>14 DEF Failure, DialFails, RoomQuota
  <2> QED BY <1>3, <2>2, <2>3, CalmActor, CalmCycle
<1>15. ASSUME NEW d \in Devices, Crash(d) PROVE NoPosts'
  <2>1. UNCHANGED rejected /\ post' = [post EXCEPT ![d] = NoPost] /\ Fault("crash")
    BY <1>15 DEF Crash, store
  <2>2. post' = [e \in Devices |-> NoPost]
    BY <2>1 DEF NoPosts
  <2>3. used' \in [{"big", "wakes", "faults"} -> Nat]
    BY <2>1, SpendKeeps DEF Fault, NoPosts, ChatAssumption
  <2>4. Calm(NewClient(Reopened(d), disk[d].cursor, d = Host))
    BY DEF Calm, NewClient, NoCheckpoints, ChatAssumption
  <2>5. Calms
    BY <1>15, <2>4, CalmSet DEF Crash, Calms
  <2> QED BY <1>1, <2>1, <2>2, <2>3, <2>5 DEF NoPosts
<1>16. RoomLate => Rest /\ Calms
  BY <1>3, <1>4 DEF RoomLate, store
<1>17. ~Reset
  BY DEF Reset, Fault, NoCheckpoints
<1> HIDE DEF Rest
<1> QED BY <1>2, <1>7, <1>8, <1>9, <1>10, <1>11, <1>12, <1>13, <1>14, <1>15, <1>16, <1>17
        DEF Next

LEMMA NoPostsInit ==
  ASSUME ChatAssumption, NoCheckpoints, Init
  PROVE  NoPosts
<1>1. ASSUME NEW d \in Devices PROVE Calm(NewClient({}, 0, d = Host))
  BY DEF Calm, NewClient, NoCheckpoints, ChatAssumption
<1>2. cl = [d \in Devices |-> NewClient({}, 0, d = Host)]
  BY DEF Init
<1> QED BY <1>1, <1>2 DEF Init, NoPosts

\* Nothing else takes anything out of the room.
LEMMA NoPostsServes ==
  ASSUME ChatAssumption, NoCheckpoints, NoPosts, Base, Next
  PROVE  Serves
<1>1. PICK O : O = Every
  OBVIOUS
<1>2. PICK P : P = Allowed
  OBVIOUS
<1>3. PICK R : R = Batches
  OBVIOUS
<1>4. PICK N : N = Tickets
  OBVIOUS
<1>5. Within(O, P, R, N)
  BY <1>1, <1>2, <1>3, <1>4 DEF Base
<1>6. /\ R \subseteq Nat /\ \A d \in Devices : N[d] \in Nat /\ O[d] = R /\ P[d] = R \ rejected[d]
  BY <1>1, <1>2, <1>3, <1>4, BaseAt DEF Every, Allowed, Tickets, Batches
<1>7. Frames(O, P, R, N)
  BY <1>2, <1>3, <1>6, BaseFrames
<1>8. RoomMoves(O)
  BY <1>5, <1>7, RoomMoved
<1>9. ~Compacts /\ "reset" \notin Faults
  BY DEF Compacts, NoPosts, NoPost, NoCheckpoints
<1>10. CASE Appends(O)
  <2>1. PICK d \in Devices : \E b \in O[d] : room' = AppendRow(room, d, b)
    BY <1>10 DEF Appends
  <2>2. PICK b \in O[d] : room' = AppendRow(room, d, b)
    BY <2>1
  <2>3. room \in RoomIn /\ room.floor <= HeadSeq(room) /\ b \in Nat
    BY <1>6, <2>2, RoomOfIn, BaseAt DEF Base, Batches
  <2>4. Readable(AppendRow(room, d, b)) = Readable(room) \union {b}
    BY <2>3, AppendFacts
  <2> QED BY <2>2, <2>4 DEF Serves
<1> QED BY <1>8, <1>9, <1>10 DEF RoomMoves, Serves

\* RefinesLog, of a chat that no checkpoint is posted for and that is never
\* wiped: of every such chat, whatever is lost, given up or restarted.
THEOREM PlainChatIsLog == ASSUME NoCheckpoints PROVE Spec => RefinesLog
<1>1. Init => Provenance /\ NoPosts /\ Log!Init
  BY ChatAssumption, ProvenanceInit, NoPostsInit
<1>2. Provenance /\ NoPosts /\ [Next]_vars =>
        Provenance' /\ NoPosts' /\ [Log!Next]_(Log!vars)
  <2> SUFFICES ASSUME Provenance, NoPosts, [Next]_vars
               PROVE  Provenance' /\ NoPosts' /\ [Log!Next]_(Log!vars)
    OBVIOUS
  <2>1. CASE UNCHANGED vars
    <3>1. NoPosts'
      BY <2>1 DEF vars, store, NoPosts
    <3>2. [Serves]_vars
      BY <2>1
    <3> QED BY <3>1, <3>2, ProvenanceStep
  <2>2. CASE Next
    <3>1. NoPosts' /\ Serves
      BY <2>2, ChatAssumption, NoPostsStep, NoPostsServes DEF Provenance
    <3> QED BY <3>1, ProvenanceStep
  <2> QED BY <2>1, <2>2
<1> QED BY <1>1, <1>2, PTL DEF Spec, RefinesLog, Log!Spec

=============================================================================
