---------------------------- MODULE RegistryCore ----------------------------
(***************************************************************************)
(* The merge rule of the registry: what one clocked operation does to one  *)
(* row.  The room (edge/src/registry-core.ts) and every replica            *)
(* (crates/doc/src/registry.rs) run the same rule, so it is written once.  *)
(*                                                                         *)
(* A row is a bag of fields, each with the clock of its last write.  The   *)
(* table is a total function of the keys: a key nobody wrote holds NoRow.  *)
(* Kind and id together are one key.  A clock is the string                *)
(* ms-counter-device padded to a fixed width, whose lexicographic order is *)
(* the order of the number it spells in the mixed base of its three parts; *)
(* it is that number here.                                                 *)
(***************************************************************************)
EXTENDS Integers, FiniteSets

CONSTANTS
  Keys,         \* rows of the table: (kind, id) pairs
  Fields,       \* field names of a row
  Values,       \* field values
  Null,         \* JSON null in a write: "delete this field"; an absent field
  Unset,        \* a field that a write leaves out
  NumDevices,   \* devices are 0 .. NumDevices - 1, in the order of their ids
  MaxCounter    \* 999_999 in the code: the last counter of one millisecond

ASSUME CoreAssumption ==
  /\ NumDevices \in Nat \ {0}
  /\ MaxCounter \in Nat
  /\ IsFiniteSet(Keys)
  /\ IsFiniteSet(Fields)
  /\ Values # {}
  /\ Null \notin Values
  /\ Unset \notin Values \union {Null}

Devices == 0 .. NumDevices - 1

-----------------------------------------------------------------------------
(* Clocks *)

Hlc == Nat

\* `undefined`: no clock was ever stored here.
NoHlc == -1

EncodeHlc(ms, counter, device) ==
  ((ms * (MaxCounter + 1)) + counter) * NumDevices + device

\* encodeHlc(0, 0, "seed"): older than every clock a device emits.
SeedHlc == 0

HlcNewer(a, b) == a > b

-----------------------------------------------------------------------------
(* Rows and operations *)

Row == [ st     : {"missing", "live", "deleted"},
         seq    : Nat,
         delHlc : Hlc \union {NoHlc},
         fields : [Fields -> Values \union {Null}],
         clocks : [Fields -> Hlc \union {NoHlc}] ]

NoFields == [f \in Fields |-> Null]
NoClocks == [f \in Fields |-> NoHlc]

NoRow == [ st |-> "missing", seq |-> 0, delHlc |-> NoHlc,
           fields |-> NoFields, clocks |-> NoClocks ]

Exists(row) == row.st # "missing"

\* The table, and what a frame carries of it: NoRow where it carries nothing.
EmptyTable == [k \in Keys |-> NoRow]

Op == [ op     : {"none", "upsert", "update", "delete"},
        set    : [Fields -> Values \union {Null, Unset}],
        hlc    : Hlc,
        clocks : [Fields -> Hlc \union {NoHlc}] ]

\* "none": the batch has no operation for this key.
NoSet == [f \in Fields |-> Unset]
NoOp  == [op |-> "none", set |-> NoSet, hlc |-> 0, clocks |-> NoClocks]

ClockFor(op, f) == IF op.clocks[f] # NoHlc THEN op.clocks[f] ELSE op.hlc

-----------------------------------------------------------------------------
(* Applying an operation *)

AllClocks(row) == {row.delHlc} \union {row.clocks[f] : f \in Fields}

\* The newest clock anywhere on a row.
MaxClock(row) ==
  CHOOSE h \in AllClocks(row) : \A g \in AllClocks(row) : h >= g

\* A delete beats a tombstone by its clock, a live row only if it is newer
\* than everything on it, and a missing row always.
DeleteBeats(row, op) ==
  CASE row.st = "missing" -> TRUE
    [] row.st = "deleted" -> HlcNewer(op.hlc, row.delHlc)
    [] row.st = "live"    -> \A h \in AllClocks(row) : HlcNewer(op.hlc, h)

Tombstone(row, op) ==
  [row EXCEPT !.st = "deleted", !.delHlc = op.hlc,
              !.fields = NoFields, !.clocks = NoClocks]

\* Mutant of Writable: any upsert revives, however old.
ReviveAlways(row, op) ==
  CASE row.st = "missing" -> op.op = "upsert"
    [] row.st = "deleted" -> op.op = "upsert"
    [] row.st = "live"    -> TRUE

\* An upsert creates a missing row and revives an older tombstone, which
\* leaves its delHlc behind; an update does neither.
Writable(row, op) ==
  CASE row.st = "missing" -> op.op = "upsert"
    [] row.st = "deleted" -> op.op = "upsert" /\ HlcNewer(op.hlc, row.delHlc)
    [] row.st = "live"    -> TRUE

FieldWins(row, op, f) ==
  op.set[f] # Unset /\ HlcNewer(ClockFor(op, f), row.clocks[f])

WriteFields(row, op) ==
  [row EXCEPT
     !.st     = "live",
     !.fields = [f \in Fields |->
                   IF FieldWins(row, op, f) THEN op.set[f] ELSE row.fields[f]],
     !.clocks = [f \in Fields |->
                   IF FieldWins(row, op, f) THEN ClockFor(op, f)
                                            ELSE row.clocks[f]]]

Changed(row, op) ==
  CASE op.op = "none"   -> FALSE
    [] op.op = "delete" -> DeleteBeats(row, op)
    [] OTHER            -> /\ Writable(row, op)
                           /\ \/ row.st # "live"
                              \/ \E f \in Fields : FieldWins(row, op, f)

ApplyOp(row, op) ==
  IF ~Changed(row, op) THEN row
  ELSE IF op.op = "delete" THEN Tombstone(row, op)
  ELSE WriteFields(row, op)

\* A row as the operation that re-creates it with its original clocks.  A
\* cleared field is no longer among the row's fields, so it is not in `set`:
\* its clock travels in `clocks`, where the receiver looks up written fields
\* only.
RowToSeedOp(row) ==
  CASE row.st = "missing" -> NoOp
    [] row.st = "deleted" ->
         [op |-> "delete", set |-> NoSet, clocks |-> NoClocks,
          hlc |-> IF row.delHlc # NoHlc THEN row.delHlc ELSE SeedHlc]
    [] row.st = "live" ->
         [op |-> "upsert",
          set |-> [f \in Fields |->
                     IF row.fields[f] # Null THEN row.fields[f] ELSE Unset],
          hlc |-> IF MaxClock(row) # NoHlc THEN MaxClock(row) ELSE SeedHlc,
          clocks |-> row.clocks]

=============================================================================
