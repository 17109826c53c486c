------------------------------ MODULE Records ------------------------------
(***************************************************************************)
(* Records and their folding, from src/src/record.rs and                   *)
(* src/src/memtable.rs.                                                    *)
(*                                                                         *)
(* A record is abstracted to its kind and one number.  The kind is the     *)
(* pair of engine labels the code tests: "full" (neither), "tomb"          *)
(* (`del=1`), "delta" (`girder.delta=1`).  The number stands for the       *)
(* payload of a full record (distinct numbers are distinct payloads) and   *)
(* for the one numeric that `incr` adds to.                                *)
(*                                                                         *)
(* A table (memtable, frozen memtable, replayed WAL, segment) is a         *)
(* function from the keys it holds to records: one record per key.         *)
(***************************************************************************)
EXTENDS Naturals, FiniteSets, FiniteSetsExt, Functions

CONSTANTS Key, NoRec

Kinds == {"full", "tomb", "delta"}

Record == [kind : Kinds, n : Nat]

ASSUME NoRecAssumption == NoRec \notin Record

\* `get` on a table: the record of k, or NoRec.
Get(t, k) == IF k \in DOMAIN t THEN t[k] ELSE NoRec

EmptyTable == [k \in {} |-> NoRec]

is_delta(r) == r.kind = "delta"

is_tombstone(r) == r.kind = "tomb"

Tombstone == [kind |-> "tomb", n |-> 0]

\* The single fold oracle: a delta onto an earlier version, which may be
\* absent.  A tombstone base contributes nothing and makes the result full.
merge_delta(base, delta) ==
  IF base = NoRec THEN delta
  ELSE IF is_tombstone(base) THEN [kind |-> "full", n |-> delta.n]
  ELSE [kind |-> base.kind, n |-> base.n + delta.n]

\* A newer version (or nothing) laid over an older one: what `get_once`'s
\* fold, the replay loop and the compaction merge each do at one step.
Over(new, old) ==
  IF new = NoRec THEN old
  ELSE IF is_delta(new) THEN merge_delta(old, new)
  ELSE new

\* `MemTable::insert`: newest wins.
insert(t, k, r) == [x \in DOMAIN t \cup {k} |-> IF x = k THEN r ELSE t[x]]

\* Table `new` laid over table `old`, key by key.
OverTable(new, old) ==
  [k \in DOMAIN new \cup DOMAIN old |-> Over(Get(new, k), Get(old, k))]

\* The positions of a stack of tables (a function from numbers, higher is
\* newer, to tables) that hold k.
Holders(stack, k) == {i \in DOMAIN stack : k \in DOMAIN stack[i]}

\* Position i is the newest in the stack that holds k.
Top(stack, k, i) ==
  /\ i \in Holders(stack, k)
  /\ \A j \in Holders(stack, k) : j <= i

\* The newest-to-oldest walk over a stack, by the position it starts from:
\* a delta adds to what the walk finds below it, anything else ends it.
Walk(stack, k) ==
  LET Below[i \in Nat] ==
        Over(IF i \in DOMAIN stack THEN Get(stack[i], k) ELSE NoRec,
             IF i = 0 THEN NoRec ELSE Below[i - 1])
  IN  Below

\* The fold of k over a stack: the walk from the newest table that holds k.
Fold(stack, k) ==
  LET H == Holders(stack, k)
  IN  IF H = {} THEN NoRec ELSE Walk(stack, k)[Max(H)]

\* What a caller is shown: nothing for a tombstone, and never the delta
\* flag (`surface`).
surface(r) == IF r = NoRec \/ is_tombstone(r) THEN NoRec
              ELSE [kind |-> "full", n |-> r.n]
=============================================================================
