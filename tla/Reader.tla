------------------------------- MODULE Reader -------------------------------
(***************************************************************************)
(* One reader beside the two actors: get, scan and count of                *)
(* src/src/engine.rs.  A read looks at the memtable, the frozen list and   *)
(* the manifest under three separate locks, then opens one segment file    *)
(* after another without any; the actors run in between.  A file that      *)
(* compaction deleted meanwhile makes the whole read start over.           *)
(*                                                                         *)
(* A get reads one key.  A scan reads every key, here with no predicate;   *)
(* it first asks deltas_possible whether to fold or to take the newest     *)
(* record as it is (scan_full, count_full).                                *)
(***************************************************************************)
EXTENDS Engine

CONSTANT Retries  \* VANISHED_SEGMENT_RETRIES

ASSUME RetriesAssumption == Retries \in Nat

VARIABLES
  rpc,    \* where the read stands
  want,   \* the keys it reads
  mode,   \* "get", "fold" (scan_fold) or "raw" (scan_full, count_full)
  found,  \* per key, the newest versions so far, laid over each other
  plan,   \* the segments still to read: id -> file, from one manifest
  tries,  \* restarts after a vanished file
  \* history
  seen,   \* what the keys held, at each moment since the read began
  gap,    \* the frozen list was read while freeze held a wanted key
  swaps   \* manifest swaps of compaction since the read began

readVars == <<rpc, want, mode, found, plan, tries>>
rvars == <<vars, readVars, seen, gap, swaps>>

\* What the wanted keys hold now.
Holding == [k \in want |-> surface(acked[k])]

ReadInit ==
  /\ Init
  /\ rpc = "idle" /\ want = {} /\ mode = "get"
  /\ found = EmptyTable /\ plan = EmptyTable /\ tries = 0
  /\ seen = {} /\ gap = FALSE /\ swaps = 0

\* A step of the read sees the engine as it stands.
Looks == UNCHANGED <<vars, seen, swaps>>

HasDeltas(t) == \E k \in DOMAIN t : is_delta(t[k])

(***************************************************************************)
(* The steps of a read                                                     *)
(***************************************************************************)

Begin(m, ks) ==
  /\ phase = "up" /\ rpc = "idle"
  /\ mode' = m /\ want' = ks
  /\ rpc' = IF m = "get" THEN "mem" ELSE "deltas_mem"
  /\ tries' = 0 /\ gap' = FALSE /\ swaps' = 0
  /\ seen' = {[k \in ks |-> surface(acked[k])]}
  /\ UNCHANGED <<vars, found, plan>>

\* deltas_possible, source by source: the first with a delta settles it.
Settle(delta, next) ==
  /\ mode' = IF delta THEN "fold" ELSE "raw"
  /\ rpc' = IF delta THEN "mem" ELSE next
  /\ Looks
  /\ UNCHANGED <<want, found, plan, tries, gap>>

DeltasMem == rpc = "deltas_mem" /\ Settle(HasDeltas(mem), "deltas_frozen")

DeltasFrozen ==
  /\ rpc = "deltas_frozen"
  /\ Settle(\E w \in DOMAIN frozen : HasDeltas(frozen[w]), "deltas_segs")

DeltasSegs ==
  /\ rpc = "deltas_segs"
  /\ Settle(\E f \in Range(manifest.segs) : HasDeltas(files[f]), "mem")

\* Mutant of Lay: the newest version is taken as it is, a delta too.
LayNewest(newer, older) == IF newer = NoRec THEN older ELSE newer

\* An older version laid under what the read has of a key.
Lay(newer, older) ==
  IF mode # "raw" THEN Over(newer, older)
  ELSE IF newer = NoRec THEN older ELSE newer

\* The version of k that a stack of tables contributes.
FromStack(stack, k) ==
  IF mode # "raw" \/ Holders(stack, k) = {} THEN Fold(stack, k)
  ELSE stack[Max(Holders(stack, k))][k]

\* A get returns at the first version that needs nothing below it.
Enough(f) == mode = "get" /\ \A k \in want : f[k] # NoRec /\ ~is_delta(f[k])

ReadMem ==
  /\ rpc = "mem"
  /\ found' = [k \in want |-> Get(mem, k)]
  /\ rpc' = IF Enough(found') THEN "done" ELSE "frozen"
  /\ Looks
  /\ UNCHANGED <<want, mode, plan, tries, gap>>

ReadFrozen ==
  /\ rpc = "frozen"
  /\ found' = [k \in want |-> Lay(found[k], FromStack(frozen, k))]
  /\ gap' = (gap \/ \E k \in want \cap DOMAIN taken : found[k] = NoRec)
  /\ rpc' = IF Enough(found') THEN "done" ELSE "plan"
  /\ Looks
  /\ UNCHANGED <<want, mode, plan, tries>>

\* pruned_segments / walk_plan: one snapshot of the manifest.
ReadPlan ==
  /\ rpc = "plan"
  /\ plan' = manifest.segs
  /\ rpc' = IF DOMAIN plan' = {} THEN "done" ELSE "segments"
  /\ Looks
  /\ UNCHANGED <<want, mode, found, tries, gap>>

\* Mutant of NextId: oldest first.
NextIdOldest == Min(DOMAIN plan)

\* Segments are read newest id first.
NextId == Max(DOMAIN plan)

\* The file to open next.
Ahead == plan[NextId]

ReadSegment ==
  /\ rpc = "segments" /\ Ahead \in DOMAIN files
  /\ found' = [k \in want |-> Lay(found[k], Get(files[Ahead], k))]
  /\ plan' = Restrict(plan, DOMAIN plan \ {NextId})
  /\ rpc' = IF Enough(found') \/ DOMAIN plan' = {} THEN "done" ELSE "segments"
  /\ Looks
  /\ UNCHANGED <<want, mode, tries, gap>>

\* Mutant of Vanished: the retry keeps the old manifest snapshot.
VanishedStale ==
  /\ rpc = "segments" /\ Ahead \notin DOMAIN files
  /\ IF tries < Retries
     THEN tries' = tries + 1 /\ rpc' = "segments"
     ELSE tries' = tries /\ rpc' = "failed"
  /\ Looks
  /\ UNCHANGED <<want, mode, found, plan, gap>>

\* retry_vanished: the file is gone, start over or give up.
Vanished ==
  /\ rpc = "segments" /\ Ahead \notin DOMAIN files
  /\ IF tries < Retries
     THEN /\ tries' = tries + 1
          /\ rpc' = IF mode = "get" THEN "mem" ELSE "deltas_mem"
     ELSE tries' = tries /\ rpc' = "failed"
  /\ found' = EmptyTable /\ plan' = EmptyTable /\ gap' = FALSE
  /\ Looks
  /\ UNCHANGED <<want, mode>>

\* The caller has the result.
End ==
  /\ rpc \in {"done", "failed"}
  /\ rpc' = "idle" /\ want' = {} /\ mode' = "get"
  /\ found' = EmptyTable /\ plan' = EmptyTable /\ tries' = 0
  /\ seen' = {} /\ gap' = FALSE /\ swaps' = 0
  /\ UNCHANGED vars

Read ==
  \/ \E k \in Key : Begin("get", {k})
  \/ Begin("raw", Key)
  \/ DeltasMem
  \/ DeltasFrozen
  \/ DeltasSegs
  \/ ReadMem
  \/ ReadFrozen
  \/ ReadPlan
  \/ ReadSegment
  \/ Vanished
  \/ End

(***************************************************************************)
(* The reader and the engine                                               *)
(***************************************************************************)

Reading == rpc \notin {"idle", "done", "failed"}

\* The engine moves, with or without a read under way.  A read does not
\* outlive the process, and close owns the engine: no read is open then.
Moves ==
  /\ rpc \notin {"done", "failed"}
  /\ UNCHANGED <<readVars, gap>>
  /\ Next
  /\ Reading => phase' = "up"
  /\ seen' = IF Reading THEN seen \cup {Holding'} ELSE seen
  /\ swaps' = IF Reading /\ mpc = "merging" /\ mpc' = "swapped" THEN swaps + 1 ELSE swaps

ReadNext == Read \/ Moves

ReadSpec == ReadInit /\ [][ReadNext]_rvars

(***************************************************************************)
(* Properties                                                              *)
(***************************************************************************)

Result == [k \in want |-> surface(found[k])]

\* G1 for a read that overlaps writes, freezes, flushes and compactions: each
\* key comes back as it was at some moment of the read, unless the read fell
\* into the window in which freeze holds the memtable in neither list.
FreshOutsideFreeze ==
  rpc = "done" /\ ~gap =>
    \A k \in want \cap PlainKey : \E s \in seen : Result[k] = s[k]

\* G1 without the exception.
Fresh ==
  rpc = "done" =>
    \A k \in want \cap PlainKey : \E s \in seen : Result[k] = s[k]

\* A read fails only if compaction swapped the manifest more often during it
\* than the read may retry: a fresh snapshot never names a deleted file.
FailsOnlyUnderChurn == rpc = "failed" => swaps > Retries

\* G4: a scan during which one call took effect shows the store before that
\* call or after it.
ScanAtomic ==
  rpc = "done" /\ ~gap /\ Cardinality(seen) <= 2 => Result \in seen

\* A raw delta never leaves the engine.
NoRawDelta ==
  rpc = "done" /\ mode = "raw" =>
    \A k \in want : found[k] # NoRec => ~is_delta(found[k])

\* A folded read of a counter is never below what the counter was at some
\* moment of the read: increments acknowledged before it are all in it.
CounterNeverLow ==
  rpc = "done" /\ ~gap /\ mode # "raw" =>
    \A k \in want \cap CounterKey : \E s \in seen : Count(Result[k]) >= Count(s[k])

\* A get of a counter shows the sum at some moment of the read.
CounterReadExact ==
  rpc = "done" /\ mode = "get" =>
    \A k \in want \cap CounterKey : \E s \in seen : Result[k] = s[k]
=============================================================================
