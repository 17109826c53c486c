------------------------------ MODULE MCEngine ------------------------------
(***************************************************************************)
(* Engine for TLC.  The sequence numbers only grow; the bounds below end   *)
(* the exploration.  A counter is put and deleted in all WALs but the last *)
(* one that is started, where it is only incremented.                      *)
(***************************************************************************)
EXTENDS EngineCorrect, TLC

CONSTANTS
  MaxSegSeq,    \* segment numbers handed out
  MaxWalSeq,    \* WAL files started
  MaxCount,     \* the sum of a counter
  MinBatch, MaxBatch, \* frames in one put_batch
  MinRun,       \* segments in a compaction run
  MaxTorn,      \* the last WAL that may get a torn frame
  MaxUnstored   \* segments listed in memory that no store brought to disk

KeySymmetry == Permutations(Key)

Bounds ==
  /\ manifest.next <= MaxSegSeq
  /\ walSeq <= MaxWalSeq
  /\ \A k \in Key : acked[k] # NoRec => acked[k].n <= MaxCount
  /\ wpc = "append" => Cardinality(DOMAIN batch) <= MaxBatch
  /\ DOMAIN mem # {} => Cardinality(DOMAIN mem) >= MinBatch
  /\ wpc = "append" /\ walSeq = MaxWalSeq => DOMAIN batch \subseteq PlainKey
  /\ mpc = "merging" => Cardinality(job.run) >= MinRun
  /\ \A w \in torn : w <= MaxTorn
  /\ Cardinality(DOMAIN manifest.segs \ DOMAIN disk.segs) <= MaxUnstored
=============================================================================
