------------------------------ MODULE MCReader ------------------------------
(***************************************************************************)
(* Reader for TLC, with the bounds of MCEngine.                            *)
(***************************************************************************)
EXTENDS Reader

CONSTANTS
  MaxSegSeq,  \* segment numbers handed out
  MaxWalSeq,  \* WAL files started
  MaxCount,   \* the sum of a counter
  MaxBatch,   \* frames in one put_batch
  MinRun      \* segments in a compaction run

ReadBounds ==
  /\ manifest.next <= MaxSegSeq
  /\ walSeq <= MaxWalSeq
  /\ \A k \in Key : acked[k] # NoRec => acked[k].n <= MaxCount
  /\ wpc = "append" => Cardinality(DOMAIN batch) <= MaxBatch
  /\ mpc = "merging" => Cardinality(job.run) >= MinRun
=============================================================================
