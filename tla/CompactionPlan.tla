--------------------------- MODULE CompactionPlan ---------------------------
(***************************************************************************)
(* What compaction decides before it writes: which segments to merge, how  *)
(* to cut the merged records into outputs, and which ids the outputs take. *)
(* From choose_run, longest_tier_run, split_chunks and compact_run of      *)
(* src/src/actors.rs.                                                      *)
(*                                                                         *)
(* A segment's metadata is a record with fields id, tier, count (records)  *)
(* and bytes.  A configuration is a record with fields min_segments,       *)
(* retention (whether any retention is configured), max_records and        *)
(* max_bytes.                                                              *)
(***************************************************************************)
EXTENDS Integers, Sequences, SequencesExt, FiniteSetsExt

AtLeast1(n) == Max({n, 1})

\* "Sealed" is the complement among hot segments.
mergeable(m, config) ==
  /\ m.tier = "hot"
  /\ m.count < AtLeast1(config.max_records)
  /\ m.bytes < AtLeast1(config.max_bytes \div 2)

effective_min(config) ==
  LET min_seg == AtLeast1(config.min_segments)
  IN  IF config.retention THEN min_seg ELSE Max({min_seg, 2})

\* Positions a..b of the segments in id order.
Window(all, a, b) == SubSeq(all, a, b)

\* The maximal stretches of mergeable segments, as pairs of positions.
windows(all, config) ==
  LET ok(i) == i \in DOMAIN all /\ mergeable(all[i], config)
  IN  {w \in (DOMAIN all) \X (DOMAIN all) :
         /\ w[1] <= w[2]
         /\ \A i \in w[1]..w[2] : ok(i)
         /\ ~ok(w[1] - 1) /\ ~ok(w[2] + 1)}

\* Positions a..b of all are of one size tier: largest below 4 x smallest.
OneTier(all, a, b) ==
  LET sizes == {AtLeast1(all[i].count) : i \in a..b}
  IN  a = b \/ Max(sizes) < 4 * Min(sizes)

\* Where the inner loop of longest_tier_run stops when it starts at i.
TierEnd(all, w, i) == Max({j \in i..w[2] : \A k \in i..j : OneTier(all, i, k)})

\* The runs longest_tier_run tries: it restarts behind the end of each.
RECURSIVE TierRuns(_, _, _)
TierRuns(all, w, i) ==
  IF i > w[2] THEN {}
  ELSE {<<i, TierEnd(all, w, i)>>} \cup TierRuns(all, w, TierEnd(all, w, i) + 1)

RunLen(r) == r[2] - r[1] + 1

\* The longest of a set of runs; the earliest of several.
First(runs) ==
  CHOOSE r \in runs : \A s \in runs :
    RunLen(s) < RunLen(r) \/ (RunLen(s) = RunLen(r) /\ r[1] <= s[1])

\* The longest; the latest of several (max_by_key).
LastLongest(runs) ==
  CHOOSE r \in runs : \A s \in runs :
    RunLen(s) < RunLen(r) \/ (RunLen(s) = RunLen(r) /\ s[1] <= r[1])

longest_tier_runs(all, w, min_len) ==
  {r \in TierRuns(all, w, w[1]) : RunLen(r) >= min_len}

ById(segments) == SetToSortSeq(segments, LAMBDA x, y : x.id < y.id)

\* Mutant of choose_run: windows are taken over the mergeable segments
\* alone, as if those between them were not there.
ChooseAcross(segments, config) ==
  LET all == ById({m \in segments : mergeable(m, config)})
      runs == UNION {longest_tier_runs(all, w, effective_min(config)) :
                       w \in windows(all, config)}
  IN  IF runs # {} THEN Range(Window(all, First(runs)[1], First(runs)[2])) ELSE {}

\* choose_run: the segments to merge, or none.  If no run of one tier is
\* long enough and too many segments are around, the longest window.
choose_run(segments, config) ==
  LET all == ById(segments)
      W == windows(all, config)
      runs == UNION {longest_tier_runs(all, w, effective_min(config)) : w \in W}
      hot_count == MapThenSumSet(RunLen, W)
      wide == {w \in W : RunLen(w) >= 2}
      Picked(r) == Range(Window(all, r[1], r[2]))
  IN  IF runs # {} THEN Picked(First(runs))
      ELSE IF hot_count > 4 * AtLeast1(config.min_segments) /\ wide # {}
           THEN Picked(LastLongest(wide))
      ELSE {}

\* split_chunks over the sizes of the records in key order: the positions
\* at which chunks start, given the chunk that starts at `start` and holds
\* `bytes` before position i.
RECURSIVE Cuts(_, _, _, _, _)
Cuts(sizes, config, start, i, bytes) ==
  IF i > Len(sizes) THEN {start}
  ELSE IF i > start /\ (\/ i - start >= AtLeast1(config.max_records)
                        \/ bytes + sizes[i] > config.max_bytes)
       THEN {start} \cup Cuts(sizes, config, i, i + 1, sizes[i])
  ELSE Cuts(sizes, config, start, i + 1, bytes + sizes[i])

\* Mutant of split_chunks: the byte count is not reset at a cut.
SplitNoReset(sizes, config) ==
  LET total(i) == FoldSeq(LAMBDA a, b : a + b, 0, SubSeq(sizes, 1, i))
      cuts == {i \in DOMAIN sizes : i = 1 \/ total(i) > config.max_bytes}
      starts == SetToSortSeq(cuts, <)
  IN  [c \in DOMAIN starts |->
         <<starts[c], IF c = Len(starts) THEN Len(sizes) ELSE starts[c + 1] - 1>>]

\* The chunks, as pairs of first and last position.
split_chunks(sizes, config) ==
  LET starts == SetToSortSeq(Cuts(sizes, config, 1, 1, 0), <)
  IN  IF sizes = <<>> THEN <<>>
      ELSE [c \in DOMAIN starts |->
              <<starts[c], IF c = Len(starts) THEN Len(sizes) ELSE starts[c + 1] - 1>>]

\* The id of chunk c of k: the top k ids of the run, ascending; what exceeds
\* the run takes fresh numbers, from the counter that also numbers the files.
OutputIds(run_ids, k, next) ==
  LET reuse_ids == SetToSortSeq(run_ids, <)
      id_base == Max({0, Len(reuse_ids) - k})
  IN  [c \in 1..k |-> IF id_base + c <= Len(reuse_ids) THEN reuse_ids[id_base + c]
                      ELSE next + 2 * (c - 1) - Len(reuse_ids)]

\* The counter after k outputs: a file number each, and the fresh ids.
NextAfter(run_ids, k, next) == next + k + Max({0, k - Cardinality(run_ids)})
=============================================================================
