-------------------------------- MODULE Scan --------------------------------
(***************************************************************************)
(* Queries over a store at rest: get, scan and count of src/src/engine.rs  *)
(* with the memtable of src/src/memtable.rs and the segments of Columns.   *)
(*                                                                         *)
(* The store grows by writes, freezes and flushes; the queries are         *)
(* operators over its state, so that the properties say what each of them  *)
(* answers in every store that can arise.  What happens to a query while   *)
(* writes and maintenance go on is the subject of Reader and SegmentFiles. *)
(* value is what the writes say, key by key: it is written by no query.    *)
(***************************************************************************)
EXTENDS Columns

CONSTANTS
  Records,   \* what may be put (a tombstone is a delete)
  Deltas,    \* what may be added with incr
  Queries,   \* the queries asked
  MaxWrites

VARIABLES
  mem,       \* the memtable
  frozen,    \* frozen memtables, oldest first
  segments,  \* zone map and columns of the segments, position = id
  value,     \* history: the live record of each key that has one
  writes     \* number of writes

svars == <<mem, frozen, segments, value, writes>>

-----------------------------------------------------------------------------
(* The memtable.                                                           *)

Empty == [records |-> <<>>, token_keys |-> <<>>, delta_keys |-> 0]

\* values(): the records in key order.
values(map) ==
  [i \in 1..Cardinality(DOMAIN map.records) |->
     map.records[SetToSortSeq(DOMAIN map.records, Lt)[i]]]

\* Mutant of insert: the old version's tokens stay.
InsertKeepsTokens(map, record) ==
  LET key == record.key
      fresh == UNION {fts_tokens(t) : t \in record.text}
      old == {k \in {key} \cap DOMAIN map.records : is_delta(map.records[k])}
      keys(t) == (IF t \in DOMAIN map.token_keys THEN map.token_keys[t] ELSE {})
                 \cup (IF t \in fresh THEN {key} ELSE {})
  IN  [records |-> [k \in DOMAIN map.records \cup {key} |->
                      IF k = key THEN record ELSE map.records[k]],
       token_keys |-> [t \in DOMAIN map.token_keys \cup fresh |-> keys(t)],
       delta_keys |-> map.delta_keys - Cardinality(old) + (IF is_delta(record) THEN 1 ELSE 0)]

\* MemTable::insert: the upsert keeps the token map in step, removing the
\* tokens of the version it replaces, and counts the deltas held.
insert(map, record) ==
  LET key == record.key
      fresh == UNION {fts_tokens(t) : t \in record.text}
      old == {k \in {key} \cap DOMAIN map.records : is_delta(map.records[k])}
      keys(t) == (IF t \in DOMAIN map.token_keys THEN map.token_keys[t] \ {key} ELSE {})
                 \cup (IF t \in fresh THEN {key} ELSE {})
  IN  [records |-> [k \in DOMAIN map.records \cup {key} |->
                      IF k = key THEN record ELSE map.records[k]],
       token_keys |-> [t \in {x \in DOMAIN map.token_keys \cup fresh : keys(x) # {}} |-> keys(t)],
       delta_keys |-> map.delta_keys - Cardinality(old) + (IF is_delta(record) THEN 1 ELSE 0)]

clear_delta(r) == [r EXCEPT !.labels = [n \in DOMAIN @ \ {"delta"} |-> @[n]]]

\* The numerics of two records added, name by name; a sum with NaN is NaN.
AddNumerics(x, y) ==
  [n \in DOMAIN x \cup DOMAIN y |->
     IF n \notin DOMAIN x THEN y[n] ELSE IF n \notin DOMAIN y THEN x[n]
     ELSE {a + b : a \in x[n], b \in y[n]}]

\* Mutant of merge_delta: on a tombstone the increment stays a delta.
MergeThroughTombstone(base, delta) ==
  IF base = {} THEN delta
  ELSE LET b == CHOOSE x \in base : TRUE
           merged == [b EXCEPT !.numerics = AddNumerics(@, delta.numerics),
                               !.timestamp = Max({@, delta.timestamp})]
       IN  IF is_tombstone(b) THEN delta
           ELSE IF is_delta(b) THEN merged ELSE clear_delta(merged)

\* merge_delta: a delta folded onto an earlier version of its key, if any.
merge_delta(base, delta) ==
  IF base = {} THEN delta
  ELSE LET b == CHOOSE x \in base : TRUE
           merged == [b EXCEPT !.numerics = AddNumerics(@, delta.numerics),
                               !.timestamp = Max({@, delta.timestamp})]
       IN  IF is_tombstone(b) THEN clear_delta(delta)
           ELSE IF is_delta(b) THEN merged ELSE clear_delta(merged)

\* Entry k of a function, if it has one.
At(f, k) == IF k \in DOMAIN f THEN {f[k]} ELSE {}

insert_delta(map, delta) == insert(map, merge_delta(At(map.records, delta.key), delta))

text_candidates(map, want) ==
  IF want # {} /\ want \subseteq DOMAIN map.token_keys
  THEN {k \in DOMAIN map.records : \A t \in want : k \in map.token_keys[t]}
  ELSE {}

-----------------------------------------------------------------------------
(* The store.                                                              *)

StoreInit ==
  mem = Empty /\ frozen = <<>> /\ segments = <<>> /\ value = <<>> /\ writes = 0

\* put and delete: value keeps the record, or nothing.
Put(r) ==
  /\ writes < MaxWrites
  /\ mem' = insert(mem, r)
  /\ value' = [k \in (DOMAIN value \cup {r.key}) \ {x \in {r.key} : is_tombstone(r)} |->
                 IF k = r.key THEN r ELSE value[k]]
  /\ writes' = writes + 1
  /\ UNCHANGED <<frozen, segments>>

\* incr: value adds to the live record, or starts anew.
Incr(d) ==
  /\ writes < MaxWrites
  /\ mem' = insert_delta(mem, d)
  /\ value' = [k \in DOMAIN value \cup {d.key} |->
                 IF k # d.key THEN value[k]
                 ELSE IF k \notin DOMAIN value THEN clear_delta(d)
                 ELSE [value[k] EXCEPT !.numerics = AddNumerics(@, d.numerics),
                                       !.timestamp = Max({@, d.timestamp})]]
  /\ writes' = writes + 1
  /\ UNCHANGED <<frozen, segments>>

Freeze ==
  /\ DOMAIN mem.records # {}
  /\ mem' = Empty
  /\ frozen' = Append(frozen, mem)
  /\ UNCHANGED <<segments, value, writes>>

\* The oldest frozen memtable becomes the newest segment.
Flush ==
  /\ frozen # <<>>
  /\ segments' = Append(segments, LET rows == values(Head(frozen))
                                 IN  [zone |-> build(rows), cols |-> SegmentColumns(rows)])
  /\ frozen' = Tail(frozen)
  /\ UNCHANGED <<mem, value, writes>>

StoreNext == (\E r \in Records : Put(r)) \/ (\E d \in Deltas : Incr(d)) \/ Freeze \/ Flush

-----------------------------------------------------------------------------
(* The parts that the queries share.                                       *)

\* The sources in memory, newest first.
InMemory == <<mem>> \o Reverse(frozen)

Zone(id) == segments[id].zone

need_tokens(spec) ==
  spec.text_match # {} \/ \E p \in spec.text_like : like_constraints(p) # {}

\* load_segment: the token index is read only when the query needs it.
load_segment(id, spec) ==
  IF need_tokens(spec) THEN segments[id].cols ELSE [segments[id].cols EXCEPT !.tokens = {}]

\* pruned_segments: newest first.
pruned_segments(spec) ==
  SetToSortSeq({id \in DOMAIN segments : may_match(Zone(id), spec)}, >)

key_ranges_disjoint(ids) ==
  \A i, j \in ids : i # j => ~key_range_overlaps(Zone(i), Zone(j))

\* Mutant of walk_plan: only segments that may match are kept, the way the
\* zone maps alone prune.
PlanUnshadowed(spec) ==
  LET visit == {id \in DOMAIN segments : may_match(Zone(id), spec)}
  IN  [steps |-> SetToSortSeq(visit, >), visit |-> visit,
       track_shadows |-> ~key_ranges_disjoint(visit)]

\* walk_plan: the segments to visit and those that only shadow, newest
\* first, and whether shadows have to be tracked.
walk_plan(spec) ==
  LET near == {id \in DOMAIN segments : may_overlap_prefix(Zone(id), spec)}
      visit == {id \in near : may_match(Zone(id), spec)}
      kept == visit \cup {id \in near : \E v \in visit :
                            v < id /\ key_range_overlaps(Zone(v), Zone(id))}
      disjoint == key_ranges_disjoint(kept)
  IN  [steps |-> SetToSortSeq(IF disjoint THEN visit ELSE kept, >),
       visit |-> visit, track_shadows |-> ~disjoint]

\* ShadowProbe::shadowed: a step before idx has the key.
shadowed(steps, idx, key) ==
  \E j \in 1..(idx - 1) :
    /\ Leq(Zone(steps[j]).min_key, key) /\ Leq(key, Zone(steps[j]).max_key)
    /\ find_key(segments[steps[j]].cols.keys, key) # {}

mem_matches(spec, r, map) ==
  IF spec.text_match = {} THEN matches(spec, r)
  ELSE /\ r.key \in text_candidates(map, UNION {fts_tokens(q) : q \in spec.text_match})
       /\ matches_fields(spec, r) /\ text_like_ok(spec, r)

\* The effective order; none is newest first.
Order(spec) == IF spec.order_by = {} THEN [by |-> "Timestamp", desc |-> TRUE]
               ELSE CHOOSE o \in spec.order_by : TRUE

\* Mutant of after_ok: a tie with the bound's timestamp is served already.
AfterNoTie(spec, ts, key) ==
  \A b \in spec.after : IF Order(spec).desc THEN ts < b[1] ELSE ts > b[1]

\* after_bound_ok and after_ok_cols: strictly behind the bound.
after_ok(spec, ts, key) ==
  \A b \in spec.after :
    \/ IF Order(spec).desc THEN ts < b[1] ELSE ts > b[1]
    \/ ts = b[1] /\ Lt(b[2], key)

\* make_prim: <<class, ord>>, missing and NaN behind all else.
make_prim(order, ts, num) ==
  LET sign == IF order.desc THEN -1 ELSE 1
  IN  IF order.by = "Timestamp" THEN <<0, sign * ts>>
      ELSE IF UNION num = {} THEN <<1, 0>>
      ELSE <<0, sign * (CHOOSE v \in UNION num : TRUE)>>

Prim(order, r) ==
  make_prim(order, r.timestamp,
            IF order.by = "Timestamp" THEN {} ELSE At(r.numerics, order.by))

PrimLt(p, q) == p[1] < q[1] \/ (p[1] = q[1] /\ p[2] < q[2])

\* record_cmp, and HeapItem's order.
record_cmp(order, a, b) ==
  \/ PrimLt(Prim(order, a), Prim(order, b))
  \/ Prim(order, a) = Prim(order, b) /\ Lt(a.key, b.key)

strip_text_if_omitted(spec, out) ==
  IF spec.omit_text THEN [i \in DOMAIN out |-> [out[i] EXCEPT !.text = {}]] ELSE out

truncate(spec, out) ==
  IF spec.limit > 0 /\ Len(out) > spec.limit THEN SubSeq(out, 1, spec.limit) ELSE out

\* What is found is a set of records, each with the place it was found in.
Found(place, r) == [place |-> place, record |-> r]

Better(spec, a, b) == record_cmp(Order(spec), a.record, b.record)

Page(spec, found) ==
  LET lt(a, b) == Better(spec, a, b)
      sorted == SetToSortSeq(found, lt)
  IN  strip_text_if_omitted(spec, truncate(spec, [i \in DOMAIN sorted |-> sorted[i].record]))

-----------------------------------------------------------------------------
(* The walk of scan_full, count_full and scan_topk.                        *)

\* The keys of the first n sources in memory.
Seen(n) == UNION {DOMAIN InMemory[j].records : j \in 1..n}

\* Memtable and frozen: the first source that has a key speaks for it.
MemFound(spec) ==
  UNION {{Found(-j, r) : r \in {x \in Range(values(InMemory[j])) :
            /\ x.key \notin Seen(j - 1) /\ ~is_tombstone(x)
            /\ mem_matches(spec, x, InMemory[j])
            /\ after_ok(spec, x.timestamp, x.key)}} : j \in DOMAIN InMemory}

\* The rows of step idx that no newer source shadows.
StepRows(spec, plan, idx) ==
  LET cols == load_segment(plan.steps[idx], spec)
  IN  {r \in matching_rows(cols, spec) :
         /\ cols.keys[r] \notin Seen(Len(InMemory)) /\ ~is_tombstone_at(cols, r)
         /\ plan.track_shadows => ~shadowed(plan.steps, idx, cols.keys[r])
         /\ after_ok(spec, cols.timestamps[r], cols.keys[r])}

Visits(plan) == {idx \in DOMAIN plan.steps : plan.steps[idx] \in plan.visit}

StepFound(spec, plan, idx) ==
  {Found(idx, materialize(load_segment(plan.steps[idx], spec), r, ~spec.omit_text)) :
     r \in StepRows(spec, plan, idx)}

scan_full(spec) ==
  LET plan == walk_plan(spec)
  IN  Page(spec, MemFound(spec) \cup UNION {StepFound(spec, plan, idx) : idx \in Visits(plan)})

\* count_full: the same walk; nothing is materialized.
count_full(spec) ==
  LET plan == walk_plan(spec)
  IN  Cardinality(MemFound(spec))
      + MapThenSumSet(LAMBDA idx : Cardinality(StepRows(spec, plan, idx)), Visits(plan))

\* offer, for a set of candidates: the best of them and of the heap stay.
offer(spec, heap, cands) ==
  LET all == heap \cup cands
  IN  {c \in all : Cardinality({d \in all : Better(spec, d, c)}) < spec.limit}

\* Mutant of suffix_max_ts: the bound is of the next step alone.
SuffixNextOnly(plan, i) == {Zone(plan.steps[j]).max_ts : j \in Visits(plan) \cap {i}}

\* suffix_max_ts: the largest timestamps of the steps from i on that emit.
suffix_max_ts(plan, i) ==
  {Zone(plan.steps[j]).max_ts : j \in {v \in Visits(plan) : v >= i}}

\* The loop of scan_topk from step i: it stops once no row to come can
\* beat the weakest of a full heap.
RECURSIVE TopkFrom(_, _, _, _)
TopkFrom(spec, plan, i, heap) ==
  LET worst == CHOOSE w \in heap : \A h \in heap : ~Better(spec, w, h)
      early_term == Order(spec) = [by |-> "Timestamp", desc |-> TRUE]
  IN  IF i > Len(plan.steps) THEN heap
      ELSE IF /\ early_term /\ Cardinality(heap) >= spec.limit
              /\ \A ts \in suffix_max_ts(plan, i) : ts < worst.record.timestamp
           THEN heap
      ELSE TopkFrom(spec, plan, i + 1,
                    IF i \in Visits(plan) THEN offer(spec, heap, StepFound(spec, plan, i))
                    ELSE heap)

scan_topk(spec) ==
  Page(spec, TopkFrom(spec, walk_plan(spec), 1, offer(spec, {}, MemFound(spec))))

-----------------------------------------------------------------------------
(* The fold, and the three operations.                                     *)

prefix_only(prefix) ==
  [time |-> {}, labels |-> {}, numeric_ranges |-> {}, key_prefix |-> prefix, limit |-> 0,
   order_by |-> {}, after |-> {}, text_match |-> {}, text_like |-> {}, omit_text |-> FALSE]

deltas_possible(spec) ==
  \/ mem.delta_keys > 0
  \/ \E j \in DOMAIN frozen : frozen[j].delta_keys > 0
  \/ \E id \in DOMAIN segments :
       /\ may_match(Zone(id), prefix_only(spec.key_prefix))
       /\ "delta" \in DOMAIN Zone(id).labels
       /\ \A vals \in Zone(id).labels["delta"] : 1 \in vals

\* The versions of a key, newest first: those in memory, then those in the
\* segments that narrow leaves, in the rows that Rows(columns) gives.
Versions(key, narrow, Rows(_), want_text) ==
  LET ids == pruned_segments(narrow)
      inMem == [j \in DOMAIN InMemory |-> At(InMemory[j].records, key)]
      inSeg == [i \in DOMAIN ids |->
                  LET cols == load_segment(ids[i], narrow)
                  IN  {materialize(cols, r, want_text) : r \in Rows(cols)}]
  IN  SelectSeq(inMem \o inSeg, LAMBDA x : x # {})

\* feed, and get_once's fold: deltas gather until a full version ends them.
RECURSIVE FoldFrom(_, _)
FoldFrom(acc, versions) ==
  IF versions = <<>> THEN acc
  ELSE IF acc = {} THEN FoldFrom(Head(versions), Tail(versions))
  ELSE IF ~is_delta(CHOOSE x \in acc : TRUE) THEN acc
  ELSE FoldFrom({merge_delta(Head(versions), CHOOSE x \in acc : TRUE)}, Tail(versions))

\* surface: the delta mark is stripped, a tombstone reads as absent.
surface(acc) == {clear_delta(r) : r \in {x \in acc : ~is_tombstone(x)}}

\* get_once: the segments are narrowed to those that may hold the key.
get(key) ==
  LET Rows(cols) == find_key(cols.keys, key)
  IN  surface(FoldFrom({}, Versions(key, prefix_only({key}), Rows, TRUE)))

\* Keys that some source holds.
Keys == UNION {DOMAIN InMemory[j].records : j \in DOMAIN InMemory}
        \cup UNION {Range(segments[id].cols.keys) : id \in DOMAIN segments}

\* Mutant of scan_fold: the segments are narrowed by the whole query.
FoldNarrowed(spec) ==
  LET Rows(key, cols) == {r \in matching_rows(cols, spec) : cols.keys[r] = key}
      Folded(key) == LET OfKey(cols) == Rows(key, cols)
                     IN  surface(FoldFrom({}, Versions(key, spec, OfKey, TRUE)))
      near == {k \in Keys : \A p \in spec.key_prefix : starts_with(k, p)}
  IN  Page(spec, {Found(0, r) : r \in {x \in UNION {Folded(k) : k \in near} :
                    matches(spec, x) /\ after_ok(spec, x.timestamp, x.key)}})

\* scan_fold: narrow by prefix alone, fold, then apply the whole query.
scan_fold(spec) ==
  LET stripped == prefix_only(spec.key_prefix)
      wants_text == ~spec.omit_text \/ spec.text_match # {} \/ spec.text_like # {}
      Folded(key) ==
        LET OfKey(cols) == {r \in matching_rows(cols, stripped) : cols.keys[r] = key}
        IN  surface(FoldFrom({}, Versions(key, stripped, OfKey, wants_text)))
      near == {k \in Keys : \A p \in spec.key_prefix : starts_with(k, p)}
  IN  Page(spec, {Found(0, r) : r \in {x \in UNION {Folded(k) : k \in near} :
                    matches(spec, x) /\ after_ok(spec, x.timestamp, x.key)}})

\* A keyset bound is refused with an order that is not by timestamp.
scan_rejects(spec) == spec.after # {} /\ Order(spec).by # "Timestamp"

scan(spec) ==
  IF deltas_possible(spec) THEN scan_fold(spec)
  ELSE IF spec.limit > 0 /\ spec.order_by # {} THEN scan_topk(spec)
  ELSE scan_full(spec)

count(spec) ==
  LET unbounded == [spec EXCEPT !.limit = 0, !.order_by = {}]
  IN  IF deltas_possible(unbounded) THEN Len(scan_fold(unbounded)) ELSE count_full(unbounded)

-----------------------------------------------------------------------------
(* Properties.                                                             *)

\* The answer that the writes call for.
Answer(spec) ==
  Page(spec, {Found(0, r) : r \in {x \in Range(value) :
                matches(spec, x) /\ after_ok(spec, x.timestamp, x.key)}})

\* A scan returns the live records that match, each once, in the order
\* asked for, whichever of the full walk, the top-k heap with its early
\* stop and the fold serves it, and however zone maps, block bounds, token
\* index and the walk plan prune.  (Girder::scan, walk_plan)
ScanExact == \A q \in Queries : scan_rejects(q) \/ scan(q) = Answer(q)

\* The early stop of the top-k walk loses no row: its page is the beginning
\* of the full walk's answer, also where a key was rewritten with an older
\* timestamp.  (scan_topk, "Early-termination soundness")
TopkStopsSoundly ==
  \A q \in Queries : q.limit > 0 /\ q.order_by # {} /\ ~deltas_possible(q)
    => scan_topk(q) = truncate(q, scan_full([q EXCEPT !.limit = 0]))

\* Where no increments are about, the fold and the pruning walk agree: which
\* of them serves a query cannot be told from the answer.  (Girder::scan,
\* deltas_possible)
FoldMatchesWalk ==
  \A q \in Queries : ~deltas_possible(q) => scan_fold(q) = scan_full(q)

\* A count is the number of live records that match.  (Girder::count)
CountExact ==
  \A q \in Queries : q.after # {} \/ count(q) = Len(Answer([q EXCEPT !.limit = 0]))

\* Point lookups return the live record, with increments folded onto the
\* version they were made on.  (Girder::get)
GetExact == \A k \in Keys \cup DOMAIN value : get(k) = At(value, k)

\* Within a segment, the rows that the columns, the block index and the
\* token index select are those that the naive predicate selects, and the
\* zone map lets the segment be read if there is one.  (matching_rows,
\* "Backends of the text predicate must agree with this exactly")
RowsExact ==
  \A id \in DOMAIN segments, q \in Queries :
    LET cols == load_segment(id, q)
        rows == matching_rows(cols, q)
    IN  /\ rows = {i \in 1..cols.count : matches(q, materialize(cols, i, TRUE))}
        /\ rows # {} => may_match(Zone(id), q)

\* The pages that follow each other through the keyset bound.
RECURSIVE Pages(_)
Pages(spec) ==
  LET page == scan(spec)
      end == page[Len(page)]
  IN  IF page = <<>> THEN <<>>
      ELSE page \o Pages([spec EXCEPT !.after = {<<end.timestamp, end.key>>}])

\* Pages chained through the keyset bound serve every row of the unbounded
\* scan once and in order.  (QuerySpec::after)
PagesExact ==
  \A q \in Queries : q.limit > 0 /\ q.after = {} /\ Order(q).by = "Timestamp"
    => Pages(q) = scan([q EXCEPT !.limit = 0])
=============================================================================
