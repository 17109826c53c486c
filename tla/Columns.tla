------------------------------ MODULE Columns -------------------------------
(***************************************************************************)
(* One segment as the query paths see it: its zone map, its label, numeric *)
(* and token columns, its block index, and the rows a query selects from   *)
(* them.  From src/src/segment.rs and the predicates of src/src/record.rs. *)
(*                                                                         *)
(* A record has a key (a sequence of numbers), a timestamp, labels (a      *)
(* function from some label names to numbers), numerics (a function from   *)
(* some names to at most one number, where none is NaN) and an optional    *)
(* text.  Optional values are sets with at most one element.  A query has  *)
(* the fields of QuerySpec; its label and numeric conditions are sets of   *)
(* tuples.  Row positions count from 1.  Payload bytes and the encoding of *)
(* the sections are left out: a section decodes to what was encoded.       *)
(***************************************************************************)
EXTENDS Text, Retention

CONSTANTS
  LABEL_VALUES_CAP,    \* label values a zone map tracks (64)
  DICT_MAX,            \* distinct values of a dictionary column (65 535)
  BLOCK_BITSET_CODES,  \* codes a block's bitset can hold (64)
  BLOCK_ROWS,          \* rows of a block (4 096)
  LIKE_PREFIX_BUDGET,  \* tokens a LIKE prefix may expand to (64)
  CharMax              \* the largest character of a key

ASSUME ColumnsAssumption ==
  /\ {LABEL_VALUES_CAP, DICT_MAX, BLOCK_BITSET_CODES, LIKE_PREFIX_BUDGET} \subseteq Nat
  /\ BLOCK_ROWS \in Nat \ {0}
  /\ CharMax \in Nat

Lt(s, t) == s # t /\ Leq(s, t)

\* The reserved labels.
is_delta(r) == "delta" \in DOMAIN r.labels /\ r.labels["delta"] = 1
is_tombstone(r) == "del" \in DOMAIN r.labels /\ r.labels["del"] = 1

-----------------------------------------------------------------------------
(* The naive predicates: QuerySpec::matches and its parts.                 *)

TimeOk(spec, ts) == \A range \in spec.time : range[1] <= ts /\ ts <= range[2]

matches_fields(spec, r) ==
  /\ TimeOk(spec, r.timestamp)
  /\ \A p \in spec.key_prefix : starts_with(r.key, p)
  /\ \A l \in spec.labels : l[1] \in DOMAIN r.labels /\ r.labels[l[1]] = l[2]
  /\ \A n \in spec.numeric_ranges :
       n[1] \in DOMAIN r.numerics /\ \E v \in r.numerics[n[1]] : n[2] <= v /\ v <= n[3]

text_like_ok(spec, r) ==
  \A p \in spec.text_like : \E t \in r.text : like_match(p, t)

matches(spec, r) ==
  /\ matches_fields(spec, r)
  /\ \A q \in spec.text_match : text_contains_all(r.text, fts_tokens(q))
  /\ text_like_ok(spec, r)

-----------------------------------------------------------------------------
(* The zone map of a segment: a sequence of records in key order.          *)

Names(records, field) == UNION {DOMAIN records[i][field] : i \in DOMAIN records}

LabelValues(records, name) ==
  {records[i].labels[name] :
     i \in {j \in DOMAIN records : name \in DOMAIN records[j].labels}}

NumericValues(records, name) ==
  UNION {records[i].numerics[name] :
           i \in {j \in DOMAIN records : name \in DOMAIN records[j].numerics}}

\* (min, max) of numbers; f64::min and max ignore NaN, so if NaN is all
\* there is there are no bounds, and every comparison with them is false.
Bounds2(values) == IF values = {} THEN {} ELSE {<<Min(values), Max(values)>>}

\* ZoneMap::build.  A label with too many values is listed without them.
build(records) ==
  LET ts == {records[i].timestamp : i \in DOMAIN records}
  IN  [min_ts |-> Min(ts), max_ts |-> Max(ts),
       min_key |-> records[1].key, max_key |-> records[Len(records)].key,
       labels |-> [name \in Names(records, "labels") |->
                     LET values == LabelValues(records, name)
                     IN  IF Cardinality(values) > LABEL_VALUES_CAP THEN {} ELSE {values}],
       numerics |-> [name \in Names(records, "numerics") |->
                       Bounds2(NumericValues(records, name))],
       count |-> Len(records)]

\* Mutant of key_range_overlaps_prefix: a range that starts behind the
\* prefix itself is taken to lie behind every key with that prefix.
OverlapsAtPrefix(min_key, max_key, prefix) == Leq(prefix, max_key) /\ Leq(min_key, prefix)

key_range_overlaps_prefix(min_key, max_key, prefix) ==
  /\ ~Lt(max_key, prefix)
  /\ \/ starts_with(min_key, prefix)
     \/ Leq(min_key, prefix)
     \/ Leq(min_key, Append(prefix, CharMax))

may_overlap_prefix(zone, spec) ==
  \A p \in spec.key_prefix : key_range_overlaps_prefix(zone.min_key, zone.max_key, p)

TimesMeet(spec, min_ts, max_ts) ==
  \A range \in spec.time : ~(max_ts < range[1] \/ min_ts > range[2])

\* Some value between the bounds of a numeric column may be in range.
NumericsMeet(spec, numerics) ==
  \A n \in spec.numeric_ranges :
    /\ n[1] \in DOMAIN numerics
    /\ \A b \in numerics[n[1]] : ~(b[2] < n[2] \/ b[1] > n[3])

may_match(zone, spec) ==
  /\ TimesMeet(spec, zone.min_ts, zone.max_ts)
  /\ may_overlap_prefix(zone, spec)
  /\ \A l \in spec.labels :
       l[1] \in DOMAIN zone.labels /\ \A values \in zone.labels[l[1]] : l[2] \in values
  /\ NumericsMeet(spec, zone.numerics)

key_range_overlaps(z1, z2) ==
  ~(Lt(z1.max_key, z2.min_key) \/ Lt(z2.max_key, z1.min_key))

-----------------------------------------------------------------------------
(* The columns.                                                            *)

\* plan_labels for one label: a dictionary (its values in order, and per
\* row the position of the row's value, 0 if it has none), unless there
\* are too many values; then the values themselves.
LabelColumn(records, name) ==
  LET has(i) == name \in DOMAIN records[i].labels
      dict == SetToSortSeq(LabelValues(records, name), <)
      code(v) == CHOOSE c \in DOMAIN dict : dict[c] = v
  IN  IF Len(dict) <= DICT_MAX
      THEN [mode |-> "Dict", dict |-> dict,
            codes |-> [i \in DOMAIN records |->
                         IF has(i) THEN code(records[i].labels[name]) ELSE 0]]
      ELSE [mode |-> "Plain",
            values |-> [i \in DOMAIN records |->
                          IF has(i) THEN {records[i].labels[name]} ELSE {}]]

\* build_blocks: consecutive stretches of rows with their own bounds.  A
\* block whose numbers are all NaN has the bounds (inf, -inf), which no
\* range meets; it is listed here without the name.
build_blocks(records, labels) ==
  LET count == Len(records)
      starts == {s \in 1..count : (s - 1) % BLOCK_ROWS = 0}
      block(s) ==
        LET rows == s..Min({s + BLOCK_ROWS - 1, count})
            part == [i \in 1..Cardinality(rows) |-> records[s + i - 1]]
            ts == {records[i].timestamp : i \in rows}
            small == {n \in DOMAIN labels : labels[n].mode = "Dict"
                                            /\ Len(labels[n].dict) <= BLOCK_BITSET_CODES}
            held == {n \in Names(part, "numerics") : NumericValues(part, n) # {}}
        IN  [rows |-> rows, min_ts |-> Min(ts), max_ts |-> Max(ts),
             first_key |-> records[Min(rows)].key, last_key |-> records[Max(rows)].key,
             numerics |-> [n \in held |-> Bounds2(NumericValues(part, n))],
             label_bitsets |-> [n \in small |->
                {c \in 1..BLOCK_BITSET_CODES : \E i \in rows : labels[n].codes[i] = c}]]
  IN  {block(s) : s \in starts}

\* TokenIndex::build: for each token the rows whose text has it.
TokenIndex(records) ==
  LET tokens(i) == UNION {fts_tokens(t) : t \in records[i].text}
  IN  [t \in UNION {tokens(i) : i \in DOMAIN records} |->
         {i \in DOMAIN records : t \in tokens(i)}]

\* The columns of a segment; one without any text has no token index.
SegmentColumns(records) ==
  LET labels == [n \in Names(records, "labels") |-> LabelColumn(records, n)]
      has_text == \E i \in DOMAIN records : records[i].text # {}
  IN  [count |-> Len(records),
       keys |-> [i \in DOMAIN records |-> records[i].key],
       timestamps |-> [i \in DOMAIN records |-> records[i].timestamp],
       labels |-> labels,
       numerics |-> [n \in Names(records, "numerics") |->
                       [i \in DOMAIN records |->
                          IF n \in DOMAIN records[i].numerics
                          THEN {records[i].numerics[n]} ELSE {}]],
       blocks |-> build_blocks(records, labels),
       texts |-> IF has_text THEN {[i \in DOMAIN records |-> records[i].text]} ELSE {},
       tokens |-> IF has_text THEN {TokenIndex(records)} ELSE {}]

label_value_at(cols, name, i) ==
  IF name \notin DOMAIN cols.labels THEN {}
  ELSE LET col == cols.labels[name]
       IN  IF col.mode = "Plain" THEN col.values[i]
           ELSE IF col.codes[i] = 0 THEN {} ELSE {col.dict[col.codes[i]]}

is_tombstone_at(cols, i) == label_value_at(cols, "del", i) = {1}

numeric_at(cols, name, i) ==
  IF name \in DOMAIN cols.numerics THEN cols.numerics[name][i] ELSE {}

text_at(cols, i) == UNION {texts[i] : texts \in cols.texts}

\* The binary search of find and find_key over rows lo..hi-1.
RECURSIVE Search(_, _, _, _)
Search(keys, key, lo, hi) ==
  LET mid == (lo + hi) \div 2
  IN  IF lo >= hi THEN {}
      ELSE IF Lt(keys[mid], key) THEN Search(keys, key, mid + 1, hi)
      ELSE IF Lt(key, keys[mid]) THEN Search(keys, key, lo, mid)
      ELSE {mid}

find_key(keys, key) == Search(keys, key, 1, Len(keys) + 1)

\* materialize and build_record: the record of row i, its text if wanted.
materialize(cols, i, want_text) ==
  [key |-> cols.keys[i], timestamp |-> cols.timestamps[i],
   labels |-> [n \in {x \in DOMAIN cols.labels : label_value_at(cols, x, i) # {}} |->
                 CHOOSE v \in label_value_at(cols, n, i) : TRUE],
   numerics |-> [n \in {x \in DOMAIN cols.numerics : numeric_at(cols, x, i) # {}} |->
                   CHOOSE v \in numeric_at(cols, n, i) : TRUE],
   text |-> IF want_text THEN text_at(cols, i) ELSE {}]

-----------------------------------------------------------------------------
(* Row selection.                                                          *)

\* rows_matching_all: no token wanted, or one unknown: no row.
rows_matching_all(idx, want) ==
  IF want # {} /\ want \subseteq DOMAIN idx
  THEN {row \in UNION {idx[t] : t \in want} : \A t \in want : row \in idx[t]}
  ELSE {}

\* postings_union_of_prefix: the constraint is dropped when over budget.
postings_union_of_prefix(idx, prefix) ==
  LET range == {t \in DOMAIN idx : IsPrefix(prefix, t)}
  IN  IF Cardinality(range) > LIKE_PREFIX_BUDGET THEN {} ELSE {UNION {idx[t] : t \in range}}

\* like_candidate_lists: the row lists of the usable constraints; none
\* when there is no index or nothing narrows.
like_candidate_lists(cols, pattern) ==
  LET list(idx, c) == IF c.kind = "Token"
                      THEN {IF c.word \in DOMAIN idx THEN idx[c.word] ELSE {}}
                      ELSE postings_union_of_prefix(idx, c.word)
  IN  UNION {UNION {list(idx, c) : c \in like_constraints(pattern)} : idx \in cols.tokens}

\* The code of a wanted label value, if its column is a dictionary that
\* has it.
CodeOf(cols, l) ==
  LET col == cols.labels[l[1]]
  IN  IF col.mode = "Dict" THEN {c \in DOMAIN col.dict : col.dict[c] = l[2]} ELSE {}

\* block_may_match, with the codes that bitsets can rule out (dict_prune).
block_may_match(cols, block, spec) ==
  /\ TimesMeet(spec, block.min_ts, block.max_ts)
  /\ \A p \in spec.key_prefix :
       key_range_overlaps_prefix(block.first_key, block.last_key, p)
  /\ NumericsMeet(spec, block.numerics)
  /\ \A l \in spec.labels : \A c \in CodeOf(cols, l) :
       c <= BLOCK_BITSET_CODES /\ l[1] \in DOMAIN block.label_bitsets
         => c \in block.label_bitsets[l[1]]

\* The early returns: a column is missing, or its dictionary has no such value.
Unanswerable(cols, spec) ==
  \/ \E l \in spec.labels :
       l[1] \in DOMAIN cols.labels => cols.labels[l[1]].mode = "Dict" /\ CodeOf(cols, l) = {}
  \/ \E n \in spec.numeric_ranges : n[1] \notin DOMAIN cols.numerics

\* The per-row tests over the columns.
RowOk(cols, spec, i) ==
  /\ TimeOk(spec, cols.timestamps[i])
  /\ \A p \in spec.key_prefix : starts_with(cols.keys[i], p)
  /\ \A l \in spec.labels : IF cols.labels[l[1]].mode = "Dict"
                           THEN cols.labels[l[1]].codes[i] \in CodeOf(cols, l)
                           ELSE cols.labels[l[1]].values[i] = {l[2]}
  /\ \A n \in spec.numeric_ranges :
       \E cell \in cols.numerics[n[1]][i] : \E v \in cell : n[2] <= v /\ v <= n[3]

\* The candidate rows of the text predicates; none when there are no text
\* predicates that the index can serve.
cand_rows(cols, spec) ==
  LET lists == UNION {like_candidate_lists(cols, p) : p \in spec.text_like}
      exact == {UNION {rows_matching_all(idx, fts_tokens(q)) : idx \in cols.tokens} :
                  q \in spec.text_match}
      all == lists \cup exact
  IN  IF all = {} THEN {} ELSE {{row \in 1..cols.count : \A l \in all : row \in l}}

\* rows_by_columns: the candidates, or every row, of the blocks that may match.
rows_by_columns(cols, spec) ==
  LET live == UNION {b.rows : b \in {x \in cols.blocks : block_may_match(cols, x, spec)}}
  IN  IF Unanswerable(cols, spec) THEN {}
      ELSE {i \in live : (\A cand \in cand_rows(cols, spec) : i \in cand)
                         /\ RowOk(cols, spec, i)}

\* matching_rows: LIKE is verified on the text of every row left.
matching_rows(cols, spec) ==
  IF spec.text_like # {} /\ cols.texts = {} THEN {}
  ELSE {i \in rows_by_columns(cols, spec) :
          \A p \in spec.text_like : \E t \in text_at(cols, i) : like_match(p, t)}
=============================================================================
