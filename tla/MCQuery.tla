------------------------------ MODULE MCQuery -------------------------------
(***************************************************************************)
(* The queries of Scan over small stores, and the pure algorithms of Text, *)
(* CompactionPlan and Retention over small inputs.  A behaviour either     *)
(* grows a store or takes inputs one after the other.                      *)
(***************************************************************************)
EXTENDS Scan, CompactionPlan

VARIABLE
  input   \* what is asked: <<"store">>, or a kind of input and the input

qvars == <<svars, input>>

-----------------------------------------------------------------------------
Body(ts, labels, numerics, text) ==
  [timestamp |-> ts, labels |-> labels, numerics |-> numerics, text |-> text]

WithKey(body, key) ==
  [key |-> key, timestamp |-> body.timestamp, labels |-> body.labels,
   numerics |-> body.numerics, text |-> body.text]

MCRecords ==
  LET Bs == [full |-> Body(1, [l |-> 1], [n |-> {2}], {<<"a">>}),
             other |-> Body(2, [l |-> 2], <<>>, {<<"A", "S", "-", "b">>}),
             nan |-> Body(1, [l |-> 3], [n |-> {}], {}),
             tomb |-> Body(3, [del |-> 1], <<>>, {})]
  IN  {WithKey(Bs[b[1]], b[2]) : b \in
         ({"full", "other"} \X {<<1>>, <<1, 2>>, <<2>>})
         \cup {<<"nan", <<1>>>>, <<"tomb", <<1>>>>}}

MCDeltas == {WithKey(Body(2, [delta |-> 1], [n |-> {1}], {}), <<1>>)}

All == prefix_only({})
Desc == {[by |-> "Timestamp", desc |-> TRUE]}
Asc == {[by |-> "Timestamp", desc |-> FALSE]}

MCQueries ==
  {All,
   [All EXCEPT !.labels = {<<"l", 1>>}],
   [All EXCEPT !.time = {<<2, 3>>}, !.key_prefix = {<<1>>}],
   [All EXCEPT !.numeric_ranges = {<<"n", 2, 2>>}],
   [All EXCEPT !.numeric_ranges = {<<"n", 3, 4>>}, !.order_by = {[by |-> "n", desc |-> TRUE]}],
   [All EXCEPT !.text_match = {<<"a">>}],
   [All EXCEPT !.text_match = {<<"-">>}],
   [All EXCEPT !.text_match = {<<"b">>}, !.text_like = {<<"A", "S", "%">>}],
   [All EXCEPT !.text_like = {<<"a", "%">>}],
   [All EXCEPT !.text_like = {<<"%", "b">>}, !.omit_text = TRUE],
   [All EXCEPT !.key_prefix = {<<1, 2>>}, !.limit = 1, !.order_by = Asc],
   [All EXCEPT !.after = {<<2, <<1>>>>}],
   [All EXCEPT !.limit = 1, !.order_by = Desc],
   [All EXCEPT !.limit = 1, !.order_by = Desc, !.labels = {<<"l", 2>>}],
   [All EXCEPT !.limit = 2, !.order_by = Asc, !.omit_text = TRUE],
   [All EXCEPT !.limit = 2, !.order_by = {[by |-> "n", desc |-> FALSE]}]}

-----------------------------------------------------------------------------
(* The inputs of the algorithms.                                           *)

SeqsUpTo(S, n) == UNION {[1..m -> S] : m \in 0..n}

Patterns == SeqsUpTo({"a", "S", "-", "%", "_"}, 4)
Texts == SeqsUpTo({"a", "A", "S", "-", "%"}, 3)
Sizes == SeqsUpTo({1, 3, 5}, 5) \ {<<>>}

Meta(tier, n) == [tier |-> tier, count |-> n, bytes |-> 1]
Metas == SeqsUpTo({Meta("hot", 1), Meta("hot", 4), Meta("hot", 9), Meta("cold", 1)}, 5)

KeySet == SeqsUpTo({1, 2}, 2)
Policies ==
  UNION {{{[prefix |-> p, ttl |-> f[p]] : p \in P} : f \in [P -> {1, 2}]} :
           P \in SUBSET {<<>>, <<1>>, <<1, 2>>, <<2>>}}

PlanConfig(min_segments, retention, max_records, max_bytes) ==
  [min_segments |-> min_segments, retention |-> retention,
   max_records |-> max_records, max_bytes |-> max_bytes]

-----------------------------------------------------------------------------
MCInit == StoreInit /\ input = <<"store">>

Grow == input = <<"store">> /\ StoreNext /\ UNCHANGED input

Take(kind, inputs) ==
  /\ writes = 0
  /\ \E x \in inputs : input' = <<kind, x>>
  /\ UNCHANGED svars

Answered == input # <<"store">> /\ input' = <<"store">> /\ UNCHANGED svars

Ask == \/ Take("like", Patterns)
       \/ Take("split", Sizes)
       \/ Take("run", Metas)
       \/ Take("policy", Policies)

MCNext == Grow \/ (input = <<"store">> /\ Ask) \/ Answered
MCSpec == MCInit /\ [][MCNext]_qvars

-----------------------------------------------------------------------------
\* like_match decides LIKE as SQL defines it, whatever the backtracking to
\* the last % does: what it accepts is a match, and it misses a match only if
\* pattern and text both have a %.  (A % of the pattern that meets a % of the
\* text is taken for an ordinary character, and never swallows more; text.rs,
\* like_match, the first test of its loop.)
LikeExact ==
  input[1] = "like" => \A t \in Texts :
    /\ like_match(input[2], t) => Like(input[2], t)
    /\ Like(input[2], t) => like_match(input[2], t) \/ "%" \in Range(input[2]) \cap Range(t)

\* A text that a pattern matches meets every token constraint taken from
\* the pattern, so narrowing by them loses no row; Greek final sigma
\* included.  (text.rs, like_constraints, "Constraints only ever NARROW")
LikeConstraintsSound ==
  input[1] = "like" =>
    \A t \in Texts : Like(input[2], t) =>
      \A c \in like_constraints(input[2]) : Meets(fts_tokens(t), c)

\* The chunks cut the records into consecutive stretches, each within both
\* caps or a single record, and each as long as the caps allow.
\* (actors.rs, split_chunks)
SplitExact ==
  input[1] = "split" => \A cap \in {2, 3} :
    LET sizes == input[2]
        chunks == split_chunks(sizes, PlanConfig(2, FALSE, cap, 6))
        bytes(a, b) == FoldSeq(LAMBDA x, y : x + y, 0, SubSeq(sizes, a, b))
        fits(a, b) == a = b \/ (b - a < cap /\ bytes(a, b) <= 6)
    IN  /\ chunks[1][1] = 1 /\ chunks[Len(chunks)][2] = Len(sizes)
        /\ \A c \in DOMAIN chunks : fits(chunks[c][1], chunks[c][2])
        /\ \A c \in 1..(Len(chunks) - 1) :
             /\ chunks[c + 1][1] = chunks[c][2] + 1
             /\ ~fits(chunks[c][1], chunks[c + 1][1])

\* The run that compaction merges is a stretch of neighbours in recency
\* order, all of them mergeable, so its ids place the outputs rightly; and
\* it is more than one segment unless retention asks for a rewrite.
\* (actors.rs, choose_run, "a run never straddles a non-run segment's id")
RunAdjacent ==
  input[1] = "run" => \A retention \in BOOLEAN :
    LET config == PlanConfig(1, retention, 9, 10)
        all == {[id |-> i, tier |-> input[2][i].tier, count |-> input[2][i].count,
                 bytes |-> input[2][i].bytes] : i \in DOMAIN input[2]}
        run == choose_run(all, config)
        ids == {m.id : m \in run}
    IN  run # {} =>
          /\ ids = Min(ids)..Max(ids)
          /\ \A m \in run : mergeable(m, config)
          /\ retention \/ Cardinality(run) >= 2

\* What grooming concludes from a zone map holds of every key in its range:
\* if one row covers the range every key has a TTL, and none is larger than
\* the largest of the rows that meet the range.  (retention.rs,
\* covers_range, max_ttl_in_range)
TtlBounds ==
  input[1] = "policy" => \A min, max, key \in KeySet :
    ZoneBound(input[2], min, max, key)
=============================================================================
