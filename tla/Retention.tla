----------------------------- MODULE Retention -----------------------------
(***************************************************************************)
(* The retention policy of src/src/retention.rs.                           *)
(*                                                                         *)
(* A key is a sequence of numbers, compared lexicographically.  An         *)
(* optional value is a set with at most one element.  A compiled policy is *)
(* a set of rows with distinct prefixes: the code keeps it as a list,      *)
(* longest prefix first, and takes the first row that matches.             *)
(***************************************************************************)
EXTENDS Integers, Sequences, SequencesExt, FiniteSetsExt

starts_with(key, prefix) == IsPrefix(prefix, key)

\* The byte order of two keys.
Leq(s, t) ==
  \/ IsPrefix(s, t)
  \/ \E i \in DOMAIN s \cap DOMAIN t :
       /\ s[i] < t[i]
       /\ \A j \in 1..(i - 1) : s[j] = t[j]

\* RetentionPolicy::compile: the global knob is the row of the empty prefix,
\* put before the others; of two rows with one prefix the last wins; a
\* negative TTL counts as 0.
compile(rows, global) ==
  LET all == IF global = {} THEN rows
             ELSE <<[prefix |-> <<>>, ttl |-> CHOOSE g \in global : TRUE]>> \o rows
      LastRow(p) == Max({i \in DOMAIN all : all[i].prefix = p})
  IN  {[prefix |-> p, ttl |-> Max({0, all[LastRow(p)].ttl})] :
         p \in {all[i].prefix : i \in DOMAIN all}}

\* The rows whose prefix the key starts with.
Matching(policy, key) == {row \in policy : starts_with(key, row.prefix)}

\* ttl_for_key: the longest matching prefix decides; none: keep forever.
ttl_for_key(policy, key) ==
  {row.ttl : row \in {r \in Matching(policy, key) :
     \A s \in Matching(policy, key) : Len(s.prefix) <= Len(r.prefix)}}

cutoff_for_key(policy, key, now) == {now - t : t \in ttl_for_key(policy, key)}

\* The per-key test of compaction's and the groomer's retain.
Expired(policy, key, ts, now) == \E c \in cutoff_for_key(policy, key, now) : ts < c

\* covers_range: one row covers both ends of the range.
covers_range(policy, min, max) ==
  \E row \in policy : starts_with(min, row.prefix) /\ starts_with(max, row.prefix)

prefix_intersects_range(prefix, min, max) ==
  /\ Leq(prefix, max)
  /\ starts_with(min, prefix) \/ Leq(min, prefix)

\* Mutant of max_ttl_in_range: only the rows that cover the whole range.
CoveringTtl(policy, min, max) ==
  LET ttls == {row.ttl : row \in {r \in policy :
                 starts_with(min, r.prefix) /\ starts_with(max, r.prefix)}}
  IN  IF ttls = {} THEN {} ELSE {Max(ttls)}

\* max_ttl_in_range: the largest TTL of a row that may govern a key there.
max_ttl_in_range(policy, min, max) ==
  LET ttls == {row.ttl : row \in {r \in policy :
                 prefix_intersects_range(r.prefix, min, max)}}
  IN  IF ttls = {} THEN {} ELSE {Max(ttls)}

\* What grooming concludes from a zone map about a key of its range: if one
\* row covers the range, one TTL governs the key and is no larger than the
\* largest of the rows that meet the range, so that a record older than the
\* zone's cutoff has expired.  (covers_range, max_ttl_in_range)
ZoneBound(policy, min, max, key) ==
  covers_range(policy, min, max) /\ Leq(min, key) /\ Leq(key, max) =>
    \E ttl \in ttl_for_key(policy, key), bound \in max_ttl_in_range(policy, min, max) :
      /\ ttl_for_key(policy, key) = {ttl}
      /\ max_ttl_in_range(policy, min, max) = {bound}
      /\ ttl <= bound
=============================================================================
