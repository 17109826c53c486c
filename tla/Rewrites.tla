------------------------------ MODULE Rewrites ------------------------------
(***************************************************************************)
(* The maintenance passes that rewrite or drop segments: compaction with   *)
(* retention, purge_key, sealed-segment reclamation, hot-to-cold tiering,  *)
(* grooming and format migration, from src/src/actors.rs.                  *)
(*                                                                         *)
(* One tick runs the passes in the code's order.  Clients write between    *)
(* any two passes and, inside the groomer, between its snapshot of the     *)
(* delta ranges and each segment it then drops.  A pass itself is one      *)
(* step: the maintenance actor alone changes the segment list, and the     *)
(* file-level steps and crashes are those of Engine and SegmentFiles.      *)
(*                                                                         *)
(* The memtable stands for the memtable and the frozen list together.  A   *)
(* record carries its timestamp.  Every client write moves the clock, so   *)
(* a timestamp also names a version.  All records have the same size.      *)
(***************************************************************************)
EXTENDS Retention, CompactionPlan, Functions

CONSTANTS
  Key,         \* sequences of numbers
  PutKey,      \* the keys `put` is called on
  CounterKey,  \* the keys `incr` is called on
  DeleteKey,   \* the keys `delete` is called on
  PurgeKey,    \* the keys `purge_key` is called on
  Rows,        \* GirderConfig.retention
  Global,      \* GirderConfig.retention_nanos, as an optional value
  MinSegments, \* compact_min_segments
  MaxRecords,  \* max_segment_records
  MaxBytes,    \* max_segment_bytes, in records
  HotTtl,      \* hot_ttl_nanos
  Legacy,      \* sequences of tables: v1 segments the store may start with
  MaxNow,      \* bound: the clock
  MaxSegs      \* bound: segments at one time

VARIABLES
  mem,        \* the memtable
  memDeltas,  \* keys of every delta inserted since the memtable was created
  segs,       \* the manifest: id -> table, tier, format version, creation time
  next,       \* next_segment_id
  now,        \* the clock
  cursor,     \* reclaim_cursor
  pc,         \* the pass the tick is at
  job,        \* the groomer's locals: its clock, candidates
  purging,    \* the key of a purge_key call that has flushed
  last        \* history: the pass just run and the keys it changed

client == <<mem, memDeltas>>
store == <<segs, next>>
tick == <<cursor, pc, job>>
vars == <<client, store, now, tick, purging, last>>

policy == compile(Rows, Global)

config == [min_segments |-> MinSegments, retention |-> Rows # <<>> \/ Global # {},
           max_records |-> MaxRecords, max_bytes |-> MaxBytes]

(***************************************************************************)
(* Records, tables, zones                                                  *)
(***************************************************************************)

\* No record.
Absent == [kind |-> "none", n |-> 0, ts |-> 0]

Get(t, k) == IF k \in DOMAIN t THEN t[k] ELSE Absent

EmptyTable == [k \in {} |-> Absent]

\* merge_delta: the sum, the later timestamp; a tombstone base adds nothing
\* and makes the result full.
merge_delta(base, delta) ==
  IF base.kind = "none" THEN delta
  ELSE IF base.kind = "tomb" THEN [delta EXCEPT !.kind = "full"]
  ELSE [base EXCEPT !.n = @ + delta.n, !.ts = Max({@, delta.ts})]

\* One newer version, if any, over what is below it.
Over(new, old) ==
  IF new.kind = "none" THEN old
  ELSE IF new.kind = "delta" THEN merge_delta(old, new)
  ELSE new

\* k over the segments with these ids, oldest to newest.
FoldIds(ids, k) ==
  LET upto[i \in 0..next] ==
        IF i = 0 THEN Absent
        ELSE IF i - 1 \in ids THEN Over(Get(segs[i - 1].tab, k), upto[i - 1])
        ELSE upto[i - 1]
  IN  upto[next]

\* What k is, in the memtable over the segments.
View(k) == Over(Get(mem, k), FoldIds(DOMAIN segs, k))

\* What a read returns of a record.
Surface(r) == IF r.kind \in {"none", "tomb"} THEN Absent ELSE [r EXCEPT !.kind = "full"]

MinKey(ks) == CHOOSE k \in ks : \A j \in ks : Leq(k, j)

MaxKey(ks) == CHOOSE k \in ks : \A j \in ks : Leq(j, k)

zone_min(i) == MinKey(DOMAIN segs[i].tab)

zone_max(i) == MaxKey(DOMAIN segs[i].tab)

Timestamps(i) == {r.ts : r \in Range(segs[i].tab)}

ZoneCovers(i, k) == Leq(zone_min(i), k) /\ Leq(k, zone_max(i))

Overlap(i, j) == Leq(zone_min(i), zone_max(j)) /\ Leq(zone_min(j), zone_max(i))

\* The zone says records of this kind may be in the segment.
zone_may_have(i, kind) == \E r \in Range(segs[i].tab) : r.kind = kind

Meta(i) ==
  [id |-> i, tier |-> segs[i].tier, count |-> Cardinality(DOMAIN segs[i].tab),
   bytes |-> Cardinality(DOMAIN segs[i].tab)]

NewSegment(t, created) == [tab |-> t, tier |-> "hot", ver |-> 2, created |-> created]

\* The manifest with ids removed and the segments of `new` put in.
Swap(ids, new) ==
  [i \in (DOMAIN segs \ ids) \cup DOMAIN new |->
     IF i \in DOMAIN new THEN new[i] ELSE segs[i]]

NoJob == [now |-> 0, cands |-> {}]

NoPass == [pass |-> "none", key |-> <<>>, changed |-> {}, expired |-> {},
           counting |-> {}, adjacent |-> TRUE]

\* No other segment has its id between two of these.
Adjacent(ids) == \A i \in DOMAIN segs : (\E a, b \in ids : a < i /\ i < b) => i \in ids

\* A delta of k is around.
Counting(k) ==
  Get(mem, k).kind = "delta" \/ \E i \in DOMAIN segs : Get(segs[i].tab, k).kind = "delta"

\* The pass that this step runs: the keys that read differently after it,
\* and of those the ones whose version before it had outlived its TTL and
\* the ones that were being counted.
Ran(pass, key, run) ==
  LET changed == {k \in Key : Surface(View(k))' # Surface(View(k))}
  IN  last' = [pass |-> pass, key |-> key, changed |-> changed,
               expired |-> {k \in changed : Expired(policy, k, View(k).ts, now)},
               counting |-> {k \in changed : Counting(k)}, adjacent |-> Adjacent(run)]

Init ==
  /\ mem = EmptyTable /\ memDeltas = {}
  /\ \E ts \in Legacy :
       /\ segs = [i \in 0..(Len(ts) - 1) |-> [NewSegment(ts[i + 1], 0) EXCEPT !.ver = 1]]
       /\ next = Len(ts)
  /\ now = 1 /\ cursor = 0
  /\ pc = "idle" /\ job = NoJob /\ purging = {}
  /\ last = NoPass

(***************************************************************************)
(* Clients, the clock, the flush                                           *)
(***************************************************************************)

Write(k, r, deltas) ==
  /\ now < MaxNow
  /\ mem' = [x \in DOMAIN mem \cup {k} |-> IF x = k THEN r ELSE mem[x]]
  /\ memDeltas' = deltas
  /\ now' = now + 1
  /\ last' = NoPass
  /\ UNCHANGED <<store, tick, purging>>

Put(k) == Write(k, [kind |-> "full", n |-> 1, ts |-> now], memDeltas)

Delete(k) == Write(k, [kind |-> "tomb", n |-> 0, ts |-> now], memDeltas)

\* insert_delta: the fold stays a delta when nothing is resident.
Incr(k) ==
  LET r == Over([kind |-> "delta", n |-> 1, ts |-> now], Get(mem, k))
  IN  Write(k, r, IF r.kind = "delta" THEN memDeltas \cup {k} ELSE memDeltas)

\* Time passes without writes.
Advance ==
  /\ now < MaxNow
  /\ now' = now + 1
  /\ last' = NoPass
  /\ UNCHANGED <<client, store, tick, purging>>

\* freeze, then flush_pending: the memtable becomes a segment.
Flushed ==
  /\ DOMAIN mem # {} /\ Cardinality(DOMAIN segs) < MaxSegs
  /\ segs' = Swap({}, [i \in {next} |-> NewSegment(mem, now)])
  /\ next' = next + 1
  /\ mem' = EmptyTable /\ memDeltas' = {}

\* A tick begins.  Its flush_pending is a Flush just before this step.
TickBegins ==
  /\ pc = "idle"
  /\ pc' = "compact"
  /\ last' = NoPass
  /\ UNCHANGED <<client, store, now, cursor, job, purging>>

\* purge_key flushes first.
PurgeBegins(k) ==
  /\ pc = "idle" /\ purging = {}
  /\ IF DOMAIN mem = {} THEN UNCHANGED <<client, store>> ELSE Flushed
  /\ purging' = {k}
  /\ last' = NoPass
  /\ UNCHANGED <<now, tick>>

\* An explicit flush, or the flush a full memtable asks for.
Flush ==
  /\ pc = "idle"
  /\ Flushed
  /\ last' = NoPass
  /\ UNCHANGED <<now, tick, purging>>

(***************************************************************************)
(* compact_run, compact and purge_key                                      *)
(***************************************************************************)

\* The run's records, oldest segment first, deltas folded; then retention;
\* then the purged keys go.
Kept(run, purge) ==
  LET merged == [k \in UNION {DOMAIN segs[i].tab : i \in run} |-> FoldIds(run, k)]
  IN  Restrict(merged, {k \in DOMAIN merged \ purge :
                          ~Expired(policy, k, merged[k].ts, now)})

compact_run(run, purge) ==
  LET kept == Kept(run, purge)
      keys == SetToSortSeq(DOMAIN kept, LAMBDA j, k : j # k /\ Leq(j, k))
      chunks == split_chunks([i \in DOMAIN keys |-> 1], config)
      ids == OutputIds(run, Len(chunks), next)
      created == Min({segs[i].created : i \in run})
      chunk(i) == chunks[CHOOSE c \in DOMAIN chunks : ids[c] = i]
      out == [i \in Range(ids) |->
                NewSegment(Restrict(kept, {keys[j] : j \in chunk(i)[1]..chunk(i)[2]}), created)]
  IN  /\ segs' = Swap(run, out)
      /\ next' = NextAfter(run, Len(chunks), next)

Compact ==
  /\ pc = "compact"
  /\ LET run == {m.id : m \in choose_run({Meta(i) : i \in DOMAIN segs}, config)}
     IN  IF run = {} THEN UNCHANGED store ELSE compact_run(run, {})
  /\ pc' = "reclaim"
  /\ UNCHANGED <<client, now, cursor, job, purging>>
  /\ Ran("compact", <<>>, {})

\* The segments whose zone contains k.
PurgeRun(k) == {i \in DOMAIN segs : ZoneCovers(i, k)}

\* Mutant of Purge: only the newest segment that may hold the key.
PurgeNewest(k) ==
  /\ pc = "idle" /\ purging = {k}
  /\ IF PurgeRun(k) = {} THEN UNCHANGED store ELSE compact_run({Max(PurgeRun(k))}, {k})
  /\ purging' = {}
  /\ UNCHANGED <<client, now, tick>>
  /\ Ran("purge", k, {})

\* purge_key: a key with a delta anywhere in the run is refused.
Purge(k) ==
  /\ pc = "idle" /\ purging = {k}
  /\ UNCHANGED <<client, now, tick>>
  /\ LET run == PurgeRun(k)
         refused == \E i \in run : Get(segs[i].tab, k).kind = "delta"
     IN  IF run = {} \/ refused
         THEN UNCHANGED store /\ last' = NoPass
         ELSE compact_run(run, {k}) /\ Ran("purge", k, run)
  /\ purging' = {}

(***************************************************************************)
(* reclaim_sealed                                                          *)
(***************************************************************************)

Sealed == {i \in DOMAIN segs : segs[i].tier = "hot" /\ ~mergeable(Meta(i), config)}

Newer(c) == {i \in DOMAIN segs : i > c /\ Overlap(i, c)}

Older(c) == {i \in DOMAIN segs : i < c /\ Overlap(i, c)}

\* Not skipped on the strength of its metadata.
Auditable == {c \in Sealed : Newer(c) # {} \/ zone_may_have(c, "tomb")}

\* The next one to audit: above the cursor first, then from the bottom.
Pick ==
  LET tail == {c \in Auditable : c > cursor}
  IN  IF tail # {} THEN Min(tail) ELSE Min(Auditable)

\* Evidence from newer segments in the current format.
shadowed(c, k) ==
  \E i \in Newer(c) : segs[i].ver = 2 /\ Get(segs[i].tab, k).kind \in {"full", "tomb"}

delta_over(c, k) ==
  \E i \in Newer(c) : segs[i].ver = 2 /\ Get(segs[i].tab, k).kind = "delta"

\* Evidence from older ones: a v1 segment counts by its zone alone.
below(c, k) ==
  \E i \in Older(c) : ZoneCovers(i, k) /\ (segs[i].ver = 1 \/ k \in DOMAIN segs[i].tab)

\* Mutant of tomb_dead: nothing below is looked at.
TombDeadAlways(c, k) == segs[c].tab[k].kind = "tomb" /\ ~delta_over(c, k)

tomb_dead(c, k) ==
  segs[c].tab[k].kind = "tomb" /\ ~delta_over(c, k) /\ ~below(c, k)

Dead(c) ==
  {k \in DOMAIN segs[c].tab : (shadowed(c, k) /\ ~delta_over(c, k)) \/ tomb_dead(c, k)}

\* Mutant of ReclaimRewrite: a segment left empty is written all the same.
ReclaimWritesEmpty(c) ==
  LET alive == Restrict(segs[c].tab, DOMAIN segs[c].tab \ Dead(c))
  IN  IF segs[c].ver # 2 \/ 2 * Cardinality(Dead(c)) < Cardinality(DOMAIN segs[c].tab)
      THEN UNCHANGED store
      ELSE /\ segs' = Swap({}, [i \in {c} |-> NewSegment(alive, segs[c].created)])
           /\ next' = next + 1

\* At least half the rows: rewrite what survives into the same id.
ReclaimRewrite(c) ==
  LET alive == Restrict(segs[c].tab, DOMAIN segs[c].tab \ Dead(c))
  IN  IF segs[c].ver # 2 \/ 2 * Cardinality(Dead(c)) < Cardinality(DOMAIN segs[c].tab)
      THEN UNCHANGED store
      ELSE IF DOMAIN alive = {} THEN segs' = Swap({c}, EmptyTable) /\ UNCHANGED next
      ELSE /\ segs' = Swap({}, [i \in {c} |-> NewSegment(alive, segs[c].created)])
           /\ next' = next + 1

\* Mutant of Reclaim: the rotation does not move.
ReclaimPinned ==
  /\ pc = "reclaim"
  /\ IF Auditable = {} THEN UNCHANGED store ELSE ReclaimRewrite(Min(Auditable))
  /\ pc' = "tier"
  /\ UNCHANGED <<client, now, cursor, job, purging>>
  /\ Ran("reclaim", <<>>, {})

Reclaim ==
  /\ pc = "reclaim"
  /\ IF Auditable = {} THEN UNCHANGED <<store, cursor>>
     ELSE cursor' = Pick /\ ReclaimRewrite(Pick)
  /\ pc' = "tier"
  /\ UNCHANGED <<client, now, job, purging>>
  /\ Ran("reclaim", <<>>, {})

(***************************************************************************)
(* tier, groom, migrate                                                    *)
(***************************************************************************)

\* Hot segments older than hot_ttl become cold.
ToCold ==
  /\ pc = "tier"
  /\ segs' = [i \in DOMAIN segs |->
                IF segs[i].created < now - HotTtl THEN [segs[i] EXCEPT !.tier = "cold"]
                ELSE segs[i]]
  /\ pc' = "groom"
  /\ UNCHANGED <<client, next, now, cursor, job, purging>>
  /\ Ran("tier", <<>>, {})

\* Key ranges with deltas: segments by their zones, the memtables by the
\* range of every delta they ever took.
DeltaRanges(live) ==
  {<<zone_min(i), zone_max(i)>> : i \in {j \in DOMAIN segs : zone_may_have(j, "delta")}}
  \cup (IF live = {} THEN {} ELSE {<<MinKey(live), MaxKey(live)>>})

overlaps_deltas(i, live) ==
  \E r \in DeltaRanges(live) : Leq(r[1], zone_max(i)) /\ Leq(zone_min(i), r[2])

\* Mutant of ZoneCutoff: the smallest TTL around.
ZoneCutoffMin(i, t) ==
  IF covers_range(policy, zone_min(i), zone_max(i)) THEN {t - Min({r.ttl : r \in policy})}
  ELSE {}

\* The clock below which everything in segment i is expired, if one row
\* covers all of i.
ZoneCutoff(i, t) ==
  IF covers_range(policy, zone_min(i), zone_max(i))
  THEN {t - ttl : ttl \in max_ttl_in_range(policy, zone_min(i), zone_max(i))}
  ELSE {}

AllExpired(i, t) == \E c \in ZoneCutoff(i, t) : Max(Timestamps(i)) < c

SomeExpired(i, t) == \E c \in ZoneCutoff(i, t) : Min(Timestamps(i)) < c

\* Mutant of GroomBegins: the groomer leaves the cold tier alone.
GroomBeginsHot ==
  /\ pc = "groom"
  /\ pc' = "grooming"
  /\ job' = [now |-> now, cands |-> {i \in DOMAIN segs :
               ~overlaps_deltas(i, memDeltas) /\ segs[i].tier = "hot" /\ SomeExpired(i, now)}]
  /\ last' = NoPass
  /\ UNCHANGED <<client, store, now, cursor, purging>>

\* groom up to its candidates: all expired, or hot and partly so.  It looks at
\* the memtable and then, under another lock, at the frozen list: between the
\* two halves of a freeze the deltas are in neither.
GroomBegins ==
  /\ pc = "groom"
  /\ IF policy = {} THEN pc' = "migrate" /\ UNCHANGED job
     ELSE \E live \in {memDeltas, {}} :
          /\ pc' = "grooming"
          /\ job' = [now |-> now, cands |-> {i \in DOMAIN segs :
                       /\ ~overlaps_deltas(i, live)
                       /\ AllExpired(i, now) \/ (segs[i].tier = "hot" /\ SomeExpired(i, now))}]
  /\ last' = NoPass
  /\ UNCHANGED <<client, store, now, cursor, purging>>

\* What the exact rewrite of segment i keeps.
Unexpired(i) ==
  Restrict(segs[i].tab,
           {k \in DOMAIN segs[i].tab : ~Expired(policy, k, segs[i].tab[k].ts, job.now)})

\* One candidate: dropped on its zone alone, left alone when nothing in it
\* is expired, dropped when everything is, or rewritten.
GroomSegment(i) ==
  /\ pc = "grooming"
  /\ UNCHANGED <<client, now, cursor, pc, purging>>
  /\ job' = [job EXCEPT !.cands = @ \ {i}]
  /\ IF AllExpired(i, job.now) \/ DOMAIN Unexpired(i) = {}
     THEN segs' = Swap({i}, EmptyTable) /\ UNCHANGED next
     ELSE IF Unexpired(i) = segs[i].tab THEN UNCHANGED store
     ELSE /\ segs' = Swap({}, [j \in {i} |-> NewSegment(Unexpired(i), segs[i].created)])
          /\ next' = next + 1
  /\ Ran(IF segs' = segs THEN "churn" ELSE "groom", <<>>, {})

GroomEnds ==
  /\ pc = "grooming" /\ job.cands = {}
  /\ pc' = "migrate" /\ job' = NoJob
  /\ last' = NoPass
  /\ UNCHANGED <<client, store, now, cursor, purging>>

\* Segments in the old format.
Old == {i \in DOMAIN segs : segs[i].ver < 2}

\* Mutant of Migrate: it looks at the oldest segment only.
MigrateOldest ==
  /\ pc = "migrate"
  /\ IF Old = {} \/ Min(DOMAIN segs) \notin Old THEN UNCHANGED store
     ELSE segs' = [segs EXCEPT ![Min(DOMAIN segs)].ver = 2] /\ next' = next + 1
  /\ pc' = "idle"
  /\ UNCHANGED <<client, now, cursor, job, purging>>
  /\ Ran("migrate", <<>>, {})

\* The oldest segment in the old format is rewritten; one per tick.
Migrate ==
  /\ pc = "migrate"
  /\ IF Old = {} THEN UNCHANGED store
     ELSE /\ segs' = [segs EXCEPT ![Min(Old)].ver = 2]
          /\ next' = next + 1
  /\ pc' = "idle"
  /\ UNCHANGED <<client, now, cursor, job, purging>>
  /\ Ran("migrate", <<>>, {})

(***************************************************************************)
(* The specification                                                       *)
(***************************************************************************)

Client ==
  \/ \E k \in PutKey : Put(k)
  \/ \E k \in DeleteKey : Delete(k)
  \/ \E k \in CounterKey : Incr(k)
  \/ \E k \in PurgeKey : PurgeBegins(k)
  \/ Flush
  \/ Advance

Tick ==
  \/ TickBegins
  \/ Compact
  \/ Reclaim
  \/ ToCold
  \/ GroomBegins
  \/ \E i \in job.cands : GroomSegment(i)
  \/ GroomEnds
  \/ Migrate

Next ==
  \/ Client
  \/ \E k \in purging : Purge(k)
  \/ Tick

\* Some step of the tick is possible in every state, so this is weak
\* fairness of Tick: the ticker task sends the next tick when one is over.
Fairness == []<><<Tick>>_vars

Spec == Init /\ [][Next]_vars /\ Fairness

(***************************************************************************)
(* Properties                                                              *)
(***************************************************************************)

TypeOK ==
  /\ next \in Nat /\ now \in 1..MaxNow
  /\ \A i \in DOMAIN segs : i < next /\ DOMAIN segs[i].tab # {} /\ DOMAIN segs[i].tab \subseteq Key
  /\ pc \in {"idle", "compact", "reclaim", "tier", "groom", "grooming", "migrate"}
  /\ job.cands \subseteq DOMAIN segs

\* Records weigh the same in Rewrites: no run is cut into more chunks than it
\* has ids, and what a chunk with a fresh id does to reads is Engine's.

\* Keys that the last pass changed although what they were had not expired.
Harmed == last.changed \ last.expired

\* Reclamation, tiering and migration are invisible: whatever they drop or
\* rewrite, every key, counters included, reads as before ("dropping it
\* changes no read").
RewriteInvisible == last.pass \in {"reclaim", "tier", "migrate"} => last.changed = {}

\* Compaction and grooming change what an ordinary key reads as only if the
\* version it read as had outlived its TTL.  A key that no row governs, even
\* one with deltas to fold, they do not change.  Counters under a TTL are
\* ActiveCounterKept's.
OnlyExpiredChanges ==
  last.pass \in {"compact", "groom"} =>
    \A k \in Harmed : k \in last.counting /\ ttl_for_key(policy, k) # {}

\* The groomer never picks a segment it would then leave as it is: the zone
\* bound promises that at least one record is expired (`groom`, "always
\* makes progress").
GroomProgress == last.pass # "churn"

\* After purge_key no segment holds the key; and when no other segment lies
\* between those of its run, no other key changes unless it had expired.
PurgeComplete ==
  last.pass = "purge" =>
    /\ \A i \in DOMAIN segs : last.key \notin DOMAIN segs[i].tab
    /\ last.adjacent => Harmed \subseteq last.counting \cup {last.key}

\* purge_key changes no other ordinary key unless it had expired.
PurgeKeepsOthers == last.pass = "purge" => Harmed \subseteq last.counting \cup {last.key}

\* A counter is judged by its latest activity: no pass changes its sum while
\* the folded timestamp is within the TTL.
ActiveCounterKept ==
  last.pass \in {"compact", "groom"} => Harmed \cap last.counting = {}

\* Every segment in the old format is rewritten in the end.
MigrationConverges == <>[](Old = {})

\* The rotation reaches every sealed segment with enough dead rows.
ReclaimReachesAll ==
  []<>(\A c \in Sealed :
         segs[c].ver = 2 => 2 * Cardinality(Dead(c)) < Cardinality(DOMAIN segs[c].tab))

\* A segment that is expired as a whole and holds no counter range goes.
ExpiredSegmentsGo == []<>(\A i \in DOMAIN segs : AllExpired(i, now) => overlaps_deltas(i, memDeltas))
=============================================================================
