# Verification of girder

girder is an embedded storage engine: a write-ahead log (WAL), a memtable,
immutable columnar segments, a manifest, two actors that do all mutation, and
reads that take no lock for longer than a look. This directory holds TLA+
modules that model it, TLC configurations that check them on small instances,
and TLAPS proofs for every instance. Source paths are relative to the
repository's root, whose crate lives in `src/src`.

## The system and its modules

| Part | Source | State it owns | Modelled in |
|---|---|---|---|
| Record model, `merge_delta`, query predicate | `record.rs` | none | `Records`, `Columns`, `Scan` |
| WAL | `wal.rs` | `wal-<seq>.log` files | `Engine` |
| Memtable | `memtable.rs` | records, token map, delta range | `Engine`, `Scan`, `Rewrites` |
| WriterActor | `actors.rs` 34–145 | current WAL, `wal_seq` | `Engine` |
| Manifest | `manifest.rs` | `MANIFEST`: ids, files, tiers, blobs | `Engine`, `SegmentFiles`, `Blobs` |
| Flush | `actors.rs` 224–281 | frozen list, segments | `Engine` |
| Compaction | `actors.rs` 283–558, 1258–1327 | segments | `Engine`, `CompactionPlan`, `Rewrites` |
| `purge_key`, reclamation, retention, migration | `actors.rs` 314–1122, `retention.rs` | segments, audit cursor | `Retention`, `Rewrites` |
| Tiers, remote store, pull cache | `actors.rs` 1124–1240, `engine.rs` 164–254, 1698–1721 | where files are | `SegmentFiles` |
| Section cache | `cache.rs` | cached sections | `SegmentFiles` |
| Blobs | `blob.rs`, `engine.rs` 554–615 | blob files, manifest set | `Blobs` |
| open, close, recovery | `engine.rs` 322–469, 1767 | everything | `Engine`, `SegmentFiles` |
| Reads under concurrency | `engine.rs` 671–1338 | none | `Reader`, `SegmentFiles` |
| Query evaluation | `engine.rs` 671–1338, 1782–2124, `segment.rs` 86–1383 | none | `Columns`, `Scan` |
| Text tokens, LIKE | `text.rs` | none | `Text` |

How the parts interact. A call goes to the writer, which appends its frames to
the WAL, inserts them into the memtable under one lock, acknowledges, and, when
the memtable is full, freezes it: the memtable is taken, the next WAL is
created, the taken memtable joins the frozen list. The maintenance actor writes
the oldest frozen memtable to a segment file, stores the manifest (temp file,
fsync, rename), deletes the WAL that covered it and pops the frozen entry. A
ticker sends it ticks; a tick flushes, merges one run of segments with adjacent
ids into fresh files that take over the run's ids, audits one full segment for
dead rows, moves old segments to the cold directory and cold ones to the object
store, grooms what has outlived its TTL, rewrites one segment of an older
format, and now and then sweeps blob files nobody lists. An error ends the tick.
A read looks at the memtable, the frozen list and a manifest snapshot, newest
first, and adds up deltas (increments) until it meets a full record. A restart
loads the manifest, deletes objects nobody lists, replays every WAL in order,
puts the result back through a fresh WAL, flushes it and deletes the old WALs.

### Writes, disk, recovery

- `Records`: a record is its kind (full, tombstone, delta) and one number,
  which stands for the payload of a full record and for the numeric that
  `incr` adds to. A memtable, a replayed WAL and a segment are tables, functions
  from keys to records. `Over` lays a newer version over an older one, `Fold`
  does so through a stack of tables, walking down from the newest one that
  holds the key.
- `Engine`: writer, maintenance actor, disk, crash and recovery. A handler is
  one action per stretch that no other actor and no crash can see inside:
  appends are one action per frame, `freeze` is `FreezeTake` and `FreezePush`,
  `flush_pending` is `FlushWrite`, `FlushStore`, `FlushUnlink`, `FlushPop`,
  `compact_run` is `CompactMerge`, `CompactChunk` per output, `CompactStore`,
  `CompactDrop` per input. A WAL file is the table its replay yields, with a
  mark when it holds a torn frame. The policy that picks a compaction run and
  splits its output is left open here: any run, of one segment or more, with no
  foreign id inside; any split whose outputs take ascending ids of the run. When
  the ids of the run are used up, a further chunk takes a fresh one
  (`CompactSurplus`, the surplus branch of `actors.rs:430-434`). How many
  chunks there are depends on record sizes, which `Engine` does not have, so
  the branch is open when `Fault` contains `"surplus"`. The constant `Fault` says
  which failures the environment may produce. `acked` is a history variable: per
  key, the fold of all acknowledged writes in order.
- `Upsert`: what `docs/GUARANTEES.md` promises of ordinary keys, a map that
  only calls change. `EngineCorrect` has the refinement mapping onto it and the
  inductive invariants, `Folding` the laws of `Fold` that the proofs use.

### Maintenance

- `Retention`: `RetentionPolicy` as operators on keys that are sequences of
  numbers, so that prefixes and their order are the code's.
- `CompactionPlan`: `choose_run`, `longest_tier_run`, `split_chunks` and the
  ids of the outputs, as operators on segment metadata.
- `Rewrites`: the passes of a tick over a manifest of tables with timestamps,
  tiers and format versions. A pass is one step, except grooming, which takes
  its snapshot of delta ranges and candidates first (missing the memtables' when
  it looks between the halves of a freeze) and then handles one
  candidate per step; writes, increments, deletes, flushes, purges and time come
  in between. The history variable `last` records, for the pass just run, the
  keys that read differently after it, those of them whose version had expired,
  those with deltas around, and whether the run was adjacent.
- `SegmentFiles`: where bytes are. The manifest in memory and the stored one map
  ids to a file number and a tier; `hot`, `cold` and `obj` are the files present;
  `tmp` and `pull` are the two names of a fetched segment, including a file that
  is still being written or was cut off by a kill. A tick compacts, audits one
  hot segment, tiers and grooms. The audit (`reclaim_sealed`) opens the
  segments that overlap the hot one at their local path, whatever their tier;
  keys are not modelled here, so it may open any of them, and a path without a
  file ends the tick (`AuditFails`). The maintenance thread goes
  through write, swap and store, delete; rename, store; upload, store, delete;
  store, delete, with a kill or a failed store or upload possible at each. A
  reader copies an entry, opens the file in its tier or the other, or fetches it
  through the pull cache, then takes each section from the cache or the file.
  The cache maps a key and a section to the file it came from and a recency
  stamp; of the stamps only their order is kept (`Ranked`), so that the clock
  needs no bound.
- `Blobs`: callers of put, get and delete, and the end of each tick that meets
  no error, of which the first and every `SweepEvery`-th sweeps. The manifest lock is
  modelled because the code relies on what is inside and outside of it.
  `exposed` marks the hashes for which the code leaves a gap: a put between the
  two halves of a delete, and a delete whose store failed.

### Reads and queries

- `Reader`: one read beside the two actors, one action per lock scope and per
  segment file. The history variable `seen` collects what the wanted keys held
  at each moment of the read, `swaps` counts compaction's manifest swaps, `gap`
  says that the read passed between the halves of a freeze.
- `Text`: tokenizer, LIKE matcher, and the token constraints a LIKE pattern
  implies; a few characters stand for the classes the code tells apart, the
  two wildcards and a letter whose lower case depends on its place in the word
  among them.
- `Columns`: a segment as its sections decode: zone map, dictionary and plain
  label columns, numeric columns, block summaries, token index, and the row
  selection over them.
- `Scan`: a store at rest grown by writes, freezes and flushes, and over it
  `get`, `count` and the three forms of `scan` (full walk, top-k with early
  stop, folding). `value` is what the writes say key by key.

`MCEngine`, `MCReader`, `MCRewrites`, `MCFiles` and `MCQuery` give them bounds
and inputs. `MCFiles` explores `SegmentFiles` and `Blobs` side by side: they
share the manifest lock and store and nothing else, and `OtherStore` is what the
one does to the other. An operator commented "Mutant of X" is X with a plausible
bug; replacing X by it makes TLC report a property of the runs below. No
specification uses it.

## Runs

| Run | Result | What it checks and shows |
|---|---|---|
| `engine` | holds | An ordinary key and a counter, crashes and failing manifest stores anywhere: the last acknowledged write is the one in the store (`LiveLww`) and on disk (`DurableLww`), no increment is lost (`CounterNeverLost`), no manifest names a missing file (`NoDanglingSegment`), and the whole implements `Upsert` (`ImplementsUpsert`). Increments are not negative, and no compaction has more chunks than its run has ids. |
| `engine_faults` | holds | The state is well-formed (`TypeOK`) and manifests and files agree under every fault, WAL faults and surplus chunks included. |
| `reader` | holds | An overlapped read returns what each key held during it (`FreshOutsideFreeze`), contains every increment acknowledged before it (`CounterNeverLow`), and fails only after more manifest swaps than it may retry (`FailsOnlyUnderChurn`); a counter is exact at rest when nothing fails (`CounterExactAtRest`). |
| `rewrites` | holds | Reclamation, tiering and migration change no read (`RewriteInvisible`); compaction and grooming change only keys whose version expired, or counters under a TTL, about which it says nothing (`OnlyExpiredChanges`); a groomed segment always shrinks (`GroomProgress`); a purge leaves the key nowhere, and harms no other key when its run is adjacent (`PurgeComplete`); old formats, dead rows and expired segments go in the end (`MigrationConverges`, `ReclaimReachesAll`, `ExpiredSegmentsGo`). |
| `files` | holds | Every listed segment has its bytes where a read looks (`ReadableSomewhere`); a read misses a file only if its snapshot is stale (`VanishedIsStale`); the sections of one read are of one file (`SectionsOfOneFile`); a pulled copy is whole unless two reads fetched it at once (`PulledWhole`); acknowledged blobs are kept (`AckedPutKept`); a blob is reported corrupt only when it is damaged or being deleted (`CorruptMeansLost`); orphans go as long as ticks complete (`OrphansGo`); ticks complete over and over, unless a segment is stranded or hot segments keep lying beside remote ones that are not pulled (`TicksGoOn`). |
| `query` | holds | Every query against every store gives what the plain predicate over the current values gives: full walk, top-k, folding walk, count, get, row selection, paging (`ScanExact`, `TopkStopsSoundly`, `FoldMatchesWalk`, `CountExact`, `GetExact`, `RowsExact`, `PagesExact`). LIKE agrees with its recursive definition, but for matches it misses when pattern and text both contain a `%`; its token constraints lose no row, chunks respect the caps, runs are adjacent, TTL bounds are bounds (`LikeExact`, `LikeConstraintsSound`, `SplitExact`, `RunAdjacent`, `TtlBounds`). |
| `engine_counter_replay` | violated | Crash between manifest store and WAL unlink: the increment is in a segment and in the WAL, recovery counts it twice. |
| `reader_freeze_gap` | violated | A read between the halves of `freeze` misses acknowledged writes. |
| `purge` | violated | `purge_key` merges non-adjacent segments under the highest of their ids; an old version of another key shadows the newer one in between. |
| `retention_counter` | violated | A compaction drops the expired base of a counter whose recent increments lie outside the run. |
| `blob_race` | violated | A put of the same content between the two halves of `delete_blob` leaves a listed blob without a file. |
| `stranded` | violated | A kill between the rename to the cold tier and the manifest store leaves an entry at which every later tick fails. |

The violated ones are disagreements between the code and a line of its
documentation, quoted in `PROJECT.json` under `findings`.

### Further disagreements

Met while modelling; each can be seen with TLC by a configuration that differs
from one above as said.

- A failed append leaves a torn frame, and frames acknowledged behind it are not
  replayed (`wal.rs:73`): `engine_faults` with `Fault = {"append"}` and
  `AckedOnDisk`. `docs/GUARANTEES.md:32-33` has acknowledged writes survive.
- `Wal::open` failing in `freeze` drops the taken memtable (`Fault =
  {"walopen"}`, `LiveLww`); a WAL whose deletion fails replays over newer
  segments (`{"unlink"}`, `DurableLww`); a failed manifest store and its
  retry store a delta in two segments (`{"store"}`, a counter key,
  `CounterExactAtRest`).
- A scan around a freeze sees half a batch (`engine.rs:1055`): `reader_freeze_gap`
  with `Key = {a, b}`, `MaxBatch = 2` and `ScanAtomic`. `docs/GUARANTEES.md:38-39`
  says that a reader never does.
- An `incr` after `deltas_possible` leaves a scan as a raw delta
  (`engine.rs:794`), and a get around a freeze folds one delta twice
  (`engine.rs:733`): `reader_freeze_gap` with `Key = CounterKey = {c}` and
  `NoRawDelta`, `CounterReadExact`.
- The outputs of a compaction can outnumber its inputs: with `max_records = 6`
  and `max_bytes = 50`, three inputs of one record of size 20 and four of size 1
  each give four chunks in `split_chunks`; the fourth takes a fresh id
  (`actors.rs:430-434`) above newer segments, whose versions it then shadows.
  `actors.rs:414-416` says "`k <= run.len()` whenever each input <= the cap (true
  by config: memtable_max_records <= max_segment_records)", which leaves the cap
  on bytes out. `engine_faults` with `Fault = {"surplus"}`, `PutVal = {1}`,
  `MaxSegSeq = 5` and `LiveLww`. The other runs and the theorems about reads and
  the disk leave the branch out.
- `like_match` loses matches when the text contains a `%`: it compares the
  characters before it looks for the wildcard (`text.rs:50`), so that a `%`
  of the pattern that meets one of the text matches just it, and is no place to
  come back to. The pattern `100%` does not match `100% CPU`. `text.rs:36-37` says
  "`%` = any run (incl. empty)", and `text.rs:233-234` "`%`/`_` in the PATTERN are
  always wildcards". `query` with a `LikeExact` without its last disjunct.
- The audit of `reclaim_sealed` opens its evidence with `?` (`actors.rs:717-718`,
  `781-782`), though a remote segment has no file in either directory: such a
  tick ends before tiering, grooming and the sweep. The cursor has moved on
  (`actors.rs:692`), so the next tick may get through. `files` with
  `TicksCompleteUnlessStranded` without its last disjunct. `actors.rs:872-873`:
  "expiry is not hostage to write volume".
- `groom` reads the delta ranges before it swaps (`actors.rs:908-934`); an
  increment in between, or a freeze in progress, makes it drop the expired base
  of an active counter: `retention_counter` with `MaxRecords = 1`.
- `longest_tier_run` restarts at the break point and can skip a longer run
  (sizes 1, 3, 4, 5, 6), against its comment at `actors.rs:1289-1296`. It costs
  efficiency only.

And these, visible in the models without a document that speaks against them:
retention that expires a tombstone can bring a deleted key back when older
versions carry later timestamps (`Girder::delete` warns of it); `put_blob` after
a failed store returns Ok with a listing that is not on disk; a delete whose
store failed, a sweep and a crash leave a listed blob without a file; two reads
fetching the same remote segment share one temporary name, and the second can
expose what the first has not finished (`PulledWhole` excepts `shared`); reads
fetching at once overshoot the pull budget; an object that a compaction
deleted under a read is reported as corrupt (`engine.rs:205-208`), where a
deleted file makes the read start over; `groom` leaves the object of a
remote segment to the next open.

### Bounds

Segment and WAL numbers only grow, so `MCEngine` and `MCReader` cut the
exploration at `MaxSegSeq` and `MaxWalSeq`, the sum of a counter at `MaxCount`,
a batch at `MaxBatch` frames, and the segments that failed stores kept off the
disk at `MaxUnstored`; in the last WAL a counter is only incremented, and runs
have at least `MinRun` segments. Three segment numbers allow two flushes and a
compaction, or one flush, a crash and a recovery; two WAL rotations give an old,
a frozen and a current WAL at once. `reader` has four segment numbers and one
retry, enough for a read to lose two snapshots and fail. `MemMax` is small so
that the memtable fills both by itself and by an explicit freeze.
`engine_faults` has all six faults at once and asks only about form, manifest
and files: two interchangeable keys, no values but tombstones, batches of
`MinBatch` = 2 frames, so that a compaction of one segment (`MinRun` = 1) has a
second chunk to place, and torn frames in the first WAL only (`MaxTorn`).

`rewrites` has four keys, two of them under a prefix with a TTL of one clock step
and one of these with its own of two, up to four segments at a time and three
clock steps; a cap of two records makes segments sealed, and the four starting
stores contain old-format segments to be migrated, shadowed and expired.
`files` has four starting stores: a hot segment with room for a rewrite, once
with a reader and one fault and once with two faults; two hot segments; two
remote ones that two readers fetch through a pull cache with room for one. Every
second tick sweeps (the code's default is every twelfth). The blobs have one content and two
callers, since different contents do not interact. `query` grows stores by three
writes from nine over three keys, two of them prefixes of one another, asks
sixteen queries, and sets the caps of the format so that each overflows, and so
that what comes before the overflow happens too: label values, bitset codes and
prefix expansion to one, the dictionary to two, above the bitset, and blocks to
two rows, of the three labels and three rows a segment can have. The
algorithms take all patterns of up to four and texts of up to three characters,
all size lists and segment lists of up to five, all policies over four prefixes.

### Fairness

`Engine`, `Reader` and `Scan` are checked for safety only. `Rewrites` and
`SegmentFiles` assume that ticks keep coming (`engine.rs:436-448`, a task that
sends one per interval for as long as the engine is open) and that the
maintenance thread runs: a step of the tick happens again and again. Because
some step of a tick is enabled in every state this is weak fairness of the
tick. A failing tick is a step too. `Blobs` assumes no fairness: the sweep comes
only after passes that other failures can stop, so `OrphansGo` has its
condition, ticks that complete over and over, in its statement. Clients, time, faults and kills are never obliged to happen.

Deadlock is checked except in `query`, where a store that has had its writes is
complete.

## Proofs

### The engine

`EngineProofs` has the theorems, for every set of keys, every value set, every
memtable size and without bounds on segments, WALs or crashes.
`SegmentsPresent` holds under every fault of the model. `CountersExact` is for
an environment without faults (`Fault = {}`). The others assume `Benign`:
crashes and failing segment or manifest writes may happen; WAL writes, WAL
creation and WAL deletion do not fail, and no compaction has more chunks than
its run has ids (the properties are false without it, see above). Increments
are natural numbers, as `EngineAssumption` says; the code would take negative
ones, and "no less than was acknowledged" is no promise about those.

- `Invariance`: `Spec => []IInv`, the inductive invariant.
- `TypeCorrect`, `LiveReads` (`LiveLww`), `DurableWrites` (`DurableLww`).
- `CountersKept`: `[]CounterNeverLost`. No crash, failed store, flush, compaction
  or recovery makes the engine serve less of a counter than was acknowledged.
- `CountersExact`: `[]CounterExactAtRest`. Where nothing fails it does not serve
  more either. With crashes it does (run `engine_counter_replay`).
- `Refinement`: `Spec => ImplementsUpsert`.
- `SegmentsPresent`: `Spec => []NoDanglingSegment`.

Why the invariant has the parts it has. `LiveLww` and `CounterNeverLost` speak
of memory and `DurableLww` of the disk, and none is preserved alone: a crash
replaces memory by what the WALs and the stored manifest give. `Shape` says
where the handlers stand together, which WAL covers which memtable, and which
files the manifests, the flush and the compaction in progress name. `KInv` then
says of each key what its records add up to, for ordinary keys and counters in
the same words: `Keeps` is equality for the one, "no less" for the other, and
`Agrees` is equality for both where nothing fails.

- `KeyLive`: memory laid over the segments is what was acknowledged, for the
  manifest in memory and for the stored one, since a failed store makes them
  differ. Between the store of a flushed segment and the pop of its memtable a
  delta is in both; memory without that memtable is what agrees then.
- `KeyLogged`: each memtable has a WAL with the same record of the key, until the
  flush has unlinked it.
- `KeyReplayed`: while `open` replaces the old WALs, their fold is what it
  replayed. If that fold is a full record, every newer WAL repeats it, so that a
  crash before the old WALs are gone reads it again and not something older
  beneath it. If it is a delta, a crash counts it once more, which is why a
  counter is only kept and not exact.
- `KeyMerged`: what a compaction has yet to write of a run and what is in its
  outputs hold each key's fold in exactly one place, so the swap changes no fold.

That the sums work out rests on laws about `Fold` for stacks of any height
(`Folding`): `Over` is associative, a fold splits at any height into the fold of
the upper part over the fold of the lower one, stacks that hold the same of a
key fold alike. `AlgorithmProofs` proves them (`LawsHold`). The walk is a recursive function of
the height; the library's induction schema takes an operator and cannot be
instantiated here, so the induction goes through a least counterexample: the set
of heights at which the claim fails, were it not empty, would have a least
element (`LeastNumber`, from the well-foundedness of `<`), and the walk's
recursive equation refutes it (`SetInduction`).

`SegmentsPresent` rests on a smaller invariant, `SegInv`, that knows nothing of
records and WALs and so survives every fault: both manifests name existing
files, each once, numbered below the counter, the stored counter being no higher
than the one in memory; the file of a flush and the outputs of a compaction are
there and above what is listed, those with a fresh id included; what a compaction is about to delete is listed
in neither manifest.

### Reads beside the actors

Three theorems of `EngineProofs` are about `ReadSpec`, the engine with one read
that takes its locks one after the other; `ReaderCorrect` has their invariants.

- `ReadsFailOnlyUnderChurn`: `[]FailsOnlyUnderChurn`, for any number of retries
  and under every fault. `ChurnInv` charges each restart of the read, and each
  file of its snapshot that is gone or about to go, to a manifest swap of its
  own. It needs `SegInv` and one fact about every engine step (`Onward`): no file
  becomes doomed except by a swap, and numbers below the counter are not reused
  while the process lives.
- `ReadsAreFresh`: `[]FreshOutsideFreeze`, and `ReadsMissNoIncrement`:
  `[]CounterNeverLow`, under `Benign`. `FreshInv` says of every wanted key that
  what the read has, laid over what it can still meet, is `Covered`: some moment
  of the read had the key so, or, for a counter, had no more. The difficulty is
  that the sources change below the read. A flush moves the oldest frozen
  memtable into the manifest: a read that has passed the frozen list meets its
  records again, a delta then counts twice, and a put must still be covered when
  it hides what was below (`PutCovered`). A compaction deletes files of the
  snapshot: `PlanCovered` speaks of the stack as it was when the snapshot was
  taken, of which the files that are left still hold their part; the read
  either meets them all or starts over.

### How the proofs are split

`AlgorithmProofs` proves the laws of `Fold`, and the bound on zones below.
`EngineLemmas` has what the other modules
share: tables, versions, what a step that leaves variables alone keeps, and
`SegInv`. `ControlProofs` shows step by step that `Shape` is kept, `KeyProofs`
that the writer and maintenance keep `KInv`, `RecoveryProofs` that crash and
recovery do and that every step is one of `Upsert`, `ReaderLemmas` that the
steps of a read and of the engine keep `ChurnInv` and `FreshInv`. These four
take the laws as an assumption, the formula `FoldLaws`, which `AlgorithmProofs`
proves as `LawsHold` and `EngineProofs` puts in when it draws the parts together:
the provers slow down with the number of facts in sight and of obligations in
one file.

### Retention zones

A retention tick drops a whole segment, without opening it, once its newest
record is older than `max_ttl_in_range(min_key, max_key)`. `ZonesExpireSoundly`
says, for every list of configured rules, with or without a global one, and all
keys, that this is safe: if the range is covered and a key lies in it, the key
has a TTL and it is at most that bound (`ZoneBound`). The code takes the maximum
over the rules whose prefix lies in the range or starts its lower end. The rule
that governs a key of the range is one of these: its prefix is no larger than
the key; were it smaller than the lower end without starting it, the two would
differ at a first position, and so would the key, which would then be below the
range (`GoverningMeets`). That one rule covering both ends covers every key in
between is the same argument on both sides (`SharedPrefix`). That the maximum is
one, for lists of any length, is an induction over the length of the list, again
through a least counterexample (`TtlsBounded`).

### Files and blobs

`StorageProofs` has six theorems, for any readers, starting stores, cache
sizes, hashes, callers and faults.

- `SegmentsReadable`: `FilesSpec => []ReadableSomewhere`. The property is not
  inductive: a deletion keeps it only because the file is listed nowhere, and a
  kill only because the stored manifest is readable too. `FilesInv` adds that in
  both manifests distinct ids have distinct files, numbered below the counter
  kept with the manifest, the stored counter being no higher (`Counters`), and
  one fact per phase of the maintenance thread (`Phase`): before the swap the new
  file is in the hot directory and its number above all listed ones; when files
  are to be deleted the two manifests agree and list none of them; before a tier
  is flipped the file is already where the new tier looks; before the local copy
  goes the manifests agree that the segment is remote. Number reuse after a kill
  is harmless because a number below the stored counter is never handed out.
- `AcknowledgedPutsKept`: `BlobSpec => []AckedPutKept`, and `CorruptionIsLoss`:
  `BlobSpec => CorruptMeansLost`. `BlobInv` says that a put in progress holds the
  lock alone with its file in place, that what a delete is about to remove is
  listed nowhere and not being put, and that the listings differ only after a
  failed store; each with the exception `exposed` names.

The other three are about reads in `FilesSpec`, for any number of readers and
sections and any cache sizes; together they rest on `LoadInv`.

- `VanishedReadsAreStale`: `[]VanishedIsStale`. A read that tries the directory of
  its entry's tier and then the other one could miss a file that moves in
  between in the wrong direction. `StaleInv` says why it does not: entries only
  move from hot to cold to remote, a number a read holds is below every new one,
  and a file that was not in the directory of its tier when the read looked does
  not come there as long as the entry is unchanged. `Shifts` is what any step of
  maintenance may do, and `StaleUnderShifts` carries `StaleInv` over it once for
  all.
- `SectionsMatch`: `[]SectionsOfOneFile`. Every cached section is of the file in
  its key (`CacheInv`), however late it is put there.
- `PulledCopiesWhole`: `[]PulledWhole`. For a file that no two reads fetched at
  once, `PullInv` says that its one writer has the `.tmp` name to itself and that
  the name is complete, or gone, when it is renamed.

### Assumptions on the constants

Each is named in the module that declares the constants, and TLC evaluates it on
the instances of the runs. `NoRecAssumption`: the absence of a record is no
record. `EngineAssumption`: counters are keys, values are numbers, the memtable
holds at least one record. `RetriesAssumption`, `BlobAssumption`: a number of
retries, faults of known kinds. `FilesAssumption`: capacities are numbers, a
starting store lists segments below its counter, and the names of sections and
readers differ from those of the steps and file states they are compared with.

### Only model-checked

- Liveness, and the fairness it rests on: `MigrationConverges`,
  `ReclaimReachesAll`, `ExpiredSegmentsGo`, `OrphansGo`, `TicksGoOn`. The prover
  has no rule for `ENABLED`.
- The other properties of `Rewrites` (`TypeOK`, `RewriteInvisible`,
  `OnlyExpiredChanges`, `GroomProgress`, `PurgeComplete`). The module uses
  `choose_run` and `split_chunks` of `CompactionPlan`, which are recursive
  operators like the code's loops, and the prover loses its SMT backend in a
  module that reaches one.
- The algorithms: everything `query` checks of `Text`, `CompactionPlan`,
  `Columns` and `Scan`, for the same reason. Of `Retention`, `query` checks
  `ZoneBound` on all small policies (`TtlBounds`), and the theorem above has the
  rest.
- What is exact of a counter when the process can crash, and a read that passes
  between the halves of a freeze: the code promises neither.

## Not modelled

- The binary encoding and decoding of sections (`segment.rs` from 1386 on) and of
  WAL frames and the manifest: byte layout, checksums and version headers. A
  section decodes to what was encoded, a bad frame is a torn one, and the
  manifest is stored whole or not at all.
- Payload bytes; numerics beyond small numbers and NaN.
- fsync policies other than `Always`: a frame is durable once appended. Under
  `EveryN` and `Never` an operating-system crash may lose a tail; the promise
  there is a bound on the loss that the models do not state.
- The object store's file-system implementation (`object_store.rs`), and a remote
  store that fails to answer reads. Tiers are absent from `Engine`, and
  `SegmentFiles` has no records: the two meet in the manifest swap and store.
- In `SegmentFiles` the content of a file is its number, so a pulled copy that
  outlived a kill and a reused number is not told from a fresh one; `migrate`
  leaves files as they are there, since it swaps like a compaction of one
  segment; a rewrite has one output.
- In `Rewrites` all records have the same size and remote segments do not occur:
  reclamation and purge of a remote segment fail when they open its path.
- The top-k scan's late reopening of files during materialization, in `Reader`.
- Actor mailboxes, supervision and call timeouts: a call is taken up when its
  handler starts. Statistics counters and logging.
- `error.rs` and `lib.rs` are type definitions and re-exports.
