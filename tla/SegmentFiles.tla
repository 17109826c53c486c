---------------------------- MODULE SegmentFiles ----------------------------
(***************************************************************************)
(* Where a segment's bytes are while maintenance moves them and readers    *)
(* open them: the tier, rewrite and drop passes of src/src/actors.rs, the  *)
(* pull-through cache, open_segment_file and the section loads of          *)
(* src/src/engine.rs, the reconciliation at open, and src/src/cache.rs.    *)
(*                                                                         *)
(* A segment is listed under an id; compaction gives the id to a new file. *)
(* File numbers are fresh, and a file's content is its number.  All of     *)
(* maintenance runs on one thread; readers hold no lock after they copied  *)
(* the manifest entry.                                                     *)
(***************************************************************************)
EXTENDS Integers, FiniteSets

CONSTANTS
  Readers,     \* concurrent reads
  Starts,      \* initial stores: [tier, next, clock, readers, faults], see FilesInit
  Sections,    \* the sections a read loads, each of size one
  CacheCap,    \* section cache capacity
  PullCap,     \* pull_cache_bytes, in segments
  MaxFile,     \* bound on file numbers
  FileFault,   \* subset of {"kill", "store", "put"}
  MaxFaults    \* bound on the number of faults

\* Where a read can stand; a section's name stands for its load.
Places == {"off", "idle", "open", "other", "pulled", "prune", "fetched", "writing", "rename",
           "reopen", "load", "vanished", "again", "missing", "corrupt"}

ASSUME FilesAssumption ==
  /\ CacheCap \in Nat /\ PullCap \in Nat /\ MaxFile \in Nat \ {0} /\ MaxFaults \in Nat
  /\ FileFault \subseteq {"kill", "store", "put"}
  /\ Sections \cap Places = {} /\ Readers \cap {"none", "whole", "cut"} = {}
  /\ \A st \in Starts :
       /\ st.next \in 0..MaxFile
       /\ st.tier \in [DOMAIN st.tier -> {"hot", "cold", "remote"}]
       /\ DOMAIN st.tier \subseteq 0..(st.next - 1)

VARIABLES
  man,      \* Manifest.segments in memory: id -> [file, tier]
  disk,     \* the stored manifest
  nextFile, \* next_segment_id, in memory
  diskNext, \* and as stored
  clock,    \* files numbered below it are past hot_ttl and remote_ttl
  hot, cold, \* the files in the two local directories
  obj,      \* the objects in the remote store
  tmp, pull, \* the pull directory, per file its .tmp and its final name:
            \* "none", "whole", the reader still writing it, or "cut"
  m,        \* the maintenance thread
  rd,       \* per reader, the read in progress
  cache,    \* the section cache: <<key, section>> -> [of, used]
  faults,   \* faults so far
  shared    \* history: files two readers fetched at once

bytes == <<man, disk, nextFile, diskNext, clock, hot, cold, obj>>
fvars == <<bytes, tmp, pull, m, rd, cache, faults, shared>>

Files == 0..MaxFile

Entry(f, t) == [file |-> f, tier |-> t]

\* pc; the ids being rewritten or moved; the new file; the entries dropped;
\* the ids cold when the tier pass began; where the tick goes on.
Resting == [pc |-> "idle", run |-> {}, out |-> 0, dead |-> {}, cold0 |-> {}, then |-> "idle"]

NoSections == [x \in {} |-> 0]

NoRead == [pc |-> "idle", id |-> 0, file |-> 0, tier |-> "hot", got |-> {}]

\* A store as an earlier life left it: segment i in file i, in the tier a
\* start gives it, and the readers that will use it.
FilesInit == \E st \in Starts :
  LET in(t) == {i \in DOMAIN st.tier : st.tier[i] = t}
  IN /\ man = [i \in DOMAIN st.tier |-> Entry(i, st.tier[i])]
     /\ disk = man /\ nextFile = st.next /\ diskNext = st.next /\ clock = st.clock
     /\ hot = in("hot") /\ cold = in("cold") /\ obj = in("remote")
     /\ tmp = [f \in Files |-> "none"] /\ pull = [f \in Files |-> "none"]
     /\ m = Resting
     /\ rd = [r \in Readers |-> IF r \in st.readers THEN NoRead ELSE [NoRead EXCEPT !.pc = "off"]]
     /\ cache = NoSections /\ faults = st.faults /\ shared = {}

(***************************************************************************)
(* Maintenance.  A step that returns an error ends the tick.               *)
(***************************************************************************)

Ids(t) == {i \in DOMAIN man : man[i].tier = t}

Old(i) == man[i].file < clock

Without(run) == [i \in DOMAIN man \ run |-> man[i]]

\* segment_path: where maintenance looks for a segment's bytes.
AtPath(e) ==
  CASE e.tier = "hot" -> e.file \in hot
    [] e.tier = "cold" -> e.file \in cold
    [] e.tier = "remote" -> pull[e.file] = "whole"

\* The manifest in memory becomes new; its store succeeds and the thread goes
\* on to ok, or fails and the tick is over.
Commit(new, ok) ==
  /\ man' = new
  /\ \/ disk' = new /\ diskNext' = nextFile /\ m' = ok /\ UNCHANGED faults
     \/ /\ "store" \in FileFault /\ faults < MaxFaults /\ faults' = faults + 1
        /\ m' = Resting /\ UNCHANGED <<disk, diskNext>>

\* Between two messages of the maintenance actor; "done" after a whole tick.
AtRest == m.pc \in {"idle", "done"}

\* flush: a new segment, listed once its file is complete.
Flushes ==
  /\ AtRest /\ nextFile < MaxFile
  /\ hot' = hot \cup {nextFile} /\ nextFile' = nextFile + 1
  /\ m' = [Resting EXCEPT !.pc = "swap", !.out = nextFile, !.then = "flush"]
  /\ UNCHANGED <<man, disk, diskNext, clock, cold, obj, tmp, pull, rd, cache, faults, shared>>

\* Rewriting run into one new hot file: of the tick, hot segments only; of
\* purge_key, any that can hold the key.  An input that is not at its path
\* fails the pass.
RewriteWrites(run, then) ==
  /\ run # {} /\ nextFile < MaxFile
  /\ IF \A i \in run : AtPath(man[i])
     THEN /\ hot' = hot \cup {nextFile} /\ nextFile' = nextFile + 1
          /\ m' = [Resting EXCEPT !.pc = "swap", !.run = run, !.out = nextFile, !.then = then]
     ELSE m' = Resting /\ UNCHANGED <<hot, nextFile>>
  /\ UNCHANGED <<man, disk, diskNext, clock, cold, obj, tmp, pull, rd, cache, faults, shared>>

\* A tick begins with compact, which rewrites a run or finds none.
Compacts == AtRest /\ \E run \in SUBSET Ids("hot") : RewriteWrites(run, "reclaim")

ReclaimBegins == [Resting EXCEPT !.pc = "reclaim"]

CompactsNothing ==
  /\ AtRest
  /\ m' = ReclaimBegins
  /\ UNCHANGED <<bytes, tmp, pull, rd, cache, faults, shared>>

Purges == AtRest /\ \E run \in SUBSET DOMAIN man : RewriteWrites(run, "idle")

\* Mutant of TierBegins: the candidates are old segments of any tier.
TierBeginsAnyTier ==
  [Resting EXCEPT !.pc = "to_cold", !.run = {i \in DOMAIN man : Old(i)}, !.cold0 = Ids("cold")]

\* tier: the candidates of both moves are fixed when the pass begins.
TierBegins ==
  [Resting EXCEPT !.pc = "to_cold", !.run = {i \in Ids("hot") : Old(i)}, !.cold0 = Ids("cold")]

\* reclaim_sealed rewrites one hot segment, or leaves it.
Reclaims == m.pc = "reclaim" /\ \E i \in Ids("hot") : RewriteWrites({i}, "tier")

ReclaimsNothing ==
  /\ m.pc = "reclaim"
  /\ m' = TierBegins
  /\ UNCHANGED <<bytes, tmp, pull, rd, cache, faults, shared>>

\* Its audit opens the segments that overlap the hot one, whatever their tier,
\* at segment_path; one that is not there ends the tick.
AuditFails ==
  /\ m.pc = "reclaim" /\ Ids("hot") # {}
  /\ \E i \in DOMAIN man : ~AtPath(man[i])
  /\ m' = Resting
  /\ UNCHANGED <<bytes, tmp, pull, rd, cache, faults, shared>>

\* The largest id of the run, which the output takes; a flush takes its own
\* file's number.
OutId == IF m.then = "flush" THEN m.out ELSE CHOOSE i \in m.run : \A j \in m.run : j <= i

\* The swap and its store; the entries dropped are kept for the deletion.
Swaps ==
  /\ m.pc = "swap"
  /\ LET new == [i \in (DOMAIN man \ m.run) \cup {OutId} |->
                   IF i = OutId THEN Entry(m.out, "hot") ELSE man[i]]
     IN Commit(new, IF m.then = "flush" THEN Resting
                    ELSE [m EXCEPT !.pc = "drop", !.dead = {man[i] : i \in m.run}])
  /\ UNCHANGED <<nextFile, clock, hot, cold, obj, tmp, pull, rd, cache, shared>>

\* Of the stamps only their order counts: each is the number of older ones.
Ranked(c) ==
  [x \in DOMAIN c |-> [of |-> c[x].of,
                       used |-> Cardinality({y \in DOMAIN c : c[y].used < c[x].used})]]

\* SegmentCache::invalidate: every section of the files goes.
Invalidated(files) == Ranked([x \in {y \in DOMAIN cache : y[1] \notin files} |-> cache[x]])

\* drop_segment_file of each input, by its tier, and the cache's invalidate.
Drops ==
  /\ m.pc = "drop"
  /\ LET of(t) == {e.file : e \in {d \in m.dead : d.tier = t}}
     IN /\ hot' = hot \ of("hot") /\ cold' = cold \ of("cold") /\ obj' = obj \ of("remote")
        /\ pull' = [f \in Files |-> IF f \in of("remote") THEN "none" ELSE pull[f]]
  /\ cache' = Invalidated({e.file : e \in m.dead})
  /\ m' = CASE m.then = "reclaim" -> ReclaimBegins
            [] m.then = "tier" -> TierBegins
            [] OTHER -> Resting
  /\ UNCHANGED <<man, disk, diskNext, nextFile, clock, tmp, rd, faults, shared>>

\* The rename comes before the manifest: if the file is not in the hot
\* directory both the rename and the copy fail.
Renames(i) ==
  /\ m.pc = "to_cold" /\ i \in m.run
  /\ LET f == man[i].file
     IN IF f \in hot
        THEN /\ hot' = hot \ {f} /\ cold' = cold \cup {f}
             /\ m' = [m EXCEPT !.pc = "flip_cold", !.out = i]
        ELSE m' = Resting /\ UNCHANGED <<hot, cold>>
  /\ UNCHANGED <<man, disk, diskNext, nextFile, clock, obj, tmp, pull, rd, cache, faults, shared>>

FlipsCold ==
  /\ m.pc = "flip_cold"
  /\ Commit([man EXCEPT ![m.out].tier = "cold"],
            [m EXCEPT !.pc = "to_cold", !.run = @ \ {m.out}, !.out = 0])
  /\ UNCHANGED <<nextFile, clock, hot, cold, obj, tmp, pull, rd, cache, shared>>

\* tier_to_remote: only what was cold before this pass.
RemoteBegins ==
  /\ m.pc = "to_cold" /\ m.run = {}
  /\ m' = [m EXCEPT !.pc = "to_remote", !.run = {i \in Ids("cold") \cap m.cold0 : Old(i)},
                    !.cold0 = {}]
  /\ UNCHANGED <<bytes, tmp, pull, rd, cache, faults, shared>>

\* The read of the local file and the PUT.
Puts(i) ==
  /\ m.pc = "to_remote" /\ i \in m.run
  /\ LET f == man[i].file
     IN \/ /\ UNCHANGED faults
           /\ IF f \in cold
              THEN obj' = obj \cup {f} /\ m' = [m EXCEPT !.pc = "flip_remote", !.out = i]
              ELSE m' = Resting /\ UNCHANGED obj
        \/ /\ "put" \in FileFault /\ faults < MaxFaults /\ faults' = faults + 1
           /\ m' = Resting /\ UNCHANGED obj
  /\ UNCHANGED <<man, disk, diskNext, nextFile, clock, hot, cold, tmp, pull, rd, cache, shared>>

\* Mutant of FlipsRemote: the local file goes before the store.
FlipsRemoteUnlinks ==
  /\ m.pc = "flip_remote"
  /\ Commit([man EXCEPT ![m.out].tier = "remote"], [m EXCEPT !.pc = "unlink"])
  /\ cold' = cold \ {man[m.out].file}
  /\ UNCHANGED <<nextFile, clock, hot, obj, tmp, pull, rd, cache, shared>>

FlipsRemote ==
  /\ m.pc = "flip_remote"
  /\ Commit([man EXCEPT ![m.out].tier = "remote"], [m EXCEPT !.pc = "unlink"])
  /\ UNCHANGED <<nextFile, clock, hot, cold, obj, tmp, pull, rd, cache, shared>>

Unlinks ==
  /\ m.pc = "unlink"
  /\ cold' = cold \ {man[m.out].file}
  /\ m' = [m EXCEPT !.pc = "to_remote", !.run = @ \ {m.out}, !.out = 0]
  /\ UNCHANGED <<man, disk, diskNext, nextFile, clock, hot, obj, tmp, pull, rd, cache, faults, shared>>

GroomBegins ==
  /\ m.pc = "to_remote" /\ m.run = {}
  /\ m' = [Resting EXCEPT !.pc = "groom"]
  /\ UNCHANGED <<bytes, tmp, pull, rd, cache, faults, shared>>

\* groom drops a wholly expired segment of any tier.
Expires(i) ==
  /\ m.pc = "groom" /\ i \in DOMAIN man
  /\ Commit(Without({i}), [m EXCEPT !.pc = "erase", !.dead = {man[i]}])
  /\ UNCHANGED <<nextFile, clock, hot, cold, obj, tmp, pull, rd, cache, shared>>

\* It removes the file at segment_path: the object of a remote one stays.
Erases ==
  /\ m.pc = "erase"
  /\ LET of(t) == {e.file : e \in {d \in m.dead : d.tier = t}}
     IN /\ hot' = hot \ of("hot") /\ cold' = cold \ of("cold")
        /\ pull' = [f \in Files |-> IF f \in of("remote") THEN "none" ELSE pull[f]]
  /\ cache' = Invalidated({e.file : e \in m.dead})
  /\ m' = [Resting EXCEPT !.pc = "groom"]
  /\ UNCHANGED <<man, disk, diskNext, nextFile, clock, obj, tmp, rd, faults, shared>>

\* migrate, the sweeps and the end of the tick.
TickEnds ==
  /\ m.pc = "groom"
  /\ m' = [Resting EXCEPT !.pc = "done"]
  /\ UNCHANGED <<bytes, tmp, pull, rd, cache, faults, shared>>

\* Time passes.
Ages ==
  /\ clock < nextFile
  /\ clock' = nextFile
  /\ UNCHANGED <<man, disk, diskNext, nextFile, hot, cold, obj, tmp, pull, m, rd, cache, faults, shared>>

\* A kill, and open_inner: the stored manifest; objects it does not name as
\* remote are deleted, and so are local copies of those it does.
Cut(x) == IF x \in Readers THEN "cut" ELSE x

Reopens ==
  /\ "kill" \in FileFault /\ faults < MaxFaults /\ faults' = faults + 1
  /\ LET remote == {e.file : e \in {disk[i] : i \in {j \in DOMAIN disk : disk[j].tier = "remote"}}}
     IN /\ obj' = obj \cap remote
        /\ hot' = hot \ remote /\ cold' = cold \ remote
  /\ man' = disk /\ nextFile' = diskNext
  /\ m' = Resting /\ rd' = [r \in Readers |-> IF rd[r].pc = "off" THEN rd[r] ELSE NoRead] 
  /\ cache' = NoSections
  /\ tmp' = [f \in Files |-> Cut(tmp[f])] /\ pull' = [f \in Files |-> Cut(pull[f])]
  /\ UNCHANGED <<disk, diskNext, clock, shared>>

(***************************************************************************)
(* A read of one segment                                                   *)
(***************************************************************************)

\* The manifest entry is copied under the read lock.
ReadBegins(r, i) ==
  /\ rd[r].pc = "idle" /\ i \in DOMAIN man
  /\ rd' = [rd EXCEPT ![r] = [pc |-> IF man[i].tier = "remote" THEN "pulled" ELSE "open",
                              id |-> i, file |-> man[i].file, tier |-> man[i].tier, got |-> {}]]
  /\ UNCHANGED <<bytes, tmp, pull, m, cache, faults, shared>>

Goto(r, pc) == rd' = [rd EXCEPT ![r].pc = pc]

Dir(t) == IF t = "hot" THEN hot ELSE cold

\* open_segment_file: the tier the entry names, and then the other one.
Opens(r) ==
  /\ rd[r].pc = "open"
  /\ Goto(r, IF rd[r].file \in Dir(rd[r].tier) THEN "load" ELSE "other")
  /\ UNCHANGED <<bytes, tmp, pull, m, cache, faults, shared>>

\* Mutant of OpensOther: no second directory is tried.
OpensNoOther(r) ==
  /\ rd[r].pc = "other"
  /\ Goto(r, "vanished")
  /\ UNCHANGED <<bytes, tmp, pull, m, cache, faults, shared>>

OpensOther(r) ==
  /\ rd[r].pc = "other"
  /\ LET other == IF rd[r].tier = "hot" THEN "cold" ELSE "hot"
     IN Goto(r, IF rd[r].file \in Dir(other) THEN "load" ELSE "vanished")
  /\ UNCHANGED <<bytes, tmp, pull, m, cache, faults, shared>>

\* What a reader finds under a name of the pull directory: a file that is
\* not whole fails its checksums.
PullState(f) == CASE pull[f] = "whole" -> "load" [] pull[f] = "none" -> "none" [] OTHER -> "corrupt"

\* open_remote_segment: a copy already pulled, or the object.
OpensPulled(r) ==
  /\ rd[r].pc = "pulled"
  /\ LET f == rd[r].file
     IN Goto(r, CASE PullState(f) # "none" -> PullState(f)
                  [] f \in obj -> "prune"
                  [] OTHER -> "missing")
  /\ UNCHANGED <<bytes, tmp, pull, m, cache, faults, shared>>

\* The names in the pull directory other than the one to be written.
Resident(f) == {<<"tmp", g>> : g \in {x \in Files : tmp[x] # "none"}}
                 \cup {<<"pull", g>> : g \in {x \in Files \ {f} : pull[x] # "none"}}

Least(a, b) == IF a <= b THEN a ELSE b

\* prune_pull_cache: the oldest of them go until one more fits, or all.
Prunes(r) ==
  /\ rd[r].pc = "prune"
  /\ LET f == rd[r].file
         resident == Resident(f)
         excess == Cardinality(resident) + 1 - PullCap
         count == Least(IF excess < 0 THEN 0 ELSE excess, Cardinality(resident))
     IN \E gone \in {v \in SUBSET resident : Cardinality(v) = count} :
          /\ tmp' = [x \in Files |-> IF <<"tmp", x>> \in gone THEN "none" ELSE tmp[x]]
          /\ pull' = [x \in Files |-> IF <<"pull", x>> \in gone THEN "none" ELSE pull[x]]
  /\ Goto(r, "fetched")
  /\ UNCHANGED <<bytes, m, cache, faults, shared>>

Fetching(f) == {r \in Readers : rd[r].file = f /\ rd[r].pc \in {"prune", "fetched", "writing", "rename"}}

\* Mutant of PullWrites: the bytes go straight to the final name.
PullWritesInPlace(r) ==
  /\ rd[r].pc = "fetched"
  /\ pull' = [pull EXCEPT ![rd[r].file] = r]
  /\ tmp' = [tmp EXCEPT ![rd[r].file] = "whole"]
  /\ shared' = IF Fetching(rd[r].file) = {r} THEN shared ELSE shared \cup {rd[r].file}
  /\ Goto(r, "writing")
  /\ UNCHANGED <<bytes, m, cache, faults>>

\* fs::write creates or truncates the one .tmp name of the segment ...
PullWrites(r) ==
  /\ rd[r].pc = "fetched"
  /\ tmp' = [tmp EXCEPT ![rd[r].file] = r]
  /\ shared' = IF Fetching(rd[r].file) = {r} THEN shared ELSE shared \cup {rd[r].file}
  /\ Goto(r, "writing")
  /\ UNCHANGED <<bytes, pull, m, cache, faults>>

\* ... fills it, under whichever name it has by then ...
PullWritten(r) ==
  /\ rd[r].pc = "writing"
  /\ LET f == rd[r].file
     IN /\ tmp' = [tmp EXCEPT ![f] = IF @ = r THEN "whole" ELSE @]
        /\ pull' = [pull EXCEPT ![f] = IF @ = r THEN "whole" ELSE @]
  /\ Goto(r, "rename")
  /\ UNCHANGED <<bytes, m, cache, faults, shared>>

\* ... and the rename makes it the pulled copy, which is then opened.  A
\* name that is gone is NotFound.
PullRenames(r) ==
  /\ rd[r].pc = "rename"
  /\ LET f == rd[r].file
     IN IF tmp[f] = "none"
        THEN Goto(r, "again") /\ UNCHANGED <<tmp, pull>>
        ELSE /\ pull' = [pull EXCEPT ![f] = tmp[f]]
             /\ tmp' = [tmp EXCEPT ![f] = "none"]
             /\ Goto(r, "reopen")
  /\ UNCHANGED <<bytes, m, cache, faults, shared>>

PullOpens(r) ==
  /\ rd[r].pc = "reopen"
  /\ Goto(r, IF PullState(rd[r].file) = "none" THEN "again" ELSE PullState(rd[r].file))
  /\ UNCHANGED <<bytes, tmp, pull, m, cache, faults, shared>>

\* Mutant of CacheKey: sections are cached under the segment's id.
CacheKeyId(r) == rd[r].id

\* SegmentMeta::cache_key: the file's number.
CacheKey(r) == rd[r].file

\* The next stamp of the cache's clock, above all that are given.
Stamp == Cardinality(DOMAIN cache)

\* SegmentCache::get: a hit becomes the most recently used.
Hits(r, s) ==
  /\ rd[r].pc = "load" /\ s \in Sections \ {g[1] : g \in rd[r].got}
  /\ LET x == <<CacheKey(r), s>>
     IN /\ x \in DOMAIN cache
        /\ cache' = Ranked([cache EXCEPT ![x].used = Stamp])
        /\ rd' = [rd EXCEPT ![r].got = @ \cup {<<s, cache[x].of>>}]
  /\ UNCHANGED <<bytes, tmp, pull, m, faults, shared>>

\* A miss reads the section through the open handle.
Misses(r, s) ==
  /\ rd[r].pc = "load" /\ s \in Sections \ {g[1] : g \in rd[r].got}
  /\ <<CacheKey(r), s>> \notin DOMAIN cache
  /\ rd' = [rd EXCEPT ![r].pc = s]
  /\ UNCHANGED <<bytes, tmp, pull, m, cache, faults, shared>>

\* The oldest go while there are too many and more than one is left.
Trimmed(c) ==
  LET keep == IF CacheCap < 1 THEN 1 ELSE CacheCap
      newer(x) == {y \in DOMAIN c : c[y].used > c[x].used}
  IN [x \in {y \in DOMAIN c : Cardinality(newer(y)) < keep} |-> c[x]]

\* SegmentCache::put.
Caches(r, s) ==
  /\ rd[r].pc = s /\ s \in Sections
  /\ LET new == <<CacheKey(r), s>>
     IN cache' = Ranked(Trimmed([x \in DOMAIN cache \cup {new} |->
                                   IF x = new THEN [of |-> rd[r].file, used |-> Stamp]
                                   ELSE cache[x]]))
  /\ rd' = [rd EXCEPT ![r] = [@ EXCEPT !.pc = "load", !.got = rd[r].got \cup {<<s, rd[r].file>>}]]
  /\ UNCHANGED <<bytes, tmp, pull, m, faults, shared>>

\* Answered, or failed; a read that found nothing starts again.
ReadEnds(r) ==
  /\ \/ rd[r].pc \in {"vanished", "again", "missing", "corrupt"}
     \/ rd[r].pc = "load" /\ {g[1] : g \in rd[r].got} = Sections
  /\ rd' = [rd EXCEPT ![r] = NoRead]
  /\ UNCHANGED <<bytes, tmp, pull, m, cache, faults, shared>>

(***************************************************************************)
(* The system                                                              *)
(***************************************************************************)

TickStep ==
  \/ Compacts \/ CompactsNothing \/ Reclaims \/ ReclaimsNothing \/ AuditFails \/ Swaps \/ Drops
  \/ FlipsCold \/ RemoteBegins \/ FlipsRemote \/ Unlinks
  \/ \E i \in 0..MaxFile : Renames(i) \/ Puts(i) \/ Expires(i)
  \/ GroomBegins \/ Erases \/ TickEnds

ReadStep(r) ==
  \/ \E i \in 0..MaxFile : ReadBegins(r, i)
  \/ Opens(r) \/ OpensOther(r) \/ OpensPulled(r)
  \/ Prunes(r) \/ PullWrites(r) \/ PullWritten(r) \/ PullRenames(r) \/ PullOpens(r)
  \/ \E s \in Sections : Hits(r, s) \/ Misses(r, s) \/ Caches(r, s)
  \/ ReadEnds(r)

FilesNext ==
  \/ TickStep
  \/ Flushes \/ Purges \/ Ages \/ Reopens
  \/ \E r \in Readers : ReadStep(r)

\* The ticker keeps sending ticks and the maintenance thread runs them: some
\* step of a tick is always enabled, so this is their weak fairness.
FilesFairness == []<><<TickStep>>_fvars

FilesSpec == FilesInit /\ [][FilesNext]_fvars /\ FilesFairness

(***************************************************************************)
(* Properties                                                              *)
(***************************************************************************)

ReadableIn(listing) ==
  \A i \in DOMAIN listing :
    IF listing[i].tier = "remote" THEN listing[i].file \in obj
    ELSE listing[i].file \in hot \cup cold

\* tier_to_remote, actors.rs:1185: "At no step is the segment readable in
\* fewer than one place".  The bytes of every segment of the manifest are
\* where open_segment_file looks for them, and so are those of the stored
\* manifest, which is what a kill at this point leaves to the next open.
ReadableSomewhere == ReadableIn(man) /\ ReadableIn(disk)

\* retry_vanished, engine.rs:678-682: a read that finds no file, or no
\* object, held a manifest entry that is gone or changed since; a fresh one
\* cannot name it.  Only the missing file is retried: a missing object is
\* Corrupt (engine.rs:205-208), though it says no more about the store.
VanishedIsStale == \A r \in Readers :
  rd[r].pc \in {"vanished", "missing"} =>
    ~(rd[r].id \in DOMAIN man /\ man[rd[r].id] = Entry(rd[r].file, rd[r].tier))

\* cache_key, manifest.rs:46: the sections a read puts together all come
\* from the file its entry names, over compactions that give the segment's
\* id to a new file, evictions, invalidations, and puts that arrive after
\* them.
SectionsOfOneFile == \A r \in Readers : \A g \in rd[r].got : g[2] = rd[r].file

\* open_remote_segment: the pulled copy of a segment is whole under its
\* final name whenever no two reads fetched it at once, evictions and kills
\* included.
PulledWhole == \A f \in Files : pull[f] \in {"none", "whole"} \/ f \in shared

\* A segment listed as hot whose file the tier pass already moved.
Stranded == \E i \in DOMAIN man : man[i].tier = "hot" /\ man[i].file \notin hot

\* A remote segment without a copy in the pull cache, which the audit of a
\* hot one may have to open.
Unpulled == Ids("hot") # {} /\ \E i \in Ids("remote") : pull[man[i].file] # "whole"

\* The periodic tick (engine.rs:436): it runs to its end over and over, with
\* two exceptions.  A kill between the rename and the store of its tier pass
\* left a segment where no later pass looks; or, again and again, there is
\* a remote segment that is not pulled beside a hot one.
TicksCompleteUnlessStranded ==
  []<>(m.pc = "done") \/ <>[]Stranded \/ []<>Unpulled

\* groom, actors.rs:872: "expiry is not hostage to write volume".  The tick
\* reaches its later passes over and over.
TicksComplete == []<>(m.pc = "done")
=============================================================================
