------------------------------- MODULE Engine -------------------------------
(***************************************************************************)
(* The write path, the flush and compaction paths, crashes and recovery of *)
(* the storage engine: WriterActor and MaintenanceActor of                 *)
(* src/src/actors.rs, Girder::open of src/src/engine.rs, the WAL of        *)
(* src/src/wal.rs and the manifest of src/src/manifest.rs.                 *)
(*                                                                         *)
(* The two actors run concurrently; inside each, one handler at a time.    *)
(* A handler is split into steps wherever another actor or a crash can see *)
(* the difference: between two effects on disk, and between releasing one  *)
(* lock and taking the next.                                               *)
(*                                                                         *)
(* A WAL file is the table its replay yields (src/src/wal.rs replays       *)
(* frames in append order, later frames over earlier ones).  A segment is  *)
(* the table it was written from.  Retention, tiers and blobs are left to  *)
(* other modules.                                                          *)
(***************************************************************************)
EXTENDS Records

CONSTANTS
  CounterKey,  \* the keys that `incr` is ever called on
  PutVal,      \* the numbers carried by ordinary puts
  IncVal,      \* the numbers added by increments
  MemMax,      \* memtable_max_records
  Fault        \* which of the events in Faults may happen

\* "crash": the process dies.  "store": writing a
\* segment or storing the manifest fails.
\* "append": a WAL write fails inside a frame.  "walopen": creating the next
\* WAL fails.  "unlink": deleting a WAL file fails.
\* "surplus" is no failure but a shape of the data: record sizes for which
\* split_chunks cuts the output of a compaction into more chunks than it
\* had inputs.
Faults == {"crash", "store", "append", "walopen", "unlink", "surplus"}

ASSUME EngineAssumption ==
  /\ CounterKey \subseteq Key
  /\ PutVal \subseteq Nat
  /\ IncVal \subseteq Nat
  /\ MemMax \in Nat \ {0}
  /\ Fault \subseteq Faults

PlainKey == Key \ CounterKey

VARIABLES
  \* the process
  phase,      \* "down", or how far `open` got: "replay", "settle", "unlink", "up"
  mem,        \* the memtable
  taken,      \* a memtable that freeze has taken and not yet pushed
  frozen,     \* frozen memtables, by the WAL sequence number covering each
  walSeq,     \* WriterState.wal_seq
  curWal,     \* the file WriterState.wal appends to
  wpc,        \* where the writer's handler stands
  batch,      \* frames of the call in progress that are in the WAL
  recovered,  \* what `open` replayed
  oldWals,    \* the WAL files `open` listed and has yet to delete
  manifest,   \* the manifest in memory: segment id -> file, and the next number
  mpc,        \* where the maintenance handler stands
  job,        \* its local variables
  \* the disk
  wals,       \* WAL files by sequence number, as the tables they replay to
  torn,       \* WAL files with a torn frame: nothing behind it replays
  files,      \* segment files by sequence number
  disk,       \* the stored manifest
  \* history
  acked       \* per key, the fold of all acknowledged writes in order

writerVars == <<mem, taken, walSeq, curWal, wpc, batch>>
maintVars == <<manifest, mpc, job>>
openVars == <<phase, recovered, oldWals>>
segVars == <<files, disk>>
walVars == <<wals, torn>>
vars == <<writerVars, frozen, maintVars, openVars, segVars, walVars, acked>>

(***************************************************************************)
(* Views                                                                   *)
(***************************************************************************)

\* The segments of a manifest as a stack of tables: higher ids are newer.
SegStack(man) == [i \in DOMAIN man.segs |-> files[man.segs[i]]]

\* The value of k in the running process, newest source first.  A memtable
\* inside freeze counts: it belongs to the store even while no reader sees it.
LiveView(k) ==
  Over(Get(mem, k), Over(Get(taken, k),
       Over(Fold(frozen, k), Fold(SegStack(manifest), k))))

\* The value of k that a restart would bring back from the disk alone.
DurableView(k) == Over(Fold(wals, k), Fold(SegStack(disk), k))

(***************************************************************************)
(* State                                                                   *)
(***************************************************************************)

NoJob == [wal |-> 0, file |-> 0, run |-> {}, left |-> EmptyTable,
          out |-> EmptyTable, drop |-> {}]

EmptyManifest == [segs |-> EmptyTable, next |-> 0]

Init ==
  /\ phase = "down" /\ recovered = EmptyTable /\ oldWals = {}
  /\ mem = EmptyTable /\ taken = EmptyTable /\ frozen = EmptyTable
  /\ walSeq = 0 /\ curWal = 0 /\ wpc = "idle" /\ batch = EmptyTable
  /\ manifest = EmptyManifest /\ mpc = "idle" /\ job = NoJob
  /\ wals = EmptyTable /\ torn = {} /\ files = EmptyTable
  /\ disk = EmptyManifest
  /\ acked = [k \in Key |-> NoRec]

(***************************************************************************)
(* The writer                                                              *)
(***************************************************************************)

\* One frame reaches the current WAL.  Replay stops at a torn frame, so a
\* frame behind one changes nothing that replay would return.
LogFrame(k, r) ==
  /\ batch' = insert(batch, k, r)
  /\ wals' = IF curWal \in torn THEN wals
             ELSE [wals EXCEPT ![curWal] = insert(@, k, Over(r, Get(@, k)))]
  /\ UNCHANGED torn

\* put_batch / put / delete: append_batch writes the batch's frames in
\* order.  A crash in between leaves a prefix of them.
PutFrame(k, r) ==
  /\ phase = "up" /\ wpc \in {"idle", "append"}
  /\ wpc' = "append"
  /\ LogFrame(k, r)
  /\ UNCHANGED <<mem, taken, walSeq, curWal, frozen, maintVars, openVars, segVars, acked>>

\* incr: its single delta frame.
IncrFrame(k, d) ==
  /\ phase = "up" /\ wpc = "idle"
  /\ wpc' = "incr"
  /\ LogFrame(k, d)
  /\ UNCHANGED <<mem, taken, walSeq, curWal, frozen, maintVars, openVars, segVars, acked>>

\* append_batch fails: the write, with a partial frame behind the complete
\* ones, or the sync after it.  The call returns the error and inserts
\* nothing; the writer keeps appending to the same file.
AppendFails ==
  /\ "append" \in Fault
  /\ phase = "up"
  /\ \/ wpc \in {"idle", "append"} /\ torn' = torn \cup {curWal}
     \/ wpc \in {"append", "incr"} /\ UNCHANGED torn
  /\ batch' = EmptyTable
  /\ wpc' = "idle"
  /\ UNCHANGED <<mem, taken, walSeq, curWal, frozen, maintVars, openVars, segVars, wals, acked>>

\* Where the handler goes once the memtable holds t: on to freeze when full.
AfterInsert(t) == IF Cardinality(DOMAIN t) >= MemMax THEN "over" ELSE "idle"

\* The batch becomes visible under one lock and the call is acknowledged.
\* Append inserts every record; Incr folds its delta onto the resident one.
Apply ==
  /\ wpc \in {"append", "incr"}
  /\ mem' = IF wpc = "append"
            THEN [k \in DOMAIN batch \cup DOMAIN mem |->
                    IF k \in DOMAIN batch THEN batch[k] ELSE mem[k]]
            ELSE OverTable(batch, mem)
  /\ wpc' = AfterInsert(mem')
  /\ acked' = [k \in Key |-> Over(Get(batch, k), acked[k])]
  /\ batch' = EmptyTable
  /\ UNCHANGED <<taken, walSeq, curWal, frozen, maintVars, openVars, segVars, walVars>>

\* freeze runs at the end of the call that filled the memtable, or for an
\* explicit Freeze message (flush, close, purge_key, recovery).
FreezeEnabled ==
  /\ wpc = "over" \/ (wpc = "idle" /\ phase \in {"up", "settle"})
  /\ DOMAIN mem # {}

\* freeze, first half: the memtable is taken, its lock dropped, the next WAL
\* created.
FreezeTake ==
  /\ FreezeEnabled
  /\ taken' = mem
  /\ mem' = EmptyTable
  /\ walSeq' = walSeq + 1
  /\ curWal' = walSeq + 1
  /\ wals' = insert(wals, walSeq + 1, EmptyTable)
  /\ wpc' = "taken"
  /\ UNCHANGED <<batch, frozen, maintVars, openVars, segVars, torn, acked>>

\* Wal::open fails inside freeze: the taken memtable is dropped with the
\* early return, wal_seq has moved on, and appends stay on the old file.
FreezeFails ==
  /\ "walopen" \in Fault
  /\ phase = "up" /\ FreezeEnabled
  /\ mem' = EmptyTable
  /\ walSeq' = walSeq + 1
  /\ wpc' = "idle"
  /\ UNCHANGED <<taken, curWal, batch, frozen, maintVars, openVars, segVars, walVars, acked>>

\* Mutant of FreezePush: the memtable is filed under the WAL before its own.
FreezePushOff ==
  /\ wpc = "taken"
  /\ frozen' = insert(frozen, walSeq - 2, taken)
  /\ taken' = EmptyTable
  /\ wpc' = "idle"
  /\ UNCHANGED <<mem, walSeq, curWal, batch, maintVars, openVars, segVars, walVars, acked>>

\* freeze, second half: the memtable joins the frozen list.
FreezePush ==
  /\ wpc = "taken"
  /\ frozen' = insert(frozen, walSeq - 1, taken)
  /\ taken' = EmptyTable
  /\ wpc' = "idle"
  /\ UNCHANGED <<mem, walSeq, curWal, batch, maintVars, openVars, segVars, walVars, acked>>

(***************************************************************************)
(* Maintenance: flush_pending                                              *)
(***************************************************************************)

Running == phase # "down"

\* alloc_seq: the number is taken in memory only.
Allocated == [manifest EXCEPT !.next = @ + 1]

\* The oldest frozen memtable is written to a fresh hot segment file.
FlushWrite ==
  /\ Running /\ mpc = "idle"
  /\ DOMAIN frozen # {}
  /\ LET w == Min(DOMAIN frozen)
         f == manifest.next
     IN  /\ files' = insert(files, f, frozen[w])
         /\ job' = [NoJob EXCEPT !.wal = w, !.file = f]
  /\ manifest' = Allocated
  /\ mpc' = "written"
  /\ UNCHANGED <<writerVars, frozen, openVars, disk, walVars, acked>>

\* write_segment_refs fails: only the number is gone.
FlushWriteFails ==
  /\ "store" \in Fault
  /\ Running /\ mpc = "idle"
  /\ DOMAIN frozen # {}
  /\ manifest' = Allocated
  /\ UNCHANGED <<writerVars, frozen, mpc, job, openVars, segVars, walVars, acked>>

\* The manifest with the flushed segment: its id is its file number.
Flushed == [manifest EXCEPT !.segs = insert(@, job.file, job.file)]

\* The segment enters the manifest, which is stored under the same lock.
FlushStore ==
  /\ mpc = "written"
  /\ manifest' = Flushed
  /\ disk' = Flushed
  /\ mpc' = "stored"
  /\ UNCHANGED <<writerVars, frozen, job, openVars, files, walVars, acked>>

\* Mutant of FlushStoreFails: the error is dropped and the flush goes on.
FlushStoreIgnored ==
  /\ "store" \in Fault
  /\ mpc = "written"
  /\ manifest' = Flushed
  /\ mpc' = "stored"
  /\ UNCHANGED <<writerVars, frozen, job, openVars, segVars, walVars, acked>>

\* store_manifest fails: the pushed entry stays in memory, the handler
\* returns, and the frozen memtable is flushed again later.
FlushStoreFails ==
  /\ "store" \in Fault
  /\ mpc = "written"
  /\ manifest' = Flushed
  /\ mpc' = "idle" /\ job' = NoJob
  /\ UNCHANGED <<writerVars, frozen, openVars, segVars, walVars, acked>>

\* Delete WAL file w; a failure to do so is ignored.
RemoveWal(w) ==
  \/ /\ wals' = Restrict(wals, DOMAIN wals \ {w})
     /\ torn' = torn \ {w}
  \/ "unlink" \in Fault /\ UNCHANGED walVars

\* The WAL that covered the segment goes.
FlushUnlink ==
  /\ mpc = "stored"
  /\ RemoveWal(job.wal)
  /\ mpc' = "unlinked"
  /\ UNCHANGED <<writerVars, frozen, manifest, job, openVars, segVars, acked>>

\* Mutant of FlushPop: the newest frozen memtable goes.
FlushPopNewest ==
  /\ mpc = "unlinked"
  /\ frozen' = Restrict(frozen, DOMAIN frozen \ {Max(DOMAIN frozen)})
  /\ mpc' = "idle" /\ job' = NoJob
  /\ UNCHANGED <<writerVars, manifest, openVars, segVars, walVars, acked>>

\* The frozen entry stays visible until here.
FlushPop ==
  /\ mpc = "unlinked"
  /\ frozen' = Restrict(frozen, DOMAIN frozen \ {Min(DOMAIN frozen)})
  /\ mpc' = "idle" /\ job' = NoJob
  /\ UNCHANGED <<writerVars, manifest, openVars, segVars, walVars, acked>>

(***************************************************************************)
(* Maintenance: compact and compact_run                                    *)
(***************************************************************************)

\* A run the policy may pick: a slice of the segments in id order.  Which
\* slice choose_run takes is CompactionPlan's; that it takes one, and never
\* straddles a segment it leaves out, is RunAdjacent there.  A run of one is
\* what it takes under retention.  purge_key, whose run is no slice, is left
\* to Rewrites.
IsRun(run) ==
  /\ run # {} /\ run \subseteq DOMAIN manifest.segs
  /\ \A i \in DOMAIN manifest.segs :
       (\E a, b \in run : a <= i /\ i <= b) => i \in run

\* The run read oldest to newest: full records overwrite, deltas fold.
Merged(run) ==
  LET stack == Restrict(SegStack(manifest), run)
  IN  [k \in UNION {DOMAIN stack[i] : i \in run} |-> Fold(stack, k)]

CompactMerge(run) ==
  /\ Running /\ mpc = "idle"
  /\ IsRun(run)
  /\ job' = [NoJob EXCEPT !.run = run, !.left = Merged(run)]
  /\ mpc' = "merging"
  /\ UNCHANGED <<writerVars, frozen, manifest, openVars, segVars, walVars, acked>>

\* One chunk ks of the merged table is written to a fresh file and takes
\* an id of the run above those already handed out.  The run's last id takes
\* the rest, unless there are more chunks than ids.
CompactChunk(id, ks) ==
  /\ mpc = "merging"
  /\ ks # {}
  /\ \A i \in DOMAIN job.out : i < id
  /\ \/ ks = DOMAIN job.left
     \/ \E j \in job.run : j > id
     \/ "surplus" \in Fault /\ job.run \subseteq DOMAIN job.out \cup {id}
  /\ files' = insert(files, manifest.next, Restrict(job.left, ks))
  /\ job' = [job EXCEPT !.out = insert(@, id, manifest.next),
                        !.left = Restrict(@, DOMAIN @ \ ks)]
  /\ manifest' = Allocated
  /\ UNCHANGED <<writerVars, frozen, mpc, openVars, disk, walVars, acked>>

\* alloc_seq twice: an id and a file number.
AllocatedTwo == [manifest EXCEPT !.next = @ + 2]

\* A chunk for which the run has no id left takes a fresh one, above every
\* segment there is.
CompactSurplus(ks) ==
  /\ "surplus" \in Fault
  /\ mpc = "merging"
  /\ ks # {} /\ job.run \subseteq DOMAIN job.out
  /\ files' = insert(files, manifest.next + 1, Restrict(job.left, ks))
  /\ job' = [job EXCEPT !.out = insert(@, manifest.next, manifest.next + 1),
                        !.left = Restrict(@, DOMAIN @ \ ks)]
  /\ manifest' = AllocatedTwo
  /\ UNCHANGED <<writerVars, frozen, mpc, openVars, disk, walVars, acked>>

\* Writing a chunk fails: those already written stay behind as garbage.
CompactFails ==
  /\ "store" \in Fault
  /\ mpc = "merging" /\ DOMAIN job.left # {} /\ ~ job.run \subseteq DOMAIN job.out
  /\ mpc' = "idle" /\ job' = NoJob
  /\ manifest' = Allocated
  /\ UNCHANGED <<writerVars, frozen, openVars, segVars, walVars, acked>>

\* The same for a chunk without an id of the run: both numbers are taken.
CompactSurplusFails ==
  /\ {"store", "surplus"} \subseteq Fault
  /\ mpc = "merging" /\ DOMAIN job.left # {} /\ job.run \subseteq DOMAIN job.out
  /\ mpc' = "idle" /\ job' = NoJob
  /\ manifest' = AllocatedTwo
  /\ UNCHANGED <<writerVars, frozen, openVars, segVars, walVars, acked>>

\* Mutant of Swapped: inputs whose id no output took stay in the manifest.
SwappedKeepsInputs ==
  [manifest EXCEPT !.segs =
     [i \in DOMAIN manifest.segs \cup DOMAIN job.out |->
        IF i \in DOMAIN job.out THEN job.out[i] ELSE manifest.segs[i]]]

\* The manifest after the swap: the run's ids replaced by the outputs.
Swapped ==
  LET kept == DOMAIN manifest.segs \ job.run
  IN  [manifest EXCEPT !.segs =
         [i \in kept \cup DOMAIN job.out |->
            IF i \in DOMAIN job.out THEN job.out[i] ELSE manifest.segs[i]]]

CompactStore ==
  /\ mpc = "merging" /\ DOMAIN job.left = {}
  /\ manifest' = Swapped
  /\ disk' = Swapped
  /\ job' = [NoJob EXCEPT !.drop = {manifest.segs[i] : i \in job.run}]
  /\ mpc' = "swapped"
  /\ UNCHANGED <<writerVars, frozen, openVars, files, walVars, acked>>

\* Mutant of CompactStoreFails: the error is dropped, the inputs go.
CompactStoreIgnored ==
  /\ "store" \in Fault
  /\ mpc = "merging" /\ DOMAIN job.left = {}
  /\ manifest' = Swapped
  /\ job' = [NoJob EXCEPT !.drop = {manifest.segs[i] : i \in job.run}]
  /\ mpc' = "swapped"
  /\ UNCHANGED <<writerVars, frozen, openVars, segVars, walVars, acked>>

\* The swap stays in memory; the input files are kept.
CompactStoreFails ==
  /\ "store" \in Fault
  /\ mpc = "merging" /\ DOMAIN job.left = {}
  /\ manifest' = Swapped
  /\ mpc' = "idle" /\ job' = NoJob
  /\ UNCHANGED <<writerVars, frozen, openVars, segVars, walVars, acked>>

\* The input files are deleted one by one.
CompactDrop(f) ==
  /\ mpc = "swapped"
  /\ files' = Restrict(files, DOMAIN files \ {f})
  /\ job' = [job EXCEPT !.drop = @ \ {f}]
  /\ mpc' = IF job.drop = {f} THEN "idle" ELSE "swapped"
  /\ UNCHANGED <<writerVars, frozen, manifest, openVars, disk, walVars, acked>>

(***************************************************************************)
(* Shutdown, crash and recovery                                            *)
(***************************************************************************)

\* What is lost when the process ends.
Lose ==
  /\ phase' = "down" /\ recovered' = EmptyTable /\ oldWals' = {}
  /\ mem' = EmptyTable /\ taken' = EmptyTable /\ frozen' = EmptyTable
  /\ wpc' = "idle" /\ batch' = EmptyTable
  /\ manifest' = disk /\ mpc' = "idle" /\ job' = NoJob
  /\ UNCHANGED <<walSeq, curWal, segVars, walVars>>

\* close: the final flush has emptied the memtables and the mailbox.
Close ==
  /\ phase = "up" /\ wpc = "idle" /\ mpc = "idle"
  /\ DOMAIN mem = {} /\ DOMAIN frozen = {}
  /\ Lose
  /\ UNCHANGED acked

\* A crash at any point.  Frames of an unacknowledged call that reached the
\* WAL take effect: the caller cannot tell.
Crash ==
  /\ "crash" \in Fault
  /\ Running
  /\ acked' = IF wpc \in {"append", "incr"} /\ curWal \notin torn
              THEN [k \in Key |-> Over(Get(batch, k), acked[k])]
              ELSE acked
  /\ Lose

\* open, up to spawning the actors: load the manifest, replay every WAL in
\* ascending order, start a WAL behind the last one.
Open ==
  /\ phase = "down"
  /\ LET last == IF DOMAIN wals = {} THEN 0 ELSE Max(DOMAIN wals) + 1
         tail == [k \in UNION {DOMAIN wals[w] : w \in DOMAIN wals} |-> Fold(wals, k)]
     IN  /\ walSeq' = last
         /\ curWal' = last
         /\ wals' = insert(wals, last, EmptyTable)
         /\ recovered' = tail
         /\ phase' = IF DOMAIN tail = {} THEN "up" ELSE "replay"
  /\ oldWals' = DOMAIN wals
  /\ UNCHANGED <<mem, taken, wpc, batch, frozen, maintVars, segVars, torn, acked>>

\* The replayed records are put back as one batch, through the new WAL.
RecoverFrame(k) ==
  /\ phase = "replay" /\ wpc \in {"idle", "recover"}
  /\ wpc' = "recover"
  /\ LogFrame(k, recovered[k])
  /\ UNCHANGED <<mem, taken, walSeq, curWal, frozen, maintVars, openVars, segVars, acked>>

RecoverApply ==
  /\ wpc = "recover" /\ DOMAIN batch = DOMAIN recovered
  /\ mem' = batch
  /\ batch' = EmptyTable
  /\ wpc' = AfterInsert(mem')
  /\ phase' = "settle"
  /\ UNCHANGED <<taken, walSeq, curWal, frozen, maintVars, recovered, oldWals, segVars, walVars, acked>>

\* The flush inside open has returned.
Settled ==
  /\ phase = "settle" /\ wpc = "idle"
  /\ DOMAIN mem = {} /\ DOMAIN frozen = {}
  /\ phase' = "unlink"
  /\ UNCHANGED <<writerVars, frozen, maintVars, recovered, oldWals, segVars, walVars, acked>>

\* The put or the flush inside open failed, at the append, at the freeze or
\* at the segment: open returns the error and no engine.
OpenFails ==
  /\ \/ "append" \in Fault /\ phase = "replay"
     \/ "walopen" \in Fault /\ phase = "settle" /\ FreezeEnabled
     \/ /\ "store" \in Fault
        /\ phase = "settle" /\ wpc = "idle" /\ mpc = "idle"
        /\ DOMAIN mem = {} /\ DOMAIN frozen # {}
  /\ Lose
  /\ UNCHANGED acked

\* The old WALs are deleted in ascending order; then open returns.
DropOldWal ==
  /\ phase = "unlink"
  /\ LET w == Min(oldWals)
     IN  /\ RemoveWal(w)
         /\ oldWals' = oldWals \ {w}
  /\ phase' = IF oldWals' = {} THEN "up" ELSE "unlink"
  /\ UNCHANGED <<writerVars, frozen, maintVars, recovered, segVars, acked>>

(***************************************************************************)
(* The specification                                                       *)
(***************************************************************************)

ClientRecord == [kind : {"full"}, n : PutVal] \cup {Tombstone}

Delta == [kind : {"delta"}, n : IncVal]

Writer ==
  \/ \E k \in Key : \E r \in ClientRecord : PutFrame(k, r)
  \/ \E k \in CounterKey : \E d \in Delta : IncrFrame(k, d)
  \/ AppendFails
  \/ Apply
  \/ FreezeTake
  \/ FreezeFails
  \/ FreezePush

Maintenance ==
  \/ FlushWrite
  \/ FlushWriteFails
  \/ FlushStore
  \/ FlushStoreFails
  \/ FlushUnlink
  \/ FlushPop
  \/ \E run \in SUBSET DOMAIN manifest.segs : CompactMerge(run)
  \/ \E id \in job.run : \E ks \in SUBSET DOMAIN job.left : CompactChunk(id, ks)
  \/ \E ks \in SUBSET DOMAIN job.left : CompactSurplus(ks)
  \/ CompactFails
  \/ CompactSurplusFails
  \/ CompactStore
  \/ CompactStoreFails
  \/ \E f \in job.drop : CompactDrop(f)

Lifecycle ==
  \/ Close
  \/ Crash
  \/ Open
  \/ \E k \in DOMAIN recovered \ DOMAIN batch : RecoverFrame(k)
  \/ RecoverApply
  \/ Settled
  \/ OpenFails
  \/ DropOldWal

Next == Writer \/ Maintenance \/ Lifecycle

Spec == Init /\ [][Next]_vars

(***************************************************************************)
(* Properties                                                              *)
(*                                                                         *)
(* The ones about a key's newest record, and about counters, are promises  *)
(* of runs in which a merge finds an id of its own run for every chunk: a  *)
(* chunk that takes a fresh id ("surplus") lifts old versions above newer  *)
(* ones, and LiveLww fails.                                                *)
(***************************************************************************)

\* A record that k can have: ordinary keys never hold a delta.
IsRecordOf(k, r) ==
  /\ r \in Record
  /\ k \in PlainKey => ~is_delta(r)

IsTable(t) == DOMAIN t \subseteq Key /\ \A k \in DOMAIN t : IsRecordOf(k, t[k])

IsStack(stack) == DOMAIN stack \subseteq Nat /\ \A i \in DOMAIN stack : IsTable(stack[i])

IsManifest(man) ==
  /\ man.next \in Nat
  /\ DOMAIN man.segs \subseteq Nat
  /\ \A i \in DOMAIN man.segs : man.segs[i] \in Nat
  /\ man = [segs |-> man.segs, next |-> man.next]

\* Type invariant: every table maps keys to records, every stack is indexed
\* by numbers, and the two handlers stand at one of their steps.
TypeOK ==
  /\ phase \in {"down", "replay", "settle", "unlink", "up"}
  /\ wpc \in {"idle", "append", "incr", "recover", "over", "taken"}
  /\ mpc \in {"idle", "written", "stored", "unlinked", "merging", "swapped"}
  /\ IsTable(mem) /\ IsTable(taken) /\ IsTable(batch) /\ IsTable(recovered)
  /\ IsStack(frozen) /\ IsStack(wals) /\ IsStack(files)
  /\ walSeq \in Nat /\ curWal \in Nat
  /\ oldWals \subseteq Nat /\ torn \subseteq Nat
  /\ IsManifest(manifest) /\ IsManifest(disk)
  /\ job.wal \in Nat /\ job.file \in Nat
  /\ job.run \subseteq Nat /\ job.drop \subseteq Nat
  /\ IsTable(job.left)
  /\ DOMAIN job.out \subseteq Nat /\ \A i \in DOMAIN job.out : job.out[i] \in Nat
  /\ DOMAIN acked = Key
  /\ \A k \in Key : acked[k] = NoRec \/ IsRecordOf(k, acked[k])

\* G1 and G2: in an open engine every key that is never a counter has the
\* record of its most recently acknowledged write, wherever its versions
\* live and whatever flush, compaction, crashes and recovery did to them.
LiveLww == phase = "up" => \A k \in PlainKey : LiveView(k) = acked[k]

\* G3: at every moment, a restart from what is on disk brings back the most
\* recently acknowledged write of every such key; of a call in progress it
\* brings back each record either way.
DurableLww ==
  \A k \in PlainKey :
    \/ DurableView(k) = acked[k]
    \/ wpc = "append" /\ k \in DOMAIN batch /\ DurableView(k) = batch[k]

\* G3, its core: no key that an acknowledged write reached is without a
\* trace on disk.
AckedOnDisk ==
  \A k \in PlainKey : acked[k] # NoRec => DurableView(k) # NoRec

\* Neither manifest ever names a segment file that is not there: input files
\* go only after the manifest that no longer names them is stored.
NoDanglingSegment ==
  \A man \in {manifest, disk} :
    \A i \in DOMAIN man.segs : man.segs[i] \in DOMAIN files

\* The number a reader of k is shown; 0 when k is absent.
Count(r) == IF surface(r) = NoRec THEN 0 ELSE r.n

\* An acknowledged increment is never lost, by any crash or failed store:
\* a counter is never below the sum of what was acknowledged.  This is for
\* increments that are not negative (IncVal): replaying one twice, which a
\* failed store makes recovery do, would lower a counter that counts down.
CounterNeverLost ==
  phase = "up" => \A k \in CounterKey : Count(LiveView(k)) >= Count(acked[k])

\* A counter equals the sum of what was acknowledged whenever no flush is
\* between storing the manifest and dropping the frozen memtable: in that
\* window the flushed deltas count twice.
CounterExactAtRest ==
  phase = "up" /\ mpc \notin {"stored", "unlinked"} =>
    \A k \in CounterKey : surface(LiveView(k)) = surface(acked[k])
=============================================================================
