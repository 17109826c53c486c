---------------------------- MODULE EngineCorrect ----------------------------
(***************************************************************************)
(* Why Engine is correct: the refinement mapping of its ordinary keys onto *)
(* Upsert, and the inductive invariants, of ordinary keys and counters,    *)
(* behind the theorems of EngineProofs.  The mapping and IInv are for an   *)
(* environment that may crash the process and fail segment and manifest    *)
(* writes, but does not fail WAL writes, WAL creation or WAL deletion, and *)
(* for data whose compactions never need more ids than they have; SegInv   *)
(* is for any.                                                             *)
(***************************************************************************)
EXTENDS Engine, Folding

\* The environment and the data this is for.  compact_run takes the last for
\* granted (actors.rs:411, "`k <= run.len()` whenever each input <= the cap");
\* record sizes can break it, and then an old version ends up above newer
\* ones.
Benign == Fault \cap {"append", "walopen", "unlink", "surplus"} = {}

(***************************************************************************)
(* The refinement mapping                                                  *)
(***************************************************************************)

\* What the store holds for k: what the process serves once the replayed
\* records are back in the memtable, and what the disk would give until then.
Stored(k) ==
  surface(IF phase \in {"settle", "unlink", "up"} THEN LiveView(k) ELSE DurableView(k))

StoredMap == [k \in PlainKey |-> Stored(k)]

\* The frames of the client call in progress.
Logged ==
  IF wpc = "append"
  THEN [k \in DOMAIN batch \cap PlainKey |-> surface(batch[k])]
  ELSE EmptyTable

Store == INSTANCE Upsert WITH
           Key <- PlainKey, Absent <- NoRec,
           kv <- StoredMap, call <- Logged

\* G1 to G3 as one statement: the engine with its log, memtables, segments,
\* crashes and recovery implements the map that only calls change.
ImplementsUpsert == Store!Spec

(***************************************************************************)
(* The inductive invariant                                                 *)
(***************************************************************************)

\* Nothing, or a record that hides whatever is below it.
Hides(r) == r = NoRec \/ ~is_delta(r)

\* Where the two handlers and `open` can stand together, and what is empty
\* there.
Control ==
  /\ phase = "down" => /\ mpc = "idle" /\ wpc = "idle"
                       /\ manifest = disk
                       /\ oldWals = {}
  /\ wpc \in {"append", "incr"} => phase = "up"
  /\ wpc = "recover" => phase = "replay"
  /\ phase \in {"down", "replay", "unlink"} =>
       wpc \in {"idle", "recover"} /\ DOMAIN mem = {} /\ DOMAIN frozen = {}
  /\ phase \in {"replay", "settle", "unlink"} => oldWals # {}
  /\ wpc \notin {"append", "incr", "recover"} => DOMAIN batch = {}
  /\ wpc = "incr" => DOMAIN batch \cap PlainKey = {}
  /\ wpc # "taken" => DOMAIN taken = {}
  /\ wpc = "taken" => DOMAIN mem = {}
  /\ mpc \in {"written", "stored", "unlinked"} =>
       job.wal \in DOMAIN frozen /\ \A w \in DOMAIN frozen : job.wal <= w

\* The lowest WAL number that no frozen memtable and no old WAL reaches.
WalEdge == IF wpc = "taken" THEN walSeq - 1 ELSE walSeq

\* Every WAL is an old one, covers a frozen memtable, covers the one being
\* frozen, or is the current one; in that order.
WalOrder ==
  /\ torn = {}
  /\ \A w \in DOMAIN wals : w <= walSeq
  /\ mpc = "unlinked" => job.wal \notin DOMAIN wals
  /\ Running =>
       /\ curWal = walSeq
       /\ WalEdge \in Nat
       /\ {walSeq, WalEdge} \subseteq DOMAIN wals
       /\ oldWals \subseteq DOMAIN wals
       /\ DOMAIN wals \subseteq oldWals \cup DOMAIN frozen \cup {walSeq, WalEdge}
       /\ \A w \in DOMAIN frozen : w < WalEdge
       /\ \A o \in oldWals : o < WalEdge /\ \A w \in DOMAIN frozen : o < w

\* The acknowledged record of k, or the one in the call in progress.
Pending(k) ==
  IF wpc = "append" /\ k \in DOMAIN batch THEN batch[k] ELSE acked[k]

\* The record of k in memory.
Held(k) ==
  IF phase = "replay" THEN Get(recovered, k)
  ELSE Over(Get(mem, k), Over(Get(taken, k), Fold(frozen, k)))

\* A manifest names files that exist, each once, all numbered below `next`.
ManifestCorrect(man) ==
  \A i \in DOMAIN man.segs :
    /\ i < man.next /\ man.segs[i] < man.next
    /\ man.segs[i] \in DOMAIN files
    /\ \A j \in DOMAIN man.segs : man.segs[i] = man.segs[j] => i = j

\* The flush in progress: its file holds the oldest frozen memtable and its
\* id is above every id in the manifest.
FlushCorrect ==
  /\ mpc \in {"written", "stored", "unlinked"} =>
       /\ job.file \in DOMAIN files /\ files[job.file] = frozen[job.wal]
       /\ job.file < manifest.next
  /\ mpc = "written" => \A i \in DOMAIN manifest.segs :
                          i < job.file /\ manifest.segs[i] < job.file
  /\ mpc \in {"stored", "unlinked"} =>
       /\ disk = manifest
       /\ job.file \in DOMAIN manifest.segs /\ manifest.segs[job.file] = job.file
       /\ \A i \in DOMAIN manifest.segs : i <= job.file

RunStack == Restrict(SegStack(manifest), job.run)

OutStack == [i \in DOMAIN job.out |-> files[job.out[i]]]

\* The compaction in progress: its outputs have files of their own and ids of
\* the run; what the swap took out of the manifest is listed nowhere.
CompactCorrect ==
  /\ mpc = "merging" =>
       /\ IsRun(job.run) /\ DOMAIN job.out \subseteq job.run
       /\ \A i \in DOMAIN job.out :
            /\ job.out[i] \in DOMAIN files /\ job.out[i] < manifest.next
            /\ \A j \in DOMAIN job.out : job.out[i] = job.out[j] => i = j
            /\ \A j \in DOMAIN manifest.segs : manifest.segs[j] # job.out[i]
  /\ mpc = "swapped" =>
       /\ disk = manifest
       /\ \A i \in DOMAIN manifest.segs : manifest.segs[i] \notin job.drop

SegmentsCorrect ==
  /\ disk.next <= manifest.next
  /\ ManifestCorrect(manifest) /\ ManifestCorrect(disk)
  /\ FlushCorrect
  /\ CompactCorrect

\* Where the handlers stand and which files there are.
Shape == TypeOK /\ Control /\ WalOrder /\ SegmentsCorrect

(***************************************************************************)
(* Ordinary keys and counters alike                                        *)
(*                                                                         *)
(* The records of a key are spread over memtables, WALs and segments; what *)
(* they add up to is what was acknowledged.  A crash or a failed store may *)
(* leave an increment in two of them, and the counter then has more.       *)
(***************************************************************************)

\* Version x of k has lost nothing of y.
Keeps(k, x, y) == IF k \in PlainKey THEN x = y ELSE Count(x) >= Count(y)

\* It has counted nothing twice either, unless the environment can fail.
Agrees(k, x, y) == IF Fault = {} THEN x = y ELSE Keeps(k, x, y)

\* What `open` has yet to delete of the logs it replayed.
OldLog(k) == Fold(Restrict(wals, oldWals), k)

Base(r) == r # NoRec /\ ~is_delta(r)

\* Each memtable has a WAL with the same record of k, until a flush has
\* unlinked it; a put is never a delta.
KeyLogged(k) ==
  /\ wpc = "append" /\ k \in DOMAIN batch => ~is_delta(batch[k])
  /\ wpc # "taken" => Get(wals[walSeq], k) = Over(Get(batch, k), Get(mem, k))
  /\ wpc = "taken" => /\ Get(wals[walSeq], k) = NoRec
                      /\ Get(wals[WalEdge], k) = Get(taken, k)
  /\ \A w \in DOMAIN frozen :
       \/ mpc = "unlinked" /\ w = job.wal
       \/ w \in DOMAIN wals /\ Get(wals[w], k) = Get(frozen[w], k)

\* While `open` recovers: what it replayed is what the old WALs hold, and if
\* that is a whole record, every newer WAL repeats it.
KeyReplayed(k) ==
  /\ phase = "up" => OldLog(k) = NoRec
  /\ phase = "replay" => /\ Get(recovered, k) = OldLog(k)
                         /\ k \in DOMAIN batch => batch[k] = OldLog(k)
  /\ Base(OldLog(k)) =>
       /\ Keeps(k, OldLog(k), acked[k])
       /\ \A w \in DOMAIN wals \ oldWals : Get(wals[w], k) \in {NoRec, OldLog(k)}

\* The record of k in memory without the memtable that is being flushed.
HeldAbove(k) ==
  Over(Get(mem, k), Over(Get(taken, k),
       Fold(Restrict(frozen, DOMAIN frozen \ {job.wal}), k)))

\* Memory over the segments is what was acknowledged.  From the store of a
\* flushed segment to the pop, memory without the flushed memtable is.
KeyLive(k) ==
  /\ mpc \notin {"stored", "unlinked"} =>
       \A man \in {manifest, disk} :
         Agrees(k, Over(Held(k), Fold(SegStack(man), k)), acked[k])
  /\ mpc \in {"stored", "unlinked"} =>
       /\ Keeps(k, Over(Held(k), Fold(SegStack(manifest), k)), acked[k])
       /\ Agrees(k, Over(HeldAbove(k), Fold(SegStack(manifest), k)), acked[k])

\* The compaction in progress has the run's fold of k in one place.
KeyMerged(k) ==
  mpc = "merging" =>
    /\ k \in DOMAIN job.left =>
         job.left[k] = Fold(RunStack, k) /\ Holders(OutStack, k) = {}
    /\ k \notin DOMAIN job.left => Fold(OutStack, k) = Fold(RunStack, k)

\* Where the records of each key stand, and what a restart would find.
KInv ==
  \A k \in Key :
    /\ Running => KeyLogged(k) /\ KeyReplayed(k) /\ KeyLive(k) /\ KeyMerged(k)
    /\ ~Running => Agrees(k, DurableView(k), acked[k])

\* The inductive invariant.
IInv == Shape /\ KInv

(***************************************************************************)
(* The segments, whatever fails                                            *)
(***************************************************************************)

\* The flush in progress has its file, numbered above all that is listed.
FlushNumbers ==
  mpc = "written" =>
    /\ job.file \in Nat /\ job.file \in DOMAIN files /\ job.file < manifest.next
    /\ \A i \in DOMAIN manifest.segs : i < job.file /\ manifest.segs[i] < job.file

\* The compaction in progress: every output has a file of its own and an id
\* that was handed out; what the swap took out of the manifest is listed
\* nowhere.
CompactNumbers ==
  /\ mpc = "merging" =>
       /\ job.run \subseteq DOMAIN manifest.segs
       /\ \A i \in DOMAIN job.out :
            /\ i \in Nat /\ i < manifest.next /\ job.out[i] \in Nat
            /\ job.out[i] \in DOMAIN files /\ job.out[i] < manifest.next
            /\ \A j \in DOMAIN job.out : job.out[i] = job.out[j] => i = j
            /\ \A j \in DOMAIN manifest.segs : manifest.segs[j] # job.out[i]
  /\ mpc = "swapped" =>
       /\ disk = manifest
       /\ \A i \in DOMAIN manifest.segs : manifest.segs[i] \notin job.drop

\* The part of the engine's invariant that no fault breaks.
SegInv ==
  /\ IsManifest(manifest) /\ IsManifest(disk) /\ disk.next <= manifest.next
  /\ ManifestCorrect(manifest) /\ ManifestCorrect(disk)
  /\ FlushNumbers /\ CompactNumbers

\* A segment file that is gone, or about to go.
Doomed(f) == f \notin DOMAIN files \/ (mpc = "swapped" /\ f \in job.drop)
=============================================================================
