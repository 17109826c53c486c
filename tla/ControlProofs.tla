---------------------------- MODULE ControlProofs ----------------------------
(***************************************************************************)
(* Every step of Engine keeps Shape: where the handlers stand, which WALs  *)
(* and segment files there are, and which numbers they have.               *)
(***************************************************************************)
EXTENDS EngineLemmas

(***************************************************************************)
(* The writer                                                              *)
(***************************************************************************)

\* A frame of a client call: PutFrame and IncrFrame in one.
LEMMA ClientFrameShape ==
  ASSUME Shape, NEW k \in Key, NEW r, IsRecordOf(k, r), LogFrame(k, r),
         phase = "up",
         \/ wpc \in {"idle", "append"} /\ wpc' = "append"
         \/ wpc = "idle" /\ wpc' = "incr" /\ k \notin PlainKey,
         UNCHANGED <<mem, taken, walSeq, curWal, frozen, maintVars, openVars, segVars, acked>>
  PROVE  Shape'
<1>1. IsRecordOf(k, r)
  OBVIOUS
<1>2. FrameLogged(k, r)
  BY <1>1, LogFrameFacts DEF Running
<1>3. TypeOK'
  BY <1>2 DEF Shape, TypeOK, FrameLogged, maintVars, openVars, segVars
<1>4. Control'
  BY <1>2 DEF Shape, Control, FrameLogged, maintVars, openVars, segVars
<1>5. WalOrder'
  BY <1>2 DEF Shape, WalOrder, FrameLogged, WalEdge, Running, openVars, maintVars
<1>11. SegmentsCorrect'
  BY SegmentsKept DEF Shape
<1> QED
  BY <1>3, <1>4, <1>5, <1>11 DEF Shape

\* A frame of put_batch keeps the invariant.
LEMMA PutFrameShape ==
  ASSUME Shape, NEW k \in Key, NEW r \in ClientRecord, PutFrame(k, r)
  PROVE  Shape'
BY ClientFrameShape, ClientRecordType DEF PutFrame

\* The frame of incr keeps the invariant.
LEMMA IncrFrameShape ==
  ASSUME Shape, NEW k \in CounterKey, NEW d \in Delta, IncrFrame(k, d)
  PROVE  Shape'
BY ClientFrameShape, DeltaType, EngineAssumption DEF IncrFrame, PlainKey

\* The insertion into the memtable.
LEMMA ApplyShape ==
  ASSUME Shape, Apply
  PROVE  Shape'
<1> USE DEF Apply
<1>1. phase = "up" /\ wpc # "taken" /\ DOMAIN taken = {} /\ Running
  BY DEF Shape, Control, Running
<1>2. IsTable(mem) /\ IsTable(batch) /\ DOMAIN acked = Key
      /\ \A k \in Key : acked[k] = NoRec \/ IsRecordOf(k, acked[k])
  BY DEF Shape, TypeOK
<1>4. IsTable(mem')
  <2>1. CASE wpc = "append"
    BY <2>1, <1>2 DEF IsTable
  <2>2. CASE wpc # "append"
    <3>1. mem' = [k \in DOMAIN batch \cup DOMAIN mem |-> Over(Get(batch, k), Get(mem, k))]
      BY <2>2 DEF OverTable
    <3>2. \A k \in DOMAIN batch \cup DOMAIN mem :
            IsRecordOf(k, Over(Get(batch, k), Get(mem, k)))
      <4> TAKE k \in DOMAIN batch \cup DOMAIN mem
      <4>1. IsRecordOf(k, Get(batch, k)) \/ IsRecordOf(k, Get(mem, k))
        BY <1>2 DEF Get, IsTable
      <4> QED
        BY <4>1, <1>2, GetType, OverType
    <3> QED
      BY <3>1, <3>2, <1>2 DEF IsTable
  <2> QED
    BY <2>1, <2>2
<1>6. wpc' \in {"over", "idle"} /\ DOMAIN batch' = {} /\ IsTable(batch')
  BY EmptyTableType DEF AfterInsert
<1>8. TypeOK'
  <2>1. \A k \in Key : acked'[k] = NoRec \/ IsRecordOf(k, acked'[k])
    <3> TAKE k \in Key
    <3>1. Get(batch, k) = NoRec \/ IsRecordOf(k, Get(batch, k))
      BY <1>2, GetType
    <3> QED
      BY <3>1, <1>2, OverType
  <2> QED
    BY <2>1, <1>4, <1>6 DEF Shape, TypeOK, maintVars, openVars, segVars, walVars
<1>9. Control'
  BY <1>1, <1>6, Zenon DEF Shape, Control, maintVars, openVars, segVars
<1>10. WalOrder'
  BY <1>1, <1>6, ZenonT(30) DEF Shape, WalOrder, WalEdge, Running, openVars, walVars, maintVars
<1>15. SegmentsCorrect'
  BY SegmentsKept DEF Shape
<1> QED
  BY <1>8, <1>9, <1>10, <1>15, ZenonT(30) DEF Shape

\* The first half of freeze.
LEMMA FreezeTakeShape ==
  ASSUME Shape, FreezeTake
  PROVE  Shape'
<1> USE DEF FreezeTake
<1>1. /\ wpc \in {"idle", "over"} /\ phase \in {"up", "settle"} /\ Running /\ Running'
      /\ DOMAIN taken = {} /\ DOMAIN batch = {}
  BY ZenonT(30) DEF Shape, Control, TypeOK, FreezeEnabled, Running, openVars
<1>2. walSeq \in Nat /\ IsStack(wals) /\ IsTable(mem) /\ IsTable(taken)
  BY DEF Shape, TypeOK
<1>3. /\ DOMAIN wals' = DOMAIN wals \cup {walSeq + 1}
      /\ DOMAIN wals'[walSeq + 1] = {}
      /\ \A w \in DOMAIN wals : w <= walSeq /\ w # walSeq + 1 /\ wals'[w] = wals[w]
  BY <1>2, EmptyTableType DEF insert, Shape, WalOrder, IsStack
<1>4. /\ curWal = walSeq /\ WalEdge = walSeq /\ WalEdge' = walSeq
      /\ walSeq \in DOMAIN wals
  BY <1>1, <1>2 DEF Shape, WalOrder, WalEdge
<1>5. TypeOK'
  <2>1. IsStack(wals')
    BY <1>2, StackInsertType, EmptyTableType
  <2> QED
    BY <1>2, <2>1, EmptyTableType DEF Shape, TypeOK, openVars, segVars, maintVars
<1>6. Control'
  BY <1>1, EmptyTableType, ZenonT(30) DEF Shape, Control, maintVars, openVars, segVars
<1>7. WalOrder'
  <2>1. mpc = "unlinked" => job.wal < walSeq
    BY <1>1, <1>4, Zenon DEF Shape, WalOrder, Control
  <2>2. mpc' = "unlinked" => job'.wal \notin DOMAIN wals'
    <3>1. UNCHANGED <<mpc, job>> /\ job.wal \in Nat
      BY Zenon DEF Shape, TypeOK, maintVars
    <3>2. mpc = "unlinked" => job.wal \notin DOMAIN wals
      BY Zenon DEF Shape, WalOrder
    <3>3. mpc = "unlinked" => job.wal # walSeq + 1
      BY <1>2, <2>1, <3>1
    <3> QED
      BY <1>3, <3>1, <3>2, <3>3, Zenon
  <2>3. \A w \in DOMAIN wals' : w <= walSeq'
    BY <1>2, <1>3 DEF IsStack
  <2>4. /\ oldWals \subseteq DOMAIN wals
        /\ DOMAIN wals \subseteq oldWals \cup DOMAIN frozen \cup {walSeq}
        /\ \A w \in DOMAIN frozen : w < walSeq
        /\ \A o \in oldWals : o < walSeq /\ \A w \in DOMAIN frozen : o < w
        /\ torn = {}
    BY <1>1, <1>4 DEF Shape, WalOrder
  <2>5. curWal' = walSeq' /\ torn' = torn /\ oldWals' = oldWals /\ frozen' = frozen
    BY DEF openVars
  <2> QED
    BY <1>2, <1>3, <1>4, <2>2, <2>3, <2>4, <2>5 DEF WalOrder
<1>12. SegmentsCorrect'
  BY SegmentsKept DEF Shape
<1> QED
  BY <1>5, <1>6, <1>7, <1>12, Zenon DEF Shape

\* The second half of freeze.
LEMMA FreezePushShape ==
  ASSUME Shape, FreezePush
  PROVE  Shape'
<1> USE DEF FreezePush
<1>1. /\ phase \in {"up", "settle"} /\ Running /\ Running'
      /\ DOMAIN mem = {} /\ DOMAIN batch = {}
  <2>1. Control /\ phase \in {"down", "replay", "settle", "unlink", "up"} /\ phase' = phase
    BY DEF Shape, TypeOK, openVars
  <2> QED
    BY <2>1, ZenonT(30) DEF Control, Running
<1>2. walSeq \in Nat /\ IsStack(frozen) /\ IsTable(mem) /\ IsTable(taken)
  BY Zenon DEF Shape, TypeOK
<1>3. /\ WalEdge = walSeq - 1 /\ walSeq - 1 \in Nat
      /\ \A w \in DOMAIN frozen : w < walSeq - 1
      /\ walSeq - 1 \in DOMAIN wals
  BY <1>1 DEF Shape, WalOrder, WalEdge
<1>4. /\ DOMAIN frozen' = DOMAIN frozen \cup {walSeq - 1} /\ frozen'[walSeq - 1] = taken
      /\ \A w \in DOMAIN frozen : w # walSeq - 1 /\ frozen'[w] = frozen[w]
  BY <1>2, <1>3 DEF insert, IsStack
<1>5. TypeOK'
  BY <1>2, <1>3, StackInsertType, EmptyTableType, Zenon
  DEF Shape, TypeOK, openVars, segVars, maintVars, walVars
<1>6. Control'
  <2>1. /\ UNCHANGED <<phase, mem, batch, mpc, job, oldWals>> /\ wpc' = "idle"
        /\ DOMAIN taken' = {}
    BY EmptyTableType, Zenon DEF maintVars, openVars, segVars
  <2>2. /\ phase \in {"replay", "settle", "unlink"} => oldWals # {}
        /\ mpc \in {"written", "stored", "unlinked"} =>
             job.wal \in DOMAIN frozen /\ \A w \in DOMAIN frozen : job.wal <= w
    BY Zenon DEF Shape, Control
  <2>3. DOMAIN frozen \subseteq Nat
    BY <1>2, Zenon DEF IsStack
  <2> HIDE DEF FreezePush
  <2>4. mpc \in {"written", "stored", "unlinked"} =>
          job.wal \in DOMAIN frozen' /\ \A w \in DOMAIN frozen' : job.wal <= w
    BY <1>2, <1>3, <1>4, <2>2, <2>3
  <2> QED
    BY <1>1, <2>1, <2>2, <2>4, ZenonT(30) DEF Control
<1>7. WalOrder'
  <2>1. WalEdge' = walSeq
    BY Zenon DEF WalEdge
  <2>2. /\ DOMAIN wals \subseteq oldWals \cup DOMAIN frozen' \cup {walSeq}
        /\ \A w \in DOMAIN frozen' : w < walSeq
        /\ \A o \in oldWals : o < walSeq /\ \A w \in DOMAIN frozen' : o < w
    <3>1. /\ DOMAIN wals \subseteq oldWals \cup DOMAIN frozen \cup {walSeq, walSeq - 1}
          /\ \A o \in oldWals : o < walSeq - 1 /\ \A w \in DOMAIN frozen : o < w
      BY <1>1, <1>3, Zenon DEF Shape, WalOrder
    <3>2. DOMAIN frozen \subseteq Nat /\ oldWals \subseteq Nat
      BY <1>2, Zenon DEF Shape, TypeOK, IsStack
    <3> HIDE DEF FreezePush
    <3>3. DOMAIN wals \subseteq oldWals \cup DOMAIN frozen' \cup {walSeq}
      BY <1>4, <3>1, Zenon
    <3>4. \A w \in DOMAIN frozen' : w < walSeq
      BY <1>2, <1>3, <1>4, <3>2
    <3>5. \A o \in oldWals : o < walSeq
      BY <1>2, <3>1, <3>2
    <3>6. \A o \in oldWals : \A w \in DOMAIN frozen' : o < w
      BY <1>4, <3>1, ZenonT(30)
    <3> QED
      BY <3>3, <3>4, <3>5, <3>6, Zenon
  <2> QED
    BY <1>1, <1>2, <2>1, <2>2 DEF Shape, WalOrder, openVars, walVars, maintVars
<1>12. SegmentsCorrect'
  BY <1>4, SegmentsKept DEF Shape, Control
<1> QED
  BY <1>5, <1>6, <1>7, <1>12, Zenon DEF Shape

\* Where the log does not fail, the writer keeps the invariant.
LEMMA WriterShape ==
  ASSUME Shape, Benign, Writer
  PROVE  Shape'
<1>1. ~AppendFails /\ ~FreezeFails
  BY DEF Benign, AppendFails, FreezeFails
<1> QED
  BY <1>1, PutFrameShape, IncrFrameShape, ApplyShape, FreezeTakeShape, FreezePushShape DEF Writer

(***************************************************************************)
(* Flush                                                                   *)
(***************************************************************************)

\* A maintenance job that gives up before it touches the segments.
LEMMA GiveUpShape ==
  ASSUME Shape, Running, mpc \in {"idle", "merging"}, manifest' = Allocated, mpc' = "idle",
         job' \in {job, NoJob},
         UNCHANGED <<writerVars, frozen, openVars, segVars, walVars, acked>>
  PROVE  Shape'
<1>1. /\ SegStack(manifest)' = SegStack(manifest) /\ SegStack(disk)' = SegStack(disk)
      /\ IsManifest(manifest)' /\ disk'.next <= manifest'.next
      /\ ManifestCorrect(manifest)' /\ ManifestCorrect(disk)'
  BY SegmentNumbers, AllocateKept, ZenonT(30)
<1>2. TypeOK'
  BY <1>1, EmptyTableType DEF Shape, TypeOK, writerVars, openVars, walVars, segVars, NoJob
<1>3. Control'
  BY DEF Shape, Control, writerVars, openVars, Running
<1>4. WalOrder'
  BY LogKept
<1>6. FlushCorrect' /\ CompactCorrect'
  BY DEF FlushCorrect, CompactCorrect
<1> QED
  BY <1>1, <1>2, <1>3, <1>4, <1>6, Zenon DEF Shape, SegmentsCorrect

\* FlushWrite: the file is new, so no manifest names it.
LEMMA FlushWriteShape ==
  ASSUME FoldLaws, Shape, FlushWrite
  PROVE  Shape'
<1> DEFINE w == Min(DOMAIN frozen)
<1>1. /\ mpc = "idle" /\ Running /\ mpc' = "written"
      /\ files' = insert(files, manifest.next, frozen[w])
      /\ job' = [NoJob EXCEPT !.wal = w, !.file = manifest.next]
      /\ manifest' = Allocated
      /\ UNCHANGED <<writerVars, frozen, openVars, disk, walVars, acked>>
  BY DEF FlushWrite
<1>2. IsStack(frozen) /\ DOMAIN frozen \in SUBSET Nat /\ DOMAIN frozen # {} /\ IsManifest(manifest)
  BY DEF Shape, TypeOK, IsStack, FlushWrite
<1>3. w \in DOMAIN frozen /\ \A x \in DOMAIN frozen : w <= x
  BY <1>2 DEF FoldLaws, MinLaw
<1> HIDE DEF w
<1>4. IsTable(frozen[w]) /\ w \in Nat /\ IsStack(files) /\ SegInv
  BY <1>2, <1>3, SegmentNumbers, ZenonT(30) DEF IsStack, Shape, TypeOK
<1>5. /\ SegStack(manifest)' = SegStack(manifest)
      /\ SegStack(disk)' = SegStack(disk)
      /\ IsStack(files') /\ DOMAIN files' = DOMAIN files \cup {manifest.next}
      /\ files'[manifest.next] = frozen[w]
      /\ IsManifest(manifest)'
      /\ manifest'.segs = manifest.segs /\ manifest'.next = manifest.next + 1
      /\ disk'.next <= manifest'.next
      /\ ManifestCorrect(manifest)' /\ ManifestCorrect(disk)'
  BY <1>1, <1>4, FreshFile
<1>6. /\ job'.wal = w /\ job'.file = manifest.next
      /\ job'.run = {} /\ job'.left = EmptyTable /\ job'.out = EmptyTable /\ job'.drop = {}
  BY <1>1 DEF NoJob
<1>7. TypeOK'
  BY <1>1, <1>2, <1>4, <1>5, <1>6, EmptyTableType, ZenonT(30)
  DEF Shape, TypeOK, writerVars, openVars, walVars, IsManifest
<1>8. Control'
  BY <1>1, <1>3, <1>6 DEF Shape, Control, writerVars, openVars, Running
<1>9. WalOrder'
  BY <1>1, LogKept
<1>11. FlushCorrect'
  BY <1>1, <1>2, <1>5, <1>6 DEF FlushCorrect, Shape, SegmentsCorrect, ManifestCorrect, IsManifest
<1>12. CompactCorrect'
  BY <1>1 DEF CompactCorrect
<1> QED
  BY <1>5, <1>7, <1>8, <1>9, <1>11, <1>12, Zenon DEF Shape, SegmentsCorrect

\* A segment write that fails in flush_pending keeps the invariant.
LEMMA FlushWriteFailsShape ==
  ASSUME Shape, FlushWriteFails
  PROVE  Shape'
BY GiveUpShape DEF FlushWriteFails

\* Entering the flushed segment into the stored manifest keeps the invariant.
LEMMA FlushStoreShape ==
  ASSUME Shape, FlushStore
  PROVE  Shape'
<1> USE DEF FlushStore
<1>1. Running
  BY DEF Shape, Control, Running
<1>2. /\ IsManifest(manifest)' /\ ManifestCorrect(manifest)' /\ manifest'.next = manifest.next
      /\ job.file \in DOMAIN manifest'.segs
      /\ manifest'.segs[job.file] = job.file
      /\ \A i \in DOMAIN manifest'.segs : i <= job.file
  BY SegmentNumbers, FlushedNumbers
<1>3. disk' = manifest' /\ SegStack(disk)' = SegStack(manifest)'
  BY DEF SegStack
<1>5. WalOrder'
  BY LogKept
<1>6. TypeOK'
  BY <1>2, <1>3, ZenonT(30) DEF Shape, TypeOK, writerVars, openVars, walVars
<1>7. Control'
  BY <1>1 DEF Shape, Control, writerVars, openVars, Running
<1>8. FlushCorrect'
  BY <1>2, <1>3, Zenon DEF Shape, SegmentsCorrect, FlushCorrect
<1>9. CompactCorrect'
  BY DEF CompactCorrect
<1>10. ManifestCorrect(disk)' /\ disk'.next <= manifest'.next
  BY <1>2, <1>3 DEF IsManifest, ManifestCorrect
<1> QED
  BY <1>2, <1>5, <1>6, <1>7, <1>8, <1>9, <1>10, ZenonT(30) DEF Shape, SegmentsCorrect

\* So does a failure to store it, with the entry left in memory.
LEMMA FlushStoreFailsShape ==
  ASSUME Shape, FlushStoreFails
  PROVE  Shape'
<1> USE DEF FlushStoreFails, segVars
<1>1. Running
  BY DEF Shape, Control, Running
<1>2. /\ IsManifest(manifest)' /\ ManifestCorrect(manifest)' /\ manifest'.next = manifest.next
  BY SegmentNumbers, FlushedNumbers
<1>3. SegStack(disk)' = SegStack(disk)
  BY DEF SegStack
<1>5. WalOrder'
  BY LogKept, Zenon
<1>6. TypeOK'
  BY <1>2, EmptyTableType, ZenonT(30) DEF Shape, TypeOK, writerVars, openVars, walVars, NoJob
<1>7. Control'
  BY <1>1 DEF Shape, Control, writerVars, openVars, Running
<1>8. FlushCorrect' /\ CompactCorrect'
  BY DEF FlushCorrect, CompactCorrect
<1>9. ManifestCorrect(disk)' /\ disk'.next <= manifest'.next
  BY <1>2 DEF Shape, SegmentsCorrect, ManifestCorrect
<1> QED
  BY <1>2, <1>5, <1>6, <1>7, <1>8, <1>9, ZenonT(30) DEF Shape, SegmentsCorrect

\* FlushUnlink: what the deleted WAL covered is in the stored segment.
LEMMA FlushUnlinkShape ==
  ASSUME Shape, Benign, FlushUnlink
  PROVE  Shape'
<1>1. /\ mpc = "stored" /\ mpc' = "unlinked"
      /\ wals' = Restrict(wals, DOMAIN wals \ {job.wal}) /\ torn' = torn \ {job.wal}
      /\ UNCHANGED <<writerVars, frozen, manifest, job, openVars, segVars, acked>>
  BY DEF FlushUnlink, RemoveWal, Benign
<1> USE DEF writerVars, openVars, segVars
<1>2. /\ Running /\ phase # "replay" /\ job.wal \in DOMAIN frozen /\ job.wal \in Nat
      /\ \A w \in DOMAIN frozen : job.wal <= w
      /\ job.wal < WalEdge /\ WalEdge <= walSeq /\ \A o \in oldWals : o < job.wal
      /\ IsStack(frozen) /\ IsStack(wals) /\ walSeq \in Nat /\ WalEdge \in Nat
      /\ disk = manifest
  BY <1>1, StoredFacts
<1>3. /\ DOMAIN wals' = DOMAIN wals \ {job.wal}
      /\ \A w \in DOMAIN wals' : wals'[w] = wals[w]
  BY <1>1 DEF Restrict
<1>4. /\ torn = {} /\ DOMAIN wals \subseteq Nat
      /\ oldWals \subseteq DOMAIN wals /\ {walSeq, WalEdge} \subseteq DOMAIN wals
      /\ DOMAIN wals \subseteq oldWals \cup DOMAIN frozen \cup {walSeq, WalEdge}
  BY <1>1, <1>2 DEF Shape, WalOrder, IsStack
<1>5. TypeOK'
  BY <1>1, <1>2, StackRestrictType, Zenon DEF Shape, TypeOK
<1>6. Control'
  BY <1>1, <1>2, Zenon DEF Shape, Control
<1>7. WalOrder'
  <2>1. WalEdge' = WalEdge /\ Running' = Running
    BY <1>1 DEF WalEdge, Running
  <2>2. oldWals \subseteq DOMAIN wals' /\ {walSeq, WalEdge} \subseteq DOMAIN wals' /\ torn' = {}
    BY <1>1, <1>2, <1>3, <1>4
  <2> QED
    BY <1>1, <1>2, <1>3, <1>4, <2>1, <2>2, ZenonT(30) DEF Shape, WalOrder
<1>13. SegmentsCorrect'
  <2>1. ManifestCorrect(manifest)' /\ ManifestCorrect(disk)' /\ disk'.next <= manifest'.next
    BY <1>1, Zenon DEF Shape, SegmentsCorrect, ManifestCorrect
  <2>2. FlushCorrect' /\ CompactCorrect'
    BY <1>1, Zenon DEF Shape, SegmentsCorrect, FlushCorrect, CompactCorrect
  <2> QED
    BY <2>1, <2>2 DEF SegmentsCorrect
<1> QED
  BY <1>5, <1>6, <1>7, <1>13, ZenonT(30) DEF Shape

\* FlushPop: the popped memtable is the flushed one, and the segment that
\* now answers for it is above every other.
LEMMA FlushPopShape ==
  ASSUME FoldLaws, Shape, FlushPop
  PROVE  Shape'
<1>1. /\ mpc = "unlinked" /\ mpc' = "idle" /\ job' = NoJob
      /\ UNCHANGED <<mem, taken, walSeq, curWal, wpc, batch, phase, recovered, oldWals>>
      /\ UNCHANGED <<manifest, files, disk, wals, torn, acked>>
  BY DEF FlushPop, writerVars, openVars, segVars, walVars
<1>2. /\ Running /\ phase # "replay" /\ job.wal \in DOMAIN frozen /\ job.wal \in Nat
      /\ \A w \in DOMAIN frozen : job.wal <= w
      /\ IsStack(frozen') /\ DOMAIN frozen' = DOMAIN frozen \ {job.wal}
      /\ \A w \in DOMAIN frozen' : frozen'[w] = frozen[w]
  BY PoppedStack, ZenonT(30)
<1>7. TypeOK'
  BY <1>1, <1>2, EmptyTableType, ZenonT(30) DEF Shape, TypeOK, NoJob
<1>8. Control'
  BY <1>1, <1>2, ZenonT(30) DEF Shape, Control, Running
<1>9. WalOrder'
  BY <1>1, <1>2, ZenonT(30) DEF Shape, WalOrder, WalEdge, Running
<1>15. SegmentsCorrect'
  <2>1. ManifestCorrect(manifest)' /\ ManifestCorrect(disk)' /\ disk'.next <= manifest'.next
    BY <1>1, ZenonT(30) DEF Shape, SegmentsCorrect, ManifestCorrect
  <2>2. FlushCorrect' /\ CompactCorrect'
    BY <1>1, Zenon DEF FlushCorrect, CompactCorrect
  <2> QED
    BY <2>1, <2>2 DEF SegmentsCorrect
<1> QED
  BY <1>7, <1>8, <1>9, <1>15, Zenon DEF Shape

(***************************************************************************)
(* Compaction                                                              *)
(***************************************************************************)

\* A segment write that fails in compact_run keeps the invariant.
LEMMA CompactFailsShape ==
  ASSUME Shape, CompactFails
  PROVE  Shape'
<1>1. Running
  BY DEF CompactFails, Shape, Control, Running
<1> QED
  BY <1>1, GiveUpShape DEF CompactFails

\* CompactMerge: the merged table holds the newest record of every key.
LEMMA CompactMergeShape ==
  ASSUME FoldLaws, Shape, NEW run \in SUBSET DOMAIN manifest.segs, CompactMerge(run)
  PROVE  Shape'
<1> USE DEF segVars
<1> DEFINE S == SegStack(manifest)
           R == Restrict(S, run)
<1>1. /\ Running /\ mpc = "idle" /\ mpc' = "merging" /\ IsRun(run)
      /\ job' = [NoJob EXCEPT !.run = run, !.left = Merged(run)]
      /\ UNCHANGED <<writerVars, frozen, manifest, openVars, segVars, walVars, acked>>
  BY DEF CompactMerge
<1>2. IsStack(S) /\ DOMAIN S = DOMAIN manifest.segs /\ manifest.next \in Nat
      /\ \A i \in DOMAIN S : i <= manifest.next
  BY SegStackFacts
<1>3. IsStack(R) /\ DOMAIN R = run /\ \A i \in DOMAIN R : i <= manifest.next
  BY <1>2, StackRestrictType DEF Restrict
<1>4. /\ DOMAIN Merged(run) = UNION {DOMAIN R[i] : i \in run}
      /\ \A k \in DOMAIN Merged(run) : Merged(run)[k] = Fold(R, k)
  BY DEF Merged
<1> HIDE DEF S, R
<1>5. \A k : k \in DOMAIN Merged(run) <=> Holders(R, k) # {}
  BY <1>3, <1>4 DEF Holders
<1>6. IsTable(Merged(run))
  <2>1. DOMAIN Merged(run) \subseteq Key
    BY <1>3, <1>4 DEF IsStack, IsTable
  <2>2. \A k \in DOMAIN Merged(run) : IsRecordOf(k, Merged(run)[k])
    BY <1>2, <1>3, <1>4, <1>5, <2>1, FoldType, ZenonT(30)
  <2> QED
    BY <2>1, <2>2 DEF IsTable
<1>7. /\ job'.run = run /\ job'.left = Merged(run) /\ DOMAIN job'.out = {}
      /\ job'.wal = 0 /\ job'.file = 0 /\ job'.drop = {}
  BY <1>1, EmptyTableType DEF NoJob
<1>8. TypeOK'
  BY <1>1, <1>2, <1>6, <1>7 DEF Shape, TypeOK, writerVars, openVars, walVars, IsManifest
<1>9. Control'
  BY <1>1 DEF Shape, Control, writerVars, openVars, Running
<1>10. WalOrder'
  BY <1>1, LogKept
<1>12. CompactCorrect'
  <2>1. RunStack' = R /\ IsRun(job.run)'
    BY <1>1, <1>7 DEF RunStack, SegStack, R, S, IsRun
  <2> QED
    BY <1>1, <1>7, <2>1 DEF CompactCorrect
<1>13. ManifestCorrect(manifest)' /\ ManifestCorrect(disk)' /\ disk'.next <= manifest'.next /\ FlushCorrect'
  BY <1>1 DEF Shape, SegmentsCorrect, ManifestCorrect, FlushCorrect
<1> QED
  BY <1>8, <1>9, <1>10, <1>12, <1>13 DEF Shape, SegmentsCorrect

\* CompactChunk: the chunk moves from the merged table to a fresh output.
LEMMA CompactChunkShape ==
  ASSUME Shape, NEW id \in job.run, NEW ks \in SUBSET DOMAIN job.left, CompactChunk(id, ks)
  PROVE  Shape'
<1> DEFINE t == Restrict(job.left, ks)
<1>1. /\ mpc = "merging" /\ mpc' = "merging" /\ \A i \in DOMAIN job.out : i < id
      /\ files' = insert(files, manifest.next, t) /\ disk' = disk /\ manifest' = Allocated
      /\ job' = [job EXCEPT !.out = insert(@, id, manifest.next),
                            !.left = Restrict(@, DOMAIN @ \ ks)]
      /\ UNCHANGED <<writerVars, frozen, openVars, walVars, acked>>
  BY DEF CompactChunk
<1>2. IsTable(job.left) /\ IsTable(t) /\ DOMAIN t = ks /\ \A k \in ks : t[k] = job.left[k]
  BY RestrictType, ZenonT(30) DEF Shape, TypeOK, Restrict
<1> HIDE DEF t
<1>3. /\ IsManifest(manifest) /\ job.run \subseteq Nat /\ id \in Nat
      /\ DOMAIN job.out \subseteq Nat /\ \A i \in DOMAIN job.out : job.out[i] \in Nat
      /\ IsStack(files) /\ SegInv
  BY SegmentNumbers, Zenon DEF Shape, TypeOK
<1>4. /\ IsRun(job.run) /\ DOMAIN job.out \subseteq job.run
      /\ \A i \in DOMAIN job.out :
           /\ job.out[i] \in DOMAIN files /\ job.out[i] < manifest.next
           /\ \A j \in DOMAIN job.out : job.out[i] = job.out[j] => i = j
           /\ \A j \in DOMAIN manifest.segs : manifest.segs[j] # job.out[i]
  BY <1>1 DEF Shape, SegmentsCorrect, CompactCorrect
<1>5. /\ SegStack(manifest)' = SegStack(manifest)
      /\ SegStack(disk)' = SegStack(disk)
      /\ IsStack(files') /\ DOMAIN files' = DOMAIN files \cup {manifest.next}
      /\ files'[manifest.next] = t
      /\ \A f \in DOMAIN files : f < manifest.next => files'[f] = files[f]
      /\ IsManifest(manifest)'
      /\ manifest'.segs = manifest.segs /\ manifest'.next = manifest.next + 1
      /\ disk'.next <= manifest'.next
      /\ ManifestCorrect(manifest)' /\ ManifestCorrect(disk)'
  BY <1>1, <1>2, <1>3, FreshFile, ZenonT(30)
<1>6. /\ job'.run = job.run /\ job'.out = insert(job.out, id, manifest.next)
      /\ job'.left = Restrict(job.left, DOMAIN job.left \ ks)
      /\ job'.wal = job.wal /\ job'.file = job.file /\ job'.drop = job.drop
  BY <1>1 DEF Shape, TypeOK
<1>7. /\ DOMAIN job'.out = DOMAIN job.out \cup {id} /\ job'.out[id] = manifest.next
      /\ id \notin DOMAIN job.out /\ \A i \in DOMAIN job.out : job'.out[i] = job.out[i]
      /\ DOMAIN job'.left = DOMAIN job.left \ ks
      /\ \A k \in DOMAIN job'.left : job'.left[k] = job.left[k]
  BY <1>1, <1>3, <1>6 DEF insert, Restrict
<1>8. TypeOK'
  <2>1. IsTable(job'.left)
    BY <1>2, <1>6, RestrictType
  <2>2. DOMAIN job'.out \subseteq Nat /\ \A i \in DOMAIN job'.out : job'.out[i] \in Nat
    BY <1>3, <1>7 DEF IsManifest
  <2> QED
    BY <1>1, <1>5, <1>6, <2>1, <2>2, ZenonT(30) DEF Shape, TypeOK, writerVars, openVars, walVars
<1>9. Control'
  BY <1>1 DEF Shape, Control, writerVars, openVars, Running
<1>10. WalOrder'
  BY <1>1, LogKept, ZenonT(30)
<1>12. RunStack' = RunStack /\ IsRun(job.run)' = IsRun(job.run)
  <2>1. SegStack(manifest)' = SegStack(manifest) /\ job'.run = job.run /\ manifest'.segs = manifest.segs
    BY <1>5, <1>6, Zenon
  <2>2. RunStack' = RunStack
    BY <2>1, Zenon DEF RunStack
  <2>3. IsRun(job.run)' = IsRun(job.run)
    BY <2>1, ZenonT(30) DEF IsRun
  <2> QED
    BY <2>2, <2>3, Zenon
<1>15. CompactCorrect'
  <2>1. /\ IsRun(job.run)' /\ DOMAIN job'.out \subseteq job'.run
        /\ \A i \in DOMAIN job'.out :
             /\ job'.out[i] \in DOMAIN files' /\ job'.out[i] < manifest'.next
             /\ \A j \in DOMAIN job'.out : job'.out[i] = job'.out[j] => i = j
             /\ \A j \in DOMAIN manifest'.segs : manifest'.segs[j] # job'.out[i]
    <3>1. \A j \in DOMAIN manifest.segs : manifest.segs[j] \in Nat /\ manifest.segs[j] < manifest.next
      BY <1>3 DEF Shape, SegmentsCorrect, ManifestCorrect, IsManifest
    <3>2. /\ IsRun(job.run)' /\ job'.run = job.run /\ id \in job.run
          /\ manifest'.segs = manifest.segs /\ manifest'.next = manifest.next + 1
          /\ manifest.next \in Nat /\ manifest.next \in DOMAIN files' /\ DOMAIN files \subseteq DOMAIN files'
      BY <1>1, <1>3, <1>4, <1>5, <1>6, <1>12, ZenonT(30) DEF IsManifest
    <3>3. DOMAIN job'.out \subseteq job'.run
      BY <1>4, <1>7, <3>2, ZenonT(30)
    <3>4. \A i \in DOMAIN job.out : /\ job'.out[i] = job.out[i] /\ job.out[i] \in Nat
                                   /\ job.out[i] < manifest.next
      BY <1>3, <1>4, <1>7, ZenonT(30)
    <3>5. /\ manifest.next < manifest'.next
          /\ \A n \in Nat : n < manifest.next => n < manifest'.next /\ n # manifest.next
      BY <3>2
    <3>6. \A i \in DOMAIN job'.out :
            /\ job'.out[i] \in DOMAIN files' /\ job'.out[i] < manifest'.next
            /\ \A j \in DOMAIN manifest'.segs : manifest'.segs[j] # job'.out[i]
      BY <1>4, <1>7, <3>1, <3>2, <3>4, <3>5, ZenonT(30)
    <3>7. \A i, j \in DOMAIN job'.out : job'.out[i] = job'.out[j] => i = j
      BY <1>4, <1>7, <3>4, <3>5, ZenonT(30)
    <3> QED
      BY <3>2, <3>3, <3>6, <3>7, ZenonT(30)
  <2> QED
    BY <1>1, <2>1, ZenonT(30) DEF CompactCorrect
<1>16. FlushCorrect'
  BY <1>1 DEF FlushCorrect
<1> QED
  BY <1>5, <1>8, <1>9, <1>10, <1>15, <1>16 DEF Shape, SegmentsCorrect

\* The manifest swap of compact_run keeps the invariant.
LEMMA CompactStoreShape ==
  ASSUME Shape, CompactStore
  PROVE  Shape'
<1> USE DEF CompactStore
<1>1. Running
  BY DEF Shape, Control, Running
<1>2. /\ IsManifest(manifest)' /\ ManifestCorrect(manifest)' /\ manifest'.next = manifest.next
      /\ \A i \in DOMAIN manifest'.segs : \A r \in job.run : manifest'.segs[i] # manifest.segs[r]
  BY SegmentNumbers, SwappedFacts
<1>3. disk' = manifest' /\ SegStack(disk)' = SegStack(manifest)'
  BY DEF SegStack
<1>6. WalOrder'
  BY LogKept
<1>7. /\ job'.drop = {manifest.segs[i] : i \in job.run} /\ job'.wal = 0 /\ job'.file = 0
      /\ job'.run = {} /\ job'.left = EmptyTable /\ job'.out = EmptyTable
  BY DEF NoJob
<1>8. TypeOK'
  <2>1. job'.drop \subseteq Nat
    BY <1>7 DEF Shape, TypeOK, IsManifest, SegmentsCorrect, CompactCorrect, IsRun
  <2> QED
    BY <1>2, <1>3, <1>7, <2>1, EmptyTableType DEF Shape, TypeOK, writerVars, openVars, walVars
<1>9. Control'
  BY <1>1 DEF Shape, Control, writerVars, openVars, Running
<1>10. FlushCorrect'
  BY DEF FlushCorrect
<1>11. CompactCorrect'
  BY <1>2, <1>3, <1>7 DEF CompactCorrect
<1>12. ManifestCorrect(disk)' /\ disk'.next <= manifest'.next
  BY <1>2, <1>3 DEF IsManifest, ManifestCorrect
<1> QED
  BY <1>2, <1>6, <1>8, <1>9, <1>10, <1>11, <1>12, Zenon DEF Shape, SegmentsCorrect

\* So does a failure to store the swapped manifest.
LEMMA CompactStoreFailsShape ==
  ASSUME Shape, CompactStoreFails
  PROVE  Shape'
<1> USE DEF CompactStoreFails, segVars
<1>1. Running
  BY DEF Shape, Control, Running
<1>2. IsManifest(manifest)' /\ ManifestCorrect(manifest)' /\ manifest'.next = manifest.next
  BY SegmentNumbers, SwappedFacts
<1>3. SegStack(disk)' = SegStack(disk)
  BY DEF SegStack
<1>6. WalOrder'
  BY LogKept, Zenon
<1>7. TypeOK'
  BY <1>2, EmptyTableType, ZenonT(30) DEF Shape, TypeOK, writerVars, openVars, walVars, NoJob
<1>8. Control'
  BY <1>1 DEF Shape, Control, writerVars, openVars, Running
<1>9. FlushCorrect' /\ CompactCorrect'
  BY Zenon DEF FlushCorrect, CompactCorrect
<1>10. ManifestCorrect(disk)' /\ disk'.next <= manifest'.next
  BY <1>2, ZenonT(30) DEF Shape, SegmentsCorrect, ManifestCorrect
<1> QED
  BY <1>2, <1>6, <1>7, <1>8, <1>9, <1>10, ZenonT(30) DEF Shape, SegmentsCorrect

\* CompactDrop: no manifest names the file.
LEMMA CompactDropShape ==
  ASSUME Shape, NEW f \in job.drop, CompactDrop(f)
  PROVE  Shape'
<1>1. /\ mpc = "swapped" /\ mpc' \in {"idle", "swapped"}
      /\ files' = Restrict(files, DOMAIN files \ {f})
      /\ job' = [job EXCEPT !.drop = @ \ {f}]
      /\ UNCHANGED <<writerVars, frozen, manifest, openVars, disk, walVars, acked>>
  BY DEF CompactDrop
<1>2. Running
  BY <1>1 DEF Shape, Control, Running
<1>3. /\ disk = manifest /\ \A i \in DOMAIN manifest.segs : manifest.segs[i] \notin job.drop
      /\ ManifestCorrect(manifest) /\ IsStack(files)
  BY <1>1 DEF Shape, TypeOK, SegmentsCorrect, CompactCorrect
<1>4. DOMAIN files' = DOMAIN files \ {f} /\ \A x \in DOMAIN files' : files'[x] = files[x]
  BY <1>1 DEF Restrict
<1>5. \A i \in DOMAIN manifest.segs : manifest.segs[i] \in DOMAIN files'
  BY <1>3, <1>4 DEF ManifestCorrect
<1>6. SegStack(manifest)' = SegStack(manifest) /\ SegStack(disk)' = SegStack(disk)
  BY <1>1, <1>3, <1>4, <1>5 DEF SegStack
<1>7. /\ job'.drop = job.drop \ {f} /\ job'.wal = job.wal /\ job'.file = job.file
      /\ job'.run = job.run /\ job'.left = job.left /\ job'.out = job.out
  BY <1>1 DEF Shape, TypeOK
<1>8. TypeOK'
  BY <1>1, <1>3, <1>7, StackRestrictType, ZenonT(30) DEF Shape, TypeOK, writerVars, openVars, walVars
<1>9. Control'
  BY <1>1, <1>2 DEF Shape, Control, writerVars, openVars, Running
<1>10. WalOrder'
  BY <1>1, LogKept
<1>12. FlushCorrect' /\ CompactCorrect'
  BY <1>1, <1>3, <1>7 DEF FlushCorrect, CompactCorrect
<1>13. ManifestCorrect(manifest)' /\ ManifestCorrect(disk)' /\ disk'.next <= manifest'.next
  BY <1>1, <1>3, <1>5, ZenonT(30) DEF ManifestCorrect, Shape, SegmentsCorrect
<1> QED
  BY <1>8, <1>9, <1>10, <1>12, <1>13 DEF Shape, SegmentsCorrect

\* Every maintenance step keeps the invariant.
LEMMA MaintenanceShape ==
  ASSUME FoldLaws, Shape, Benign, Maintenance
  PROVE  Shape'
BY FlushWriteShape, FlushWriteFailsShape, FlushStoreShape, FlushStoreFailsShape, FlushUnlinkShape,
   FlushPopShape, CompactMergeShape, CompactChunkShape, CompactFailsShape, CompactStoreShape,
   CompactStoreFailsShape, CompactDropShape, NoSurplus, Zenon DEF Maintenance

(***************************************************************************)
(* Opening, closing and crashing                                           *)
(***************************************************************************)

\* An empty directory satisfies the invariant.
LEMMA InitShape == ASSUME Init PROVE Shape
<1>1. /\ phase = "down" /\ wpc = "idle" /\ mpc = "idle" /\ walSeq = 0 /\ curWal = 0
      /\ oldWals = {} /\ torn = {} /\ ~Running
      /\ acked = [k \in Key |-> NoRec]
  BY DEF Init, Running
<1>2. /\ mem = EmptyTable /\ taken = EmptyTable /\ batch = EmptyTable /\ recovered = EmptyTable
      /\ frozen = EmptyTable /\ wals = EmptyTable /\ files = EmptyTable
      /\ manifest = EmptyManifest /\ disk = EmptyManifest /\ job = NoJob
  BY DEF Init
<1>3. /\ IsManifest(EmptyManifest) /\ EmptyManifest.next = 0
      /\ EmptyManifest.segs = EmptyTable /\ DOMAIN EmptyManifest.segs = {}
  BY EmptyTableType DEF IsManifest, EmptyManifest
<1>4. /\ job.wal \in Nat /\ job.file \in Nat /\ job.run = {} /\ job.drop = {}
      /\ job.left = EmptyTable /\ job.out = EmptyTable
  BY <1>2 DEF NoJob
<1>5. TypeOK
  <2>1. IsTable(job.left) /\ DOMAIN job.out = {}
    BY <1>4, EmptyTableType
  <2> QED
    BY <1>1, <1>2, <1>3, <1>4, <2>1, EmptyTableType, ZenonT(30) DEF TypeOK
<1>6. Control
  BY <1>1, <1>2, EmptyTableType DEF Control
<1>7. WalOrder
  BY <1>1, <1>2, EmptyTableType DEF WalOrder
<1>10. SegmentsCorrect
  <2>1. ManifestCorrect(EmptyManifest)
    BY <1>3, Zenon DEF ManifestCorrect
  <2>2. FlushCorrect /\ CompactCorrect
    BY <1>1, Zenon DEF FlushCorrect, CompactCorrect
  <2> QED
    BY <1>2, <1>3, <2>1, <2>2 DEF SegmentsCorrect
<1> QED
  BY <1>5, <1>6, <1>7, <1>10, Zenon DEF Shape

\* The process ends and what was pending counts as acknowledged.
LEMMA LoseShape ==
  ASSUME Shape, Running, Lose, DOMAIN acked' = Key,
         \A k \in Key : acked'[k] = NoRec \/ IsRecordOf(k, acked'[k])
  PROVE  Shape'
<1>1. /\ phase' = "down" /\ wpc' = "idle" /\ mpc' = "idle" /\ oldWals' = {}
      /\ mem' = EmptyTable /\ taken' = EmptyTable /\ frozen' = EmptyTable
      /\ batch' = EmptyTable /\ recovered' = EmptyTable
      /\ manifest' = disk /\ job' = NoJob
      /\ UNCHANGED <<walSeq, curWal, wals, torn, files, disk>>
  BY DEF Lose, segVars, walVars
<1>2. ~Running'
  BY <1>1, Zenon DEF Running
<1>3. TypeOK'
  <2>1. /\ IsStack(wals) /\ IsStack(files) /\ IsManifest(disk)
        /\ walSeq \in Nat /\ curWal \in Nat /\ torn \subseteq Nat
    BY Zenon DEF Shape, TypeOK
  <2>2. /\ job'.wal \in Nat /\ job'.file \in Nat /\ job'.run \subseteq Nat
        /\ job'.drop \subseteq Nat /\ IsTable(job'.left) /\ DOMAIN job'.out = {}
    BY <1>1, EmptyTableType DEF NoJob
  <2>3. IsManifest(manifest)' /\ IsManifest(disk)'
    BY <1>1, <2>1, Zenon DEF IsManifest
  <2> QED
    BY <1>1, <2>1, <2>2, <2>3, EmptyTableType, ZenonT(30) DEF TypeOK
<1>4. Control'
  BY <1>1, EmptyTableType, Zenon DEF Control
<1>5. WalOrder'
  <2>1. torn = {} /\ \A w \in DOMAIN wals : w <= walSeq
    BY DEF Shape, WalOrder
  <2> QED
    BY <1>1, <1>2, <2>1 DEF WalOrder
<1>8. SegmentsCorrect'
  <2>1. ManifestCorrect(disk) /\ disk.next \in Nat
    BY Zenon DEF Shape, TypeOK, IsManifest, SegmentsCorrect
  <2>2. ManifestCorrect(manifest)' /\ ManifestCorrect(disk)'
    BY <1>1, <2>1, Zenon DEF ManifestCorrect
  <2>3. disk'.next <= manifest'.next
    BY <1>1, <2>1
  <2>4. FlushCorrect' /\ CompactCorrect'
    BY <1>1, Zenon DEF FlushCorrect, CompactCorrect
  <2> QED
    BY <2>2, <2>3, <2>4, ZenonT(30) DEF SegmentsCorrect
<1> QED
  BY <1>3, <1>4, <1>5, <1>8, ZenonT(30) DEF Shape

\* A crash, at any step of either actor, keeps the invariant.
LEMMA CrashShape ==
  ASSUME Shape, Crash
  PROVE  Shape'
<1>1. Running /\ Lose /\ torn = {}
  BY ZenonT(30) DEF Crash, Shape, WalOrder
<1>2. CASE wpc \notin {"append", "incr"}
  BY <1>1, <1>2, LoseShape, ZenonT(30) DEF Crash, Shape, TypeOK
<1>3. CASE wpc \in {"append", "incr"}
  <2>1. acked' = [k \in Key |-> Over(Get(batch, k), acked[k])]
    BY <1>1, <1>3, ZenonT(30) DEF Crash
  <2>2. IsTable(batch) /\ \A k \in Key : acked[k] = NoRec \/ IsRecordOf(k, acked[k])
    BY Zenon DEF Shape, TypeOK
  <2>3. \A k \in Key : acked'[k] = NoRec \/ IsRecordOf(k, acked'[k])
    <3> TAKE k \in Key
    <3>1. Get(batch, k) = NoRec \/ IsRecordOf(k, Get(batch, k))
      BY <2>2, GetType, ZenonT(30)
    <3> QED
      BY <2>1, <2>2, <3>1, OverType
  <2> QED
    BY <1>1, <2>1, <2>3, LoseShape
<1> QED
  BY <1>2, <1>3

\* Open: the replayed table holds the newest logged record of every key, so
\* over the stored segments it gives the acknowledged one.
LEMMA OpenShape ==
  ASSUME FoldLaws, Shape, Open
  PROVE  Shape'
<1> DEFINE last == IF DOMAIN wals = {} THEN 0 ELSE Max(DOMAIN wals) + 1
           tail == [k \in UNION {DOMAIN wals[w] : w \in DOMAIN wals} |-> Fold(wals, k)]
<1>1. /\ phase = "down" /\ walSeq' = last /\ curWal' = last
      /\ wals' = insert(wals, last, EmptyTable) /\ recovered' = tail
      /\ phase' = (IF DOMAIN tail = {} THEN "up" ELSE "replay")
      /\ oldWals' = DOMAIN wals
      /\ UNCHANGED <<mem, taken, wpc, batch, frozen, maintVars, segVars, torn, acked>>
  BY ZenonT(30) DEF Open
<1> USE DEF maintVars, segVars
<1>2. /\ IsStack(wals) /\ DOMAIN wals \in SUBSET Nat /\ walSeq \in Nat
      /\ torn = {} /\ \A w \in DOMAIN wals : w <= walSeq
  BY Zenon DEF Shape, TypeOK, WalOrder, IsStack
<1>3. last \in Nat /\ \A w \in DOMAIN wals : w < last
  <2>1. CASE DOMAIN wals = {}
    BY <2>1
  <2>2. CASE DOMAIN wals # {}
    <3>1. Max(DOMAIN wals) \in DOMAIN wals /\ \A w \in DOMAIN wals : w <= Max(DOMAIN wals)
      BY <1>2, <2>2, ZenonT(30) DEF FoldLaws, MaxLaw
    <3> QED
      BY <1>2, <2>2, <3>1
  <2> QED
    BY <2>1, <2>2, Zenon
<1>4. /\ \A k : k \in DOMAIN tail <=> Holders(wals, k) # {}
      /\ \A k \in DOMAIN tail : tail[k] = Fold(wals, k)
  BY DEF Holders
<1>5. DOMAIN tail = UNION {DOMAIN wals[w] : w \in DOMAIN wals}
  BY Zenon
<1> HIDE DEF last, tail
<1>6. /\ DOMAIN wals' = DOMAIN wals \cup {last} /\ DOMAIN wals'[last] = {}
      /\ \A w \in DOMAIN wals : w # last /\ wals'[w] = wals[w]
  BY <1>1, <1>2, <1>3, EmptyTableType DEF insert
<1>7. IsTable(tail)
  <2>1. DOMAIN tail \subseteq Key
    BY <1>2, <1>5 DEF IsStack, IsTable
  <2>2. \A k \in DOMAIN tail : IsRecordOf(k, tail[k])
    BY <1>2, <1>4, <2>1, FoldType
  <2> QED
    BY <2>1, <2>2 DEF IsTable
<1>8. TypeOK'
  BY <1>1, <1>2, <1>3, <1>7, StackInsertType, EmptyTableType, ZenonT(30) DEF Shape, TypeOK
<1>9. /\ wpc = "idle" /\ mpc = "idle" /\ manifest = disk
      /\ DOMAIN mem = {} /\ DOMAIN frozen = {} /\ DOMAIN batch = {} /\ DOMAIN taken = {}
  BY <1>1, Zenon DEF Shape, Control
<1>10. Control'
  BY <1>1, <1>5, <1>9, ZenonT(30) DEF Control
<1>11. WalOrder'
  <2>1. WalEdge' = last
    BY <1>1, <1>9, Zenon DEF WalEdge
  <2>2. torn' = {} /\ mpc' # "unlinked" /\ DOMAIN frozen' = {}
    BY <1>1, <1>2, <1>9, ZenonT(30)
  <2>3. \A w \in DOMAIN wals' : w <= last
    BY <1>2, <1>3, <1>6
  <2>4. \A w \in DOMAIN frozen' : w < WalEdge'
    BY <2>2, Zenon
  <2>5. \A o \in oldWals' : o < WalEdge' /\ \A w \in DOMAIN frozen' : o < w
    BY <1>1, <1>3, <2>1, <2>2, Zenon
  <2>6. /\ {walSeq', WalEdge'} \subseteq DOMAIN wals' /\ oldWals' \subseteq DOMAIN wals'
        /\ DOMAIN wals' \subseteq oldWals' \cup DOMAIN frozen' \cup {walSeq', WalEdge'}
    BY <1>1, <1>6, <2>1, ZenonT(30)
  <2> QED
    BY <1>1, <1>3, <2>1, <2>2, <2>3, <2>4, <2>5, <2>6, ZenonT(30) DEF WalOrder
<1>19. SegmentsCorrect'
  BY <1>1, <1>9, SegmentsKept, Zenon DEF Shape
<1> QED
  BY <1>8, <1>10, <1>11, <1>19, ZenonT(30) DEF Shape

\* RecoverFrame: what was replayed goes to the new WAL unchanged.
LEMMA RecoverFrameShape ==
  ASSUME Shape, NEW k \in DOMAIN recovered \ DOMAIN batch, RecoverFrame(k)
  PROVE  Shape'
<1> USE DEF maintVars, openVars, segVars
<1>1. /\ phase = "replay" /\ wpc' = "recover" /\ wpc \in {"idle", "recover"} /\ Running
      /\ LogFrame(k, recovered[k])
      /\ UNCHANGED <<mem, taken, walSeq, curWal, frozen, maintVars, openVars, segVars, acked>>
  BY ZenonT(30) DEF RecoverFrame, Running
<1>2. k \in Key /\ IsRecordOf(k, recovered[k]) /\ IsTable(recovered) /\ IsTable(batch)
  BY Zenon DEF Shape, TypeOK, IsTable
<1>3. FrameLogged(k, recovered[k])
  BY <1>1, <1>2, LogFrameFacts, ZenonT(30)
<1>5. TypeOK'
  BY <1>1, <1>3, Zenon DEF Shape, TypeOK, FrameLogged
<1>6. Control'
  BY <1>1, Zenon DEF Shape, Control
<1>7. WalOrder'
  BY <1>1, <1>3, ZenonT(30) DEF Shape, WalOrder, FrameLogged, WalEdge, Running
<1>14. SegmentsCorrect'
  BY <1>1, SegmentsKept DEF Shape
<1> QED
  BY <1>5, <1>6, <1>7, <1>14, Zenon DEF Shape

\* RecoverApply: the memtable takes over from the replayed table.
LEMMA RecoverApplyShape ==
  ASSUME Shape, RecoverApply
  PROVE  Shape'
<1> USE DEF RecoverApply, maintVars, segVars, walVars
<1>1. /\ phase = "replay" /\ Running /\ Running' /\ wpc' \in {"over", "idle"}
      /\ DOMAIN mem = {} /\ DOMAIN frozen = {} /\ DOMAIN taken = {} /\ DOMAIN batch' = {}
      /\ oldWals # {}
  BY EmptyTableType, Zenon DEF Shape, Control, Running, AfterInsert
<1>2. IsTable(batch) /\ IsTable(recovered)
  BY Zenon DEF Shape, TypeOK
<1>3. TypeOK'
  BY <1>1, EmptyTableType, ZenonT(30) DEF Shape, TypeOK
<1>4. Control'
  BY <1>1, EmptyTableType, Zenon DEF Shape, Control
<1>5. WalOrder'
  BY <1>1, Zenon DEF Shape, WalOrder, WalEdge
<1>11. SegmentsCorrect'
  BY SegmentsKept, Zenon DEF Shape
<1> QED
  BY <1>3, <1>4, <1>5, <1>11, Zenon DEF Shape

\* The return of the flush inside open keeps the invariant.
LEMMA SettledShape ==
  ASSUME Shape, Settled
  PROVE  Shape'
<1> USE DEF Settled, writerVars, maintVars, segVars, walVars
<1>1. Running /\ Running' /\ mpc \notin {"written", "stored", "unlinked"}
  BY ZenonT(30) DEF Running, Shape, Control
<1>2. TypeOK' /\ Control'
  BY ZenonT(60) DEF Shape, TypeOK, Control
<1>3. WalOrder'
  BY <1>1, ZenonT(30) DEF Shape, WalOrder, WalEdge
<1>7. SegmentsCorrect'
  BY SegmentsKept DEF Shape
<1> QED
  BY <1>2, <1>3, <1>7, ZenonT(30) DEF Shape

\* DropOldWal: memory is empty and the segments hold everything; deleting
\* from the oldest up, no stale record becomes the newest.
LEMMA DropOldWalShape ==
  ASSUME FoldLaws, Shape, Benign, DropOldWal
  PROVE  Shape'
<1> USE DEF writerVars, maintVars, segVars
<1> DEFINE m == Min(oldWals)
<1>1. /\ phase = "unlink" /\ phase' \in {"up", "unlink"} /\ Running /\ Running'
      /\ wals' = Restrict(wals, DOMAIN wals \ {m}) /\ torn' = torn \ {m}
      /\ oldWals' = oldWals \ {m} /\ (phase' = "unlink" => oldWals' # {})
      /\ UNCHANGED <<writerVars, frozen, maintVars, recovered, segVars, acked>>
      /\ (phase' = "up" => oldWals' = {})
  BY ZenonT(30) DEF DropOldWal, RemoveWal, Benign, Running
<1>2. /\ wpc = "idle" /\ DOMAIN mem = {} /\ DOMAIN frozen = {} /\ DOMAIN batch = {}
      /\ DOMAIN taken = {} /\ mpc \notin {"written", "stored", "unlinked"}
      /\ oldWals \in SUBSET Nat /\ oldWals # {}
  BY <1>1, ZenonT(30) DEF Shape, Control, TypeOK
<1>3. m \in oldWals /\ \A o \in oldWals : m <= o
  BY <1>2, ZenonT(30) DEF FoldLaws, MinLaw
<1> HIDE DEF m
<1>4. /\ DOMAIN wals \subseteq oldWals \cup {walSeq} /\ walSeq \in DOMAIN wals
      /\ oldWals \subseteq DOMAIN wals /\ torn = {} /\ walSeq \in Nat
      /\ (\A o \in oldWals : o < walSeq) /\ IsStack(wals)
  BY <1>1, <1>2, ZenonT(30) DEF Shape, WalOrder, WalEdge, TypeOK
<1>5. /\ DOMAIN wals' = DOMAIN wals \ {m}
      /\ \A w \in DOMAIN wals' : wals'[w] = wals[w]
      /\ walSeq \in DOMAIN wals'
  BY <1>1, <1>2, <1>3, <1>4 DEF Restrict
<1>6. TypeOK'
  BY <1>1, <1>2, <1>4, StackRestrictType, Zenon DEF Shape, TypeOK
<1>7. Control'
  BY <1>1, <1>2, ZenonT(30) DEF Shape, Control
<1>8. WalOrder'
  BY <1>1, <1>2, <1>3, <1>4, <1>5, ZenonT(30) DEF Shape, WalOrder, WalEdge
<1>15. SegmentsCorrect'
  BY <1>1, SegmentsKept, Zenon DEF Shape
<1> QED
  BY <1>6, <1>7, <1>8, <1>15, ZenonT(30) DEF Shape

\* Opening, closing and crashing keep the invariant.
LEMMA LifecycleShape ==
  ASSUME FoldLaws, Shape, Benign, Lifecycle
  PROVE  Shape'
<1>1. CASE Close \/ OpenFails
  BY <1>1, LoseShape, Zenon DEF Benign, Close, OpenFails, Running, Shape, TypeOK
<1> QED
  BY <1>1, CrashShape, OpenShape, RecoverFrameShape, RecoverApplyShape, SettledShape, DropOldWalShape, ZenonT(30)
  DEF Lifecycle

\* Every step of the engine keeps its shape.
LEMMA NextShape ==
  ASSUME FoldLaws, Shape, Benign, [Next]_vars
  PROVE  Shape'
<1>1. CASE Next
  BY <1>1, WriterShape, MaintenanceShape, LifecycleShape DEF Next
<1>2. CASE UNCHANGED vars
  <2> USE <1>2 DEF vars, writerVars, maintVars, openVars, segVars, walVars
  <2>1. TypeOK' /\ Control'
    BY ZenonT(60) DEF Shape, TypeOK, Control
  <2>2. WalOrder'
    BY ZenonT(30) DEF Shape, WalOrder, WalEdge, Running
  <2>3. SegmentsCorrect'
    BY SegmentsKept, Zenon DEF Shape
  <2> QED
    BY <2>1, <2>2, <2>3, ZenonT(30) DEF Shape
<1> QED
  BY <1>1, <1>2
==============================================================================
