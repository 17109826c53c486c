---------------------------- MODULE EngineLemmas -----------------------------
(***************************************************************************)
(* The lemmas the proofs about Engine share: tables, versions, folds, what a *)
(* step that leaves some variables alone keeps, and the segments.          *)
(***************************************************************************)
EXTENDS EngineCorrect, TLAPS

(***************************************************************************)
(* Tables and stacks                                                       *)
(***************************************************************************)

\* The empty table is a table, and a stack with no tables.
LEMMA EmptyTableType == IsTable(EmptyTable) /\ DOMAIN EmptyTable = {} /\ IsStack(EmptyTable)
BY DEF IsTable, EmptyTable, IsStack

\* Inserting into a table.
LEMMA InsertType ==
  ASSUME NEW t, IsTable(t), NEW k \in Key, NEW r, IsRecordOf(k, r)
  PROVE  IsTable(insert(t, k, r))
BY DEF IsTable, insert

\* A part of a table is a table.
LEMMA RestrictType ==
  ASSUME NEW t, IsTable(t), NEW S, S \subseteq DOMAIN t
  PROVE  IsTable(Restrict(t, S))
BY DEF IsTable, Restrict

\* A stack with one more table (a new WAL, segment or frozen memtable).
LEMMA StackInsertType ==
  ASSUME NEW s, IsStack(s), NEW i \in Nat, NEW t, IsTable(t)
  PROVE  IsStack(insert(s, i, t))
BY DEF IsStack, insert

\* A stack without some of its tables (deleted files, a popped memtable).
LEMMA StackRestrictType ==
  ASSUME NEW s, IsStack(s), NEW S, S \subseteq DOMAIN s
  PROVE  IsStack(Restrict(s, S))
BY DEF IsStack, Restrict

\* Laying one version over another.
LEMMA OverType ==
  ASSUME NEW k, NEW new, NEW old, 
         new = NoRec \/ IsRecordOf(k, new), old = NoRec \/ IsRecordOf(k, old)
  PROVE  /\ Over(new, old) = NoRec \/ IsRecordOf(k, Over(new, old))
         /\ IsRecordOf(k, new) \/ IsRecordOf(k, old) => IsRecordOf(k, Over(new, old))
BY DEF Over, IsRecordOf, merge_delta, is_delta, is_tombstone, Kinds, Record

\* A record that is no delta hides what is below it.
LEMMA OverPlain ==
  ASSUME NEW new, NEW old, Hides(new)
  PROVE  Over(new, old) = IF new = NoRec THEN old ELSE new
BY DEF Over, Hides

\* What a table yields for a key.
LEMMA GetType ==
  ASSUME NEW t, IsTable(t), NEW k
  PROVE  /\ Get(t, k) = NoRec \/ IsRecordOf(k, Get(t, k))
         /\ k \in PlainKey => Hides(Get(t, k))
         /\ k \in PlainKey => (Get(t, k) = NoRec <=> k \notin DOMAIN t)
BY NoRecAssumption DEF Get, IsTable, IsRecordOf, Hides

\* A stack of tables no higher than b has versions of every key.
LEMMA StackWithin ==
  ASSUME NEW stack, IsStack(stack), NEW b \in Nat, \A i \in DOMAIN stack : i <= b, NEW k
  PROVE  Within(stack, k, b)
BY DEF IsStack, IsTable, IsRecordOf, Within, Get, Version

\* A key held somewhere in a stack of bounded height has a newest holder.
LEMMA TopExists ==
  ASSUME FoldLaws, NEW stack, NEW k, DOMAIN stack \subseteq Nat, NEW b \in Nat,
         \A i \in DOMAIN stack : i <= b, Holders(stack, k) # {}
  PROVE  \E i \in DOMAIN stack : Top(stack, k, i)
<1>1. Holders(stack, k) \in SUBSET Nat /\ \A i \in Holders(stack, k) : i <= b
  BY DEF Holders
<1>2. PICK i \in Holders(stack, k) : \A j \in Holders(stack, k) : j <= i
  BY <1>1, Zenon DEF FoldLaws, MaxLaw
<1> QED
  BY <1>2 DEF Top, Holders

\* The fold of a key that no table holds is nothing.
LEMMA FoldNone ==
  ASSUME NEW stack, NEW k, Holders(stack, k) = {}
  PROVE  Fold(stack, k) = NoRec
BY DEF Fold

\* The fold of a held key is a record that the key can have.
LEMMA FoldType ==
  ASSUME FoldLaws, NEW stack, IsStack(stack), NEW b \in Nat, \A i \in DOMAIN stack : i <= b,
         NEW k \in Key, Holders(stack, k) # {}
  PROVE  IsRecordOf(k, Fold(stack, k))
<1>1. PICK i \in DOMAIN stack : Top(stack, k, i)
  BY TopExists DEF IsStack
<1>2. i \in Nat /\ k \in DOMAIN stack[i] /\ IsRecordOf(k, stack[i][k])
  BY <1>1 DEF Top, Holders, IsStack, IsTable
<1>3. CASE k \in PlainKey
  <2>1. Fold(stack, k) = stack[i][k]
    BY <1>1, <1>2, <1>3 DEF FoldLaws, TopLaw, IsStack, IsRecordOf
  <2> QED
    BY <1>2, <2>1
<1>4. CASE k \notin PlainKey
  <2> DEFINE m == Max(Holders(stack, k))
  <2>1. Holders(stack, k) \in SUBSET Nat /\ \A x \in Holders(stack, k) : x <= b
    BY DEF Holders, IsStack
  <2>2. m \in Holders(stack, k)
    BY <2>1, Zenon DEF FoldLaws, MaxLaw
  <2>3. Fold(stack, k) = Walk(stack, k)[m]
    BY DEF Fold
  <2> HIDE DEF m
  <2>4. m \in Nat /\ At(stack, k, m) \in Record
    BY <2>2 DEF Holders, IsStack, IsTable, IsRecordOf, At, Get
  <2>5. Walk(stack, k)[m] \in Record
    BY <2>4, StackWithin DEF FoldLaws, RecordLaw
  <2> QED
    BY <1>4, <2>3, <2>5 DEF IsRecordOf
<1> QED
  BY <1>3, <1>4

\* On ordinary keys the fold is the record of the newest holder.
LEMMA PlainFold ==
  ASSUME FoldLaws, NEW stack, IsStack(stack), NEW b \in Nat, \A i \in DOMAIN stack : i <= b,
         NEW k \in PlainKey
  PROVE  \/ Holders(stack, k) = {} /\ Fold(stack, k) = NoRec
         \/ \E i \in DOMAIN stack : /\ Top(stack, k, i)
                                  /\ Fold(stack, k) = stack[i][k]
                                  /\ IsRecordOf(k, stack[i][k])
<1>1. CASE Holders(stack, k) = {}
  BY <1>1, FoldNone
<1>2. CASE Holders(stack, k) # {}
  <2>1. PICK i \in DOMAIN stack : Top(stack, k, i)
    BY <1>2, TopExists DEF IsStack
  <2>2. IsRecordOf(k, stack[i][k])
    BY <2>1 DEF Top, Holders, IsStack, IsTable
  <2>3. Fold(stack, k) = stack[i][k]
    BY <2>1, <2>2 DEF FoldLaws, TopLaw, IsStack, IsRecordOf
  <2> QED
    BY <2>1, <2>2, <2>3
<1> QED
  BY <1>1, <1>2

\* Any key can have what a client puts, and a counter can have a delta.
LEMMA ClientRecordType ==
  ASSUME NEW k, NEW r \in ClientRecord
  PROVE  IsRecordOf(k, r) /\ ~is_delta(r)
<1>1. r \in Record /\ r.kind \in {"full", "tomb"}
  <2>1. CASE r = Tombstone
    BY <2>1 DEF Tombstone, Record, Kinds
  <2>2. CASE r \in [kind : {"full"}, n : PutVal]
    <3>1. r = [kind |-> r.kind, n |-> r.n] /\ r.kind = "full" /\ r.n \in Nat
      BY <2>2, EngineAssumption, Zenon
    <3> QED
      BY <3>1 DEF Record, Kinds
  <2> QED
    BY <2>1, <2>2 DEF ClientRecord
<1> QED
  BY <1>1 DEF IsRecordOf, is_delta, Kinds

\* The delta of an `incr` is a record of its key.
LEMMA DeltaType ==
  ASSUME NEW k \in CounterKey, NEW r \in Delta
  PROVE  IsRecordOf(k, r)
BY EngineAssumption, Zenon DEF Delta, IsRecordOf, PlainKey, Kinds, Record

(***************************************************************************)
(* What a step leaves alone                                                *)
(***************************************************************************)

\* The segments, when only the writer moves.
LEMMA SegmentsKept ==
  ASSUME SegmentsCorrect, UNCHANGED <<maintVars, segVars>>,
         mpc \in {"written", "stored", "unlinked"} => frozen'[job.wal] = frozen[job.wal]
  PROVE  SegmentsCorrect'
<1> USE DEF maintVars, segVars
<1>1. ManifestCorrect(manifest)' /\ ManifestCorrect(disk)' /\ disk'.next <= manifest'.next
  BY DEF SegmentsCorrect, ManifestCorrect
<1>2. FlushCorrect'
  BY DEF SegmentsCorrect, FlushCorrect
<1>3. CompactCorrect'
  <2>1. RunStack' = RunStack /\ OutStack' = OutStack /\ IsRun(job.run)' = IsRun(job.run)
    BY DEF RunStack, OutStack, SegStack, IsRun
  <2> QED
    BY <2>1 DEF SegmentsCorrect, CompactCorrect
<1> QED
  BY <1>1, <1>2, <1>3 DEF SegmentsCorrect

\* A frame r of k has reached the current WAL.
FrameLogged(k, r) ==
  /\ IsTable(batch') /\ IsStack(wals') /\ torn' = torn
  /\ DOMAIN wals' = DOMAIN wals
  /\ DOMAIN batch' = DOMAIN batch \cup {k}
  /\ batch'[k] = r /\ \A x \in DOMAIN batch : x # k => batch'[x] = batch[x]
  /\ \A w \in DOMAIN wals : w # walSeq => wals'[w] = wals[w]
  /\ DOMAIN wals'[walSeq] = DOMAIN wals[walSeq] \cup {k}
  /\ \A x \in DOMAIN wals[walSeq] : x # k => wals'[walSeq][x] = wals[walSeq][x]
  /\ wals'[walSeq][k] = Over(r, Get(wals[walSeq], k))

\* What one logged frame changes: the current WAL and the batch, for one key.
LEMMA LogFrameFacts ==
  ASSUME Shape, Running, NEW k \in Key, NEW r, IsRecordOf(k, r), LogFrame(k, r)
  PROVE  FrameLogged(k, r)
<1>1. curWal = walSeq /\ walSeq \in DOMAIN wals /\ torn = {} /\ walSeq \in Nat
  BY DEF Shape, WalOrder, TypeOK
<1>2. IsTable(wals[walSeq]) /\ IsStack(wals) /\ IsTable(batch)
  BY <1>1 DEF Shape, TypeOK, IsStack
<1> DEFINE v == Over(r, Get(wals[walSeq], k))
<1>3. wals' = [wals EXCEPT ![walSeq] = insert(wals[walSeq], k, v)]
  BY <1>1 DEF LogFrame
<1>4. Get(wals[walSeq], k) = NoRec \/ IsRecordOf(k, Get(wals[walSeq], k))
  BY <1>2 DEF Get, IsTable
<1>5. IsRecordOf(k, v)
  BY <1>4, OverType
<1> HIDE DEF v
<1>7. IsTable(insert(wals[walSeq], k, v))
  BY <1>2, <1>5, InsertType
<1>8. IsStack(wals')
  BY <1>1, <1>2, <1>3, <1>7 DEF IsStack
<1>9. IsTable(batch')
  BY <1>2, InsertType DEF LogFrame
<1>10. /\ DOMAIN wals' = DOMAIN wals
       /\ wals'[walSeq] = insert(wals[walSeq], k, v)
       /\ \A w \in DOMAIN wals : w # walSeq => wals'[w] = wals[w]
  BY <1>1, <1>3
<1>11. /\ DOMAIN batch' = DOMAIN batch \cup {k}
       /\ batch'[k] = r /\ \A x \in DOMAIN batch : x # k => batch'[x] = batch[x]
       /\ torn' = torn
  BY DEF LogFrame, insert
<1>12. /\ DOMAIN wals'[walSeq] = DOMAIN wals[walSeq] \cup {k}
       /\ \A x \in DOMAIN wals[walSeq] : x # k => wals'[walSeq][x] = wals[walSeq][x]
       /\ wals'[walSeq][k] = Over(r, Get(wals[walSeq], k))
  BY <1>10 DEF insert, v
<1> QED
  BY <1>8, <1>9, <1>10, <1>11, <1>12, ZenonT(30) DEF FrameLogged

\* The log, when neither it nor memory nor what it must hold changes.
LEMMA LogKept ==
  ASSUME Shape, UNCHANGED <<writerVars, frozen, openVars, walVars, acked>>,
         mpc # "unlinked", mpc' # "unlinked"
  PROVE  WalOrder'
BY Zenon DEF Shape, WalOrder, WalEdge, Running, writerVars, openVars, walVars

\* Where no merge has more chunks than ids, no chunk takes a fresh id.
LEMMA NoSurplus == Benign => ~ CompactSurplusFails /\ \A ks : ~ CompactSurplus(ks)
BY DEF Benign, CompactSurplus, CompactSurplusFails

\* The invariant contains the part of it that no fault breaks.
LEMMA SegmentNumbers == ASSUME Shape PROVE SegInv
<1>1. /\ IsManifest(manifest) /\ IsManifest(disk) /\ disk.next <= manifest.next
      /\ ManifestCorrect(manifest) /\ ManifestCorrect(disk)
  BY DEF Shape, TypeOK, SegmentsCorrect
<1>2. FlushNumbers
  BY DEF Shape, TypeOK, SegmentsCorrect, FlushCorrect, FlushNumbers
<1>3. ASSUME mpc = "merging"
      PROVE  /\ job.run \subseteq DOMAIN manifest.segs
             /\ \A i \in DOMAIN job.out : i \in Nat /\ i < manifest.next
  <2>1. DOMAIN job.out \subseteq job.run /\ job.run \subseteq DOMAIN manifest.segs
    BY <1>3, Zenon DEF Shape, SegmentsCorrect, CompactCorrect, IsRun
  <2> QED
    BY <1>1, <2>1 DEF IsManifest, ManifestCorrect
<1>4. CompactNumbers
  BY <1>3 DEF Shape, TypeOK, SegmentsCorrect, CompactCorrect, CompactNumbers
<1> QED
  BY <1>1, <1>2, <1>4 DEF SegInv

\* A segment written to a fresh file changes nothing a manifest names.
LEMMA FreshFile ==
  ASSUME SegInv, NEW t, files' = insert(files, manifest.next, t),
         disk' = disk, manifest' = Allocated
  PROVE  /\ SegStack(manifest)' = SegStack(manifest)
         /\ SegStack(disk)' = SegStack(disk)
         /\ IsStack(files) /\ IsTable(t) => IsStack(files')
         /\ DOMAIN files' = DOMAIN files \cup {manifest.next}
         /\ files'[manifest.next] = t
         /\ \A f \in DOMAIN files : f < manifest.next => files'[f] = files[f]
         /\ IsManifest(manifest)'
         /\ manifest'.segs = manifest.segs /\ manifest'.next = manifest.next + 1
         /\ disk.next <= manifest.next /\ disk'.next <= manifest'.next
         /\ ManifestCorrect(manifest)' /\ ManifestCorrect(disk)'
<1>1. /\ IsManifest(manifest) /\ IsManifest(disk) /\ disk.next <= manifest.next
      /\ ManifestCorrect(manifest) /\ ManifestCorrect(disk)
  BY DEF SegInv
<1>2. manifest'.segs = manifest.segs /\ manifest'.next = manifest.next + 1 /\ IsManifest(manifest)'
  BY <1>1 DEF Allocated, IsManifest
<1>3. /\ DOMAIN files' = DOMAIN files \cup {manifest.next}
      /\ files'[manifest.next] = t
      /\ \A f \in DOMAIN files : f # manifest.next => files'[f] = files[f]
  BY DEF insert
<1>4. IsStack(files) /\ IsTable(t) => IsStack(files')
  BY <1>1, StackInsertType DEF IsManifest
<1>5. /\ \A i \in DOMAIN manifest.segs : manifest.segs[i] < manifest.next /\ manifest.segs[i] \in DOMAIN files
      /\ \A i \in DOMAIN disk.segs : disk.segs[i] < manifest.next /\ disk.segs[i] \in DOMAIN files
  BY <1>1 DEF ManifestCorrect, IsManifest
<1>6. SegStack(manifest)' = SegStack(manifest)
  BY <1>1, <1>2, <1>3, <1>5 DEF SegStack, IsManifest
<1>7. SegStack(disk)' = SegStack(disk)
  BY <1>1, <1>3, <1>5 DEF SegStack, IsManifest
<1>8. ManifestCorrect(manifest)'
  BY <1>1, <1>2, <1>3 DEF ManifestCorrect, IsManifest
<1>9. ManifestCorrect(disk)'
  BY <1>1, <1>3 DEF ManifestCorrect, IsManifest
<1> QED
  BY <1>1, <1>2, <1>3, <1>4, <1>6, <1>7, <1>8, <1>9 DEF IsManifest

\* A step of maintenance that only takes a file number.
LEMMA AllocateKept ==
  ASSUME SegInv, manifest' = Allocated, UNCHANGED segVars
  PROVE  /\ SegStack(manifest)' = SegStack(manifest) /\ SegStack(disk)' = SegStack(disk)
         /\ IsManifest(manifest)' /\ manifest'.segs = manifest.segs
         /\ manifest'.next = manifest.next + 1
         /\ disk'.next <= manifest'.next
         /\ ManifestCorrect(manifest)' /\ ManifestCorrect(disk)'
<1> USE DEF segVars
<1>1. IsManifest(manifest) /\ IsManifest(disk) /\ disk.next <= manifest.next
      /\ ManifestCorrect(manifest) /\ ManifestCorrect(disk)
  BY DEF SegInv
<1>2. manifest'.segs = manifest.segs /\ manifest'.next = manifest.next + 1 /\ IsManifest(manifest)'
  BY <1>1 DEF Allocated, IsManifest
<1>3. SegStack(manifest)' = SegStack(manifest) /\ SegStack(disk)' = SegStack(disk)
  BY <1>2 DEF SegStack
<1>4. ManifestCorrect(manifest)' /\ ManifestCorrect(disk)' /\ disk'.next <= manifest'.next
  BY <1>1, <1>2 DEF ManifestCorrect, IsManifest
<1> QED
  BY <1>2, <1>3, <1>4

\* The flush in progress, once its segment is stored.
LEMMA StoredFacts ==
  ASSUME Shape, mpc \in {"stored", "unlinked"}
  PROVE  /\ Running /\ phase # "replay" /\ job.wal \in DOMAIN frozen /\ job.wal \in Nat
         /\ \A w \in DOMAIN frozen : job.wal <= w
         /\ job.wal < WalEdge /\ WalEdge <= walSeq /\ \A o \in oldWals : o < job.wal
         /\ IsStack(frozen) /\ IsStack(wals) /\ walSeq \in Nat /\ WalEdge \in Nat
         /\ disk = manifest
<1>1. Running /\ phase # "replay" /\ job.wal \in DOMAIN frozen
      /\ \A w \in DOMAIN frozen : job.wal <= w
  BY DEF Shape, Control, Running
<1>2. /\ IsStack(frozen) /\ IsStack(wals) /\ walSeq \in Nat /\ IsManifest(manifest) /\ IsStack(files)
      /\ job.file \in Nat
  BY DEF Shape, TypeOK
<1>3. job.wal < WalEdge /\ WalEdge <= walSeq /\ (\A o \in oldWals : o < job.wal) /\ WalEdge \in Nat
  BY <1>1, <1>2 DEF Shape, WalOrder, WalEdge
<1>4. disk = manifest /\ job.file \in DOMAIN manifest.segs /\ manifest.segs[job.file] = job.file
      /\ (\A i \in DOMAIN manifest.segs : i <= job.file) /\ files[job.file] = frozen[job.wal]
  BY DEF Shape, SegmentsCorrect, FlushCorrect
<1> QED
  BY <1>1, <1>2, <1>3, <1>4 DEF IsStack

\* What FlushPop takes from the frozen list is the flushed memtable.
LEMMA PoppedStack ==
  ASSUME FoldLaws, Shape, FlushPop
  PROVE  /\ Running /\ phase # "replay" /\ job.wal \in DOMAIN frozen /\ job.wal \in Nat
         /\ \A w \in DOMAIN frozen : job.wal <= w
         /\ IsStack(frozen) /\ IsStack(frozen') /\ walSeq \in Nat
         /\ frozen' = Restrict(frozen, DOMAIN frozen \ {job.wal})
         /\ DOMAIN frozen' = DOMAIN frozen \ {job.wal}
         /\ \A w \in DOMAIN frozen' : frozen'[w] = frozen[w]
<1>1. /\ Running /\ phase # "replay" /\ job.wal \in DOMAIN frozen /\ job.wal \in Nat
      /\ \A w \in DOMAIN frozen : job.wal <= w
      /\ IsStack(frozen) /\ walSeq \in Nat
  BY StoredFacts DEF FlushPop
<1>2. Min(DOMAIN frozen) = job.wal
  <2>1. DOMAIN frozen \in SUBSET Nat /\ DOMAIN frozen # {}
    BY <1>1 DEF IsStack
  <2>2. Min(DOMAIN frozen) \in DOMAIN frozen /\ Min(DOMAIN frozen) <= job.wal
    BY <1>1, <2>1 DEF FoldLaws, MinLaw
  <2> QED
    BY <1>1, <2>1, <2>2
<1>3. frozen' = Restrict(frozen, DOMAIN frozen \ {job.wal})
  BY <1>2 DEF FlushPop
<1>4. /\ DOMAIN frozen' = DOMAIN frozen \ {job.wal}
      /\ \A w \in DOMAIN frozen' : frozen'[w] = frozen[w]
  BY <1>3 DEF Restrict
<1>5. IsStack(frozen')
  BY <1>1, <1>3, StackRestrictType
<1> QED
  BY <1>1, <1>3, <1>4, <1>5

\* The stack of the manifest in memory.
LEMMA SegStackFacts ==
  ASSUME Shape
  PROVE  /\ IsStack(SegStack(manifest)) /\ DOMAIN SegStack(manifest) = DOMAIN manifest.segs
         /\ manifest.next \in Nat
         /\ \A i \in DOMAIN SegStack(manifest) : i <= manifest.next
<1>1. IsManifest(manifest) /\ ManifestCorrect(manifest) /\ IsStack(files)
  BY DEF Shape, TypeOK, SegmentsCorrect
<1> QED
  BY <1>1 DEF SegStack, IsStack, IsManifest, ManifestCorrect

\* The manifest with the flushed segment names one file more, on top.
LEMMA FlushedNumbers ==
  ASSUME SegInv, mpc = "written", manifest' = Flushed, files' = files
  PROVE  /\ IsManifest(manifest)' /\ ManifestCorrect(manifest)'
         /\ manifest'.next = manifest.next
         /\ DOMAIN manifest'.segs = DOMAIN manifest.segs \cup {job.file}
         /\ manifest'.segs[job.file] = job.file
         /\ \A i \in DOMAIN manifest.segs : manifest'.segs[i] = manifest.segs[i] /\ i < job.file
         /\ \A i \in DOMAIN manifest'.segs : i <= job.file
<1>1. /\ IsManifest(manifest) /\ ManifestCorrect(manifest)
      /\ job.file \in Nat /\ job.file \in DOMAIN files /\ job.file < manifest.next
      /\ \A i \in DOMAIN manifest.segs : i < job.file /\ manifest.segs[i] < job.file
  BY DEF SegInv, FlushNumbers
<1>2. manifest'.segs = insert(manifest.segs, job.file, job.file) /\ manifest'.next = manifest.next
      /\ manifest' = [segs |-> manifest'.segs, next |-> manifest'.next]
  BY <1>1 DEF Flushed, IsManifest
<1>3. /\ DOMAIN manifest'.segs = DOMAIN manifest.segs \cup {job.file}
      /\ manifest'.segs[job.file] = job.file
      /\ \A i \in DOMAIN manifest.segs : manifest'.segs[i] = manifest.segs[i]
  BY <1>1, <1>2 DEF insert, IsManifest
<1>4. IsManifest(manifest)'
  BY <1>1, <1>2, <1>3 DEF IsManifest
<1>5. ManifestCorrect(manifest)'
  BY <1>1, <1>2, <1>3 DEF ManifestCorrect, IsManifest
<1> QED
  BY <1>1, <1>2, <1>3, <1>4, <1>5 DEF IsManifest

\* The manifest after the swap names the outputs and what was kept.
LEMMA SwappedFacts ==
  ASSUME SegInv, mpc = "merging", manifest' = Swapped, files' = files
  PROVE  /\ IsManifest(manifest)' /\ ManifestCorrect(manifest)' /\ manifest'.next = manifest.next
         /\ \A i \in DOMAIN manifest'.segs : \A r \in job.run : manifest'.segs[i] # manifest.segs[r]
<1> DEFINE kept == DOMAIN manifest.segs \ job.run
<1>1. /\ job.run \subseteq DOMAIN manifest.segs
      /\ \A i \in DOMAIN job.out :
           /\ i \in Nat /\ i < manifest.next /\ job.out[i] \in Nat
           /\ job.out[i] \in DOMAIN files /\ job.out[i] < manifest.next
           /\ \A j \in DOMAIN job.out : job.out[i] = job.out[j] => i = j
           /\ \A j \in DOMAIN manifest.segs : manifest.segs[j] # job.out[i]
  BY DEF SegInv, CompactNumbers
<1>2. IsManifest(manifest) /\ ManifestCorrect(manifest)
  BY DEF SegInv
<1>3. /\ manifest'.segs = [i \in kept \cup DOMAIN job.out |->
                             IF i \in DOMAIN job.out THEN job.out[i] ELSE manifest.segs[i]]
      /\ manifest'.next = manifest.next
      /\ manifest' = [segs |-> manifest'.segs, next |-> manifest'.next]
  BY <1>2 DEF Swapped, IsManifest
<1>4. /\ DOMAIN manifest'.segs = kept \cup DOMAIN job.out
      /\ \A i \in DOMAIN job.out : manifest'.segs[i] = job.out[i]
      /\ \A i \in kept \ DOMAIN job.out : manifest'.segs[i] = manifest.segs[i]
  BY <1>1, <1>3
<1>5. IsManifest(manifest)'
  BY <1>1, <1>2, <1>3, <1>4 DEF IsManifest
<1>6. ManifestCorrect(manifest)'
  <2> SUFFICES ASSUME NEW i \in DOMAIN manifest'.segs
               PROVE  /\ i < manifest'.next /\ manifest'.segs[i] < manifest'.next
                      /\ manifest'.segs[i] \in DOMAIN files'
                      /\ \A j \in DOMAIN manifest'.segs : manifest'.segs[i] = manifest'.segs[j] => i = j
    BY DEF ManifestCorrect
  <2>1. CASE i \in DOMAIN job.out
    BY <1>1, <1>2, <1>3, <1>4, <2>1 DEF ManifestCorrect
  <2>2. CASE i \in kept \ DOMAIN job.out
    BY <1>1, <1>2, <1>3, <1>4, <2>2 DEF ManifestCorrect
  <2> QED
    BY <1>4, <2>1, <2>2
<1>7. ASSUME NEW i \in DOMAIN manifest'.segs, NEW r \in job.run
      PROVE  manifest'.segs[i] # manifest.segs[r]
  BY <1>1, <1>2, <1>4, <1>7 DEF ManifestCorrect
<1> QED
  BY <1>3, <1>5, <1>6, <1>7, ZenonT(30)

(***************************************************************************)
(* Versions of a key                                                       *)
(***************************************************************************)

\* Nothing, or a record that k can have.
IsVersion(k, r) == r = NoRec \/ IsRecordOf(k, r)

\* A version of a key is a version.
LEMMA VersionType ==
  ASSUME NEW k, NEW r, IsVersion(k, r)
  PROVE  r \in Version
BY DEF IsVersion, IsRecordOf, Version

\* A version over a version, and one over another over a third.
LEMMA VersionOver ==
  ASSUME NEW k, NEW a, NEW b, IsVersion(k, a), IsVersion(k, b)
  PROVE  IsVersion(k, Over(a, b))
BY OverType, Zenon DEF IsVersion

\* What a table yields for a key.
LEMMA VersionGet ==
  ASSUME NEW t, IsTable(t), NEW k
  PROVE  IsVersion(k, Get(t, k))
BY GetType, Zenon DEF IsVersion

\* What a stack of tables yields for a key.
LEMMA VersionFold ==
  ASSUME FoldLaws, NEW stack, IsStack(stack), NEW b \in Nat, \A i \in DOMAIN stack : i <= b, NEW k \in Key
  PROVE  IsVersion(k, Fold(stack, k))
BY FoldType, FoldNone, Zenon DEF IsVersion

\* The number a reader is shown is a number.
LEMMA CountType ==
  ASSUME NEW k, NEW r, IsVersion(k, r)
  PROVE  Count(r) \in Nat
BY DEF IsVersion, IsRecordOf, Record, Count, surface

\* The number of a record: nothing for a tombstone.
LEMMA CountRecord ==
  ASSUME NEW r \in Record
  PROVE  Count(r) = IF is_tombstone(r) THEN 0 ELSE r.n
<1>1. [kind |-> "full", n |-> r.n] \in Record
  BY DEF Record, Kinds
<1>2. r # NoRec /\ [kind |-> "full", n |-> r.n] # NoRec
  BY <1>1, NoRecAssumption
<1> QED
  BY <1>2 DEF Count, surface

\* A delta adds its number to what it is laid over; anything else hides it.
LEMMA CountOver ==
  ASSUME NEW k, NEW a, NEW x, IsVersion(k, a), IsVersion(k, x)
  PROVE  /\ a = NoRec => Count(Over(a, x)) = Count(x)
         /\ a # NoRec /\ is_delta(a) => a.n \in Nat /\ Count(Over(a, x)) = Count(x) + a.n
         /\ Base(a) => Over(a, x) = a
<1>1. CASE a = NoRec
  BY <1>1 DEF Over, Base
<1>2. CASE a # NoRec /\ is_delta(a)
  <2>1. a \in Record /\ a.n \in Nat /\ a.kind = "delta"
    BY <1>2 DEF IsVersion, IsRecordOf, Record, is_delta
  <2>2. Over(a, x) = merge_delta(x, a)
    BY <1>2 DEF Over
  <2>3. CASE x = NoRec
    <3>1. Over(a, x) = a
      BY <2>2, <2>3 DEF merge_delta
    <3>2. Count(a) = a.n /\ Count(x) = 0
      BY <2>1, <2>3, CountRecord DEF is_tombstone, Count, surface
    <3> QED
      BY <1>2, <2>1, <3>1, <3>2 DEF Base
  <2>4. CASE x # NoRec
    <3>1. x \in Record /\ x.n \in Nat /\ x.kind \in Kinds
      BY <2>4 DEF IsVersion, IsRecordOf, Record
    <3>2. CASE is_tombstone(x)
      <4>1. Over(a, x) = [kind |-> "full", n |-> a.n]
        BY <2>2, <2>4, <3>2 DEF merge_delta
      <4>2. Over(a, x) \in Record
        BY <2>1, <4>1 DEF Record, Kinds
      <4>3. Count(Over(a, x)) = a.n /\ Count(x) = 0
        BY <3>1, <3>2, <4>1, <4>2, CountRecord DEF is_tombstone
      <4> QED
        BY <1>2, <2>1, <4>3 DEF Base
    <3>3. CASE ~is_tombstone(x)
      <4>1. Over(a, x) = [kind |-> x.kind, n |-> x.n + a.n]
        BY <2>2, <2>4, <3>3 DEF merge_delta
      <4>2. Over(a, x) \in Record
        BY <2>1, <3>1, <4>1 DEF Record
      <4>3. Count(Over(a, x)) = x.n + a.n /\ Count(x) = x.n
        BY <3>1, <3>3, <4>1, <4>2, CountRecord DEF is_tombstone
      <4> QED
        BY <1>2, <2>1, <4>3 DEF Base
    <3> QED
      BY <3>2, <3>3
  <2> QED
    BY <2>3, <2>4
<1>3. CASE Base(a)
  BY <1>3 DEF Base, Over
<1> QED
  BY <1>1, <1>2, <1>3 DEF Base

\* On an ordinary key a version is nothing or hides what is below it.
LEMMA PlainVersion ==
  ASSUME NEW k \in PlainKey, NEW a, IsVersion(k, a)
  PROVE  a = NoRec \/ Base(a)
BY NoRecAssumption DEF IsVersion, IsRecordOf, Base

(***************************************************************************)
(* Keeping                                                                 *)
(***************************************************************************)

\* Keeping is a preorder.
LEMMA KeepsTrans ==
  ASSUME NEW k, NEW x, NEW y, NEW z, IsVersion(k, x), IsVersion(k, y), IsVersion(k, z),
         Keeps(k, x, y), Keeps(k, y, z)
  PROVE  Keeps(k, x, z)
<1>1. Count(x) \in Nat /\ Count(y) \in Nat /\ Count(z) \in Nat
  BY CountType
<1> QED
  BY <1>1 DEF Keeps

\* The same record on top keeps what is kept below.
LEMMA KeepsOver ==
  ASSUME NEW k, NEW a, NEW x, NEW y, IsVersion(k, a), IsVersion(k, x), IsVersion(k, y),
         Keeps(k, x, y)
  PROVE  Keeps(k, Over(a, x), Over(a, y))
<1>1. CASE k \in PlainKey
  BY <1>1 DEF Keeps
<1>2. CASE k \notin PlainKey
  <2>1. Count(x) \in Nat /\ Count(y) \in Nat /\ Count(x) >= Count(y)
    BY <1>2, CountType DEF Keeps
  <2>2. /\ a = NoRec => Count(Over(a, x)) = Count(x) /\ Count(Over(a, y)) = Count(y)
        /\ a # NoRec /\ is_delta(a) => /\ a.n \in Nat /\ Count(Over(a, x)) = Count(x) + a.n
                                      /\ Count(Over(a, y)) = Count(y) + a.n
        /\ Base(a) => Over(a, x) = a /\ Over(a, y) = a
    BY CountOver
  <2>3. a = NoRec \/ (a # NoRec /\ is_delta(a)) \/ Base(a)
    BY Zenon DEF Base
  <2>4. Count(a) \in Nat
    BY CountType
  <2>5. Count(Over(a, x)) >= Count(Over(a, y))
    BY <2>1, <2>2, <2>3, <2>4
  <2> QED
    BY <1>2, <2>5 DEF Keeps
<1> QED
  BY <1>1, <1>2

\* A delta on top loses nothing.
LEMMA KeepsGrow ==
  ASSUME NEW k \in Key, NEW a, NEW x, IsVersion(k, a), IsVersion(k, x), ~Base(a)
  PROVE  Keeps(k, Over(a, x), x)
<1>1. CASE a = NoRec
  BY <1>1, CountType DEF Keeps, Over
<1>2. CASE a # NoRec
  <2>1. k \notin PlainKey /\ is_delta(a)
    BY <1>2, PlainVersion DEF Base
  <2>2. a.n \in Nat /\ Count(Over(a, x)) = Count(x) + a.n /\ Count(x) \in Nat
    BY <1>2, <2>1, CountOver, CountType
  <2> QED
    BY <2>1, <2>2 DEF Keeps
<1> QED
  BY <1>1, <1>2

\* Nor does the same record a second time.
LEMMA KeepsTwice ==
  ASSUME NEW k \in Key, NEW a, NEW x, IsVersion(k, a), IsVersion(k, x)
  PROVE  Keeps(k, Over(a, Over(a, x)), Over(a, x))
<1>1. IsVersion(k, Over(a, x))
  BY VersionOver
<1>2. CASE Base(a)
  <2>1. Over(a, Over(a, x)) = a /\ Over(a, x) = a
    BY <1>1, <1>2, CountOver
  <2> QED
    BY <2>1, CountType DEF Keeps
<1>3. CASE ~Base(a)
  BY <1>1, <1>3, KeepsGrow
<1> QED
  BY <1>2, <1>3

\* Agreeing is keeping, and keeping is agreeing where something may fail.
LEMMA AgreesKeeps ==
  ASSUME NEW k, NEW x, NEW y, IsVersion(k, x)
  PROVE  /\ Agrees(k, x, y) => Keeps(k, x, y)
         /\ Fault # {} => (Agrees(k, x, y) <=> Keeps(k, x, y))
BY CountType DEF Agrees, Keeps

\* The same record on top agrees with what agrees below.
LEMMA AgreesOver ==
  ASSUME NEW k, NEW a, NEW x, NEW y, IsVersion(k, a), IsVersion(k, x), IsVersion(k, y),
         Agrees(k, x, y)
  PROVE  Agrees(k, Over(a, x), Over(a, y))
BY KeepsOver DEF Agrees

(***************************************************************************)
(* Folds that change by one table                                          *)
(***************************************************************************)

\* A table pushed on top of a stack.
LEMMA FoldPush ==
  ASSUME FoldLaws, NEW s, IsStack(s), NEW h \in Nat, \A i \in DOMAIN s : i < h,
         NEW t, IsTable(t), NEW k
  PROVE  Fold(insert(s, h, t), k) = Over(Get(t, k), Fold(s, k))
<1> DEFINE p == insert(s, h, t)
           u == insert(EmptyTable, h, t)
<1>1. /\ DOMAIN p = DOMAIN s \cup {h} /\ p[h] = t /\ \A i \in DOMAIN s : p[i] = s[i]
      /\ DOMAIN u = {h} /\ u[h] = t
  BY EmptyTableType DEF insert, IsStack
<1>2. IsStack(p) /\ IsStack(u)
  BY StackInsertType, EmptyTableType
<1>3. Within(s, k, h) /\ Within(p, k, h) /\ Within(u, k, h)
  BY <1>1, <1>2, StackWithin DEF IsStack
<1> HIDE DEF p, u
<1>4. SplitAt(p, u, s, k, h)
  BY <1>1 DEF At, SplitAt, IsStack
<1>5. Fold(p, k) = Over(Fold(u, k), Fold(s, k))
  BY <1>3, <1>4 DEF FoldLaws, SplitLaw
<1>6. Fold(u, k) = At(u, k, h) /\ At(u, k, h) = Get(t, k)
  BY <1>1, <1>3 DEF FoldLaws, OneLaw, At
<1> QED
  BY <1>5, <1>6 DEF p

\* The lowest table taken out of a stack.
LEMMA FoldBottom ==
  ASSUME FoldLaws, NEW s, IsStack(s), NEW b \in Nat, \A i \in DOMAIN s : i <= b,
         NEW m \in DOMAIN s, \A i \in DOMAIN s : m <= i, NEW k
  PROVE  Fold(s, k) = Over(Fold(Restrict(s, DOMAIN s \ {m}), k), Get(s[m], k))
<1> DEFINE u == Restrict(s, DOMAIN s \ {m})
           l == Restrict(s, {m})
<1>1. /\ DOMAIN u = DOMAIN s \ {m} /\ DOMAIN l = {m} /\ l[m] = s[m]
      /\ \A i \in DOMAIN u : u[i] = s[i]
  BY DEF Restrict
<1>2. IsStack(u) /\ IsStack(l) /\ m \in Nat
  BY StackRestrictType DEF IsStack
<1>3. Within(s, k, b) /\ Within(u, k, b) /\ Within(l, k, b)
  BY <1>1, <1>2, StackWithin
<1> HIDE DEF u, l
<1>4. m + 1 \in Nat
  BY <1>2
<1>5. SplitAt(s, u, l, k, m + 1)
  BY <1>1, <1>2 DEF At, SplitAt, IsStack
<1>6. Fold(s, k) = Over(Fold(u, k), Fold(l, k))
  BY <1>3, <1>4, <1>5 DEF FoldLaws, SplitLaw
<1>7. Fold(l, k) = At(l, k, m) /\ At(l, k, m) = Get(s[m], k)
  BY <1>1, <1>2, <1>3 DEF FoldLaws, OneLaw, At
<1> QED
  BY <1>6, <1>7 DEF u

\* From c up to d the stacks s and t have the records of r and of o;
\* elsewhere they are alike, and r and o have none.
SwapAt(s, t, r, o, k, c, d) ==
  \A i \in Nat : IF c <= i /\ i < d
                 THEN At(s, k, i) = At(r, k, i) /\ At(t, k, i) = At(o, k, i)
                 ELSE At(s, k, i) = At(t, k, i) /\ At(r, k, i) = NoRec /\ At(o, k, i) = NoRec

\* A middle part replaced by one with the same fold.
LEMMA FoldSwap ==
  ASSUME FoldLaws, NEW s, NEW t, NEW r, NEW o, NEW b \in Nat, NEW k, NEW c \in Nat, NEW d \in Nat, c <= d,
         IsStack(s), \A i \in DOMAIN s : i <= b, IsStack(t), \A i \in DOMAIN t : i <= b,
         IsStack(r), \A i \in DOMAIN r : i <= b, IsStack(o), \A i \in DOMAIN o : i <= b,
         SwapAt(s, t, r, o, k, c, d),
         Fold(r, k) = Fold(o, k)
  PROVE  Fold(s, k) = Fold(t, k)
<1> DEFINE u == Restrict(s, {i \in DOMAIN s : i >= d})
           l == Restrict(s, {i \in DOMAIN s : i < c})
           x == Restrict(s, {i \in DOMAIN s : i < d})
           y == Restrict(t, {i \in DOMAIN t : i < d})
<1>1. /\ DOMAIN u = {i \in DOMAIN s : i >= d} /\ \A i \in DOMAIN u : u[i] = s[i]
      /\ DOMAIN l = {i \in DOMAIN s : i < c} /\ \A i \in DOMAIN l : l[i] = s[i]
      /\ DOMAIN x = {i \in DOMAIN s : i < d} /\ \A i \in DOMAIN x : x[i] = s[i]
      /\ DOMAIN y = {i \in DOMAIN t : i < d} /\ \A i \in DOMAIN y : y[i] = t[i]
  BY DEF Restrict
<1>2. IsStack(u) /\ IsStack(l) /\ IsStack(x) /\ IsStack(y)
  BY StackRestrictType
<1> HIDE DEF u, l, x, y
<1>3. Within(u, k, b) /\ Within(l, k, b) /\ Within(x, k, b) /\ Within(y, k, b)
  BY <1>1, <1>2, StackWithin
<1>4. Within(s, k, b) /\ Within(t, k, b) /\ Within(r, k, b) /\ Within(o, k, b)
  BY StackWithin, ZenonT(30)
<1>5. \A i \in Nat : /\ At(u, k, i) = IF i < d THEN NoRec ELSE At(s, k, i)
                     /\ At(l, k, i) = IF i < c THEN At(s, k, i) ELSE NoRec
                     /\ At(x, k, i) = IF i < d THEN At(s, k, i) ELSE NoRec
                     /\ At(y, k, i) = IF i < d THEN At(t, k, i) ELSE NoRec
  BY <1>1 DEF At
<1>6. Fold(s, k) = Over(Fold(u, k), Fold(x, k))
  <2>1. SplitAt(s, u, x, k, d)
    BY <1>5 DEF SplitAt, SwapAt
  <2> QED
    BY <1>3, <1>4, <2>1 DEF FoldLaws, SplitLaw
<1>7. Fold(t, k) = Over(Fold(u, k), Fold(y, k))
  <2>1. SplitAt(t, u, y, k, d)
    BY <1>5 DEF SplitAt, SwapAt
  <2> QED
    BY <1>3, <1>4, <2>1 DEF FoldLaws, SplitLaw
<1>8. Fold(x, k) = Over(Fold(r, k), Fold(l, k))
  <2>1. SplitAt(x, r, l, k, c)
    BY <1>5 DEF SplitAt, SwapAt
  <2> QED
    BY <1>3, <1>4, <2>1 DEF FoldLaws, SplitLaw
<1>9. Fold(y, k) = Over(Fold(o, k), Fold(l, k))
  <2>1. SplitAt(y, o, l, k, c)
    BY <1>5 DEF SplitAt, SwapAt
  <2> QED
    BY <1>3, <1>4, <2>1 DEF FoldLaws, SplitLaw
<1> QED
  BY <1>6, <1>7, <1>8, <1>9

(***************************************************************************)
(* The versions of a key in the engine                                     *)
(***************************************************************************)

\* The two stacks of memtables and logs are no higher than the current WAL.
LEMMA LogBounds ==
  ASSUME Shape
  PROVE  /\ IsStack(frozen) /\ IsStack(wals) /\ walSeq \in Nat
         /\ \A w \in DOMAIN frozen : w <= walSeq
         /\ \A w \in DOMAIN wals : w <= walSeq
<1>1. /\ IsStack(frozen) /\ IsStack(wals) /\ walSeq \in Nat
      /\ \A w \in DOMAIN wals : w <= walSeq
  BY DEF Shape, TypeOK, WalOrder
<1>2. CASE Running
  <2>1. (\A w \in DOMAIN frozen : w < WalEdge) /\ WalEdge \in {walSeq, walSeq - 1}
    BY <1>2 DEF Shape, WalOrder, WalEdge
  <2>2. DOMAIN frozen \subseteq Nat
    BY <1>1 DEF IsStack
  <2>3. \A w \in DOMAIN frozen : w <= walSeq
    BY <1>1, <2>1, <2>2
  <2> QED
    BY <1>1, <2>3
<1>3. CASE ~Running
  <2>1. DOMAIN frozen = {}
    BY <1>3 DEF Shape, Control, Running
  <2> QED
    BY <1>1, <2>1
<1> QED
  BY <1>2, <1>3

\* The stacks of the two manifests.
LEMMA SegBounds ==
  ASSUME Shape, NEW man \in {manifest, disk}
  PROVE  /\ IsStack(SegStack(man)) /\ man.next \in Nat
         /\ \A i \in DOMAIN SegStack(man) : i <= man.next
<1>1. IsManifest(man) /\ ManifestCorrect(man) /\ IsStack(files)
  BY DEF Shape, TypeOK, SegmentsCorrect
<1> QED
  BY <1>1 DEF SegStack, IsStack, IsManifest, ManifestCorrect

\* What is held of a key anywhere is a version of it.
LEMMA KeyVersions ==
  ASSUME FoldLaws, Shape, NEW k \in Key
  PROVE  /\ IsVersion(k, Get(mem, k)) /\ IsVersion(k, Get(taken, k)) /\ IsVersion(k, Get(batch, k))
         /\ IsVersion(k, Fold(frozen, k)) /\ IsVersion(k, Held(k)) /\ IsVersion(k, HeldAbove(k))
         /\ \A S \in SUBSET DOMAIN frozen : IsVersion(k, Fold(Restrict(frozen, S), k))
         /\ IsVersion(k, Fold(SegStack(manifest), k)) /\ IsVersion(k, Fold(SegStack(disk), k))
         /\ IsVersion(k, Fold(wals, k)) /\ (Running => IsVersion(k, OldLog(k)))
         /\ IsVersion(k, acked[k])
         /\ \A w \in DOMAIN frozen : IsVersion(k, Get(frozen[w], k))
<1>1. IsTable(mem) /\ IsTable(taken) /\ IsTable(batch) /\ IsTable(recovered)
      /\ IsVersion(k, acked[k])
  BY DEF Shape, TypeOK, IsVersion
<1>2. /\ IsVersion(k, Get(mem, k)) /\ IsVersion(k, Get(taken, k)) /\ IsVersion(k, Get(batch, k))
      /\ IsVersion(k, Get(recovered, k))
  BY <1>1, VersionGet
<1>3. /\ IsStack(frozen) /\ IsStack(wals) /\ walSeq \in Nat
      /\ \A w \in DOMAIN frozen : w <= walSeq
      /\ \A w \in DOMAIN wals : w <= walSeq
  BY LogBounds
<1>4. /\ IsVersion(k, Fold(frozen, k)) /\ IsVersion(k, Fold(wals, k))
  BY <1>3, VersionFold
<1>5. ASSUME NEW S \in SUBSET DOMAIN frozen
      PROVE  IsVersion(k, Fold(Restrict(frozen, S), k))
  <2>1. IsStack(Restrict(frozen, S)) /\ DOMAIN Restrict(frozen, S) = S
    BY <1>3, StackRestrictType DEF Restrict
  <2> QED
    BY <1>3, <2>1, VersionFold
<1>6. ASSUME Running PROVE IsVersion(k, OldLog(k))
  <2>1. oldWals \subseteq DOMAIN wals
    BY <1>6 DEF Shape, WalOrder
  <2>2. IsStack(Restrict(wals, oldWals)) /\ DOMAIN Restrict(wals, oldWals) = oldWals
    BY <1>3, <2>1, StackRestrictType DEF Restrict
  <2> QED
    BY <1>3, <2>1, <2>2, VersionFold DEF OldLog
<1>7. IsVersion(k, Fold(SegStack(manifest), k)) /\ IsVersion(k, Fold(SegStack(disk), k))
  BY SegBounds, VersionFold
<1>8. IsVersion(k, Held(k))
  BY <1>2, <1>4, VersionOver DEF Held
<1>9. IsVersion(k, HeldAbove(k))
  BY <1>2, <1>5, VersionOver DEF HeldAbove
<1>10. \A w \in DOMAIN frozen : IsVersion(k, Get(frozen[w], k))
  BY <1>3, VersionGet DEF IsStack
<1> QED
  BY <1>1, <1>2, <1>4, <1>5, <1>6, <1>7, <1>8, <1>9, <1>10, ZenonT(30)

\* Grouping, for versions of a key.
LEMMA Regroup ==
  ASSUME FoldLaws, NEW k, NEW a, NEW b, NEW c, IsVersion(k, a), IsVersion(k, b), IsVersion(k, c)
  PROVE  Over(Over(a, b), c) = Over(a, Over(b, c))
BY VersionType DEF FoldLaws, GroupLaw

\* Nothing over a version, and a version over nothing.
LEMMA Nothing ==
  ASSUME NEW k, NEW a, IsVersion(k, a)
  PROVE  Over(NoRec, a) = a /\ Over(a, NoRec) = a
BY VersionType, NoRecAssumption DEF Version, Over, merge_delta

\* A version over four below it, in either grouping.
LEMMA RegroupHeld ==
  ASSUME FoldLaws, NEW k, NEW m, NEW t, NEW f, NEW s,
         IsVersion(k, m), IsVersion(k, t), IsVersion(k, f), IsVersion(k, s)
  PROVE  Over(Over(m, Over(t, f)), s) = Over(m, Over(t, Over(f, s)))
<1>1. IsVersion(k, Over(t, f))
  BY VersionOver
<1>2. Over(Over(m, Over(t, f)), s) = Over(m, Over(Over(t, f), s))
  BY <1>1, Regroup
<1>3. Over(Over(t, f), s) = Over(t, Over(f, s))
  BY Regroup
<1> QED
  BY <1>2, <1>3

(***************************************************************************)
(* The segments, whatever fails                                            *)
(***************************************************************************)

\* File numbers only go up, a file never changes, and only a manifest swap
\* dooms one.
Onward ==
  /\ manifest.next \in Nat /\ manifest'.next \in Nat /\ manifest.next <= manifest'.next
  /\ \A f : Doomed(f)' => Doomed(f) \/ (mpc = "merging" /\ mpc' = "swapped")
  /\ \A f \in DOMAIN files' : f < manifest.next => f \in DOMAIN files /\ files'[f] = files[f]

\* A step that leaves the manifests and the segment files alone.
LEMMA SegKept ==
  ASSUME SegInv, UNCHANGED <<manifest, files, disk>>,
         UNCHANGED <<mpc, job>> \/ mpc' \notin {"written", "merging", "swapped"}
  PROVE  SegInv' /\ Onward
<1>1. ManifestCorrect(manifest)' /\ ManifestCorrect(disk)'
  BY DEF SegInv, ManifestCorrect
<1>2. SegInv'
  BY <1>1 DEF SegInv, FlushNumbers, CompactNumbers, IsManifest
<1>3. manifest.next \in Nat /\ manifest'.next = manifest.next
  BY DEF SegInv, IsManifest
<1> QED
  BY <1>2, <1>3 DEF Onward, Doomed

\* A chunk without an id that is not written: its two numbers are not used.
LEMMA SegSurplusFails ==
  ASSUME SegInv, CompactSurplusFails
  PROVE  SegInv' /\ Onward
<1>1. /\ manifest' = AllocatedTwo /\ UNCHANGED <<files, disk>> /\ mpc' = "idle"
  BY DEF CompactSurplusFails, segVars
<1>2. /\ IsManifest(manifest)' /\ manifest'.segs = manifest.segs /\ manifest.next \in Nat
      /\ manifest'.next = manifest.next + 2 /\ disk'.next <= manifest'.next
  BY <1>1 DEF SegInv, AllocatedTwo, IsManifest
<1>3. ManifestCorrect(manifest)' /\ ManifestCorrect(disk)'
  BY <1>1, <1>2 DEF SegInv, ManifestCorrect, IsManifest
<1>4. SegInv'
  BY <1>1, <1>2, <1>3 DEF SegInv, FlushNumbers, CompactNumbers, IsManifest
<1> QED
  BY <1>1, <1>2, <1>4 DEF Onward, Doomed

\* A number that is taken and not used, by a failed segment write.
LEMMA SegAllocate ==
  ASSUME SegInv, manifest' = Allocated, UNCHANGED <<files, disk>>,
         (UNCHANGED <<mpc, job>> /\ mpc = "idle") \/ mpc' = "idle"
  PROVE  SegInv' /\ Onward
<1>1. SegInv'
  BY AllocateKept, ZenonT(30) DEF SegInv, FlushNumbers, CompactNumbers, segVars
<1>2. /\ manifest.next \in Nat /\ manifest'.next \in Nat /\ manifest.next <= manifest'.next
      /\ DOMAIN files' = DOMAIN files
  BY AllocateKept DEF SegInv, IsManifest, segVars
<1> QED
  BY <1>1, <1>2 DEF Onward, Doomed

\* A segment written to a fresh file.
LEMMA FreshOnward ==
  ASSUME SegInv, NEW t, files' = insert(files, manifest.next, t), disk' = disk,
         manifest' = Allocated, mpc' # "swapped"
  PROVE  Onward
<1>1. /\ DOMAIN files' = DOMAIN files \cup {manifest.next}
      /\ \A f \in DOMAIN files : f < manifest.next => files'[f] = files[f]
      /\ manifest'.next = manifest.next + 1 /\ manifest.next \in Nat
  BY FreshFile DEF SegInv, IsManifest
<1> QED
  BY <1>1 DEF Onward, Doomed

\* The process ends: the stored manifest is the one that counts.
LEMMA SegLose ==
  ASSUME SegInv, Lose
  PROVE  SegInv'
<1>1. /\ manifest' = disk /\ disk' = disk /\ files' = files /\ mpc' = "idle"
  BY DEF Lose, segVars
<1>2. ManifestCorrect(manifest)' /\ ManifestCorrect(disk)'
  BY <1>1 DEF SegInv, ManifestCorrect
<1> QED
  BY <1>1, <1>2 DEF SegInv, FlushNumbers, CompactNumbers, IsManifest

\* The segments of a fresh store.
LEMMA SegStart == ASSUME Init PROVE SegInv
<1>1. manifest = EmptyManifest /\ disk = EmptyManifest /\ mpc = "idle"
  BY DEF Init
<1>2. IsManifest(EmptyManifest) /\ EmptyManifest.next = 0 /\ DOMAIN EmptyManifest.segs = {}
  BY EmptyTableType DEF IsManifest, EmptyManifest
<1>3. ManifestCorrect(EmptyManifest)
  BY <1>2 DEF ManifestCorrect
<1>4. FlushNumbers /\ CompactNumbers
  BY <1>1 DEF FlushNumbers, CompactNumbers
<1> QED
  BY <1>1, <1>2, <1>3, <1>4 DEF SegInv

\* A segment write of flush_pending takes a number above all others.
LEMMA SegFlushWrite ==
  ASSUME SegInv, FlushWrite
  PROVE  SegInv' /\ Onward
<1> DEFINE w == Min(DOMAIN frozen)
<1>1. /\ mpc' = "written" /\ disk' = disk /\ manifest' = Allocated
      /\ files' = insert(files, manifest.next, frozen[w])
      /\ job' = [NoJob EXCEPT !.wal = w, !.file = manifest.next]
  BY DEF FlushWrite
<1> HIDE DEF w
<1>2. /\ DOMAIN files' = DOMAIN files \cup {manifest.next}
      /\ IsManifest(manifest)'
      /\ manifest'.segs = manifest.segs /\ manifest'.next = manifest.next + 1
      /\ disk'.next <= manifest'.next
      /\ ManifestCorrect(manifest)' /\ ManifestCorrect(disk)'
  BY <1>1, FreshFile
<1>3. job'.file = manifest.next
  BY <1>1 DEF NoJob
<1>4. SegInv'
  BY <1>1, <1>2, <1>3 DEF SegInv, FlushNumbers, CompactNumbers, ManifestCorrect, IsManifest
<1> QED
  BY <1>1, <1>4, FreshOnward

\* The manifest swap of a flush, stored or not.
LEMMA SegFlushStore ==
  ASSUME SegInv, mpc = "written", manifest' = Flushed, files' = files,
         disk' = disk \/ disk' = manifest', mpc' \in {"stored", "idle"}
  PROVE  SegInv' /\ Onward
<1>1. IsManifest(manifest)' /\ ManifestCorrect(manifest)' /\ manifest'.next = manifest.next
  BY FlushedNumbers
<1>2. IsManifest(disk)' /\ ManifestCorrect(disk)' /\ disk'.next <= manifest'.next
  BY <1>1 DEF SegInv, ManifestCorrect, IsManifest
<1>3. SegInv'
  BY <1>1, <1>2 DEF SegInv, FlushNumbers, CompactNumbers
<1> QED
  BY <1>1, <1>3 DEF Onward, Doomed, IsManifest

\* A chunk of compact_run takes a number above all others; its id is one of
\* the run.
LEMMA SegCompactChunk ==
  ASSUME SegInv, NEW id \in job.run, NEW ks \in SUBSET DOMAIN job.left, CompactChunk(id, ks)
  PROVE  SegInv' /\ Onward
<1> DEFINE t == Restrict(job.left, ks)
<1>1. /\ mpc = "merging" /\ mpc' = "merging" /\ disk' = disk /\ manifest' = Allocated
      /\ files' = insert(files, manifest.next, t) /\ \A i \in DOMAIN job.out : i < id
      /\ job' = [job EXCEPT !.out = insert(@, id, manifest.next),
                            !.left = Restrict(@, DOMAIN @ \ ks)]
  BY DEF CompactChunk
<1> HIDE DEF t
<1>2. /\ DOMAIN files' = DOMAIN files \cup {manifest.next}
      /\ IsManifest(manifest)'
      /\ manifest'.segs = manifest.segs /\ manifest'.next = manifest.next + 1
      /\ disk'.next <= manifest'.next
      /\ ManifestCorrect(manifest)' /\ ManifestCorrect(disk)'
  BY <1>1, FreshFile
<1>3. job'.run = job.run /\ job'.out = insert(job.out, id, manifest.next)
  BY <1>1
<1>4. /\ DOMAIN job'.out = DOMAIN job.out \cup {id} /\ job'.out[id] = manifest.next
      /\ \A i \in DOMAIN job.out : job'.out[i] = job.out[i]
  <2>1. \A i \in DOMAIN job.out : i # id
    BY <1>1 DEF SegInv, IsManifest, CompactNumbers
  <2> QED
    BY <1>3, <2>1 DEF insert
<1>5. /\ \A j \in DOMAIN manifest.segs : manifest.segs[j] \in Nat /\ manifest.segs[j] < manifest.next
      /\ id \in Nat /\ id < manifest.next
  BY <1>1 DEF SegInv, ManifestCorrect, IsManifest, CompactNumbers
<1>6. CompactNumbers'
  BY <1>1, <1>2, <1>3, <1>4, <1>5 DEF SegInv, CompactNumbers, IsManifest
<1>7. SegInv'
  BY <1>1, <1>2, <1>6 DEF SegInv, FlushNumbers
<1> QED
  BY <1>1, <1>7, FreshOnward

\* A chunk for which the run has no id left takes an id and a file number,
\* both above all others.
LEMMA SegCompactSurplus ==
  ASSUME SegInv, NEW ks \in SUBSET DOMAIN job.left, CompactSurplus(ks)
  PROVE  SegInv' /\ Onward
<1> DEFINE t == Restrict(job.left, ks)
           n == manifest.next
<1>1. /\ mpc = "merging" /\ mpc' = "merging" /\ disk' = disk /\ manifest' = AllocatedTwo
      /\ files' = insert(files, n + 1, t) /\ job'.run = job.run
      /\ job'.out = insert(job.out, n, n + 1)
  BY DEF CompactSurplus
<1> HIDE DEF t
<1>2. /\ IsManifest(manifest)' /\ manifest'.segs = manifest.segs /\ manifest'.next = n + 2
      /\ n \in Nat /\ disk'.next <= manifest'.next
  BY <1>1 DEF SegInv, AllocatedTwo, IsManifest
<1>3. /\ DOMAIN files' = DOMAIN files \cup {n + 1}
      /\ \A f \in DOMAIN files : f # n + 1 => files'[f] = files[f]
  BY <1>1, Zenon DEF insert
<1>4. ManifestCorrect(manifest)' /\ ManifestCorrect(disk)'
  BY <1>1, <1>2, <1>3 DEF SegInv, ManifestCorrect, IsManifest
<1>5. /\ DOMAIN job'.out = DOMAIN job.out \cup {n} /\ job'.out[n] = n + 1
      /\ \A i \in DOMAIN job.out : job'.out[i] = job.out[i]
  <2>1. \A i \in DOMAIN job.out : i # n
    BY <1>1, <1>2 DEF SegInv, CompactNumbers
  <2> QED
    BY <1>1, <2>1 DEF insert
<1>6. \A j \in DOMAIN manifest.segs : manifest.segs[j] \in Nat /\ manifest.segs[j] < n
  BY DEF SegInv, ManifestCorrect, IsManifest
<1>7. \A i \in DOMAIN job.out :
        /\ i \in Nat /\ i < n /\ job.out[i] \in Nat
        /\ job.out[i] \in DOMAIN files /\ job.out[i] < n
        /\ \A j \in DOMAIN job.out : job.out[i] = job.out[j] => i = j
        /\ \A j \in DOMAIN manifest.segs : manifest.segs[j] # job.out[i]
  BY <1>1 DEF SegInv, CompactNumbers
<1>8. job.run \subseteq DOMAIN manifest.segs
  BY <1>1 DEF SegInv, CompactNumbers
<1> HIDE DEF n
<1>9. \A i \in DOMAIN job'.out :
        /\ i \in Nat /\ i < manifest'.next /\ job'.out[i] \in Nat
        /\ job'.out[i] \in DOMAIN files' /\ job'.out[i] < manifest'.next
        /\ \A j \in DOMAIN job'.out : job'.out[i] = job'.out[j] => i = j
        /\ \A j \in DOMAIN manifest'.segs : manifest'.segs[j] # job'.out[i]
  BY <1>2, <1>3, <1>5, <1>6, <1>7
<1>10. SegInv'
  BY <1>1, <1>2, <1>4, <1>8, <1>9 DEF SegInv, FlushNumbers, CompactNumbers, IsManifest
<1>11. \A f \in DOMAIN files' : f < n => f \in DOMAIN files /\ files'[f] = files[f]
  BY <1>2, <1>3
<1>12. \A f : Doomed(f)' => Doomed(f)
  BY <1>1, <1>3 DEF Doomed
<1>13. manifest.next \in Nat /\ manifest'.next \in Nat /\ manifest.next <= manifest'.next
  BY <1>2 DEF n
<1> QED
  BY <1>10, <1>11, <1>12, <1>13, Zenon DEF Onward, n

\* The manifest swap of a compaction, stored or not: what it takes out of the
\* manifest is listed no more.
LEMMA SegCompactStore ==
  ASSUME SegInv, mpc = "merging", manifest' = Swapped, files' = files,
         \/ disk' = disk /\ mpc' = "idle"
         \/ /\ disk' = manifest' /\ mpc' = "swapped"
            /\ job' = [NoJob EXCEPT !.drop = {manifest.segs[i] : i \in job.run}]
  PROVE  SegInv' /\ Onward
<1>1. /\ IsManifest(manifest)' /\ ManifestCorrect(manifest)' /\ manifest'.next = manifest.next
      /\ \A i \in DOMAIN manifest'.segs : \A r \in job.run : manifest'.segs[i] # manifest.segs[r]
  BY SwappedFacts
<1>2. IsManifest(disk)' /\ ManifestCorrect(disk)' /\ disk'.next <= manifest'.next
  BY <1>1 DEF SegInv, ManifestCorrect, IsManifest
<1>3. CompactNumbers'
  BY <1>1 DEF CompactNumbers, NoJob
<1>4. SegInv'
  BY <1>1, <1>2, <1>3 DEF SegInv, FlushNumbers
<1> QED
  BY <1>1, <1>4 DEF Onward, Doomed, IsManifest

\* Deleting an input file: no manifest names it.
LEMMA SegCompactDrop ==
  ASSUME SegInv, NEW f \in job.drop, CompactDrop(f)
  PROVE  SegInv' /\ Onward
<1>1. /\ mpc = "swapped" /\ mpc' \in {"idle", "swapped"} /\ UNCHANGED <<manifest, disk>>
      /\ files' = Restrict(files, DOMAIN files \ {f})
      /\ job' = [job EXCEPT !.drop = @ \ {f}]
  BY DEF CompactDrop
<1>2. DOMAIN files' = DOMAIN files \ {f} /\ \A x \in DOMAIN files' : files'[x] = files[x]
  BY <1>1 DEF Restrict
<1>3. disk = manifest /\ \A i \in DOMAIN manifest.segs : manifest.segs[i] \notin job.drop
  BY <1>1 DEF SegInv, CompactNumbers
<1>4. job'.drop = job.drop \ {f}
  BY <1>1
<1>5. ManifestCorrect(manifest)' /\ ManifestCorrect(disk)'
  BY <1>1, <1>2, <1>3, ZenonT(60) DEF SegInv, ManifestCorrect
<1>6. SegInv'
  BY <1>1, <1>3, <1>4, <1>5 DEF SegInv, FlushNumbers, CompactNumbers
<1>7. manifest.next \in Nat /\ manifest'.next = manifest.next
  BY <1>1, Zenon DEF SegInv, IsManifest
<1>8. manifest.next <= manifest'.next
  BY <1>7
<1>9. \A x : Doomed(x)' => Doomed(x)
  BY <1>1, <1>2, <1>4, Zenon DEF Doomed
<1>10. \A x \in DOMAIN files' : x \in DOMAIN files /\ files'[x] = files[x]
  BY <1>2, Zenon
<1> QED
  BY <1>6, <1>7, <1>8, <1>9, <1>10, Zenon DEF Onward

\* A compaction that picks its run changes no segment.
LEMMA SegCompactMerge ==
  ASSUME SegInv, NEW run \in SUBSET DOMAIN manifest.segs, CompactMerge(run)
  PROVE  SegInv' /\ Onward
<1>1. UNCHANGED <<manifest, files, disk>> /\ mpc' = "merging"
      /\ job' = [NoJob EXCEPT !.run = run, !.left = Merged(run)]
  BY DEF CompactMerge, segVars
<1>2. job'.run = run /\ DOMAIN job'.out = {}
  BY <1>1, EmptyTableType DEF NoJob
<1>3. ManifestCorrect(manifest)' /\ ManifestCorrect(disk)'
  BY <1>1 DEF SegInv, ManifestCorrect
<1>4. SegInv'
  BY <1>1, <1>2, <1>3 DEF SegInv, FlushNumbers, CompactNumbers
<1> QED
  BY <1>1, <1>4 DEF SegInv, IsManifest, Onward, Doomed

\* No step of the engine, and no fault, breaks the segments.
LEMMA SegStep ==
  ASSUME SegInv, Next
  PROVE  SegInv' /\ (phase = "up" /\ phase' = "up" => Onward)
<1>1. CASE Writer
  <2>1. UNCHANGED <<manifest, files, disk, mpc, job>>
    BY <1>1, Zenon DEF Writer, PutFrame, IncrFrame, AppendFails, Apply, FreezeTake, FreezeFails,
                       FreezePush, maintVars, segVars
  <2> QED
    BY <2>1, SegKept
<1>2. CASE Maintenance
  <2>1. CASE FlushWriteFails \/ CompactFails
    <3>1. manifest' = Allocated /\ UNCHANGED <<files, disk>>
          /\ ((UNCHANGED <<mpc, job>> /\ mpc = "idle") \/ mpc' = "idle")
      BY <2>1, Zenon DEF FlushWriteFails, CompactFails, segVars
    <3> QED
      BY <3>1, SegAllocate, Zenon
  <2>2. CASE FlushStore \/ FlushStoreFails
    <3>1. mpc = "written" /\ manifest' = Flushed /\ files' = files
          /\ (disk' = disk \/ disk' = manifest') /\ mpc' \in {"stored", "idle"}
      BY <2>2 DEF FlushStore, FlushStoreFails, segVars
    <3> QED
      BY <3>1, SegFlushStore, Zenon
  <2>3. CASE FlushUnlink \/ FlushPop
    <3>1. UNCHANGED <<manifest, files, disk>> /\ mpc' \notin {"written", "merging", "swapped"}
      BY <2>3 DEF FlushUnlink, FlushPop, segVars
    <3> QED
      BY <3>1, SegKept, Zenon
  <2>4. CASE CompactStore \/ CompactStoreFails
    <3>1. /\ mpc = "merging" /\ manifest' = Swapped /\ files' = files
          /\ \/ disk' = disk /\ mpc' = "idle"
             \/ /\ disk' = manifest' /\ mpc' = "swapped"
                /\ job' = [NoJob EXCEPT !.drop = {manifest.segs[i] : i \in job.run}]
      BY <2>4, Zenon DEF CompactStore, CompactStoreFails, segVars
    <3> QED
      BY <3>1, SegCompactStore, Zenon
  <2> QED
    BY <1>2, <2>1, <2>2, <2>3, <2>4, SegFlushWrite, SegCompactMerge, SegCompactChunk, SegCompactDrop,
       SegCompactSurplus, SegSurplusFails, Zenon DEF Maintenance
<1>3. CASE Lifecycle
  <2>1. phase # "up" \/ phase' # "up"
    BY <1>3, Zenon DEF Lifecycle, Close, Crash, Open, RecoverFrame, RecoverApply, Settled, OpenFails,
                       DropOldWal, Lose
  <2>2. CASE Close \/ Crash \/ OpenFails
    BY <2>1, <2>2, SegLose, Zenon DEF Close, Crash, OpenFails
  <2>3. CASE ~(Close \/ Crash \/ OpenFails)
    <3>1. UNCHANGED <<manifest, files, disk, mpc, job>>
      BY <1>3, <2>3, Zenon DEF Lifecycle, Open, RecoverFrame, RecoverApply, Settled, DropOldWal,
                               maintVars, segVars
    <3> QED
      BY <3>1, SegKept
  <2> QED
    BY <2>2, <2>3
<1> QED
  BY <1>1, <1>2, <1>3 DEF Next

(***************************************************************************)
(* What a step leaves alone of a key                                       *)
(***************************************************************************)

\* The logs match memory as long as neither changes.
LEMMA KeyLoggedKept ==
  ASSUME NEW k, KeyLogged(k), UNCHANGED <<writerVars, frozen, wals>>, mpc # "unlinked"
  PROVE  KeyLogged(k)'
BY Zenon DEF KeyLogged, WalEdge, writerVars

\* So do what was replayed and the old logs.
LEMMA KeyReplayedKept ==
  ASSUME NEW k, KeyReplayed(k), UNCHANGED <<openVars, batch, wals, acked>>
  PROVE  KeyReplayed(k)'
<1>1. OldLog(k)' = OldLog(k)
  BY DEF OldLog, openVars
<1> QED
  BY <1>1, Zenon DEF KeyReplayed, openVars

\* A compaction in progress stays as it is when only the writer moves.
LEMMA KeyMergedKept ==
  ASSUME NEW k, KeyMerged(k), UNCHANGED <<maintVars, segVars>>
  PROVE  KeyMerged(k)'
<1>1. RunStack' = RunStack /\ OutStack' = OutStack
  BY Zenon DEF RunStack, OutStack, SegStack, maintVars, segVars
<1> QED
  BY <1>1 DEF KeyMerged, maintVars

\* A record that reaches memory and is acknowledged in one step.
LEMMA KeyLiveOver ==
  ASSUME FoldLaws, Shape, NEW k \in Key, KeyLive(k), NEW r, IsVersion(k, r),
         UNCHANGED <<maintVars, segVars>>, Held(k)' = Over(r, Held(k)),
         mpc \in {"stored", "unlinked"} => HeldAbove(k)' = Over(r, HeldAbove(k)),
         acked'[k] = Over(r, acked[k])
  PROVE  KeyLive(k)'
<1>1. /\ IsVersion(k, Held(k)) /\ IsVersion(k, HeldAbove(k)) /\ IsVersion(k, acked[k])
      /\ \A man \in {manifest, disk} : IsVersion(k, Fold(SegStack(man), k))
  BY KeyVersions, Zenon
<1>2. mpc' = mpc /\ manifest' = manifest /\ disk' = disk /\ SegStack(manifest)' = SegStack(manifest)
      /\ SegStack(disk)' = SegStack(disk)
  BY Zenon DEF maintVars, segVars, SegStack
<1>3. ASSUME NEW s, IsVersion(k, s)
      PROVE  /\ Over(Held(k)', s) = Over(r, Over(Held(k), s))
             /\ mpc \in {"stored", "unlinked"} =>
                  Over(HeldAbove(k)', s) = Over(r, Over(HeldAbove(k), s))
             /\ IsVersion(k, Over(Held(k), s)) /\ IsVersion(k, Over(HeldAbove(k), s))
  <2>1. IsVersion(k, Held(k)) /\ IsVersion(k, HeldAbove(k)) /\ IsVersion(k, s)
    BY <1>1, <1>3, ZenonT(30)
  <2>2. /\ Over(Over(r, Held(k)), s) = Over(r, Over(Held(k), s))
        /\ Over(Over(r, HeldAbove(k)), s) = Over(r, Over(HeldAbove(k), s))
    BY <2>1, Regroup
  <2> QED
    BY <2>1, <2>2, VersionOver, Zenon
<1>4. ASSUME mpc \notin {"stored", "unlinked"}, NEW man \in {manifest, disk}
      PROVE  Agrees(k, Over(Held(k)', Fold(SegStack(man), k)), acked'[k])
  <2>1. /\ IsVersion(k, Fold(SegStack(man), k)) /\ IsVersion(k, Over(Held(k), Fold(SegStack(man), k)))
        /\ Over(Held(k)', Fold(SegStack(man), k)) = Over(r, Over(Held(k), Fold(SegStack(man), k)))
    BY <1>1, <1>3, Zenon
  <2>2. Agrees(k, Over(Held(k), Fold(SegStack(man), k)), acked[k])
    BY <1>4, Zenon DEF KeyLive
  <2>3. Agrees(k, Over(r, Over(Held(k), Fold(SegStack(man), k))), Over(r, acked[k]))
    BY <1>1, <2>1, <2>2, AgreesOver, Zenon
  <2> QED
    BY <2>1, <2>3, Zenon
<1>5. ASSUME mpc \in {"stored", "unlinked"}
      PROVE  /\ Keeps(k, Over(Held(k)', Fold(SegStack(manifest), k)), acked'[k])
             /\ Agrees(k, Over(HeldAbove(k)', Fold(SegStack(manifest), k)), acked'[k])
  <2> DEFINE F == Fold(SegStack(manifest), k)
  <2>1. IsVersion(k, F) /\ IsVersion(k, Over(Held(k), F)) /\ IsVersion(k, Over(HeldAbove(k), F))
    BY <1>1, <1>3, Zenon
  <2>2. /\ Over(Held(k)', F) = Over(r, Over(Held(k), F))
        /\ Over(HeldAbove(k)', F) = Over(r, Over(HeldAbove(k), F))
    BY <1>3, <1>5, <2>1, Zenon
  <2>3. Keeps(k, Over(Held(k), F), acked[k]) /\ Agrees(k, Over(HeldAbove(k), F), acked[k])
    BY <1>5, Zenon DEF KeyLive
  <2> HIDE DEF F
  <2>4. Keeps(k, Over(r, Over(Held(k), F)), Over(r, acked[k]))
    BY <1>1, <2>1, <2>3, KeepsOver, Zenon
  <2>5. Agrees(k, Over(r, Over(HeldAbove(k), F)), Over(r, acked[k]))
    BY <1>1, <2>1, <2>3, AgreesOver, Zenon
  <2> QED
    BY <2>2, <2>4, <2>5, Zenon DEF F
<1> QED
  BY <1>2, <1>4, <1>5, Zenon DEF KeyLive

\* Memory that holds the same of k in other tables.
LEMMA KeyLiveKept ==
  ASSUME FoldLaws, Shape, NEW k \in Key, KeyLive(k),
         UNCHANGED <<maintVars, segVars>>, Held(k)' = Held(k),
         mpc \in {"stored", "unlinked"} => HeldAbove(k)' = HeldAbove(k),
         acked'[k] = acked[k]
  PROVE  KeyLive(k)'
<1>1. IsVersion(k, NoRec) /\ \A x : Over(NoRec, x) = x
  BY DEF IsVersion, Over
<1> QED
  BY <1>1, KeyLiveOver, Zenon

(***************************************************************************)
(* What a flush and a compaction do to the fold of the segments            *)
(***************************************************************************)

\* The segment that a flush enters into the manifest lies over the others.
LEMMA FlushedFold ==
  ASSUME FoldLaws, Shape, mpc = "written", manifest' = Flushed, files' = files, NEW k
  PROVE  /\ job.wal \in DOMAIN frozen
         /\ Fold(SegStack(manifest)', k) = Over(Get(frozen[job.wal], k), Fold(SegStack(manifest), k))
<1>1. /\ IsManifest(manifest) /\ IsStack(files) /\ IsStack(frozen)
      /\ files[job.file] = frozen[job.wal] /\ job.wal \in DOMAIN frozen /\ job.file \in Nat
  BY Zenon DEF Shape, TypeOK, SegmentsCorrect, FlushCorrect, Control
<1>2. /\ DOMAIN manifest'.segs = DOMAIN manifest.segs \cup {job.file}
      /\ manifest'.segs[job.file] = job.file
      /\ \A i \in DOMAIN manifest.segs : manifest'.segs[i] = manifest.segs[i] /\ i < job.file
  BY SegmentNumbers, FlushedNumbers
<1>3. SegStack(manifest)' = insert(SegStack(manifest), job.file, frozen[job.wal])
  <2>1. DOMAIN SegStack(manifest) = DOMAIN manifest.segs
    BY DEF SegStack
  <2>2. SegStack(manifest)' = [i \in DOMAIN manifest'.segs |-> files[manifest'.segs[i]]]
    BY DEF SegStack
  <2>3. \A i \in DOMAIN manifest'.segs :
          files[manifest'.segs[i]] = IF i = job.file THEN frozen[job.wal] ELSE SegStack(manifest)[i]
    BY <1>1, <1>2 DEF SegStack
  <2> QED
    BY <1>2, <2>1, <2>2, <2>3 DEF insert
<1>4. IsStack(SegStack(manifest)) /\ \A i \in DOMAIN SegStack(manifest) : i < job.file
  BY <1>1, <1>2, SegBounds DEF SegStack
<1>5. IsTable(frozen[job.wal])
  BY <1>1 DEF IsStack
<1>6. job.file \in Nat /\ job.wal \in DOMAIN frozen
  BY <1>1, Zenon
<1>7. Fold(insert(SegStack(manifest), job.file, frozen[job.wal]), k)
        = Over(Get(frozen[job.wal], k), Fold(SegStack(manifest), k))
  BY <1>4, <1>5, <1>6, FoldPush
<1> QED
  BY <1>3, <1>6, <1>7, Zenon

\* The outputs of a compaction are a stack.
LEMMA OutBounds ==
  ASSUME Shape, mpc = "merging"
  PROVE  /\ IsStack(OutStack) /\ DOMAIN OutStack = DOMAIN job.out
         /\ DOMAIN job.out \subseteq job.run /\ IsRun(job.run) /\ Running
<1>1. /\ DOMAIN job.out \subseteq job.run /\ IsRun(job.run) /\ Running
      /\ \A i \in DOMAIN job.out : job.out[i] \in DOMAIN files
  BY Zenon DEF Shape, Control, Running, SegmentsCorrect, CompactCorrect
<1>2. IsStack(files) /\ DOMAIN job.out \subseteq Nat
  BY DEF Shape, TypeOK
<1> QED
  BY <1>1, <1>2 DEF OutStack, IsStack

\* The outputs in the place of the run: every key folds as before.
LEMMA SwappedFold ==
  ASSUME FoldLaws, Shape, mpc = "merging", DOMAIN job.left = {}, manifest' = Swapped, files' = files,
         NEW k \in Key, KeyMerged(k)
  PROVE  Fold(SegStack(manifest)', k) = Fold(SegStack(manifest), k)
<1> DEFINE S == SegStack(manifest)
           T == SegStack(manifest)'
           kept == DOMAIN manifest.segs \ job.run
<1>1. IsStack(S) /\ DOMAIN S = DOMAIN manifest.segs /\ manifest.next \in Nat
      /\ \A i \in DOMAIN S : i <= manifest.next
  BY SegStackFacts
<1>2. /\ IsRun(job.run) /\ DOMAIN job.out \subseteq job.run
      /\ IsStack(OutStack) /\ DOMAIN OutStack = DOMAIN job.out
  BY OutBounds
<1>3. /\ job.run \subseteq DOMAIN S /\ job.run \subseteq Nat /\ job.run # {}
      /\ \A i \in DOMAIN S : \A a, b \in job.run : a <= i /\ i <= b => i \in job.run
  BY <1>1, <1>2 DEF IsRun, IsStack
<1>4. DOMAIN RunStack = job.run /\ IsStack(RunStack) /\ \A i \in job.run : RunStack[i] = S[i]
  BY <1>1, <1>3, StackRestrictType DEF RunStack, Restrict
<1>5. manifest'.segs = [i \in kept \cup DOMAIN job.out |->
                          IF i \in DOMAIN job.out THEN job.out[i] ELSE manifest.segs[i]]
  BY DEF Swapped, Shape, TypeOK, IsManifest
<1>6. /\ DOMAIN T = kept \cup DOMAIN job.out
      /\ \A i \in DOMAIN job.out : T[i] = OutStack[i]
      /\ \A i \in kept : T[i] = S[i]
  <2>1. T = [i \in DOMAIN manifest'.segs |-> files[manifest'.segs[i]]]
    BY DEF SegStack
  <2>2. DOMAIN T = kept \cup DOMAIN job.out
    BY <1>5, <2>1, Zenon
  <2>3. \A i \in DOMAIN job.out : T[i] = OutStack[i]
    BY <1>5, <2>1, ZenonT(60) DEF OutStack
  <2>4. \A i \in kept : T[i] = S[i]
    BY <1>2, <1>5, <2>1 DEF SegStack
  <2> QED
    BY <2>2, <2>3, <2>4
<1>7. Fold(RunStack, k) = Fold(OutStack, k)
  BY DEF KeyMerged
<1>8. PICK c \in job.run : \A i \in job.run : c <= i
  BY <1>3, Zenon DEF FoldLaws, MinLaw
<1>9. PICK e \in job.run : \A i \in job.run : i <= e
  BY <1>1, <1>3, Zenon DEF FoldLaws, MaxLaw
<1> HIDE DEF S, T
<1>10. c \in Nat /\ e + 1 \in Nat /\ c <= e + 1 /\ \A i \in Nat : i < e + 1 <=> i <= e
  BY <1>3, <1>8, <1>9
<1>11. ASSUME NEW i \in Nat
       PROVE  IF c <= i /\ i < e + 1
              THEN At(S, k, i) = At(RunStack, k, i) /\ At(T, k, i) = At(OutStack, k, i)
              ELSE /\ At(S, k, i) = At(T, k, i) /\ At(RunStack, k, i) = NoRec
                   /\ At(OutStack, k, i) = NoRec
  <2>1. i \in DOMAIN S /\ c <= i /\ i < e + 1 => i \in job.run
    BY <1>3, <1>10
  <2>2. i \in job.run => c <= i /\ i < e + 1
    BY <1>8, <1>9, <1>10, Zenon
  <2>3. CASE i \in job.run
    BY <1>1, <1>2, <1>3, <1>4, <1>6, <2>2, <2>3, Zenon DEF At
  <2>4. CASE i \notin job.run
    BY <1>1, <1>2, <1>3, <1>4, <1>6, <2>1, <2>4, Zenon DEF At
  <2> QED
    BY <2>3, <2>4
<1>12. IsStack(T) /\ \A i \in DOMAIN T : i <= manifest.next
  BY <1>1, <1>2, <1>3, <1>6, Zenon DEF IsStack
<1>13. /\ \A i \in DOMAIN RunStack : i <= manifest.next
       /\ \A i \in DOMAIN OutStack : i <= manifest.next
  BY <1>1, <1>2, <1>3, <1>4, ZenonT(30)
<1>14. Fold(S, k) = Fold(T, k)
  <2>1. SwapAt(S, T, RunStack, OutStack, k, c, e + 1)
    BY <1>11, Zenon DEF SwapAt
  <2> QED
    BY <1>1, <1>2, <1>4, <1>7, <1>10, <1>12, <1>13, <2>1, FoldSwap
<1> QED
  BY <1>14 DEF S, T
==============================================================================
