---------------------------- MODULE ReaderLemmas -----------------------------
(***************************************************************************)
(* A read that overlaps the two actors: its steps and the engine's keep    *)
(* ChurnInv and FreshInv.                                                  *)
(***************************************************************************)
EXTENDS ReaderCorrect, EngineLemmas

(***************************************************************************)
(* Restarts of a read                                                      *)
(***************************************************************************)

\* A step of a read leaves the engine alone.
LEMMA ReadsEngine == ReadNext => Next \/ UNCHANGED vars
BY Zenon DEF ReadNext, Moves, Read, Begin, DeltasMem, DeltasFrozen, DeltasSegs, Settle, ReadMem,
             ReadFrozen, ReadPlan, ReadSegment, Vanished, Looks, End

\* Every step of a read and of the engine keeps the count of swaps ahead of
\* the restarts.
LEMMA ChurnStep ==
  ASSUME FoldLaws, ChurnInv, SegInv, ReadNext
  PROVE  ChurnInv'
<1> USE RetriesAssumption
<1>1. CASE Moves
  <2>1. CASE ~Reading
    <3>1. rpc = "idle" /\ UNCHANGED <<rpc, tries, swaps>>
      BY <1>1, <2>1 DEF Moves, Reading, readVars
    <3> QED
      BY <3>1 DEF ChurnInv, Reading
  <2>2. CASE Reading
    <3>1. /\ Next /\ phase = "up" /\ phase' = "up" /\ UNCHANGED <<rpc, tries, plan>>
          /\ swaps' = IF mpc = "merging" /\ mpc' = "swapped" THEN swaps + 1 ELSE swaps
      BY <1>1, <2>2 DEF Moves, ChurnInv, readVars
    <3>2. /\ manifest.next \in Nat /\ manifest'.next \in Nat /\ manifest.next <= manifest'.next
          /\ \A f : Doomed(f)' => Doomed(f) \/ (mpc = "merging" /\ mpc' = "swapped")
      BY <3>1, SegStep DEF Onward
    <3>3. /\ tries \in Nat /\ swaps \in Nat /\ rpc # "failed"
          /\ tries <= Retries /\ tries <= swaps
      BY <2>2 DEF ChurnInv, Reading
    <3>4. swaps' \in Nat /\ swaps <= swaps'
          /\ (mpc = "merging" /\ mpc' = "swapped" => swaps' > tries)
      BY <3>1, <3>3
    <3>5. ASSUME rpc = "segments"
          PROVE  /\ DOMAIN plan # {} /\ DOMAIN plan \subseteq Nat
                 /\ \A i \in DOMAIN plan : /\ i < manifest'.next
                                           /\ plan[i] \in Nat /\ plan[i] < manifest'.next
                                           /\ Doomed(plan[i])' => swaps' > tries
      <4>1. /\ DOMAIN plan # {} /\ DOMAIN plan \subseteq Nat
            /\ \A i \in DOMAIN plan : /\ i < manifest.next
                                      /\ plan[i] \in Nat /\ plan[i] < manifest.next
                                      /\ Doomed(plan[i]) => swaps > tries
        BY <3>5 DEF ChurnInv
      <4>2. \A i \in DOMAIN plan : Doomed(plan[i])' => swaps' > tries
        BY <3>1, <3>2, <3>3, <3>4, <4>1 DEF Doomed
      <4> QED
        BY <3>2, <4>1, <4>2
    <3> QED
      BY <3>1, <3>3, <3>4, <3>5 DEF ChurnInv, Reading
  <2> QED
    BY <2>1, <2>2
<1>2. CASE Read
  <2>1. CASE (\E k \in Key : Begin("get", {k})) \/ Begin("raw", Key) \/ End
    <3>1. /\ rpc' \in {"mem", "deltas_mem", "idle"} /\ tries' = 0 /\ swaps' = 0
          /\ rpc' # "idle" => phase' = "up"
      BY <2>1, Zenon DEF Begin, End, vars, openVars
    <3> QED
      BY <3>1 DEF ChurnInv, Reading
  <2>2. CASE DeltasMem \/ DeltasFrozen \/ DeltasSegs \/ ReadMem \/ ReadFrozen
    <3>1. Reading /\ rpc' \in {"mem", "deltas_frozen", "deltas_segs", "done", "frozen", "plan"}
          /\ UNCHANGED <<tries, swaps, phase>>
      BY <2>2, Zenon DEF DeltasMem, DeltasFrozen, DeltasSegs, ReadMem, ReadFrozen, Settle, Looks,
                         Reading, vars, openVars
    <3> QED
      BY <3>1 DEF ChurnInv, Reading
  <2>3. CASE ReadPlan
    <3>1. /\ Reading /\ UNCHANGED <<tries, swaps, phase, manifest, files, mpc, job>>
          /\ plan' = manifest.segs /\ rpc' = IF DOMAIN plan' = {} THEN "done" ELSE "segments"
      BY <2>3 DEF ReadPlan, Looks, Reading, vars, openVars, maintVars, segVars
    <3>2. /\ DOMAIN manifest.segs \subseteq Nat
          /\ \A i \in DOMAIN manifest.segs : /\ i < manifest.next
                                            /\ manifest.segs[i] \in Nat /\ manifest.segs[i] < manifest.next
                                            /\ ~Doomed(manifest.segs[i])
      BY DEF SegInv, IsManifest, ManifestCorrect, CompactNumbers, Doomed
    <3>3. \A i \in DOMAIN manifest.segs : ~Doomed(manifest.segs[i])'
      BY <3>1, <3>2 DEF Doomed
    <3> QED
      BY <3>1, <3>2, <3>3 DEF ChurnInv, Reading
  <2>4. CASE ReadSegment
    <3>1. /\ Reading /\ rpc = "segments" /\ UNCHANGED <<tries, swaps, phase, manifest, files, mpc, job>>
          /\ plan' = Restrict(plan, DOMAIN plan \ {NextId})
          /\ rpc' = "done" \/ (rpc' = "segments" /\ DOMAIN plan' # {})
      BY <2>4, Zenon DEF ReadSegment, Looks, Reading, vars, openVars, maintVars, segVars
    <3>2. DOMAIN plan' \subseteq DOMAIN plan /\ \A i \in DOMAIN plan' : plan'[i] = plan[i]
      BY <3>1 DEF Restrict
    <3>3. \A f : Doomed(f)' = Doomed(f)
      BY <3>1 DEF Doomed
    <3> QED
      BY <3>1, <3>2, <3>3 DEF ChurnInv, Reading
  <2>5. CASE Vanished
    <3>1. /\ Reading /\ rpc = "segments" /\ UNCHANGED <<swaps, phase>>
          /\ plan[NextId] \notin DOMAIN files
          /\ \/ tries < Retries /\ tries' = tries + 1 /\ rpc' \in {"mem", "deltas_mem"}
             \/ ~(tries < Retries) /\ tries' = tries /\ rpc' = "failed"
      BY <2>5 DEF Vanished, Ahead, Looks, Reading, vars, openVars
    <3>2. DOMAIN plan \in SUBSET Nat /\ DOMAIN plan # {} /\ manifest.next \in Nat
          /\ \A i \in DOMAIN plan : i <= manifest.next
      BY <3>1 DEF ChurnInv, SegInv, IsManifest
    <3>3. NextId \in DOMAIN plan
      BY <3>2, Zenon DEF FoldLaws, MaxLaw, NextId
    <3>4. swaps > tries
      BY <3>1, <3>3 DEF ChurnInv, Doomed
    <3> QED
      BY <3>1, <3>4 DEF ChurnInv, Reading
  <2> QED
    BY <1>2, <2>1, <2>2, <2>3, <2>4, <2>5, ZenonT(30) DEF Read
<1> QED
  BY <1>1, <1>2 DEF ReadNext

(***************************************************************************)
(* What covers what                                                        *)
(***************************************************************************)

\* A put over anything, and anything over a put, is a put.
LEMMA BaseOver ==
  ASSUME NEW k, NEW a, NEW b, IsVersion(k, a), IsVersion(k, b), Base(a) \/ Base(b)
  PROVE  Base(Over(a, b))
<1>1. a \in Version /\ b \in Version
  BY VersionType
<1> QED
  BY <1>1, NoRecAssumption DEF Base, Version, Over, merge_delta, is_delta, is_tombstone, Record, Kinds

\* A put hides what is below it.
LEMMA BaseHides ==
  ASSUME NEW a, NEW b, Base(a)
  PROVE  Over(a, b) = a
BY DEF Base, Over

\* A stack with a put of k folds to a put of k.
LEMMA BaseFold ==
  ASSUME FoldLaws, NEW s, IsStack(s), NEW b \in Nat, \A i \in DOMAIN s : i <= b, NEW k \in Key,
         NEW w \in DOMAIN s, Base(Get(s[w], k))
  PROVE  Base(Fold(s, k))
<1> DEFINE u == Restrict(s, {i \in DOMAIN s : i > w})
           v == Restrict(s, {i \in DOMAIN s : i < w})
           l == insert(v, w, s[w])
<1>1. /\ IsStack(u) /\ DOMAIN u = {i \in DOMAIN s : i > w} /\ \A i \in DOMAIN u : u[i] = s[i]
      /\ IsStack(v) /\ DOMAIN v = {i \in DOMAIN s : i < w} /\ \A i \in DOMAIN v : v[i] = s[i]
  BY StackRestrictType DEF Restrict
<1>2. w \in Nat /\ IsTable(s[w]) /\ DOMAIN s \subseteq Nat /\ w <= b
  BY DEF IsStack
<1>3. /\ IsStack(l) /\ DOMAIN l = DOMAIN v \cup {w} /\ l[w] = s[w]
      /\ \A i \in DOMAIN v : i # w => l[i] = v[i]
  BY <1>1, <1>2, StackInsertType DEF insert
<1>4. Fold(l, k) = Over(Get(s[w], k), Fold(v, k))
  BY <1>1, <1>2, FoldPush
<1> HIDE DEF u, v, l
<1>5. /\ \A i \in DOMAIN u : i <= b
      /\ \A i \in DOMAIN v : i <= b
      /\ \A i \in DOMAIN l : i <= b
  BY <1>1, <1>2, <1>3
<1>6. SplitAt(s, u, l, k, w + 1)
  BY <1>1, <1>2, <1>3 DEF SplitAt, At
<1>7. Within(s, k, b) /\ Within(u, k, b) /\ Within(l, k, b)
  BY <1>1, <1>3, <1>5, StackWithin
<1>8. Fold(s, k) = Over(Fold(u, k), Fold(l, k))
  <2>1. w + 1 \in Nat
    BY <1>2
  <2> QED
    BY <1>6, <1>7, <2>1 DEF FoldLaws, SplitLaw
<1>9. IsVersion(k, Fold(u, k)) /\ IsVersion(k, Fold(l, k)) /\ Base(Fold(l, k))
  BY <1>1, <1>3, <1>4, <1>5, VersionFold, BaseHides, ZenonT(30)
<1> QED
  BY <1>8, <1>9, BaseOver

\* What is shown of a version has its number.
LEMMA CountSurface ==
  ASSUME NEW k, NEW r, IsVersion(k, r)
  PROVE  Count(surface(r)) = Count(r)
BY NoRecAssumption DEF IsVersion, IsRecordOf, Record, Kinds, Count, surface, is_tombstone

\* What keeps something covered is covered.
LEMMA CoveredKeeps ==
  ASSUME NEW S, NEW k, NEW x, NEW y, IsVersion(k, x), IsVersion(k, y),
         Keeps(k, x, y), Covered(S, k, y)
  PROVE  Covered(S, k, x)
<1>1. Count(x) \in Nat /\ Count(y) \in Nat
  BY CountType
<1> QED
  BY <1>1 DEF Keeps, Covered

\* More moments cover more.
LEMMA CoveredMore ==
  ASSUME NEW S, NEW T, S \subseteq T, NEW k, NEW x, Covered(S, k, x)
  PROVE  Covered(T, k, x)
BY DEF Covered

\* What keeps the acknowledged record is covered now.
LEMMA CoveredNow ==
  ASSUME FoldLaws, Shape, Holding \in seen, NEW k \in want, k \in Key,
         NEW x, IsVersion(k, x), Keeps(k, x, acked[k])
  PROVE  Covered(seen, k, x)
<1>1. Holding[k] = surface(acked[k])
  BY DEF Holding
<1>2. IsVersion(k, acked[k])
  BY KeyVersions
<1>3. Count(surface(acked[k])) = Count(acked[k]) /\ Count(acked[k]) \in Nat
  BY <1>2, CountSurface, CountType
<1> QED
  BY <1>1, <1>3 DEF Keeps, Covered

\* A put laid under what covers something, or under less, is covered.
LEMMA CoveredPut ==
  ASSUME NEW S, NEW k \in Key, NEW f, NEW p, IsVersion(k, f), IsVersion(k, p),
         Base(f) => Covered(S, k, f), Covered(S, k, p)
  PROVE  Covered(S, k, Over(f, p))
<1>1. CASE Base(f)
  BY <1>1, BaseHides
<1>2. CASE ~Base(f)
  BY <1>2, KeepsGrow, VersionOver, CoveredKeeps
<1> QED
  BY <1>1, <1>2

\* A version slipped in between: a put that is covered itself, or a delta.
LEMMA CoveredBetween ==
  ASSUME NEW S, NEW k \in Key, NEW f, NEW p, NEW x,
         IsVersion(k, f), IsVersion(k, p), IsVersion(k, x),
         Base(p) => Covered(S, k, Over(f, p)), Covered(S, k, Over(f, x))
  PROVE  Covered(S, k, Over(f, Over(p, x)))
<1>1. CASE Base(p)
  BY <1>1, BaseHides
<1>2. CASE ~Base(p)
  <2>1. Keeps(k, Over(p, x), x) /\ IsVersion(k, Over(p, x))
    BY <1>2, KeepsGrow, VersionOver
  <2>2. Keeps(k, Over(f, Over(p, x)), Over(f, x))
    BY <2>1, KeepsOver
  <2> QED
    BY <2>1, <2>2, VersionOver, CoveredKeeps
<1> QED
  BY <1>1, <1>2

(***************************************************************************)
(* What the engine's steps do under a read                                 *)
(***************************************************************************)

\* In an open engine the memtable, the one inside freeze and what is below
\* them keep what was acknowledged; of the first two one is empty.
LEMMA AckedKept ==
  ASSUME FoldLaws, IInv, phase = "up", NEW k \in Key
  PROVE  /\ IsVersion(k, Get(mem, k)) /\ IsVersion(k, Get(taken, k))
         /\ IsVersion(k, AboveSegs(k)) /\ IsVersion(k, Fold(SegStack(manifest), k))
         /\ IsVersion(k, Below(k))
         /\ Keeps(k, Over(Get(mem, k), Over(Get(taken, k), Below(k))), acked[k])
         /\ Get(mem, k) = NoRec \/ Get(taken, k) = NoRec
<1> DEFINE m == Get(mem, k)
           t == Get(taken, k)
           A == AboveSegs(k)
           M == Fold(SegStack(manifest), k)
<1>1. Shape /\ Running /\ KeyLive(k)
  BY DEF IInv, KInv, Running
<1>2. IsVersion(k, m) /\ IsVersion(k, t) /\ IsVersion(k, M) /\ IsVersion(k, acked[k])
  BY <1>1, KeyVersions
<1>3. IsVersion(k, A)
  <2>1. IsVersion(k, Fold(frozen, k)) /\ \A S \in SUBSET DOMAIN frozen : IsVersion(k, Fold(Restrict(frozen, S), k))
    BY <1>1, KeyVersions
  <2> QED
    BY <2>1 DEF AboveSegs
<1>4. Agrees(k, Over(Over(m, Over(t, A)), M), acked[k])
  BY <1>1 DEF KeyLive, Held, HeldAbove, AboveSegs
<1>5. m = NoRec \/ t = NoRec
  BY <1>1, Zenon DEF Shape, Control, Get
<1> HIDE DEF m, t, A, M
<1>6. Over(Over(m, Over(t, A)), M) = Over(m, Over(t, Over(A, M)))
  BY <1>2, <1>3, RegroupHeld
<1>7. IsVersion(k, Over(A, M)) /\ IsVersion(k, Over(m, Over(t, Over(A, M))))
  BY <1>2, <1>3, VersionOver
<1>8. Keeps(k, Over(m, Over(t, Over(A, M))), acked[k])
  BY <1>4, <1>6, <1>7, AgreesKeeps
<1> QED
  BY <1>2, <1>3, <1>5, <1>7, <1>8 DEF m, t, A, M, Below

\* What the frozen list yields for an ordinary key, looked up directly: its
\* newest record there.
LEMMA FrozenTop ==
  ASSUME FoldLaws, Shape, NEW k \in PlainKey, Holders(frozen, k) # {}
  PROVE  Fold(frozen, k) = frozen[Max(Holders(frozen, k))][k]
<1>1. IsStack(frozen) /\ walSeq \in Nat /\ \A w \in DOMAIN frozen : w <= walSeq
  BY LogBounds
<1>2. PICK i \in DOMAIN frozen : Top(frozen, k, i) /\ Fold(frozen, k) = frozen[i][k]
  BY <1>1, PlainFold, Zenon
<1>3. Holders(frozen, k) \in SUBSET Nat /\ i \in Holders(frozen, k)
      /\ \A j \in Holders(frozen, k) : j <= i
  BY <1>1, <1>2 DEF Top, Holders, IsStack
<1>4. Max(Holders(frozen, k)) \in Holders(frozen, k) /\ i <= Max(Holders(frozen, k))
  BY <1>3, Zenon DEF FoldLaws, MaxLaw
<1>5. Max(Holders(frozen, k)) = i
  BY <1>3, <1>4
<1> QED
  BY <1>2, <1>5, Zenon

\* The frozen list with the memtable being flushed, over the segments, keeps
\* what it gives without it: after the store a put of that memtable is the
\* newest in the segments, a delta is counted twice.
LEMMA FrozenKeeps ==
  ASSUME FoldLaws, Shape, NEW k \in Key
  PROVE  Keeps(k, Over(Fold(frozen, k), Fold(SegStack(manifest), k)), Below(k))
<1> DEFINE F == Fold(frozen, k)
           A == AboveSegs(k)
           M == Fold(SegStack(manifest), k)
           r == Get(frozen[job.wal], k)
<1>1. IsVersion(k, F) /\ IsVersion(k, M) /\ \A x : Keeps(k, x, x) \/ ~IsVersion(k, x)
  BY KeyVersions, CountType DEF Keeps
<1>2. CASE mpc \notin {"stored", "unlinked"}
  BY <1>1, <1>2, VersionOver DEF AboveSegs, Below
<1>3. CASE mpc \in {"stored", "unlinked"}
  <2>1. job.wal \in DOMAIN frozen /\ \A w \in DOMAIN frozen : job.wal <= w
    BY <1>3, StoredFacts
  <2>2. F = Over(A, r)
    BY <1>3, <2>1, LogBounds, FoldBottom DEF AboveSegs
  <2>3. IsVersion(k, A) /\ IsVersion(k, r)
    <3>1. \A S \in SUBSET DOMAIN frozen : IsVersion(k, Fold(Restrict(frozen, S), k))
      BY KeyVersions
    <3> QED
      BY <1>3, <2>1, <3>1, KeyVersions DEF AboveSegs
  <2>4. Base(r) => M = r
    <3> SUFFICES ASSUME Base(r) PROVE M = r
      BY Zenon
    <3> DEFINE S == SegStack(manifest)
    <3>1. /\ job.file \in DOMAIN S /\ S[job.file] = frozen[job.wal]
          /\ \A i \in DOMAIN S : i <= job.file
          /\ IsStack(S)
      BY <1>3, SegStackFacts, ZenonT(30) DEF Shape, SegmentsCorrect, FlushCorrect, SegStack
    <3>2. k \in DOMAIN frozen[job.wal] /\ r = frozen[job.wal][k] /\ ~is_delta(r) /\ r \in Record
      BY <2>3 DEF Base, Get, IsVersion, IsRecordOf
    <3>3. Top(S, k, job.file) /\ DOMAIN S \subseteq Nat
      BY <3>1, <3>2 DEF Top, Holders, IsStack
    <3> HIDE DEF S
    <3>4. Fold(S, k) = S[job.file][k]
      BY <3>1, <3>2, <3>3 DEF FoldLaws, TopLaw
    <3> QED
      BY <3>1, <3>2, <3>4 DEF S
  <2> HIDE DEF F, A, M, r
  <2>5. Keeps(k, Over(r, M), M) /\ IsVersion(k, Over(r, M))
    <3>1. CASE Base(r)
      BY <1>1, <2>3, <2>4, <3>1, BaseHides, ZenonT(30)
    <3>2. CASE ~Base(r)
      BY <1>1, <2>3, <3>2, KeepsGrow, VersionOver
    <3> QED
      BY <3>1, <3>2
  <2>6. Over(F, M) = Over(A, Over(r, M))
    BY <1>1, <2>2, <2>3, Regroup
  <2> QED
    BY <1>1, <2>3, <2>5, <2>6, KeepsOver DEF Below, F, A, M
<1> QED
  BY <1>2, <1>3

\* A step with the listed segments and their files in place.
LEMMA ListedKept ==
  ASSUME SegInv, SegInv', Onward, manifest'.segs = manifest.segs
  PROVE  SegStack(manifest)' = SegStack(manifest)
<1>1. \A i \in DOMAIN manifest.segs : manifest.segs[i] < manifest.next /\ manifest.segs[i] \in DOMAIN files'
  BY DEF SegInv, ManifestCorrect
<1> QED
  BY <1>1 DEF SegStack, Onward

\* What a step does to the versions of k below the memtable: a freeze takes
\* the memtable, a freeze pushes it, or the versions move down at most.
Taken(k) ==
  /\ taken' = mem /\ Get(taken, k) = NoRec
  /\ Below(k)' = Below(k) /\ frozen' = frozen
  /\ Fold(SegStack(manifest), k)' = Fold(SegStack(manifest), k)

Pushed(k) ==
  /\ DOMAIN taken' = {}
  /\ Below(k)' = Over(Get(taken, k), Below(k))
  /\ Fold(SegStack(manifest), k)' = Fold(SegStack(manifest), k)
  /\ \A w \in DOMAIN frozen' : frozen'[w] = taken \/ (w \in DOMAIN frozen /\ frozen'[w] = frozen[w])

Sunk(k) ==
  /\ taken' = taken
  /\ IsVersion(k, Below(k)') /\ Keeps(k, Below(k)', Below(k))
  /\ \/ Fold(SegStack(manifest), k)' = Fold(SegStack(manifest), k)
     \/ \E w \in DOMAIN frozen :
          Fold(SegStack(manifest), k)' = Over(Get(frozen[w], k), Fold(SegStack(manifest), k))
  /\ \A w \in DOMAIN frozen' : w \in DOMAIN frozen /\ frozen'[w] = frozen[w]

\* Nothing moves below the memtable.
LEMMA SunkNothing ==
  ASSUME FoldLaws, IInv, phase = "up", NEW k \in Key, UNCHANGED <<taken, frozen>>,
         AboveSegs(k)' = AboveSegs(k),
         Fold(SegStack(manifest), k)' = Fold(SegStack(manifest), k)
  PROVE  Sunk(k)
<1>1. IsVersion(k, Below(k)) /\ Below(k)' = Below(k)
  BY AckedKept DEF Below
<1>2. Keeps(k, Below(k), Below(k))
  BY <1>1, CountType DEF Keeps
<1> QED
  BY <1>1, <1>2, Zenon DEF Sunk

\* The writer's steps.
LEMMA BelowWriter ==
  ASSUME FoldLaws, IInv, Writer, phase = "up", NEW k \in Key
  PROVE  Taken(k) \/ Pushed(k) \/ Sunk(k)
<1>1. /\ UNCHANGED <<maintVars, segVars>> /\ SegStack(manifest)' = SegStack(manifest)
      /\ UNCHANGED <<mpc, job>>
  BY Zenon DEF Writer, PutFrame, IncrFrame, AppendFails, Apply, FreezeTake, FreezeFails,
               FreezePush, maintVars, segVars, SegStack
<1>2. CASE FreezeTake
  <2>1. taken' = mem /\ frozen' = frozen /\ DOMAIN taken = {}
    BY <1>2, ZenonT(30) DEF FreezeTake, FreezeEnabled, IInv, Shape, Control
  <2> QED
    BY <1>1, <2>1, Zenon DEF Taken, Below, AboveSegs, Get
<1>3. CASE FreezePush
  <2>1. /\ frozen' = insert(frozen, walSeq - 1, taken) /\ DOMAIN taken' = {} /\ wpc = "taken"
    BY <1>3, EmptyTableType, ZenonT(30) DEF FreezePush
  <2>2. /\ IsStack(frozen) /\ IsTable(taken) /\ walSeq - 1 \in Nat /\ Shape
        /\ \A w \in DOMAIN frozen : w < walSeq - 1
    BY <2>1 DEF IInv, Shape, TypeOK, WalOrder, WalEdge, Running
  <2>3. /\ DOMAIN frozen' = DOMAIN frozen \cup {walSeq - 1} /\ frozen'[walSeq - 1] = taken
        /\ \A w \in DOMAIN frozen : w # walSeq - 1 /\ frozen'[w] = frozen[w]
    BY <2>1, <2>2 DEF insert, IsStack
  <2>4. AboveSegs(k)' = Over(Get(taken, k), AboveSegs(k))
    <3>1. Fold(frozen', k) = Over(Get(taken, k), Fold(frozen, k))
      BY <2>1, <2>2, FoldPush
    <3>2. ASSUME mpc \in {"stored", "unlinked"}
          PROVE  Fold(Restrict(frozen', DOMAIN frozen' \ {job.wal}), k)
                   = Over(Get(taken, k), Fold(Restrict(frozen, DOMAIN frozen \ {job.wal}), k))
      <4> DEFINE rest == Restrict(frozen, DOMAIN frozen \ {job.wal})
      <4>1. job.wal \in DOMAIN frozen
        BY <2>2, <3>2, Zenon DEF Shape, Control
      <4>2. Restrict(frozen', DOMAIN frozen' \ {job.wal}) = insert(rest, walSeq - 1, taken)
        BY <2>3, <4>1 DEF Restrict, insert
      <4>3. IsStack(rest) /\ \A w \in DOMAIN rest : w < walSeq - 1
        BY <2>2, StackRestrictType DEF Restrict
      <4> HIDE DEF rest
      <4>4. Fold(insert(rest, walSeq - 1, taken), k) = Over(Get(taken, k), Fold(rest, k))
        BY <2>2, <4>3, FoldPush
      <4> QED
        BY <4>2, <4>4 DEF rest
    <3> QED
      BY <1>1, <3>1, <3>2, ZenonT(30) DEF AboveSegs
  <2>5. IsVersion(k, Get(taken, k)) /\ IsVersion(k, AboveSegs(k)) /\ IsVersion(k, Fold(SegStack(manifest), k))
    BY AckedKept, Zenon
  <2>6. Below(k)' = Over(Get(taken, k), Below(k))
    BY <1>1, <2>4, <2>5, Regroup DEF Below
  <2>7. \A w \in DOMAIN frozen' : frozen'[w] = taken \/ (w \in DOMAIN frozen /\ frozen'[w] = frozen[w])
    BY <2>3, Zenon
  <2> QED
    BY <1>1, <2>1, <2>6, <2>7, Zenon DEF Pushed
<1>4. CASE ~(FreezeTake \/ FreezePush)
  <2>1. UNCHANGED <<taken, frozen>>
    BY <1>4, Zenon DEF Writer, PutFrame, IncrFrame, AppendFails, Apply, FreezeFails
  <2> QED
    BY <1>1, <2>1, SunkNothing, Zenon DEF AboveSegs
<1> QED
  BY <1>2, <1>3, <1>4

\* The steps of maintenance: a flush moves a frozen memtable into the
\* segments, a compaction shows nowhere.
LEMMA BelowMaintenance ==
  ASSUME FoldLaws, IInv, Next, Maintenance, phase = "up", phase' = "up", NEW k \in Key
  PROVE  Sunk(k)
<1>1. /\ SegInv /\ SegInv' /\ Onward /\ Running /\ Shape /\ KeyMerged(k)
      /\ IsVersion(k, Fold(SegStack(manifest), k)) /\ IsVersion(k, Below(k))
  BY SegmentNumbers, SegStep, AckedKept DEF Running, IInv, KInv
<1>2. taken' = taken
  BY Zenon DEF Maintenance, FlushWrite, FlushWriteFails, FlushStore, FlushStoreFails,
               FlushUnlink, FlushPop, CompactMerge, CompactChunk, CompactSurplus, CompactFails,
               CompactSurplusFails, CompactStore, CompactStoreFails, CompactDrop, writerVars
<1>3. CASE FlushStore \/ FlushStoreFails
  <2> DEFINE g == Fold(Restrict(frozen, DOMAIN frozen \ {job.wal}), k)
             r == Get(frozen[job.wal], k)
             M == Fold(SegStack(manifest), k)
  <2>1. /\ mpc = "written" /\ manifest' = Flushed /\ files' = files /\ frozen' = frozen
        /\ (mpc' = "stored" /\ job' = job) \/ mpc' = "idle"
    BY <1>3, Zenon DEF FlushStore, FlushStoreFails, segVars
  <2>2. /\ job.wal \in DOMAIN frozen /\ \A w \in DOMAIN frozen : job.wal <= w
        /\ Fold(SegStack(manifest), k)' = Over(r, M)
    BY <1>1, <2>1, FlushedFold, ZenonT(30) DEF Shape, Control
  <2>3. Fold(frozen, k) = Over(g, r)
    BY <1>1, <2>2, LogBounds, FoldBottom, Zenon
  <2>4. IsVersion(k, g) /\ IsVersion(k, r) /\ IsVersion(k, M)
    <3>1. \A S \in SUBSET DOMAIN frozen : IsVersion(k, Fold(Restrict(frozen, S), k))
      BY <1>1, KeyVersions, Zenon
    <3> QED
      BY <1>1, <2>2, <3>1, KeyVersions, Zenon
  <2>5. /\ Below(k) = Over(Over(g, r), M)
        /\ mpc' = "stored" => Below(k)' = Over(g, Over(r, M))
        /\ mpc' = "idle" => Below(k)' = Over(Over(g, r), Over(r, M))
    BY <2>1, <2>2, <2>3, ZenonT(30) DEF Below, AboveSegs
  <2>6. \E w \in DOMAIN frozen : Fold(SegStack(manifest), k)' = Over(Get(frozen[w], k), M)
    BY <2>2
  <2> HIDE DEF g, r, M
  <2>7. /\ Over(Over(g, r), M) = Over(g, Over(r, M))
        /\ Over(Over(g, r), Over(r, M)) = Over(g, Over(r, Over(r, M)))
        /\ IsVersion(k, Over(r, M)) /\ IsVersion(k, Over(r, Over(r, M)))
    <3>1. IsVersion(k, Over(r, M)) /\ IsVersion(k, Over(r, Over(r, M)))
      BY <2>4, VersionOver, Zenon
    <3>2. IsVersion(k, g) /\ IsVersion(k, r) /\ IsVersion(k, M)
      BY <2>4, Zenon
    <3> QED
      BY <3>1, <3>2, Regroup
  <2>8. /\ IsVersion(k, Over(g, Over(r, M))) /\ IsVersion(k, Over(g, Over(r, Over(r, M))))
        /\ Keeps(k, Over(g, Over(r, Over(r, M))), Over(g, Over(r, M)))
    BY <2>4, <2>7, VersionOver, KeepsTwice, KeepsOver, Zenon
  <2>9. Keeps(k, Over(g, Over(r, M)), Over(g, Over(r, M)))
    BY <2>8, CountType DEF Keeps
  <2>10. IsVersion(k, Below(k)') /\ Keeps(k, Below(k)', Below(k))
    BY <2>1, <2>5, <2>7, <2>8, <2>9, Zenon
  <2> QED
    BY <1>2, <2>1, <2>6, <2>10, Zenon DEF Sunk, M
<1>4. CASE FlushPop
  <2>1. /\ SegStack(manifest)' = SegStack(manifest) /\ mpc = "unlinked" /\ mpc' = "idle"
    BY <1>4 DEF FlushPop, segVars, SegStack
  <2>2. /\ frozen' = Restrict(frozen, DOMAIN frozen \ {job.wal})
        /\ \A w \in DOMAIN frozen' : w \in DOMAIN frozen /\ frozen'[w] = frozen[w]
    BY <1>1, <1>4, PoppedStack
  <2>3. Below(k)' = Below(k)
    BY <2>1, <2>2, Zenon DEF Below, AboveSegs
  <2>4. Keeps(k, Below(k), Below(k))
    BY <1>1, CountType DEF Keeps
  <2> QED
    BY <1>1, <1>2, <2>1, <2>2, <2>3, <2>4, ZenonT(30) DEF Sunk
<1>5. CASE CompactStore \/ CompactStoreFails
  <2>1. /\ mpc = "merging" /\ DOMAIN job.left = {} /\ manifest' = Swapped /\ files' = files
        /\ frozen' = frozen /\ mpc' \in {"swapped", "idle"}
    BY <1>5, Zenon DEF CompactStore, CompactStoreFails, segVars
  <2>2. Fold(SegStack(manifest), k)' = Fold(SegStack(manifest), k)
    BY <1>1, <2>1, SwappedFold, ZenonT(30)
  <2>3. AboveSegs(k)' = AboveSegs(k)
    BY <2>1 DEF AboveSegs
  <2> QED
    BY <1>2, <2>1, <2>2, <2>3, SunkNothing, Zenon
<1>6. CASE ~(FlushStore \/ FlushStoreFails \/ FlushPop \/ CompactStore \/ CompactStoreFails)
  <2>1. frozen' = frozen /\ manifest' \in {manifest, Allocated, AllocatedTwo}
    BY <1>6, Zenon DEF Maintenance, FlushWrite, FlushWriteFails, FlushUnlink, CompactMerge,
                       CompactChunk, CompactSurplus, CompactFails, CompactSurplusFails, CompactDrop
  <2>2. \/ mpc \in {"stored"} /\ mpc' = "unlinked" /\ job' = job
        \/ mpc \notin {"stored", "unlinked"} /\ mpc' \notin {"stored", "unlinked"}
    BY <1>6, ZenonT(30) DEF Maintenance, FlushWrite, FlushWriteFails, FlushUnlink, CompactMerge,
                       CompactChunk, CompactSurplus, CompactFails, CompactSurplusFails, CompactDrop
  <2>3. manifest'.segs = manifest.segs
    BY <1>1, <2>1 DEF Allocated, AllocatedTwo, SegInv, IsManifest
  <2>4. SegStack(manifest)' = SegStack(manifest)
    BY <1>1, <2>3, ListedKept, ZenonT(30)
  <2>5. AboveSegs(k)' = AboveSegs(k)
    BY <2>1, <2>2 DEF AboveSegs
  <2> QED
    BY <1>2, <2>1, <2>4, <2>5, SunkNothing, ZenonT(30)
<1> QED
  BY <1>3, <1>4, <1>5, <1>6, ZenonT(30)

\* Every step of an open engine.
LEMMA BelowStep ==
  ASSUME FoldLaws, IInv, Next, phase = "up", phase' = "up", NEW k \in Key
  PROVE  Taken(k) \/ Pushed(k) \/ Sunk(k)
<1>1. CASE Lifecycle
  BY <1>1, Zenon DEF Lifecycle, Close, Crash, Open, RecoverFrame, RecoverApply, Settled, OpenFails,
                     DropOldWal, Lose
<1> QED
  BY <1>1, BelowWriter, BelowMaintenance, Zenon DEF Next

(***************************************************************************)
(* A read beside the engine's steps                                        *)
(***************************************************************************)

\* A put that freeze takes out of the memtable was acknowledged before.
LEMMA TakenCovered ==
  ASSUME FoldLaws, IInv, phase = "up", Holding \in seen, NEW k \in want, k \in Key,
         IsVersion(k, found[k]), Base(found[k]) => Covered(seen, k, found[k]),
         Get(taken, k) = NoRec, Base(Get(mem, k))
  PROVE  Covered(seen, k, Over(found[k], Get(mem, k)))
<1> DEFINE m == Get(mem, k)
<1>1. IsVersion(k, m) /\ Keeps(k, Over(m, Over(Get(taken, k), Below(k))), acked[k]) /\ Shape
  BY AckedKept, Zenon DEF IInv
<1>2. Over(m, Over(Get(taken, k), Below(k))) = m
  BY BaseHides
<1> HIDE DEF m
<1>3. Covered(seen, k, m)
  BY <1>1, <1>2, CoveredNow
<1> QED
  BY <1>1, <1>3, CoveredPut, ZenonT(30) DEF m

\* A read that has the memtable waits for the frozen list.
LEMMA MovesBeforeFrozen ==
  ASSUME FoldLaws, IInv, phase = "up", Holding \in seen, NEW k \in want, k \in Key, KeyInv(k),
         rpc = "frozen", UNCHANGED found, Taken(k) \/ Pushed(k) \/ Sunk(k)
  PROVE  /\ Covered(seen, k, Over(IF found[k] = NoRec THEN Get(taken', k) ELSE found[k], Below(k)'))
         /\ Base(Get(taken', k)) => Covered(seen, k, Over(found[k], Get(taken', k)))
<1> DEFINE f == found[k]
           t == Get(taken, k)
           m == Get(mem, k)
           B == Below(k)
<1>1. /\ IsVersion(k, f) /\ Covered(seen, k, Over(IF f = NoRec THEN t ELSE f, B))
      /\ Base(t) => Covered(seen, k, Over(f, t))
  BY DEF KeyInv, PutCovered, IsVersion
<1>2. /\ IsVersion(k, m) /\ IsVersion(k, t) /\ IsVersion(k, B) /\ Shape
      /\ Keeps(k, Over(m, Over(t, B)), acked[k])
  BY AckedKept DEF IInv
<1>3. Base(f) => Covered(seen, k, f)
  BY <1>1, BaseHides, Zenon DEF Base
<1>4. CASE Taken(k)
  <2>1. Get(taken', k) = m /\ t = NoRec /\ Below(k)' = B
    BY <1>4, Zenon DEF Taken
  <2>2. f = NoRec => Covered(seen, k, Over(m, B))
    <3>1. Over(t, B) = B /\ IsVersion(k, Over(m, B))
      BY <1>2, <2>1, Nothing, VersionOver, ZenonT(30)
    <3> QED
      BY <1>2, <2>1, <3>1, CoveredNow, ZenonT(30)
  <2>3. Base(m) => Covered(seen, k, Over(f, m))
    BY <1>1, <1>3, <2>1, TakenCovered
  <2> QED
    BY <1>1, <2>1, <2>2, <2>3, Zenon
<1>5. CASE Pushed(k)
  <2>1. Get(taken', k) = NoRec /\ Below(k)' = Over(t, B)
    BY <1>5, Zenon DEF Pushed, Get
  <2>2. f = NoRec => Covered(seen, k, Over(NoRec, Over(t, B)))
    <3>1. IsVersion(k, Over(t, B))
      BY <1>2, VersionOver, Zenon
    <3>2. Over(NoRec, Over(t, B)) = Over(t, B)
      BY <3>1, Nothing, Zenon
    <3> QED
      BY <1>1, <3>2, Zenon
  <2>3. f # NoRec => Covered(seen, k, Over(f, Over(t, B)))
    BY <1>1, <1>2, CoveredBetween, Zenon
  <2> QED
    BY <2>1, <2>2, <2>3, Zenon DEF Base
<1>6. CASE Sunk(k)
  <2> DEFINE x == IF f = NoRec THEN t ELSE f
  <2>1. taken' = taken /\ IsVersion(k, Below(k)') /\ Keeps(k, Below(k)', B) /\ IsVersion(k, x)
    BY <1>1, <1>2, <1>6, ZenonT(30) DEF Sunk
  <2>2. Keeps(k, Over(x, Below(k)'), Over(x, B))
    BY <1>2, <2>1, KeepsOver, ZenonT(30)
  <2>3. Covered(seen, k, Over(x, Below(k)'))
    BY <1>1, <1>2, <2>1, <2>2, VersionOver, CoveredKeeps, ZenonT(30)
  <2> QED
    BY <1>1, <2>1, <2>3, Zenon
<1> QED
  BY <1>4, <1>5, <1>6, ZenonT(30)

\* A read that has the frozen list waits for the manifest.
LEMMA MovesBeforePlan ==
  ASSUME FoldLaws, IInv, phase = "up", Holding \in seen, NEW k \in want, k \in Key, KeyInv(k),
         rpc = "plan", UNCHANGED found, Taken(k) \/ Pushed(k) \/ Sunk(k)
  PROVE  /\ Covered(seen, k, Over(found[k], Fold(SegStack(manifest), k)'))
         /\ Base(Get(taken', k)) => Covered(seen, k, Over(found[k], Get(taken', k)))
         /\ \A w \in DOMAIN frozen' : Base(Get(frozen'[w], k)) =>
              Covered(seen, k, Over(found[k], Get(frozen'[w], k)))
<1> DEFINE f == found[k]
           M == Fold(SegStack(manifest), k)
<1>1. /\ IsVersion(k, f) /\ Covered(seen, k, Over(f, M))
      /\ Base(Get(taken, k)) => Covered(seen, k, Over(f, Get(taken, k)))
      /\ \A w \in DOMAIN frozen : Base(Get(frozen[w], k)) => Covered(seen, k, Over(f, Get(frozen[w], k)))
  BY DEF KeyInv, PutCovered, IsVersion
<1>2. IsVersion(k, M) /\ Shape /\ \A w \in DOMAIN frozen : IsVersion(k, Get(frozen[w], k))
  BY KeyVersions DEF IInv
<1>3. Base(f) => Covered(seen, k, f)
  BY <1>1, BaseHides
<1>4. CASE Taken(k)
  <2>1. Get(taken', k) = Get(mem, k) /\ Get(taken, k) = NoRec /\ frozen' = frozen
        /\ Fold(SegStack(manifest), k)' = M
    BY <1>4 DEF Taken
  <2>2. Base(Get(mem, k)) => Covered(seen, k, Over(f, Get(mem, k)))
    BY <1>1, <1>3, <2>1, TakenCovered
  <2> QED
    BY <1>1, <2>1, <2>2, ZenonT(30)
<1>5. CASE Pushed(k)
  <2>1. Get(taken', k) = NoRec
    BY <1>5, Zenon DEF Pushed, Get
  <2> QED
    BY <1>1, <1>5, <2>1, Zenon DEF Pushed, Base
<1>6. CASE Sunk(k)
  <2>1. taken' = taken /\ \A w \in DOMAIN frozen' : w \in DOMAIN frozen /\ frozen'[w] = frozen[w]
    BY <1>6, ZenonT(30) DEF Sunk
  <2>2. ASSUME NEW w \in DOMAIN frozen
        PROVE  Covered(seen, k, Over(f, Over(Get(frozen[w], k), M)))
    BY <1>1, <1>2, CoveredBetween
  <2>3. Covered(seen, k, Over(f, Fold(SegStack(manifest), k)'))
    BY <1>1, <1>6, <2>2, Zenon DEF Sunk
  <2> QED
    BY <1>1, <2>1, <2>3, Zenon
<1> QED
  BY <1>4, <1>5, <1>6, ZenonT(30)

\* A read goes through its snapshot: a file that is still there holds what it
\* held.
LEMMA MovesUnderPlan ==
  ASSUME ChurnInv, Onward, NEW k, PlanCovered(k), rpc = "segments",
         UNCHANGED <<found, plan>>, seen \subseteq seen'
  PROVE  PlanCovered(k)'
<1>1. PICK stack : /\ IsStack(stack) /\ DOMAIN stack = DOMAIN plan
                   /\ \A i \in DOMAIN plan : plan[i] \in DOMAIN files => files[plan[i]] = stack[i]
                   /\ Covered(seen, k, Over(found[k], Fold(stack, k)))
  BY Zenon DEF PlanCovered
<1>2. \A i \in DOMAIN plan : plan[i] < manifest.next
  BY Zenon DEF ChurnInv
<1>3. \A i \in DOMAIN plan : plan[i] \in DOMAIN files' => files'[plan[i]] = stack[i]
  BY <1>1, <1>2, Zenon DEF Onward
<1>4. Covered(seen', k, Over(found[k], Fold(stack, k)))
  BY <1>1, CoveredMore, Zenon
<1> QED
  BY <1>1, <1>3, <1>4, Zenon DEF PlanCovered

\* The moments the engine shows while a read waits stay shown, and the new
\* one joins them: what the read has, over what it can still meet, is covered.
LEMMA FreshUnderMoves ==
  ASSUME FoldLaws, IInv, ChurnInv, Moves, Reading, Holding \in seen, NEW k \in want, k \in Key, KeyInv(k)
  PROVE  KeyInv(k)'
<1>1. /\ Next /\ phase = "up" /\ phase' = "up" /\ UNCHANGED <<rpc, found, plan>>
      /\ rpc \notin {"done", "failed"} /\ seen \subseteq seen'
  BY DEF Moves, ChurnInv, readVars
<1>2. (Taken(k) \/ Pushed(k) \/ Sunk(k)) /\ Onward
  BY <1>1, BelowStep, SegmentNumbers, SegStep DEF IInv
<1>3. \A x : Covered(seen, k, x) => Covered(seen', k, x)
  BY <1>1, CoveredMore, Zenon
<1>4. ASSUME rpc = "frozen"
      PROVE  KeyInv(k)'
  <2>1. found[k] = NoRec \/ IsRecordOf(k, found[k])
    BY <1>4, Zenon DEF KeyInv
  <2>2. /\ Covered(seen', k, Over(IF found[k] = NoRec THEN Get(taken', k) ELSE found[k], Below(k)'))
        /\ Base(Get(taken', k)) => Covered(seen', k, Over(found[k], Get(taken', k)))
    BY <1>1, <1>2, <1>3, <1>4, MovesBeforeFrozen, Zenon
  <2>3. PutCovered(taken, k)'
    BY <1>1, <2>2, ZenonT(30) DEF PutCovered, Get, Base, is_delta
  <2>4. Get(taken, k)' = Get(taken', k) /\ (IsRecordOf(k, found[k])' <=> IsRecordOf(k, found[k]))
    BY <1>1 DEF Get, IsRecordOf, is_delta
  <2> QED
    BY <1>1, <1>4, <2>1, <2>2, <2>3, <2>4, ZenonT(30) DEF KeyInv
<1>5. ASSUME rpc = "plan"
      PROVE  KeyInv(k)'
  <2>1. found[k] = NoRec \/ IsRecordOf(k, found[k])
    BY <1>5, Zenon DEF KeyInv
  <2>2. /\ Covered(seen', k, Over(found[k], Fold(SegStack(manifest), k)'))
        /\ Base(Get(taken', k)) => Covered(seen', k, Over(found[k], Get(taken', k)))
        /\ \A w \in DOMAIN frozen' : Base(Get(frozen'[w], k)) =>
             Covered(seen', k, Over(found[k], Get(frozen'[w], k)))
    BY <1>1, <1>2, <1>3, <1>5, MovesBeforePlan, Zenon
  <2>3. PutCovered(taken, k)' /\ \A w \in DOMAIN frozen' : PutCovered(frozen[w], k)'
    BY <1>1, <2>2, Zenon DEF PutCovered, Get, Base, is_delta
  <2>4. IsRecordOf(k, found[k])' <=> IsRecordOf(k, found[k])
    BY <1>1 DEF IsRecordOf, is_delta
  <2> QED
    BY <1>1, <1>5, <2>1, <2>2, <2>3, <2>4, ZenonT(30) DEF KeyInv
<1>6. ASSUME rpc = "segments"
      PROVE  KeyInv(k)'
  <2>1. (found[k] = NoRec \/ IsRecordOf(k, found[k])) /\ PlanCovered(k)
    BY <1>6, Zenon DEF KeyInv
  <2>2. PlanCovered(k)'
    BY <1>1, <1>2, <1>6, <2>1, MovesUnderPlan, Zenon
  <2>3. IsRecordOf(k, found[k])' <=> IsRecordOf(k, found[k])
    BY <1>1 DEF IsRecordOf, is_delta
  <2> QED
    BY <1>1, <1>6, <2>1, <2>2, <2>3, Zenon DEF KeyInv
<1> QED
  BY <1>1, <1>4, <1>5, <1>6, ZenonT(30) DEF KeyInv

(***************************************************************************)
(* The steps of a read                                                     *)
(***************************************************************************)

\* An older version laid under what a read has of a key.
LEMMA LayFolded ==
  ASSUME NEW k \in Folded, NEW newer, NEW older, IsVersion(k, newer)
  PROVE  Lay(newer, older) = Over(newer, older)
<1>1. CASE mode # "raw"
  BY <1>1 DEF Lay
<1>2. CASE k \in PlainKey
  <2>1. Hides(newer)
    BY <1>2, PlainVersion DEF Hides, Base
  <2> QED
    BY <2>1, OverPlain DEF Lay
<1> QED
  BY <1>1, <1>2 DEF Folded

\* The memtable is read first.
LEMMA FreshReadMem ==
  ASSUME FoldLaws, IInv, ChurnInv, ReadMem, Holding \in seen, NEW k \in want, k \in Key
  PROVE  KeyInv(k)'
<1> DEFINE m == Get(mem, k)
           t == Get(taken, k)
           B == Below(k)
<1>1. /\ found'[k] = m /\ seen' = seen /\ phase = "up" /\ UNCHANGED taken
      /\ rpc' = "frozen" \/ (rpc' = "done" /\ Base(found'[k]))
  BY Zenon DEF ReadMem, Looks, Enough, ChurnInv, Reading, vars, writerVars, Base
<1>2. Below(k)' = B /\ Get(taken, k)' = t
  BY Zenon DEF ReadMem, Looks, vars, writerVars, segVars, maintVars, Below, AboveSegs, SegStack, Get
<1>3. /\ IsVersion(k, m) /\ IsVersion(k, t) /\ IsVersion(k, B) /\ Shape
      /\ Keeps(k, Over(m, Over(t, B)), acked[k])
      /\ m = NoRec \/ t = NoRec
  BY <1>1, AckedKept, Zenon DEF IInv
<1>4. Covered(seen, k, Over(m, Over(t, B)))
  BY <1>3, VersionOver, CoveredNow, ZenonT(30)
<1>5. found'[k] = NoRec \/ IsRecordOf(k, found'[k])
  BY <1>1, <1>3, Zenon DEF IsVersion
<1> HIDE DEF m, t, B
<1>6. Covered(seen, k, Over(IF m = NoRec THEN t ELSE m, B))
  <2>1. IsVersion(k, B) /\ IsVersion(k, Over(t, B))
    BY <1>3, VersionOver, Zenon
  <2>2. Over(NoRec, B) = B /\ Over(NoRec, Over(t, B)) = Over(t, B)
    BY <2>1, Nothing, Zenon
  <2>3. CASE m = NoRec
    BY <1>4, <2>2, <2>3, Zenon
  <2>4. CASE m # NoRec
    BY <1>3, <1>4, <2>2, <2>4, Zenon
  <2> QED
    BY <2>3, <2>4, Zenon
<1>7. Base(t) => Covered(seen, k, Over(m, t))
  BY <1>3, <1>4, BaseHides, NoRecAssumption, Zenon DEF Base
<1>8. Base(m) => Covered(seen, k, m)
  BY <1>4, BaseHides
<1>9. PutCovered(taken, k)'
  BY <1>1, <1>2, <1>7, Zenon DEF PutCovered, Base, is_delta
<1>10. (found[k] = NoRec \/ IsRecordOf(k, found[k]))'
  BY <1>5, Zenon DEF IsRecordOf, is_delta
<1> QED
  BY <1>1, <1>2, <1>6, <1>8, <1>9, <1>10, ZenonT(30) DEF KeyInv

\* The frozen list is read with the memtable inside freeze in neither place:
\* unless that one has the key, nothing is missed.
LEMMA FreshReadFrozen ==
  ASSUME FoldLaws, IInv, ChurnInv, ReadFrozen, ~gap', NEW k \in Folded, k \in Key, KeyInv(k)
  PROVE  KeyInv(k)'
<1> DEFINE f == found[k]
           t == Get(taken, k)
           F == Fold(frozen, k)
           M == Fold(SegStack(manifest), k)
           h == Over(f, F)
<1>1. /\ found'[k] = Lay(f, FromStack(frozen, k)) /\ seen' = seen /\ phase = "up"
      /\ rpc' = "plan" \/ (rpc' = "done" /\ Base(found'[k]))
      /\ rpc = "frozen" /\ (k \in DOMAIN taken => f # NoRec)
  BY Zenon DEF ReadFrozen, Looks, Enough, ChurnInv, Reading, Folded, Base
<1>2. /\ Fold(SegStack(manifest), k)' = M
      /\ UNCHANGED <<taken, frozen>>
  BY Zenon DEF ReadFrozen, Looks, vars, writerVars, segVars, maintVars, SegStack
<1>3. /\ IsVersion(k, f)
      /\ Base(t) => Covered(seen, k, Over(f, t))
      /\ Covered(seen, k, Over(IF f = NoRec THEN t ELSE f, Below(k)))
  BY <1>1, Zenon DEF KeyInv, IsVersion, PutCovered
<1>4. /\ Shape /\ IsVersion(k, t) /\ IsVersion(k, F) /\ IsVersion(k, M) /\ IsVersion(k, Below(k))
      /\ \A w \in DOMAIN frozen : IsVersion(k, Get(frozen[w], k))
  BY <1>1, KeyVersions, AckedKept, Zenon DEF IInv
<1>5. FromStack(frozen, k) = F
  BY <1>4, FrozenTop, Zenon DEF FromStack, Folded
<1>6. found'[k] = h /\ IsVersion(k, h)
  BY <1>1, <1>3, <1>4, <1>5, LayFolded, VersionOver, ZenonT(60)
<1>7. ~(k \in DOMAIN taken) => t = NoRec
  BY DEF Get
<1>8. Covered(seen, k, Over(f, Below(k)))
  BY <1>1, <1>3, <1>7, Zenon
<1>9. Keeps(k, Over(F, M), Below(k))
  BY <1>4, FrozenKeeps
<1>10. \A w \in DOMAIN frozen : Base(Get(frozen[w], k)) => Base(F)
  BY <1>4, LogBounds, BaseFold, Zenon
<1> HIDE DEF f, t, F, M
<1>11. Covered(seen, k, Over(h, M))
  <2>1. Over(h, M) = Over(f, Over(F, M)) /\ IsVersion(k, Over(F, M))
    <3>1. IsVersion(k, f) /\ IsVersion(k, F) /\ IsVersion(k, M)
      BY <1>3, <1>4, ZenonT(30)
    <3> QED
      BY <3>1, Regroup, VersionOver
  <2>2. Keeps(k, Over(f, Over(F, M)), Over(f, Below(k)))
    BY <1>3, <1>4, <1>9, <2>1, KeepsOver
  <2> QED
    BY <1>3, <1>4, <1>8, <2>1, <2>2, VersionOver, CoveredKeeps, ZenonT(30)
<1>12. \A x : Base(h) => Covered(seen, k, Over(h, x)) /\ Covered(seen, k, h)
  <2>1. ASSUME NEW x, Base(h) PROVE Over(h, x) = h /\ Over(h, M) = h
    BY <2>1, BaseHides, ZenonT(30)
  <2> QED
    BY <1>11, <2>1, Zenon
<1>13. Base(t) => Covered(seen, k, Over(h, t))
  <2>1. CASE Base(h)
    BY <1>12, <2>1, Zenon
  <2>2. CASE ~Base(h)
    <3>1. ~Base(F)
      BY <1>3, <1>4, <2>2, BaseOver, ZenonT(30)
    <3>2. Over(h, t) = Over(f, Over(F, t)) /\ IsVersion(k, Over(F, t)) /\ Keeps(k, Over(F, t), t)
      <4>1. IsVersion(k, f) /\ IsVersion(k, F) /\ IsVersion(k, t)
        BY <1>3, <1>4, Zenon
      <4>2. IsVersion(k, Over(F, t)) /\ Keeps(k, Over(F, t), t)
        BY <3>1, <4>1, VersionOver, KeepsGrow, ZenonT(30)
      <4>3. Over(Over(f, F), t) = Over(f, Over(F, t))
        BY <4>1, Regroup
      <4> QED
        BY <4>2, <4>3, Zenon
    <3>3. Keeps(k, Over(f, Over(F, t)), Over(f, t))
      BY <1>3, <1>4, <3>2, KeepsOver, Zenon
    <3> QED
      BY <1>3, <1>4, <3>2, <3>3, VersionOver, CoveredKeeps, ZenonT(30)
  <2> QED
    BY <2>1, <2>2
<1>14. \A w \in DOMAIN frozen : Base(Get(frozen[w], k)) => Base(h)
  BY <1>3, <1>4, <1>10, BaseOver, Zenon
<1> HIDE DEF h
<1>15. PutCovered(taken, k)' /\ \A w \in DOMAIN frozen' : PutCovered(frozen[w], k)'
  BY <1>1, <1>2, <1>6, <1>12, <1>13, <1>14, ZenonT(30) DEF PutCovered, Base, is_delta, Get, t
<1>16. (found[k] = NoRec \/ IsRecordOf(k, found[k]))'
  BY <1>6 DEF IsVersion, IsRecordOf, is_delta
<1> QED
  BY <1>1, <1>2, <1>6, <1>11, <1>12, <1>15, <1>16, ZenonT(30) DEF KeyInv, M

\* The snapshot of the manifest has the stored versions of the key, in files
\* that are all there.
LEMMA FreshReadPlan ==
  ASSUME IInv, ReadPlan, NEW k \in want, k \in Key, KeyInv(k)
  PROVE  KeyInv(k)'
<1> DEFINE S == SegStack(manifest)
<1>1. /\ plan' = manifest.segs /\ UNCHANGED <<seen, found, files>> /\ rpc = "plan"
      /\ rpc' = IF DOMAIN manifest.segs = {} THEN "done" ELSE "segments"
  BY Zenon DEF ReadPlan, Looks, vars, segVars, maintVars
<1>2. IsVersion(k, found[k]) /\ Covered(seen, k, Over(found[k], Fold(S, k)))
  BY <1>1, Zenon DEF KeyInv, IsVersion
<1>3. (found[k] = NoRec \/ IsRecordOf(k, found[k]))'
  BY <1>1, <1>2, ZenonT(30) DEF IsVersion, IsRecordOf, is_delta
<1>4. /\ DOMAIN S = DOMAIN manifest.segs /\ IsStack(S)
      /\ \A i \in DOMAIN S : files[manifest.segs[i]] = S[i]
  BY SegStackFacts DEF SegStack, IInv
<1> HIDE DEF S
<1>5. CASE DOMAIN manifest.segs = {}
  <2>1. Fold(S, k) = NoRec
    BY <1>4, <1>5, FoldNone, ZenonT(30) DEF Holders
  <2>2. Covered(seen, k, found[k])
    BY <1>2, <2>1, Nothing
  <2> QED
    BY <1>1, <1>3, <1>5, <2>2, Zenon DEF KeyInv
<1>6. CASE DOMAIN manifest.segs # {}
  <2>1. PlanCovered(k)'
    BY <1>1, <1>2, <1>4, Zenon DEF PlanCovered
  <2> QED
    BY <1>1, <1>3, <1>6, <2>1, Zenon DEF KeyInv
<1> QED
  BY <1>5, <1>6

\* The next segment is the top of what is left of the snapshot.
LEMMA FreshReadSegment ==
  ASSUME FoldLaws, IInv, ChurnInv, ReadSegment, NEW k \in Folded, k \in Key, KeyInv(k)
  PROVE  KeyInv(k)'
<1> DEFINE n == NextId
           f == found[k]
           g == Get(files[plan[n]], k)
           h == Over(f, g)
<1>1. /\ found'[k] = Lay(f, g) /\ UNCHANGED <<seen, files>> /\ rpc = "segments"
      /\ plan' = Restrict(plan, DOMAIN plan \ {n}) /\ plan[n] \in DOMAIN files
      /\ rpc' \in {"segments", "done"}
      /\ rpc' = "done" => Base(found'[k]) \/ DOMAIN plan' = {}
  BY Zenon DEF ReadSegment, Ahead, Enough, Looks, vars, segVars, maintVars, Folded, Base
<1>2. DOMAIN plan \in SUBSET Nat /\ DOMAIN plan # {} /\ manifest.next \in Nat
      /\ \A i \in DOMAIN plan : i <= manifest.next
  BY <1>1, SegmentNumbers DEF ChurnInv, SegInv, IsManifest, IInv
<1>3. n \in DOMAIN plan /\ \A i \in DOMAIN plan : i <= n
  BY <1>2, Zenon DEF FoldLaws, MaxLaw, NextId
<1> HIDE DEF n
<1>4. IsVersion(k, f) /\ PlanCovered(k)
  BY <1>1, Zenon DEF KeyInv, IsVersion
<1>5. PICK stack : /\ IsStack(stack) /\ DOMAIN stack = DOMAIN plan
                   /\ \A i \in DOMAIN plan : plan[i] \in DOMAIN files => files[plan[i]] = stack[i]
                   /\ Covered(seen, k, Over(f, Fold(stack, k)))
  BY <1>4, Zenon DEF PlanCovered
<1> DEFINE rest == Restrict(stack, DOMAIN plan \ {n})
<1>6. /\ IsStack(rest) /\ DOMAIN rest = DOMAIN plan \ {n} /\ DOMAIN plan' = DOMAIN rest
      /\ \A i \in DOMAIN rest : rest[i] = stack[i] /\ plan'[i] = plan[i]
  BY <1>1, <1>5, StackRestrictType, Zenon DEF Restrict
<1>7. IsTable(stack[n]) /\ n \in Nat /\ g = Get(stack[n], k) /\ IsVersion(k, g)
  BY <1>1, <1>2, <1>3, <1>5, VersionGet, ZenonT(30) DEF IsStack
<1> HIDE DEF rest
<1>8. Fold(stack, k) = Over(g, Fold(rest, k))
  <2> DEFINE top == insert(rest, n, stack[n])
  <2>1. \A i \in DOMAIN rest : i < n
    <3>1. n \in Nat /\ \A i \in DOMAIN rest : i \in Nat /\ i <= n /\ i # n
      BY <1>2, <1>3, <1>6, <1>7, ZenonT(30)
    <3> QED
      BY <3>1
  <2>2. Fold(top, k) = Over(g, Fold(rest, k)) /\ IsStack(top)
    <3>1. IsStack(top)
      BY <1>6, <1>7, StackInsertType, Zenon
    <3>2. IsStack(rest) /\ IsTable(stack[n]) /\ n \in Nat
      BY <1>6, <1>7, Zenon
    <3>3. Fold(top, k) = Over(Get(stack[n], k), Fold(rest, k))
      BY <2>1, <3>2, FoldPush
    <3> QED
      BY <1>7, <3>1, <3>3, Zenon
  <2>3. \A i \in Nat : At(stack, k, i) = At(top, k, i)
    BY <1>3, <1>5, <1>6, Zenon DEF At, insert
  <2>4. \A i \in DOMAIN top : i <= n
    BY <1>2, <1>3, <1>6, Zenon DEF insert
  <2> HIDE DEF top
  <2>5. Within(stack, k, n) /\ Within(top, k, n)
    BY <1>3, <1>5, <1>7, <2>2, <2>4, StackWithin, ZenonT(30)
  <2> QED
    BY <2>2, <2>3, <2>5, ZenonT(30) DEF FoldLaws, LikeLaw
<1>9. IsVersion(k, Fold(rest, k)) /\ IsVersion(k, h)
  BY <1>2, <1>4, <1>6, <1>7, VersionFold, VersionOver, ZenonT(30)
<1>10. found'[k] = h
  BY <1>1, <1>4, LayFolded, ZenonT(30)
<1> HIDE DEF f, g
<1>11. Covered(seen, k, Over(h, Fold(rest, k)))
  <2>1. IsVersion(k, f) /\ IsVersion(k, g) /\ IsVersion(k, Fold(rest, k))
    BY <1>4, <1>7, <1>9, ZenonT(30)
  <2>2. Over(Over(f, g), Fold(rest, k)) = Over(f, Over(g, Fold(rest, k)))
    BY <2>1, Regroup
  <2> QED
    BY <1>5, <1>8, <2>2, Zenon
<1> HIDE DEF h
<1>12. PlanCovered(k)'
  <2>1. \A i \in DOMAIN plan' : plan'[i] \in DOMAIN files' => files'[plan'[i]] = rest[i]
    BY <1>1, <1>5, <1>6, Zenon
  <2> QED
    BY <1>1, <1>6, <1>10, <1>11, <2>1, Zenon DEF PlanCovered
<1>13. rpc' = "done" => Covered(seen, k, h)
  <2>1. DOMAIN plan' = {} => Fold(rest, k) = NoRec
    BY <1>6, FoldNone, ZenonT(30) DEF Holders
  <2> QED
    BY <1>1, <1>9, <1>10, <1>11, <2>1, Nothing, BaseHides, ZenonT(30)
<1>14. (found[k] = NoRec \/ IsRecordOf(k, found[k]))'
  BY <1>9, <1>10 DEF IsVersion, IsRecordOf, is_delta
<1> QED
  BY <1>1, <1>10, <1>12, <1>13, <1>14, Zenon DEF KeyInv

\* Every step of a read and of the engine keeps what the read has found, over
\* what it can still find, covered by what was shown.
LEMMA FreshStep ==
  ASSUME FoldLaws, IInv, ChurnInv, FreshInv, ReadNext
  PROVE  FreshInv'
<1>1. CASE Moves
  <2>1. UNCHANGED <<rpc, want, mode, gap>> /\ rpc \notin {"done", "failed"} /\ Folded' = Folded
    BY <1>1, ZenonT(30) DEF Moves, readVars, Folded
  <2>2. CASE ~Reading
    BY <2>1, <2>2, ZenonT(30) DEF FreshInv, KeyInv, Reading
  <2>3. CASE Reading
    <3>1. Holding' \in seen' /\ Holding \in seen
      BY <1>1, <2>3 DEF Moves, FreshInv
    <3>2. ASSUME ~gap, NEW k \in Folded
          PROVE  KeyInv(k)'
      <4>1. k \in want /\ k \in Key /\ KeyInv(k)
        BY <3>2 DEF FreshInv, Folded
      <4> QED
        BY <1>1, <2>3, <3>1, <4>1, FreshUnderMoves, Zenon
    <3> QED
      BY <2>1, <3>1, <3>2 DEF FreshInv
  <2> QED
    BY <2>2, <2>3
<1>2. CASE Read
  <2>1. CASE (\E k \in Key : Begin("get", {k})) \/ Begin("raw", Key)
    <3>1. PICK ks \in SUBSET Key : \E m \in {"get", "raw"} : Begin(m, ks)
      BY <2>1, Zenon
    <3>2. /\ rpc' \in {"mem", "deltas_mem"} /\ want' = ks
          /\ seen' = {[k \in ks |-> surface(acked[k])]} /\ acked' = acked
      BY <3>1 DEF Begin, vars
    <3> QED
      BY <3>2, Zenon DEF FreshInv, KeyInv, Holding
  <2>2. CASE End
    BY <2>2, Zenon DEF End, FreshInv, KeyInv, Reading
  <2>3. CASE DeltasMem \/ DeltasFrozen \/ DeltasSegs \/ Vanished
    <3>1. Reading /\ rpc' \in {"mem", "deltas_mem", "deltas_frozen", "deltas_segs", "failed"}
          /\ UNCHANGED <<want, seen, acked>>
      BY <2>3, Zenon DEF DeltasMem, DeltasFrozen, DeltasSegs, Settle, Vanished, Looks, Reading, vars
    <3> QED
      BY <3>1, Zenon DEF FreshInv, KeyInv, Holding
  <2>4. CASE ReadMem \/ ReadFrozen \/ ReadPlan \/ ReadSegment
    <3>1. Reading /\ UNCHANGED <<want, mode, seen, acked>>
      BY <2>4, Zenon DEF ReadMem, ReadFrozen, ReadPlan, ReadSegment, Looks, Reading, vars
    <3>2. ~gap' => ~gap
      BY <2>4, Zenon DEF ReadMem, ReadFrozen, ReadPlan, ReadSegment
    <3>3. Holding \in seen /\ Holding' \in seen' /\ Folded' = Folded
      BY <3>1 DEF FreshInv, Holding, Folded
    <3>4. ASSUME ~gap', NEW k \in Folded
          PROVE  KeyInv(k)'
      <4>1. k \in want /\ k \in Key /\ KeyInv(k)
        BY <3>2, <3>4 DEF FreshInv, Folded
      <4> QED
        BY <2>4, <3>3, <3>4, <4>1, FreshReadMem, FreshReadFrozen, FreshReadPlan, FreshReadSegment, ZenonT(30)
    <3> QED
      BY <3>1, <3>3, <3>4 DEF FreshInv
  <2> QED
    BY <1>2, <2>1, <2>2, <2>3, <2>4, ZenonT(30) DEF Read
<1> QED
  BY <1>1, <1>2 DEF ReadNext
==============================================================================
