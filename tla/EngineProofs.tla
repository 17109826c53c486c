---------------------------- MODULE EngineProofs -----------------------------
(***************************************************************************)
(* The theorems about Engine and Reader: the invariant IInv holds, for every *)
(* set of keys and every memtable size, and with it G1 to G3 of            *)
(* docs/GUARANTEES.md, the refinement of Upsert, what counters promise and *)
(* what a read that overlaps the two actors returns.                       *)
(***************************************************************************)
EXTENDS AlgorithmProofs, ControlProofs, KeyProofs, RecoveryProofs, ReaderLemmas

(***************************************************************************)
(* Invariance                                                              *)
(***************************************************************************)

\* Every step of the engine keeps KInv.
LEMMA NextKeys ==
  ASSUME FoldLaws, IInv, Benign, [Next]_vars
  PROVE  KInv'
<1>1. CASE Writer
  <2>1. ~AppendFails /\ ~FreezeFails
    BY DEF Benign, AppendFails, FreezeFails
  <2> QED
    BY <1>1, <2>1, FramesKeys, ApplyKeys, FreezeTakeKeys, FreezePushKeys, Zenon DEF Writer
<1>2. CASE Maintenance
  BY <1>2, MaintenanceKeys, ZenonT(30)
<1>3. CASE Lifecycle
  BY <1>3, LoseKeys, OpenKeys, FramesKeys, RecoverApplyKeys, SettledKeys, DropOldWalKeys, ZenonT(30)
  DEF Lifecycle
<1> QED
  BY <1>1, <1>2, <1>3, StutterKeys, ZenonT(30) DEF Next

\* The invariant holds in every reachable state, for a WAL that can be
\* written, created and deleted and for compactions that find an id of their
\* run for every chunk (Benign).
THEOREM Invariance ==
  ASSUME Benign
  PROVE  Spec => []IInv
<1>1. Init => IInv
  BY LawsHold, InitShape, InitKeys, ZenonT(30) DEF IInv
<1>2. IInv /\ [Next]_vars => IInv'
  BY LawsHold, NextShape, NextKeys, ZenonT(30) DEF IInv
<1> QED
  BY <1>1, <1>2, PTL DEF Spec

(***************************************************************************)
(* What callers are promised                                               *)
(*                                                                         *)
(* Benign is an assumption about the WAL, and about the sizes of records:  *)
(* the branch of compact_run that gives a chunk a fresh id is not taken.   *)
(* LiveLww and what follows from it are false where it is.                 *)
(***************************************************************************)

\* Type correctness of the write, flush, compaction and recovery paths, for
\* every set of keys and every memtable size.
THEOREM TypeCorrect ==
  ASSUME Benign
  PROVE  Spec => []TypeOK
<1>1. IInv => TypeOK
  BY ZenonT(30) DEF IInv, Shape
<1> QED
  BY <1>1, Invariance, PTL

\* G1 and G2 of docs/GUARANTEES.md: an open engine serves the most recently
\* acknowledged record of every ordinary key, however freezes, flushes,
\* compactions, failed manifest stores, crashes and recoveries interleave,
\* while compact_run finds an id of its run for every chunk (Benign).
THEOREM LiveReads ==
  ASSUME Benign
  PROVE  Spec => []LiveLww
<1>1. IInv => LiveLww
  BY LawsHold, Views, ZenonT(30) DEF LiveLww
<1> QED
  BY <1>1, Invariance, PTL

\* G3: at every moment the disk alone holds the most recently acknowledged
\* record of every ordinary key (or the logged one of the call in progress),
\* on the same condition.
THEOREM DurableWrites ==
  ASSUME Benign
  PROVE  Spec => []DurableLww
<1>1. IInv => DurableLww
  BY LawsHold, Views, ZenonT(30) DEF DurableLww, Pending
<1> QED
  BY <1>1, Invariance, PTL

\* No crash and no failed segment write or manifest store makes an open
\* engine serve less of a counter than was acknowledged of it, wherever its
\* deltas lie and however often recovery replays them.  Increments are not
\* negative, and compactions find an id for every chunk.
THEOREM CountersKept ==
  ASSUME Benign
  PROVE  Spec => []CounterNeverLost
<1>1. IInv => CounterNeverLost
  <2> SUFFICES ASSUME IInv, phase = "up", NEW k \in CounterKey
               PROVE  Count(LiveView(k)) >= Count(acked[k])
    BY DEF CounterNeverLost
  <2>1. k \in Key /\ k \notin PlainKey
    BY EngineAssumption DEF PlainKey
  <2> QED
    BY <2>1, LawsHold, Live, ZenonT(30) DEF Keeps
<1> QED
  BY <1>1, Invariance, PTL

\* Where nothing fails and no chunk takes a fresh id, an open engine serves a
\* counter as exactly what was acknowledged, but for the moment between the
\* store of a flushed segment and the pop of its memtable.
THEOREM CountersExact ==
  ASSUME Fault = {}
  PROVE  Spec => []CounterExactAtRest
<1>1. Benign
  BY DEF Benign
<1>2. IInv => CounterExactAtRest
  <2> SUFFICES ASSUME IInv, phase = "up", mpc \notin {"stored", "unlinked"}, NEW k \in CounterKey
               PROVE  surface(LiveView(k)) = surface(acked[k])
    BY DEF CounterExactAtRest
  <2>1. k \in Key
    BY EngineAssumption
  <2> QED
    BY <2>1, LawsHold, Live, ZenonT(30) DEF Agrees
<1> QED
  BY <1>1, <1>2, Invariance, PTL

\* Neither a failing segment write, manifest store or WAL, nor a crash at any
\* step of a flush or a compaction, nor a chunk with a fresh id, leaves a
\* manifest, in memory or stored, that names a segment file which is not there.
THEOREM SegmentsPresent == Spec => []NoDanglingSegment
<1>1. SegInv /\ [Next]_vars => SegInv'
  BY LawsHold, SegStep, SegKept, ZenonT(30) DEF vars, maintVars, segVars
<1>2. SegInv => NoDanglingSegment
  BY DEF SegInv, ManifestCorrect, NoDanglingSegment
<1> QED
  BY <1>1, <1>2, SegStart, PTL DEF Spec

(***************************************************************************)
(* Engine implements Upsert                                                *)
(***************************************************************************)

\* G1 to G3 as a refinement: every step of the engine is a step of the map
\* that only calls change, or changes nothing of it (for Benign runs).
THEOREM Refinement ==
  ASSUME Benign
  PROVE  Spec => ImplementsUpsert
<1>1. Init => Store!Init
  <2> SUFFICES ASSUME Init
               PROVE  StoredMap = [k \in PlainKey |-> NoRec] /\ Logged = Store!NoCall
    BY DEF Store!Init
  <2>1. StoredMap = [k \in PlainKey |-> surface(acked[k])]
    BY LawsHold, InitShape, InitKeys, StoredAcked, ZenonT(30) DEF IInv, StoreAgrees, AckedMap
  <2>2. \A k \in PlainKey : surface(acked[k]) = NoRec
    BY DEF Init, PlainKey, surface
  <2> QED
    BY <2>1, <2>2, ZenonT(30) DEF Init, Logged, Store!NoCall, EmptyTable
<1>2. IInv => StoreAgrees
  BY LawsHold, StoredAcked, ZenonT(30)
<1>3. IInv' => StoreAgrees'
  BY <1>2, PTL
<1>4. IInv /\ IInv' /\ [Next]_vars => [Store!Next]_<<StoredMap, Logged>>
  BY <1>3, LawsHold, RefinementStep, ZenonT(30)
<1> QED
  BY <1>1, <1>4, Invariance, PTL DEF Spec, ImplementsUpsert, Store!Spec

(***************************************************************************)
(* Reads that overlap the two actors                                       *)
(***************************************************************************)

\* A read fails only if compaction swapped the manifest more often during it
\* than VANISHED_SEGMENT_RETRIES, whatever the fault: retry_vanished never
\* gives up on a store that stands still.
THEOREM ReadsFailOnlyUnderChurn == ReadSpec => []FailsOnlyUnderChurn
<1>1. ReadInit => SegInv /\ ChurnInv
  BY SegStart DEF ReadInit, ChurnInv, Reading
<1>2. SegInv /\ [ReadNext]_rvars => SegInv'
  <2>1. [ReadNext]_rvars => [Next]_vars
    BY ReadsEngine, ZenonT(30) DEF rvars
  <2> QED
    BY <2>1, LawsHold, SegStep, SegKept, ZenonT(30) DEF vars, maintVars, segVars
<1>3. SegInv /\ ChurnInv /\ [ReadNext]_rvars => ChurnInv'
  <2>1. ASSUME ChurnInv, UNCHANGED rvars
        PROVE  ChurnInv'
    BY <2>1 DEF ChurnInv, Reading, Doomed, rvars, readVars, vars, openVars, maintVars, segVars
  <2> QED
    BY <2>1, LawsHold, ChurnStep, ZenonT(30)
<1>4. ChurnInv => FailsOnlyUnderChurn
  BY DEF ChurnInv, FailsOnlyUnderChurn
<1> QED
  BY <1>1, <1>2, <1>3, <1>4, PTL DEF ReadSpec

\* What a read returns is covered by what its keys were during it, as long as
\* WAL writes do not fail.
LEMMA ReadsAreCovered ==
  ASSUME Benign
  PROVE  ReadSpec => []FreshInv
<1>1. ReadInit => Init /\ ChurnInv /\ FreshInv
  BY DEF ReadInit, ChurnInv, FreshInv, KeyInv, Reading, Folded
<1>2. [ReadNext]_rvars => [Next]_vars
  BY ReadsEngine, ZenonT(30) DEF rvars
<1>3. Spec => []IInv
  BY Invariance
<1>4. IInv => SegInv
  BY SegmentNumbers, ZenonT(30) DEF IInv
<1>5. SegInv /\ ChurnInv /\ [ReadNext]_rvars => ChurnInv'
  <2>1. ASSUME ChurnInv, UNCHANGED rvars
        PROVE  ChurnInv'
    BY <2>1, ZenonT(30) DEF ChurnInv, Reading, Doomed, rvars, readVars, vars, openVars, maintVars, segVars
  <2> QED
    BY <2>1, LawsHold, ChurnStep, ZenonT(30)
<1>6. IInv /\ ChurnInv /\ FreshInv /\ [ReadNext]_rvars => FreshInv'
  <2>1. ASSUME FreshInv, UNCHANGED rvars
        PROVE  FreshInv'
    <3>1. /\ UNCHANGED <<rpc, want, mode, found, plan, seen, gap, acked, taken, frozen>>
          /\ UNCHANGED <<manifest, files, mpc, job>>
      BY <2>1, ZenonT(30) DEF rvars, readVars, vars, writerVars, maintVars, segVars
    <3>2. SegStack(manifest)' = SegStack(manifest)
      BY <3>1, Zenon DEF SegStack
    <3>3. \A k : Below(k)' = Below(k) /\ (PlanCovered(k)' <=> PlanCovered(k))
      BY <3>1, <3>2, ZenonT(30) DEF Below, AboveSegs, PlanCovered
    <3>4. \A k : KeyInv(k) => KeyInv(k)'
      <4> SUFFICES ASSUME NEW k, KeyInv(k)
                   PROVE  KeyInv(k)'
        BY Zenon
      <4>1. rpc' = rpc /\ found' = found /\ seen' = seen /\ taken' = taken /\ frozen' = frozen
        BY <3>1, Zenon
      <4>2. PutCovered(taken, k)' <=> PutCovered(taken, k)
        BY <4>1, ZenonT(30) DEF PutCovered
      <4>3. \A w : PutCovered(frozen[w], k)' <=> PutCovered(frozen[w], k)
        BY <4>1, ZenonT(30) DEF PutCovered
      <4> QED
        BY <4>1, <4>2, <4>3, <3>2, <3>3, ZenonT(30) DEF KeyInv
    <3>5. Holding' = Holding /\ Reading' = Reading /\ Folded' = Folded
      BY <3>1, Zenon DEF Holding, Reading, Folded
    <3> QED
      BY <2>1, <3>1, <3>4, <3>5, ZenonT(30) DEF FreshInv
  <2> QED
    BY <2>1, LawsHold, FreshStep, ZenonT(30)
<1> QED
  BY <1>1, <1>2, <1>3, <1>4, <1>5, <1>6, PTL DEF ReadSpec, Spec

\* G1 for a get or a scan that overlaps puts, freezes, flushes and
\* compactions: every ordinary key comes back as it was at some moment of the
\* read, unless the read met the key inside freeze, between the memtable and
\* the frozen list.  The runs are Benign, as above.
THEOREM ReadsAreFresh ==
  ASSUME Benign
  PROVE  ReadSpec => []FreshOutsideFreeze
<1>1. FreshInv => FreshOutsideFreeze
  BY Zenon DEF FreshInv, Folded, KeyInv, Covered, FreshOutsideFreeze, Result
<1> QED
  BY <1>1, ReadsAreCovered, PTL

\* A get or a folded scan of a counter that overlaps increments, puts,
\* freezes, flushes and compactions misses no increment acknowledged before
\* it, with the same exception and on the same condition.
THEOREM ReadsMissNoIncrement ==
  ASSUME Benign
  PROVE  ReadSpec => []CounterNeverLow
<1>1. ASSUME FreshInv, rpc = "done", ~gap, mode # "raw", NEW k \in want \cap CounterKey
      PROVE  \E s \in seen : Count(Result[k]) >= Count(s[k])
  <2>1. KeyInv(k) /\ k \notin PlainKey
    BY <1>1 DEF FreshInv, Folded, PlainKey
  <2>2. IsVersion(k, found[k]) /\ Covered(seen, k, found[k])
    BY <1>1, <2>1, ZenonT(30) DEF KeyInv, IsVersion
  <2>3. Count(Result[k]) = Count(found[k])
    BY <2>2, CountSurface, ZenonT(30) DEF Result
  <2> QED
    BY <2>1, <2>2, <2>3, Zenon DEF Covered
<1>2. FreshInv => CounterNeverLow
  BY <1>1, ZenonT(30) DEF CounterNeverLow
<1> QED
  BY <1>2, ReadsAreCovered, PTL
==============================================================================
