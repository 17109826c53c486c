------------------------------ MODULE KeyProofs ------------------------------
(***************************************************************************)
(* Every step of the writer and of maintenance keeps KInv: what memory, the *)
(* logs and the segments hold of each key adds up to what was acknowledged. *)
(***************************************************************************)
EXTENDS EngineLemmas

(***************************************************************************)
(* What a step leaves alone                                                *)
(***************************************************************************)

\* Segments that hold the same of k in other files.
LEMMA KeyLiveSame ==
  ASSUME NEW k, KeyLive(k), UNCHANGED <<phase, recovered, mem, taken, frozen, acked>>,
         mpc \notin {"stored", "unlinked"}, mpc' \notin {"stored", "unlinked"},
         Fold(SegStack(manifest)', k) = Fold(SegStack(manifest), k),
         Fold(SegStack(disk)', k) \in {Fold(SegStack(disk), k), Fold(SegStack(manifest), k)}
  PROVE  KeyLive(k)'
<1>1. Held(k)' = Held(k)
  BY DEF Held
<1> QED
  BY <1>1 DEF KeyLive

(***************************************************************************)
(* The writer                                                              *)
(***************************************************************************)

\* One frame, of a put, of an incr or of what was replayed.
LEMMA FrameKeys ==
  ASSUME FoldLaws, IInv, Running, NEW k \in Key, NEW r, IsRecordOf(k, r), LogFrame(k, r),
         UNCHANGED <<mem, taken, walSeq, curWal, frozen, maintVars, openVars, segVars, acked>>,
         wpc # "taken", wpc' # "taken", k \in DOMAIN batch => ~is_delta(r),
         wpc' = "append" => ~is_delta(r) /\ (wpc = "append" \/ DOMAIN batch = {}),
         phase = "up" \/ (phase = "replay" /\ r = OldLog(k))
  PROVE  KInv'
<1>1. Shape /\ FrameLogged(k, r) /\ Running'
  BY LogFrameFacts DEF IInv, Running, openVars
<1>2. walSeq \in DOMAIN wals /\ WalEdge = walSeq /\ walSeq \notin oldWals
      /\ (\A w \in DOMAIN frozen : w # walSeq) /\ oldWals \subseteq DOMAIN wals
  BY <1>1 DEF Shape, TypeOK, WalOrder, WalEdge, IsStack
<1>3. /\ DOMAIN wals' = DOMAIN wals /\ DOMAIN batch' = DOMAIN batch \cup {k} /\ batch'[k] = r
      /\ \A x \in DOMAIN batch : x # k => batch'[x] = batch[x]
      /\ \A w \in DOMAIN wals : w # walSeq => wals'[w] = wals[w]
      /\ \A x : x # k => Get(wals'[walSeq], x) = Get(wals[walSeq], x)
      /\ Get(wals'[walSeq], k) = Over(r, Get(wals[walSeq], k))
  BY <1>1 DEF FrameLogged, Get
<1>4. r # NoRec /\ r \in Record
  BY NoRecAssumption DEF IsRecordOf
<1> SUFFICES ASSUME NEW x \in Key
             PROVE  KeyLogged(x)' /\ KeyReplayed(x)' /\ KeyLive(x)' /\ KeyMerged(x)'
  BY <1>1 DEF KInv
<1>5. KeyLogged(x) /\ KeyReplayed(x) /\ KeyLive(x) /\ KeyMerged(x)
  BY DEF IInv, KInv
<1>6. Get(wals'[walSeq], x) = Over(Get(batch', x), Get(mem, x))
  <2>1. Get(wals[walSeq], x) = Over(Get(batch, x), Get(mem, x))
    BY <1>5 DEF KeyLogged
  <2>2. CASE x # k
    <3>1. Get(batch', x) = Get(batch, x)
      BY <1>3, <2>2 DEF Get
    <3> QED
      BY <1>3, <2>1, <2>2, <3>1
  <2>3. CASE x = k /\ ~is_delta(r)
    BY <1>3, <1>4, <2>3 DEF Get, Over
  <2>4. CASE x = k /\ is_delta(r)
    <3>1. Get(batch, x) = NoRec /\ Get(batch', x) = r
      BY <1>3, <2>4 DEF Get
    <3> QED
      BY <1>3, <2>1, <2>4, <3>1 DEF Over
  <2> QED
    BY <2>2, <2>3, <2>4
<1>7. KeyLogged(x)'
  <2>1. wpc' = "append" /\ x \in DOMAIN batch' => ~is_delta(batch'[x])
    BY <1>3, <1>5 DEF KeyLogged
  <2>2. \A w \in DOMAIN frozen : wals'[w] = wals[w] \/ w \notin DOMAIN wals
    BY <1>2, <1>3
  <2> QED
    BY <1>3, <1>5, <1>6, <2>1, <2>2, ZenonT(30) DEF KeyLogged, maintVars
<1>8. OldLog(x)' = OldLog(x)
  <2>1. Restrict(wals', oldWals) = Restrict(wals, oldWals)
    BY <1>2, <1>3 DEF Restrict
  <2> QED
    BY <2>1 DEF OldLog, openVars
<1>9. KeyReplayed(x)'
  <2>1. ASSUME Base(OldLog(x)), NEW w \in DOMAIN wals \ oldWals
        PROVE  Get(wals'[w], x) \in {NoRec, OldLog(x)}
    <3>1. phase = "replay" /\ Get(wals[w], x) \in {NoRec, OldLog(x)}
      BY <1>5, <2>1 DEF KeyReplayed, Base
    <3>2. CASE x = k /\ w = walSeq
      BY <1>3, <2>1, <3>1, <3>2, ZenonT(30) DEF Base, Over
    <3> QED
      BY <1>3, <3>1, <3>2, ZenonT(30)
  <2>2. phase = "replay" => Get(recovered, x) = OldLog(x) /\ (x \in DOMAIN batch' => batch'[x] = OldLog(x))
    BY <1>3, <1>5 DEF KeyReplayed
  <2> QED
    BY <1>3, <1>5, <1>8, <2>1, <2>2, Zenon DEF KeyReplayed, openVars
<1>10. KeyLive(x)'
  <2>1. Held(x)' = Held(x) /\ HeldAbove(x)' = HeldAbove(x) /\ acked'[x] = acked[x]
    BY DEF Held, HeldAbove, openVars, maintVars
  <2> QED
    BY <1>1, <1>5, <2>1, KeyLiveKept, ZenonT(30)
<1> QED
  BY <1>5, <1>7, <1>9, <1>10, KeyMergedKept

\* A frame of put_batch, of incr, and of the batch that open puts back.
LEMMA FramesKeys ==
  ASSUME FoldLaws, IInv,
         \/ \E k \in Key : \E r \in ClientRecord : PutFrame(k, r)
         \/ \E k \in CounterKey : \E d \in Delta : IncrFrame(k, d)
         \/ \E k \in DOMAIN recovered \ DOMAIN batch : RecoverFrame(k)
  PROVE  KInv'
<1>1. ASSUME NEW k \in Key, NEW r \in ClientRecord, PutFrame(k, r) PROVE KInv'
  <2>1. IsRecordOf(k, r) /\ ~is_delta(r)
    BY ClientRecordType
  <2>2. /\ Running /\ wpc # "taken" /\ wpc' # "taken" /\ phase = "up" /\ LogFrame(k, r)
        /\ UNCHANGED <<mem, taken, walSeq, curWal, frozen, maintVars, openVars, segVars, acked>>
        /\ wpc = "append" \/ DOMAIN batch = {}
    BY <1>1, ZenonT(30) DEF PutFrame, Running, IInv, Shape, Control
  <2> QED
    BY <2>1, <2>2, FrameKeys, Zenon
<1>2. ASSUME NEW k \in CounterKey, NEW d \in Delta, IncrFrame(k, d) PROVE KInv'
  <2>1. IsRecordOf(k, d) /\ k \in Key
    BY DeltaType, EngineAssumption
  <2>2. /\ Running /\ wpc # "taken" /\ wpc' = "incr" /\ phase = "up" /\ LogFrame(k, d)
        /\ UNCHANGED <<mem, taken, walSeq, curWal, frozen, maintVars, openVars, segVars, acked>>
        /\ DOMAIN batch = {}
    BY <1>2, ZenonT(30) DEF IncrFrame, Running, IInv, Shape, Control
  <2> QED
    BY <2>1, <2>2, FrameKeys, Zenon
<1>3. ASSUME NEW k \in DOMAIN recovered \ DOMAIN batch, RecoverFrame(k) PROVE KInv'
  <2>1. IsRecordOf(k, recovered[k]) /\ k \in Key
    BY DEF IInv, Shape, TypeOK, IsTable
  <2>2. /\ Running /\ wpc # "taken" /\ wpc' = "recover" /\ phase = "replay"
        /\ LogFrame(k, recovered[k])
        /\ UNCHANGED <<mem, taken, walSeq, curWal, frozen, maintVars, openVars, segVars, acked>>
    BY <1>3, ZenonT(30) DEF RecoverFrame, Running
  <2>3. recovered[k] = OldLog(k)
    BY <2>1, <2>2 DEF IInv, KInv, KeyReplayed, Get
  <2> QED
    BY <1>3, <2>1, <2>2, <2>3, FrameKeys, ZenonT(30)
<1> QED
  BY <1>1, <1>2, <1>3, ZenonT(30)

\* The batch becomes visible and is acknowledged.
LEMMA ApplyKeys ==
  ASSUME FoldLaws, IInv, Apply
  PROVE  KInv'
<1>1. /\ Shape /\ Running /\ Running' /\ phase = "up" /\ wpc \in {"append", "incr"}
      /\ wpc' \notin {"append", "taken"}
      /\ batch' = EmptyTable /\ DOMAIN batch' = {}
      /\ acked' = [k \in Key |-> Over(Get(batch, k), acked[k])]
      /\ UNCHANGED <<taken, walSeq, frozen, wals>>
      /\ UNCHANGED <<maintVars, segVars>> /\ UNCHANGED <<phase, recovered, oldWals>>
  BY EmptyTableType, Zenon DEF IInv, Shape, Control, Running, Apply, AfterInsert, openVars, walVars
<1> SUFFICES ASSUME NEW k \in Key
             PROVE  KeyLogged(k)' /\ KeyReplayed(k)' /\ KeyLive(k)' /\ KeyMerged(k)'
  BY <1>1 DEF KInv
<1>2. KeyLogged(k) /\ KeyReplayed(k) /\ KeyLive(k) /\ KeyMerged(k)
  BY <1>1 DEF IInv, KInv
<1>3. Get(mem', k) = Over(Get(batch, k), Get(mem, k))
  <2>1. IsTable(batch)
    BY <1>1 DEF Shape, TypeOK
  <2>2. CASE wpc = "append"
    <3>1. mem' = [x \in DOMAIN batch \cup DOMAIN mem |-> IF x \in DOMAIN batch THEN batch[x] ELSE mem[x]]
      BY <2>2 DEF Apply
    <3>2. k \in DOMAIN batch => batch[k] # NoRec /\ ~is_delta(batch[k])
      BY <1>2, <2>1, <2>2, NoRecAssumption, ZenonT(30) DEF KeyLogged, IsTable, IsRecordOf
    <3> QED
      BY <3>1, <3>2 DEF Get, Over
  <2>3. CASE wpc # "append"
    <3>1. mem' = OverTable(batch, mem)
      BY <2>3 DEF Apply
    <3> QED
      BY <3>1, ZenonT(30) DEF OverTable, Get, Over
  <2> QED
    BY <2>2, <2>3
<1>4. Get(batch', k) = NoRec /\ \A x : Over(NoRec, x) = x
  BY <1>1, Zenon DEF Get, Over
<1>5. KeyLogged(k)'
  <2>1. Get(wals[walSeq], k) = Over(Get(batch, k), Get(mem, k))
    BY <1>1, <1>2, Zenon DEF KeyLogged
  <2> QED
    BY <1>1, <1>2, <1>3, <1>4, <2>1, ZenonT(30) DEF KeyLogged, maintVars
<1>6. KeyReplayed(k)'
  <2>1. OldLog(k)' = OldLog(k) /\ OldLog(k) = NoRec
    BY <1>1, <1>2 DEF OldLog, KeyReplayed
  <2> QED
    BY <1>1, <2>1, ZenonT(30) DEF KeyReplayed, Base
<1>7. KeyLive(k)'
  <2> DEFINE b == Get(batch, k)
             m == Get(mem, k)
             t == Get(taken, k)
             f == Fold(frozen, k)
             g == Fold(Restrict(frozen, DOMAIN frozen \ {job.wal}), k)
  <2>1. /\ IsVersion(k, b) /\ IsVersion(k, m) /\ IsVersion(k, t) /\ IsVersion(k, f) /\ IsVersion(k, g)
    BY <1>1, KeyVersions, ZenonT(30)
  <2>2. /\ Held(k) = Over(m, Over(t, f)) /\ Held(k)' = Over(Over(b, m), Over(t, f))
        /\ HeldAbove(k) = Over(m, Over(t, g)) /\ HeldAbove(k)' = Over(Over(b, m), Over(t, g))
    BY <1>1, <1>3, ZenonT(30) DEF Held, HeldAbove, maintVars
  <2> HIDE DEF b, m, t, f, g
  <2>3. IsVersion(k, Over(t, f)) /\ IsVersion(k, Over(t, g))
    BY <2>1, VersionOver
  <2>4. Held(k)' = Over(b, Held(k)) /\ HeldAbove(k)' = Over(b, HeldAbove(k))
    BY <2>1, <2>2, <2>3, Regroup
  <2>5. acked'[k] = Over(b, acked[k])
    BY <1>1 DEF b
  <2> QED
    BY <1>1, <1>2, <2>1, <2>4, <2>5, KeyLiveOver, ZenonT(30)
<1> QED
  BY <1>1, <1>2, <1>5, <1>6, <1>7, KeyMergedKept

\* The first half of freeze: what was the memtable's is the taken one's.
LEMMA FreezeTakeKeys ==
  ASSUME FoldLaws, IInv, FreezeTake
  PROVE  KInv'
<1>1. /\ Shape /\ Running /\ Running' /\ wpc \in {"idle", "over"} /\ wpc' = "taken"
      /\ DOMAIN taken = {} /\ DOMAIN batch = {} /\ mem' = EmptyTable /\ taken' = mem
      /\ phase # "replay" /\ walSeq' = walSeq + 1
      /\ wals' = insert(wals, walSeq + 1, EmptyTable)
      /\ UNCHANGED <<batch, frozen, acked>> /\ UNCHANGED <<maintVars, segVars>>
      /\ UNCHANGED <<phase, recovered, oldWals>>
  BY ZenonT(30) DEF IInv, Shape, Control, TypeOK, FreezeTake, FreezeEnabled, Running, openVars
<1>2. /\ walSeq \in Nat /\ WalEdge = walSeq /\ walSeq \in DOMAIN wals /\ oldWals \subseteq DOMAIN wals
      /\ \A w \in DOMAIN wals : w <= walSeq
  BY <1>1 DEF Shape, TypeOK, WalOrder, WalEdge
<1>3. /\ DOMAIN wals' = DOMAIN wals \cup {walSeq + 1}
      /\ DOMAIN wals'[walSeq + 1] = {}
      /\ \A w \in DOMAIN wals : wals'[w] = wals[w]
      /\ WalEdge' = walSeq
  BY <1>1, <1>2, EmptyTableType DEF insert, WalEdge
<1> SUFFICES ASSUME NEW k \in Key
             PROVE  KeyLogged(k)' /\ KeyReplayed(k)' /\ KeyLive(k)' /\ KeyMerged(k)'
  BY <1>1 DEF KInv
<1>4. KeyLogged(k) /\ KeyReplayed(k) /\ KeyLive(k) /\ KeyMerged(k)
  BY <1>1 DEF IInv, KInv
<1>5. /\ Get(wals'[walSeq + 1], k) = NoRec /\ Get(batch, k) = NoRec /\ Get(taken, k) = NoRec
      /\ Get(mem', k) = NoRec /\ Get(taken', k) = Get(mem, k) /\ \A x : Over(NoRec, x) = x
  BY <1>1, <1>3, EmptyTableType, ZenonT(30) DEF Get, Over
<1>6. KeyLogged(k)'
  <2>1. Get(wals[walSeq], k) = Get(mem, k)
    BY <1>1, <1>4, <1>5, ZenonT(30) DEF KeyLogged
  <2>2. \A w \in DOMAIN frozen : \/ mpc = "unlinked" /\ w = job.wal
                                 \/ w \in DOMAIN wals' /\ Get(wals'[w], k) = Get(frozen[w], k)
    BY <1>3, <1>4, ZenonT(30) DEF KeyLogged
  <2>3. Get(wals'[walSeq], k) = Get(taken', k)
    BY <1>2, <1>3, <1>5, <2>1, ZenonT(30)
  <2> QED
    BY <1>1, <1>3, <1>5, <2>2, <2>3, ZenonT(30) DEF KeyLogged, maintVars
<1>7. KeyReplayed(k)'
  <2>1. Restrict(wals', oldWals) = Restrict(wals, oldWals)
    BY <1>2, <1>3 DEF Restrict
  <2>2. OldLog(k)' = OldLog(k)
    BY <1>1, <2>1 DEF OldLog
  <2>3. Base(OldLog(k)) => \A w \in DOMAIN wals' \ oldWals : Get(wals'[w], k) \in {NoRec, OldLog(k)}
    BY <1>3, <1>4, <1>5, ZenonT(30) DEF KeyReplayed
  <2> QED
    BY <1>1, <1>4, <2>2, <2>3, ZenonT(30) DEF KeyReplayed
<1>8. KeyLive(k)'
  <2>1. Held(k)' = Held(k) /\ HeldAbove(k)' = HeldAbove(k)
    BY <1>1, <1>5, ZenonT(30) DEF Held, HeldAbove, maintVars
  <2> QED
    BY <1>1, <1>4, <2>1, KeyLiveKept, ZenonT(30)
<1> QED
  BY <1>1, <1>4, <1>6, <1>7, <1>8, KeyMergedKept

\* The second half: what was the taken memtable's is the newest frozen one's.
LEMMA FreezePushKeys ==
  ASSUME FoldLaws, IInv, FreezePush
  PROVE  KInv'
<1>1. /\ Shape /\ Running /\ Running' /\ wpc = "taken" /\ wpc' = "idle"
      /\ DOMAIN mem = {} /\ DOMAIN batch = {} /\ taken' = EmptyTable
      /\ phase # "replay" /\ frozen' = insert(frozen, walSeq - 1, taken)
      /\ UNCHANGED <<mem, walSeq, batch, wals, acked>> /\ UNCHANGED <<maintVars, segVars>>
      /\ UNCHANGED <<phase, recovered, oldWals>>
  BY ZenonT(30) DEF IInv, Shape, Control, TypeOK, FreezePush, Running, openVars, walVars
<1>2. /\ IsStack(frozen) /\ IsTable(taken) /\ walSeq \in Nat
      /\ WalEdge = walSeq - 1 /\ walSeq - 1 \in Nat /\ walSeq - 1 \in DOMAIN wals
      /\ \A w \in DOMAIN frozen : w < walSeq - 1
  BY <1>1, ZenonT(30) DEF Shape, TypeOK, WalOrder, WalEdge
<1>3. /\ DOMAIN frozen' = DOMAIN frozen \cup {walSeq - 1} /\ frozen'[walSeq - 1] = taken
      /\ \A w \in DOMAIN frozen : w # walSeq - 1 /\ frozen'[w] = frozen[w]
  BY <1>1, <1>2 DEF insert, IsStack
<1> SUFFICES ASSUME NEW k \in Key
             PROVE  KeyLogged(k)' /\ KeyReplayed(k)' /\ KeyLive(k)' /\ KeyMerged(k)'
  BY <1>1 DEF KInv
<1>4. KeyLogged(k) /\ KeyReplayed(k) /\ KeyLive(k) /\ KeyMerged(k)
  BY <1>1 DEF IInv, KInv
<1>5. /\ Get(batch, k) = NoRec /\ Get(mem, k) = NoRec
      /\ Get(taken', k) = NoRec /\ \A x : Over(NoRec, x) = x
  BY <1>1, EmptyTableType, Zenon DEF Get, Over
<1>6. KeyLogged(k)'
  <2>1. Get(wals[walSeq], k) = NoRec /\ Get(wals[walSeq - 1], k) = Get(taken, k)
    BY <1>1, <1>2, <1>4, ZenonT(30) DEF KeyLogged
  <2>2. \A w \in DOMAIN frozen' : \/ mpc = "unlinked" /\ w = job.wal
                                  \/ w \in DOMAIN wals /\ Get(wals[w], k) = Get(frozen'[w], k)
    BY <1>2, <1>3, <1>4, <2>1, ZenonT(30) DEF KeyLogged
  <2> QED
    BY <1>1, <1>5, <2>1, <2>2, Zenon DEF KeyLogged, maintVars
<1>7. KeyReplayed(k)'
  BY <1>1, <1>4, KeyReplayedKept, ZenonT(30) DEF openVars
<1>8. Held(k)' = Held(k)
  <2>1. Fold(frozen', k) = Over(Get(taken, k), Fold(frozen, k))
    BY <1>1, <1>2, FoldPush
  <2> QED
    BY <1>1, <1>5, <2>1, ZenonT(30) DEF Held
<1>9. ASSUME mpc \in {"stored", "unlinked"} PROVE HeldAbove(k)' = HeldAbove(k)
  <2> DEFINE rest == Restrict(frozen, DOMAIN frozen \ {job.wal})
  <2>1. job.wal \in DOMAIN frozen
    BY <1>1, <1>9 DEF Shape, Control
  <2>2. Restrict(frozen', DOMAIN frozen' \ {job.wal}) = insert(rest, walSeq - 1, taken)
    BY <1>3, <2>1 DEF Restrict, insert
  <2>3. IsStack(rest) /\ \A w \in DOMAIN rest : w < walSeq - 1
    BY <1>2, StackRestrictType DEF Restrict
  <2> HIDE DEF rest
  <2>4. Fold(insert(rest, walSeq - 1, taken), k) = Over(Get(taken, k), Fold(rest, k))
    BY <1>2, <2>3, FoldPush
  <2> QED
    BY <1>1, <1>5, <2>2, <2>4, ZenonT(30) DEF HeldAbove, maintVars, rest
<1>10. KeyLive(k)'
  BY <1>1, <1>4, <1>8, <1>9, KeyLiveKept, ZenonT(30)
<1> QED
  BY <1>1, <1>4, <1>6, <1>7, <1>10, KeyMergedKept

(***************************************************************************)
(* Flush                                                                   *)
(***************************************************************************)

\* A maintenance step that changes no segment the manifests name, outside a
\* compaction.
LEMMA QuietKeys ==
  ASSUME IInv, Running,
         UNCHANGED <<writerVars, frozen, openVars, walVars, acked>>,
         mpc \notin {"stored", "unlinked"}, mpc' \notin {"stored", "unlinked"},
         SegStack(manifest)' = SegStack(manifest), SegStack(disk)' = SegStack(disk),
         \A k \in Key : KeyMerged(k)'
  PROVE  KInv'
<1>1. Running' /\ UNCHANGED <<phase, recovered, mem, taken, frozen, acked, batch, wals>>
  BY Zenon DEF Running, writerVars, openVars, walVars
<1> SUFFICES ASSUME NEW k \in Key
             PROVE  KeyLogged(k)' /\ KeyReplayed(k)' /\ KeyLive(k)' /\ KeyMerged(k)'
  BY <1>1 DEF KInv
<1>2. KeyLogged(k) /\ KeyReplayed(k) /\ KeyLive(k)
  BY DEF IInv, KInv
<1>3. Fold(SegStack(manifest)', k) = Fold(SegStack(manifest), k)
      /\ Fold(SegStack(disk)', k) = Fold(SegStack(disk), k)
  OBVIOUS
<1>4. KeyLogged(k)' /\ KeyReplayed(k)'
  BY <1>1, <1>2, KeyLoggedKept, KeyReplayedKept
<1>5. KeyLive(k)'
  BY <1>1, <1>2, <1>3, KeyLiveSame, Zenon
<1> QED
  BY <1>4, <1>5

\* FlushWrite and FlushWriteFails change nothing that is named.
LEMMA FlushWriteKeys ==
  ASSUME IInv, FlushWrite \/ FlushWriteFails
  PROVE  KInv'
<1>1. /\ Running /\ mpc = "idle" /\ mpc' \in {"idle", "written"} /\ SegInv
      /\ UNCHANGED <<writerVars, frozen, openVars, walVars, acked>>
  BY SegmentNumbers, Zenon DEF IInv, FlushWrite, FlushWriteFails
<1>2. SegStack(manifest)' = SegStack(manifest) /\ SegStack(disk)' = SegStack(disk)
  BY <1>1, FreshFile, AllocateKept, ZenonT(30) DEF FlushWrite, FlushWriteFails
<1>3. \A k \in Key : KeyMerged(k)'
  BY <1>1 DEF KeyMerged
<1> QED
  BY <1>1, <1>2, <1>3, QuietKeys, ZenonT(30)

\* The memtable being flushed is the lowest in memory.
LEMMA HeldSplit ==
  ASSUME FoldLaws, Shape, mpc \in {"written", "stored", "unlinked"}, NEW k \in Key
  PROVE  /\ Running /\ phase # "replay" /\ IsVersion(k, Get(frozen[job.wal], k))
         /\ Held(k) = Over(HeldAbove(k), Get(frozen[job.wal], k))
<1> DEFINE m == Get(mem, k)
           t == Get(taken, k)
           g == Fold(Restrict(frozen, DOMAIN frozen \ {job.wal}), k)
           r == Get(frozen[job.wal], k)
<1>1. /\ Running /\ phase # "replay" /\ job.wal \in DOMAIN frozen
      /\ \A w \in DOMAIN frozen : job.wal <= w
  BY DEF Shape, Control, Running
<1>2. Fold(frozen, k) = Over(g, r)
  BY <1>1, LogBounds, FoldBottom
<1>3. Held(k) = Over(m, Over(t, Over(g, r))) /\ HeldAbove(k) = Over(m, Over(t, g))
  BY <1>1, <1>2 DEF Held, HeldAbove
<1>4. IsVersion(k, m) /\ IsVersion(k, t) /\ IsVersion(k, g) /\ IsVersion(k, r)
  BY <1>1, KeyVersions
<1> HIDE DEF m, t, g, r
<1>5. Over(Over(m, Over(t, g)), r) = Over(m, Over(t, Over(g, r)))
  BY <1>4, RegroupHeld
<1> QED
  BY <1>1, <1>3, <1>4, <1>5 DEF r

\* The flushed segment enters the manifest, stored or not: memory without
\* the flushed memtable now gives what memory with it gave before, and memory
\* with it counts its deltas a second time.
LEMMA FlushStoreKeys ==
  ASSUME FoldLaws, IInv, FlushStore \/ FlushStoreFails
  PROVE  KInv'
<1>1. /\ Shape /\ mpc = "written" /\ manifest' = Flushed /\ files' = files
      /\ \/ mpc' = "stored" /\ disk' = manifest' /\ job' = job
         \/ mpc' = "idle" /\ disk' = disk /\ Fault # {}
      /\ UNCHANGED <<writerVars, frozen, openVars, walVars, acked>>
  BY DEF IInv, FlushStore, FlushStoreFails, segVars
<1>2. Running /\ Running' /\ UNCHANGED <<phase, recovered, mem, taken, frozen, acked, batch, wals>>
  BY <1>1, Zenon DEF Shape, Control, Running, writerVars, openVars, walVars
<1> SUFFICES ASSUME NEW k \in Key
             PROVE  KeyLogged(k)' /\ KeyReplayed(k)' /\ KeyLive(k)' /\ KeyMerged(k)'
  BY <1>2 DEF KInv
<1>3. KeyLogged(k) /\ KeyReplayed(k) /\ KeyLive(k)
  BY <1>2 DEF IInv, KInv
<1>4. KeyLogged(k)' /\ KeyReplayed(k)' /\ KeyMerged(k)'
  BY <1>1, <1>2, <1>3, KeyLoggedKept, KeyReplayedKept, Zenon DEF KeyMerged
<1> DEFINE A == HeldAbove(k)
           H == Held(k)
           M == Fold(SegStack(manifest), k)
           D == Fold(SegStack(disk), k)
           r == Get(frozen[job.wal], k)
<1>5. /\ Fold(SegStack(manifest)', k) = Over(r, M) /\ H = Over(A, r) /\ IsVersion(k, r)
      /\ IsVersion(k, A) /\ IsVersion(k, M) /\ IsVersion(k, acked[k]) /\ Held(k)' = H
      /\ Agrees(k, Over(H, M), acked[k]) /\ Agrees(k, Over(H, D), acked[k])
      /\ disk' = disk => SegStack(disk)' = SegStack(disk)
      /\ disk' = manifest' => SegStack(disk)' = SegStack(manifest)'
      /\ job' = job => HeldAbove(k)' = A
  <2>1. Fold(SegStack(manifest)', k) = Over(r, M) /\ H = Over(A, r) /\ IsVersion(k, r)
    BY <1>1, FlushedFold, HeldSplit, ZenonT(30)
  <2>2. IsVersion(k, A) /\ IsVersion(k, M) /\ IsVersion(k, acked[k])
    BY <1>1, KeyVersions
  <2>3. Agrees(k, Over(H, M), acked[k]) /\ Agrees(k, Over(H, D), acked[k])
    BY <1>1, <1>3, ZenonT(30) DEF KeyLive
  <2>4. Held(k)' = H /\ (job' = job => HeldAbove(k)' = A)
    BY <1>2, ZenonT(30) DEF Held, HeldAbove
  <2>5. /\ disk' = disk => SegStack(disk)' = SegStack(disk)
        /\ disk' = manifest' => SegStack(disk)' = SegStack(manifest)'
    BY <1>1 DEF SegStack
  <2> QED
    BY <2>1, <2>2, <2>3, <2>4, <2>5, Zenon
<1> HIDE DEF A, H, M, D, r
<1>6. Over(H, M) = Over(A, Over(r, M)) /\ IsVersion(k, Over(r, M)) /\ IsVersion(k, Over(r, Over(r, M)))
      /\ Over(H, Over(r, M)) = Over(A, Over(r, Over(r, M)))
  BY <1>5, VersionOver, Regroup
<1>7. Keeps(k, Over(H, Over(r, M)), acked[k]) /\ IsVersion(k, Over(H, Over(r, M)))
  <2>1. IsVersion(k, Over(A, Over(r, M))) /\ IsVersion(k, Over(A, Over(r, Over(r, M))))
    BY <1>5, <1>6, VersionOver, ZenonT(30)
  <2>2. Keeps(k, Over(r, Over(r, M)), Over(r, M))
    BY <1>5, KeepsTwice
  <2>3. Keeps(k, Over(A, Over(r, Over(r, M))), Over(A, Over(r, M)))
    BY <1>5, <1>6, <2>2, KeepsOver, Zenon
  <2>4. Keeps(k, Over(A, Over(r, M)), acked[k])
    BY <1>5, <1>6, <2>1, AgreesKeeps, ZenonT(30)
  <2>5. Keeps(k, Over(A, Over(r, Over(r, M))), acked[k])
    BY <1>5, <2>1, <2>3, <2>4, KeepsTrans, ZenonT(30)
  <2> QED
    BY <1>6, <2>1, <2>5
<1>8. Fault # {} => Agrees(k, Over(H, Over(r, M)), acked[k])
  BY <1>7, AgreesKeeps
<1>9. KeyLive(k)'
  <2>1. CASE mpc' = "stored" /\ disk' = manifest' /\ job' = job
    BY <1>2, <1>5, <1>6, <1>7, <2>1, Zenon DEF KeyLive
  <2>2. CASE mpc' = "idle" /\ disk' = disk /\ Fault # {}
    <3>1. Agrees(k, Over(Held(k), Fold(SegStack(manifest), k)), acked[k])'
      BY <1>2, <1>5, <1>8, <2>2, Zenon DEF Agrees, Keeps
    <3>2. Agrees(k, Over(Held(k), Fold(SegStack(disk), k)), acked[k])'
      BY <1>2, <1>5, <2>2, ZenonT(30) DEF D, Agrees, Keeps
    <3> QED
      BY <2>2, <3>1, <3>2, Zenon DEF KeyLive
  <2> QED
    BY <1>1, <2>1, <2>2, Zenon
<1> QED
  BY <1>4, <1>9

\* The WAL of the flushed memtable goes; every other memtable has its own.
LEMMA FlushUnlinkKeys ==
  ASSUME IInv, Benign, FlushUnlink
  PROVE  KInv'
<1>1. /\ Shape /\ mpc = "stored" /\ mpc' = "unlinked"
      /\ wals' = Restrict(wals, DOMAIN wals \ {job.wal})
      /\ UNCHANGED <<mem, taken, walSeq, wpc, batch, phase, recovered, oldWals>>
      /\ UNCHANGED <<frozen, manifest, job, disk, files, acked>>
  BY DEF IInv, FlushUnlink, RemoveWal, Benign, writerVars, openVars, segVars
<1>2. /\ Running /\ Running' /\ WalEdge' = WalEdge
      /\ DOMAIN wals' = DOMAIN wals \ {job.wal} /\ \A w \in DOMAIN wals' : wals'[w] = wals[w]
      /\ job.wal \notin oldWals /\ job.wal # walSeq /\ job.wal # WalEdge
      /\ {walSeq, WalEdge} \subseteq DOMAIN wals /\ oldWals \subseteq DOMAIN wals
  <2>1. /\ Running /\ Running' /\ WalEdge' = WalEdge /\ job.wal \in DOMAIN frozen
        /\ {walSeq, WalEdge} \subseteq DOMAIN wals /\ oldWals \subseteq DOMAIN wals
    BY <1>1, ZenonT(30) DEF Shape, Control, Running, WalEdge, WalOrder
  <2>2. /\ job.wal < WalEdge /\ WalEdge \in {walSeq, walSeq - 1} /\ WalEdge \in Nat /\ walSeq \in Nat
        /\ \A o \in oldWals : o < job.wal
    BY <1>1, <2>1, ZenonT(30) DEF Shape, TypeOK, WalOrder, WalEdge
  <2>3. job.wal \in Nat
    BY <1>1, Zenon DEF Shape, TypeOK
  <2>4. job.wal # walSeq /\ job.wal # WalEdge /\ job.wal \notin oldWals
    BY <2>2, <2>3
  <2>5. DOMAIN wals' = DOMAIN wals \ {job.wal} /\ \A w \in DOMAIN wals' : wals'[w] = wals[w]
    BY <1>1, Zenon DEF Restrict
  <2> QED
    BY <2>1, <2>4, <2>5
<1> SUFFICES ASSUME NEW k \in Key
             PROVE  KeyLogged(k)' /\ KeyReplayed(k)' /\ KeyLive(k)' /\ KeyMerged(k)'
  BY <1>2, ZenonT(30) DEF KInv
<1>3. KeyLogged(k) /\ KeyReplayed(k) /\ KeyLive(k)
  BY <1>2, Zenon DEF IInv, KInv
<1>4. KeyLogged(k)'
  <2>1. wals'[walSeq] = wals[walSeq] /\ wals'[WalEdge] = wals[WalEdge]
    BY <1>2
  <2>2. \A w \in DOMAIN frozen : \/ w = job.wal
                                 \/ w \in DOMAIN wals' /\ Get(wals'[w], k) = Get(frozen[w], k)
    BY <1>1, <1>2, <1>3, Zenon DEF KeyLogged
  <2> QED
    BY <1>1, <1>2, <1>3, <2>1, <2>2, ZenonT(30) DEF KeyLogged
<1>5. KeyReplayed(k)'
  <2>1. Restrict(wals', oldWals) = Restrict(wals, oldWals)
    BY <1>2 DEF Restrict
  <2>2. OldLog(k)' = OldLog(k)
    BY <1>1, <2>1, Zenon DEF OldLog
  <2> QED
    BY <1>1, <1>2, <1>3, <2>2, Zenon DEF KeyReplayed
<1>6. KeyLive(k)'
  <2>1. Held(k)' = Held(k) /\ HeldAbove(k)' = HeldAbove(k) /\ SegStack(manifest)' = SegStack(manifest)
    BY <1>1, ZenonT(30) DEF Held, HeldAbove, SegStack
  <2> QED
    BY <1>1, <1>3, <2>1, ZenonT(30) DEF KeyLive
<1> QED
  BY <1>1, <1>4, <1>5, <1>6, ZenonT(30) DEF KeyMerged

\* The flushed memtable goes.
LEMMA FlushPopKeys ==
  ASSUME FoldLaws, IInv, FlushPop
  PROVE  KInv'
<1>1. /\ Shape /\ mpc = "unlinked" /\ mpc' = "idle"
      /\ UNCHANGED <<mem, taken, walSeq, wpc, batch, phase, recovered, oldWals>>
      /\ UNCHANGED <<manifest, files, disk, wals, acked>>
  BY DEF IInv, FlushPop, writerVars, openVars, segVars, walVars
<1>2. /\ Running /\ Running' /\ phase # "replay" /\ disk = manifest
      /\ frozen' = Restrict(frozen, DOMAIN frozen \ {job.wal})
      /\ DOMAIN frozen' = DOMAIN frozen \ {job.wal}
      /\ \A w \in DOMAIN frozen' : frozen'[w] = frozen[w]
  BY <1>1, PoppedStack, StoredFacts, ZenonT(30) DEF Running
<1> SUFFICES ASSUME NEW k \in Key
             PROVE  KeyLogged(k)' /\ KeyReplayed(k)' /\ KeyLive(k)' /\ KeyMerged(k)'
  BY <1>2, Zenon DEF KInv
<1>3. KeyLogged(k) /\ KeyReplayed(k) /\ KeyLive(k)
  BY <1>2, Zenon DEF IInv, KInv
<1>4. KeyLogged(k)'
  <2>1. WalEdge' = WalEdge
    BY <1>1, Zenon DEF WalEdge
  <2>2. \A w \in DOMAIN frozen' : w \in DOMAIN wals /\ Get(wals[w], k) = Get(frozen'[w], k)
    BY <1>1, <1>2, <1>3, ZenonT(30) DEF KeyLogged
  <2> QED
    BY <1>1, <1>3, <2>1, <2>2, Zenon DEF KeyLogged
<1>5. KeyReplayed(k)'
  BY <1>1, <1>3, KeyReplayedKept, Zenon DEF openVars
<1>6. KeyLive(k)'
  <2>1. Held(k)' = HeldAbove(k)
    BY <1>1, <1>2, Zenon DEF Held, HeldAbove
  <2>2. SegStack(manifest)' = SegStack(manifest) /\ SegStack(disk)' = SegStack(manifest)
    BY <1>1, <1>2, Zenon DEF SegStack
  <2> QED
    BY <1>1, <1>2, <1>3, <2>1, <2>2, Zenon DEF KeyLive
<1> QED
  BY <1>1, <1>4, <1>5, <1>6 DEF KeyMerged

(***************************************************************************)
(* Compaction                                                              *)
(***************************************************************************)

\* A compaction that gives up, or a file that it drops, changes nothing that
\* is named.
LEMMA CompactFailsKeys ==
  ASSUME IInv, CompactFails \/ \E f \in job.drop : CompactDrop(f)
  PROVE  KInv'
<1>1. /\ Shape /\ SegInv /\ Running /\ mpc \in {"merging", "swapped"} /\ mpc' \in {"idle", "swapped"}
      /\ UNCHANGED <<writerVars, frozen, openVars, walVars, acked>>
  BY SegmentNumbers, ZenonT(30) DEF IInv, Shape, Control, Running, CompactFails, CompactDrop
<1>2. SegStack(manifest)' = SegStack(manifest) /\ SegStack(disk)' = SegStack(disk)
  <2>1. CASE CompactFails
    BY <1>1, <2>1, AllocateKept, ZenonT(30) DEF CompactFails
  <2>2. ASSUME NEW f \in job.drop, CompactDrop(f)
        PROVE  SegStack(manifest)' = SegStack(manifest) /\ SegStack(disk)' = SegStack(disk)
    <3>1. /\ mpc = "swapped" /\ manifest' = manifest /\ disk' = disk
          /\ files' = Restrict(files, DOMAIN files \ {f})
      BY <2>2 DEF CompactDrop
    <3>2. /\ disk = manifest /\ \A i \in DOMAIN manifest.segs : manifest.segs[i] \notin job.drop
          /\ ManifestCorrect(manifest)
      BY <1>1, <3>1, Zenon DEF Shape, SegmentsCorrect, CompactCorrect
    <3>3. \A i \in DOMAIN manifest.segs : files'[manifest.segs[i]] = files[manifest.segs[i]]
      BY <2>2, <3>1, <3>2, Zenon DEF Restrict, ManifestCorrect
    <3> QED
      BY <3>1, <3>2, <3>3, ZenonT(30) DEF SegStack
  <2> QED
    BY <2>1, <2>2, ZenonT(30)
<1>3. \A k \in Key : KeyMerged(k)'
  BY <1>1, Zenon DEF KeyMerged
<1> QED
  BY <1>1, <1>2, <1>3, QuietKeys, Zenon

\* The run is read into the merged table.
LEMMA CompactMergeKeys ==
  ASSUME IInv, NEW run \in SUBSET DOMAIN manifest.segs, CompactMerge(run)
  PROVE  KInv'
<1> DEFINE R == Restrict(SegStack(manifest), run)
<1>1. /\ Shape /\ Running /\ mpc = "idle" /\ mpc' = "merging"
      /\ job' = [NoJob EXCEPT !.run = run, !.left = Merged(run)]
      /\ UNCHANGED <<writerVars, frozen, openVars, walVars, acked>>
      /\ manifest' = manifest /\ disk' = disk /\ files' = files
  BY DEF IInv, CompactMerge, segVars
<1>2. SegStack(manifest)' = SegStack(manifest) /\ SegStack(disk)' = SegStack(disk)
  BY <1>1 DEF SegStack
<1>3. job'.run = run /\ job'.left = Merged(run) /\ DOMAIN job'.out = {}
  BY <1>1, EmptyTableType, Zenon DEF NoJob
<1>4. /\ DOMAIN R = run /\ DOMAIN Merged(run) = UNION {DOMAIN R[i] : i \in run}
      /\ \A k \in DOMAIN Merged(run) : Merged(run)[k] = Fold(R, k)
  BY Zenon DEF Merged, Restrict
<1>5. RunStack' = R /\ DOMAIN OutStack' = {}
  BY <1>2, <1>3, ZenonT(30) DEF RunStack, OutStack
<1> HIDE DEF R
<1>6. \A k \in Key : KeyMerged(k)'
  <2> SUFFICES ASSUME NEW k \in Key PROVE KeyMerged(k)'
    OBVIOUS
  <2>1. Holders(OutStack', k) = {} /\ Fold(OutStack', k) = NoRec
    BY <1>5, FoldNone DEF Holders
  <2>2. k \notin DOMAIN Merged(run) => Fold(R, k) = NoRec
    BY <1>4, FoldNone DEF Holders
  <2> QED
    BY <1>3, <1>4, <1>5, <2>1, <2>2, ZenonT(30) DEF KeyMerged
<1> QED
  BY <1>1, <1>2, <1>6, QuietKeys, Zenon

\* A chunk moves from the merged table to an output over the earlier ones.
LEMMA CompactChunkKeys ==
  ASSUME FoldLaws, IInv, NEW id \in job.run, NEW ks \in SUBSET DOMAIN job.left, CompactChunk(id, ks)
  PROVE  KInv'
<1> DEFINE t == Restrict(job.left, ks)
<1>1. /\ Shape /\ mpc = "merging" /\ mpc' = "merging" /\ \A i \in DOMAIN job.out : i < id
      /\ files' = insert(files, manifest.next, t) /\ disk' = disk /\ manifest' = Allocated
      /\ job' = [job EXCEPT !.out = insert(@, id, manifest.next),
                            !.left = Restrict(@, DOMAIN @ \ ks)]
      /\ UNCHANGED <<writerVars, frozen, openVars, walVars, acked>>
  BY DEF IInv, CompactChunk
<1>2. IsTable(job.left) /\ IsTable(t) /\ DOMAIN t = ks /\ \A k \in ks : t[k] = job.left[k]
  BY <1>1, RestrictType DEF Shape, TypeOK, Restrict
<1>3. /\ job'.run = job.run /\ job'.out = insert(job.out, id, manifest.next)
      /\ DOMAIN job'.left = DOMAIN job.left \ ks
      /\ \A k \in DOMAIN job'.left : job'.left[k] = job.left[k]
  BY <1>1 DEF Shape, TypeOK, Restrict
<1> HIDE DEF t
<1>4. /\ SegStack(manifest)' = SegStack(manifest) /\ SegStack(disk)' = SegStack(disk)
      /\ files'[manifest.next] = t
      /\ \A f \in DOMAIN files : f < manifest.next => files'[f] = files[f]
  BY <1>1, SegmentNumbers, FreshFile, Zenon
<1>5. IsStack(OutStack) /\ DOMAIN OutStack = DOMAIN job.out /\ Running /\ id \in Nat
  BY <1>1, OutBounds, ZenonT(30) DEF Shape, TypeOK
<1>6. RunStack' = RunStack /\ OutStack' = insert(OutStack, id, t)
  <2>1. \A i \in DOMAIN job.out : job.out[i] \in DOMAIN files /\ job.out[i] < manifest.next
    BY <1>1, Zenon DEF Shape, SegmentsCorrect, CompactCorrect
  <2>2. OutStack' = insert(OutStack, id, t)
    BY <1>3, <1>4, <2>1, ZenonT(60) DEF OutStack, insert
  <2> QED
    BY <1>3, <1>4, <2>2, ZenonT(30) DEF RunStack
<1>7. \A k \in Key : KeyMerged(k)'
  <2> SUFFICES ASSUME NEW k \in Key PROVE KeyMerged(k)'
    BY Zenon
  <2>1. KeyMerged(k)
    BY <1>5 DEF IInv, KInv
  <2>2. Fold(OutStack', k) = Over(Get(t, k), Fold(OutStack, k))
    BY <1>1, <1>2, <1>5, <1>6, FoldPush, ZenonT(60)
  <2>3. CASE k \in ks
    <3>1. k \notin DOMAIN job'.left /\ k \in DOMAIN job.left /\ Get(t, k) = job.left[k]
      BY <1>2, <1>3, <2>3, ZenonT(30) DEF Get
    <3>2. Fold(OutStack, k) = NoRec /\ job.left[k] = Fold(RunStack, k)
      BY <1>1, <2>1, <3>1, FoldNone, Zenon DEF KeyMerged
    <3>3. IsVersion(k, job.left[k])
      BY <1>2, <3>1, ZenonT(30) DEF IsTable, IsVersion
    <3>4. Over(job.left[k], NoRec) = job.left[k]
      BY <3>3, Nothing
    <3> QED
      BY <1>6, <2>2, <3>1, <3>2, <3>4, Zenon DEF KeyMerged
  <2>4. CASE k \notin ks
    <3>1. Fold(OutStack', k) = Fold(OutStack, k)
      BY <1>2, <2>2, <2>4, ZenonT(30) DEF Get, Over
    <3>2. Holders(OutStack', k) = Holders(OutStack, k)
      BY <1>1, <1>2, <1>5, <1>6, <2>4 DEF Holders, insert
    <3>3. k \in DOMAIN job'.left <=> k \in DOMAIN job.left
      BY <1>3, <2>4
    <3> QED
      BY <1>1, <1>3, <1>6, <2>1, <3>1, <3>2, <3>3, ZenonT(30) DEF KeyMerged
  <2> QED
    BY <2>3, <2>4
<1> QED
  BY <1>1, <1>4, <1>5, <1>7, QuietKeys, Zenon

\* The swap, stored or not.
LEMMA CompactStoreKeys ==
  ASSUME FoldLaws, IInv, CompactStore \/ CompactStoreFails
  PROVE  KInv'
<1>1. /\ Shape /\ mpc = "merging" /\ DOMAIN job.left = {} /\ manifest' = Swapped /\ files' = files
      /\ mpc' \in {"swapped", "idle"} /\ (disk' = disk \/ disk' = manifest')
      /\ UNCHANGED <<writerVars, frozen, openVars, walVars, acked>>
  BY DEF IInv, CompactStore, CompactStoreFails, segVars
<1>2. Running /\ Running' /\ UNCHANGED <<phase, recovered, mem, taken, frozen, acked, batch, wals>>
  BY <1>1, Zenon DEF Shape, Control, Running, writerVars, openVars, walVars
<1> SUFFICES ASSUME NEW k \in Key
             PROVE  KeyLogged(k)' /\ KeyReplayed(k)' /\ KeyLive(k)' /\ KeyMerged(k)'
  BY <1>2 DEF KInv
<1>3. KeyLogged(k) /\ KeyReplayed(k) /\ KeyLive(k) /\ KeyMerged(k)
  BY <1>2 DEF IInv, KInv
<1>4. Fold(SegStack(manifest)', k) = Fold(SegStack(manifest), k)
  BY <1>1, <1>3, SwappedFold, Zenon
<1>5. SegStack(disk)' = SegStack(disk) \/ SegStack(disk)' = SegStack(manifest)'
  BY <1>1 DEF SegStack
<1>6. KeyLive(k)'
  BY <1>1, <1>2, <1>3, <1>4, <1>5, KeyLiveSame
<1>7. KeyLogged(k)' /\ KeyReplayed(k)'
  BY <1>1, <1>2, <1>3, KeyLoggedKept, KeyReplayedKept
<1> QED
  BY <1>1, <1>6, <1>7 DEF KeyMerged

\* Every maintenance step keeps KInv.
LEMMA MaintenanceKeys ==
  ASSUME FoldLaws, IInv, Benign, Maintenance
  PROVE  KInv'
BY FlushWriteKeys, FlushStoreKeys, FlushUnlinkKeys, FlushPopKeys, CompactFailsKeys,
   CompactMergeKeys, CompactChunkKeys, CompactStoreKeys, NoSurplus, ZenonT(30) DEF Maintenance
==============================================================================
