--------------------------- MODULE RecoveryProofs ----------------------------
(***************************************************************************)
(* Recovery: what the disk holds of each key at every moment, and that the *)
(* steps of open, close and a crash keep KInv.  With it, what a caller sees, *)
(* and that every step is a step of Upsert.                                *)
(***************************************************************************)
EXTENDS EngineLemmas

(***************************************************************************)
(* What a restart would find                                               *)
(***************************************************************************)

\* The record of k in the memtables that still have a WAL.
Unflushed(k) ==
  Over(Get(mem, k), Over(Get(taken, k),
       Fold(Restrict(frozen, DOMAIN frozen \cap DOMAIN wals), k)))

\* The old logs lie below those of the frozen memtables.
LEMMA OldBelow ==
  ASSUME FoldLaws, Shape, Running
  PROVE  \E c \in Nat : /\ \A o \in oldWals : o < c
                        /\ \A w \in DOMAIN frozen \cap DOMAIN wals : c <= w
<1> DEFINE D == DOMAIN frozen \cap DOMAIN wals
<1>1. D \in SUBSET Nat /\ WalEdge \in Nat
      /\ \A o \in oldWals : o < WalEdge /\ \A w \in D : o < w
  BY DEF Shape, TypeOK, WalOrder, IsStack
<1>2. CASE D = {}
  BY <1>1, <1>2
<1>3. CASE D # {}
  <2>1. Min(D) \in D /\ \A w \in D : Min(D) <= w
    BY <1>1, <1>3, Zenon DEF FoldLaws, MinLaw
  <2> QED
    BY <1>1, <2>1
<1> QED
  BY <1>2, <1>3

\* The current log, and the one of a memtable inside freeze.
LEMMA NewLogs ==
  ASSUME FoldLaws, IInv, Running, NEW k \in Key
  PROVE  /\ Fold(Restrict(wals, {WalEdge, walSeq}), k)
              = Over(Get(batch, k), Over(Get(mem, k), Get(taken, k)))
         /\ Base(OldLog(k)) =>
              Fold(Restrict(wals, {WalEdge, walSeq}), k) \in {NoRec, OldLog(k)}
<1> DEFINE u == Restrict(wals, {WalEdge, walSeq})
<1>1. /\ Shape /\ KeyLogged(k) /\ KeyReplayed(k)
      /\ IsStack(wals) /\ walSeq \in Nat /\ WalEdge \in Nat /\ {walSeq, WalEdge} \subseteq DOMAIN wals
      /\ WalEdge \notin oldWals
  BY DEF IInv, KInv, Shape, TypeOK, WalOrder
<1>2. WalEdge <= walSeq
  BY <1>1 DEF WalEdge
<1>3. DOMAIN u = {WalEdge, walSeq} /\ u[WalEdge] = wals[WalEdge] /\ u[walSeq] = wals[walSeq]
  BY DEF Restrict
<1>4. IsStack(u) /\ Within(u, k, walSeq)
  BY <1>1, <1>2, <1>3, StackRestrictType, StackWithin
<1> HIDE DEF u
<1>5. IsVersion(k, Get(mem, k)) /\ IsVersion(k, Get(taken, k)) /\ IsVersion(k, Get(batch, k))
  BY <1>1, KeyVersions
<1>6. Get(wals[WalEdge], k) = Over(Get(batch, k), Over(Get(mem, k), Get(taken, k)))
      /\ \A i \in Nat : i # WalEdge => At(u, k, i) = NoRec
  <2>1. CASE wpc = "taken"
    <3>1. Get(batch, k) = NoRec /\ Get(mem, k) = NoRec
      BY <1>1, <2>1 DEF Shape, Control, Get
    <3>2. Get(wals[walSeq], k) = NoRec /\ Get(wals[WalEdge], k) = Get(taken, k)
      BY <1>1, <2>1 DEF KeyLogged
    <3> QED
      BY <1>3, <3>1, <3>2 DEF At, Over
  <2>2. CASE wpc # "taken"
    <3>1. Get(taken, k) = NoRec /\ WalEdge = walSeq
      BY <1>1, <2>2 DEF Shape, Control, Get, WalEdge
    <3>2. Get(wals[walSeq], k) = Over(Get(batch, k), Get(mem, k))
      BY <1>1, <2>2 DEF KeyLogged
    <3>3. Over(Get(mem, k), NoRec) = Get(mem, k)
      BY <1>5, Nothing
    <3> QED
      BY <1>3, <3>1, <3>2, <3>3 DEF At
  <2> QED
    BY <2>1, <2>2
<1>7. Fold(u, k) = Get(wals[WalEdge], k)
  <2>1. Fold(u, k) = At(u, k, WalEdge)
    BY <1>1, <1>4, <1>6 DEF FoldLaws, OneLaw
  <2> QED
    BY <1>3, <2>1 DEF At
<1>8. Base(OldLog(k)) => Get(wals[WalEdge], k) \in {NoRec, OldLog(k)}
  BY <1>1 DEF KeyReplayed
<1> QED
  BY <1>6, <1>7, <1>8 DEF u

\* The logs of the frozen memtables.
LEMMA FrozenLogs ==
  ASSUME FoldLaws, IInv, Running, NEW k \in Key
  PROVE  LET D == DOMAIN frozen \cap DOMAIN wals
         IN  /\ Fold(Restrict(wals, D), k) = Fold(Restrict(frozen, D), k)
             /\ Base(OldLog(k)) => Fold(Restrict(wals, D), k) \in {NoRec, OldLog(k)}
<1> DEFINE D == DOMAIN frozen \cap DOMAIN wals
           u == Restrict(wals, D)
           f == Restrict(frozen, D)
<1>1. /\ Shape /\ KeyLogged(k) /\ KeyReplayed(k)
      /\ IsStack(wals) /\ IsStack(frozen) /\ walSeq \in Nat /\ \A w \in DOMAIN wals : w <= walSeq
      /\ D \cap oldWals = {} /\ (mpc = "unlinked" => job.wal \notin DOMAIN wals)
  BY DEF IInv, KInv, Shape, TypeOK, WalOrder, IsStack
<1>2. DOMAIN u = D /\ DOMAIN f = D /\ \A w \in D : u[w] = wals[w] /\ f[w] = frozen[w]
  BY DEF Restrict
<1>3. IsStack(u) /\ IsStack(f) /\ Within(u, k, walSeq) /\ Within(f, k, walSeq)
  BY <1>1, <1>2, StackRestrictType, StackWithin
<1> HIDE DEF u, f
<1>4. \A w \in D : Get(wals[w], k) = Get(frozen[w], k)
  BY <1>1 DEF KeyLogged
<1>5. \A i \in Nat : At(u, k, i) = At(f, k, i)
  BY <1>2, <1>4 DEF At
<1>6. Fold(u, k) = Fold(f, k)
  BY <1>3, <1>5 DEF FoldLaws, LikeLaw
<1>7. ASSUME Base(OldLog(k))
      PROVE  Fold(u, k) \in {NoRec, OldLog(k)}
  <2>1. CASE Holders(u, k) = {}
    BY <2>1, FoldNone
  <2>2. CASE Holders(u, k) # {}
    <3>1. PICK i \in DOMAIN u : Top(u, k, i)
      BY <1>1, <1>2, <1>3, <2>2, TopExists DEF IsStack
    <3>2. k \in DOMAIN u[i] /\ IsTable(u[i])
      BY <1>3, <3>1 DEF Top, Holders, IsStack
    <3>3. Get(u[i], k) = u[i][k] /\ u[i][k] \in Record /\ u[i][k] # NoRec
      BY <3>2, NoRecAssumption DEF Get, IsTable, IsRecordOf
    <3>4. u[i][k] = OldLog(k)
      BY <1>1, <1>2, <1>7, <3>1, <3>3 DEF KeyReplayed
    <3>5. Fold(u, k) = u[i][k]
      BY <1>3, <1>7, <3>1, <3>3, <3>4 DEF FoldLaws, TopLaw, Base, IsStack
    <3> QED
      BY <3>4, <3>5
  <2> QED
    BY <2>1, <2>2
<1> QED
  BY <1>6, <1>7 DEF u, f

\* All logs together: the call in progress, over the memtables that have a
\* WAL, over what `open` has replayed and not yet deleted.
LEMMA LogSplit ==
  ASSUME FoldLaws, IInv, Running, NEW k \in Key
  PROVE  /\ Fold(wals, k) = Over(Get(batch, k), Over(Unflushed(k), OldLog(k)))
         /\ Base(OldLog(k)) => Fold(wals, k) = OldLog(k)
         /\ IsVersion(k, Unflushed(k))
<1> DEFINE D == DOMAIN frozen \cap DOMAIN wals
           U == Restrict(wals, {WalEdge, walSeq})
           L == Restrict(wals, DOMAIN wals \ {WalEdge, walSeq})
           F == Restrict(wals, D)
           P == Restrict(wals, oldWals)
<1>1. /\ Shape /\ IsStack(wals) /\ walSeq \in Nat /\ WalEdge \in Nat
      /\ {walSeq, WalEdge} \subseteq DOMAIN wals /\ oldWals \subseteq DOMAIN wals
      /\ DOMAIN wals \subseteq oldWals \cup D \cup {walSeq, WalEdge}
      /\ \A w \in DOMAIN wals : w <= walSeq
      /\ \A w \in oldWals \cup D : w < WalEdge
  BY DEF IInv, Shape, TypeOK, WalOrder
<1>2. WalEdge <= walSeq /\ DOMAIN wals \subseteq Nat
  BY <1>1 DEF WalEdge, IsStack
<1>3. /\ DOMAIN U = {WalEdge, walSeq} /\ DOMAIN L = DOMAIN wals \ {WalEdge, walSeq}
      /\ DOMAIN F = D /\ DOMAIN P = oldWals
      /\ \A w \in DOMAIN U : U[w] = wals[w]
      /\ \A w \in DOMAIN L : L[w] = wals[w]
      /\ \A w \in DOMAIN F : F[w] = wals[w]
      /\ \A w \in DOMAIN P : P[w] = wals[w]
  BY DEF Restrict
<1>4. IsStack(U) /\ IsStack(L) /\ IsStack(F) /\ IsStack(P)
  BY <1>1, StackRestrictType
<1> HIDE DEF U, L, F, P
<1>5. /\ Within(wals, k, walSeq) /\ Within(U, k, walSeq) /\ Within(L, k, walSeq)
      /\ Within(F, k, walSeq) /\ Within(P, k, walSeq)
  <2>1. /\ \A w \in DOMAIN U : w <= walSeq
        /\ \A w \in DOMAIN L : w <= walSeq
        /\ \A w \in DOMAIN F : w <= walSeq
        /\ \A w \in DOMAIN P : w <= walSeq
    BY <1>1, <1>2, <1>3
  <2> QED
    BY <1>1, <1>4, <2>1, StackWithin
<1>6. Fold(wals, k) = Over(Fold(U, k), Fold(L, k))
  <2>1. SplitAt(wals, U, L, k, WalEdge)
    <3>1. \A i \in DOMAIN U : ~(i < WalEdge)
      BY <1>1, <1>2, <1>3
    <3>2. \A i \in DOMAIN L : i < WalEdge
      BY <1>1, <1>2, <1>3
    <3> QED
      BY <1>1, <1>3, <3>1, <3>2 DEF SplitAt, At
  <2> QED
    BY <1>1, <1>5, <2>1 DEF FoldLaws, SplitLaw
<1>7. Fold(L, k) = Over(Fold(F, k), Fold(P, k))
  <2>1. PICK c \in Nat : (\A o \in oldWals : o < c) /\ \A w \in D : c <= w
    BY <1>1, OldBelow
  <2>2. SplitAt(L, F, P, k, c)
    <3>1. \A i \in DOMAIN F : ~(i < c) /\ i \in DOMAIN L
      BY <1>1, <1>2, <1>3, <2>1
    <3>2. \A i \in DOMAIN P : i < c /\ i \in DOMAIN L
      BY <1>1, <1>2, <1>3, <2>1
    <3>3. \A i \in DOMAIN L : i \in DOMAIN F \/ i \in DOMAIN P
      BY <1>1, <1>3
    <3> QED
      BY <1>3, <3>1, <3>2, <3>3 DEF SplitAt, At
  <2> QED
    BY <1>5, <2>1, <2>2 DEF FoldLaws, SplitLaw
<1>8. /\ Fold(U, k) = Over(Get(batch, k), Over(Get(mem, k), Get(taken, k)))
      /\ Fold(F, k) = Fold(Restrict(frozen, D), k) /\ Fold(P, k) = OldLog(k)
      /\ Base(OldLog(k)) => Fold(U, k) \in {NoRec, OldLog(k)} /\ Fold(F, k) \in {NoRec, OldLog(k)}
  BY NewLogs, FrozenLogs, Zenon DEF U, F, P, OldLog
<1> DEFINE b == Get(batch, k)
           m == Get(mem, k)
           t == Get(taken, k)
           f == Fold(Restrict(frozen, D), k)
           o == OldLog(k)
<1>9. IsVersion(k, b) /\ IsVersion(k, m) /\ IsVersion(k, t) /\ IsVersion(k, f) /\ IsVersion(k, o)
  BY <1>1, KeyVersions
<1>10. Fold(wals, k) = Over(Over(b, Over(m, t)), Over(f, o)) /\ Unflushed(k) = Over(m, Over(t, f))
  BY <1>6, <1>7, <1>8 DEF Unflushed
<1>11. Base(o) => Fold(wals, k) = o
  <2>1. Base(o) => \A x : Over(o, x) = o
    BY DEF Base, Over
  <2> QED
    BY <1>6, <1>7, <1>8, <2>1, Zenon DEF Over
<1> HIDE DEF b, m, t, f, o
<1>12. /\ IsVersion(k, Over(m, t)) /\ IsVersion(k, Over(f, o)) /\ IsVersion(k, Over(t, f))
       /\ IsVersion(k, Over(m, Over(t, f)))
  BY <1>9, VersionOver
<1>13. Over(Over(b, Over(m, t)), Over(f, o)) = Over(b, Over(Over(m, Over(t, f)), o))
  <2>1. Over(Over(b, Over(m, t)), Over(f, o)) = Over(b, Over(Over(m, t), Over(f, o)))
    BY <1>9, <1>12, Regroup
  <2>2. Over(Over(m, t), Over(f, o)) = Over(m, Over(t, Over(f, o)))
    BY <1>9, <1>12, Regroup
  <2>3. Over(Over(m, Over(t, f)), o) = Over(m, Over(t, Over(f, o)))
    BY <1>9, RegroupHeld
  <2> QED
    BY <2>1, <2>2, <2>3
<1> QED
  BY <1>10, <1>11, <1>12, <1>13 DEF b, o

\* The memtables that have a WAL, over the stored segments, lost nothing.
LEMMA UnflushedKept ==
  ASSUME FoldLaws, IInv, Running, phase # "replay", NEW k \in Key
  PROVE  /\ Keeps(k, Over(Unflushed(k), Fold(SegStack(disk), k)), acked[k])
         /\ mpc # "stored" => Agrees(k, Over(Unflushed(k), Fold(SegStack(disk), k)), acked[k])
<1> DEFINE D == DOMAIN frozen \cap DOMAIN wals
<1>1. Shape /\ KeyLogged(k) /\ KeyLive(k)
  BY DEF IInv, KInv
<1>2. /\ IsVersion(k, Held(k)) /\ IsVersion(k, HeldAbove(k))
      /\ IsVersion(k, Fold(SegStack(disk), k)) /\ IsVersion(k, Fold(SegStack(manifest), k))
  BY <1>1, KeyVersions
<1>3. mpc \in {"stored", "unlinked"} => disk = manifest
  BY <1>1, StoredFacts
<1>4. CASE mpc # "unlinked"
  <2>1. D = DOMAIN frozen
    BY <1>1, <1>4 DEF KeyLogged
  <2>2. Fold(Restrict(frozen, D), k) = Fold(frozen, k)
    <3>1. IsStack(frozen) /\ IsStack(Restrict(frozen, D)) /\ DOMAIN Restrict(frozen, D) = DOMAIN frozen
          /\ walSeq \in Nat /\ \A w \in DOMAIN frozen : w <= walSeq
      BY <1>1, <2>1, LogBounds, StackRestrictType DEF Restrict
    <3>2. Within(frozen, k, walSeq) /\ Within(Restrict(frozen, D), k, walSeq)
      BY <3>1, StackWithin
    <3>3. \A i \in Nat : At(Restrict(frozen, D), k, i) = At(frozen, k, i)
      BY <2>1 DEF At, Restrict
    <3> QED
      BY <3>2, <3>3 DEF FoldLaws, LikeLaw
  <2>3. Unflushed(k) = Held(k)
    BY <2>2 DEF Unflushed, Held
  <2>4. IsVersion(k, Over(Held(k), Fold(SegStack(disk), k)))
    BY <1>2, VersionOver
  <2> QED
    BY <1>1, <1>3, <1>4, <2>3, <2>4, AgreesKeeps DEF KeyLive
<1>5. CASE mpc = "unlinked"
  <2>1. D = DOMAIN frozen \ {job.wal}
    BY <1>1, <1>5 DEF KeyLogged, Shape, WalOrder
  <2>2. Unflushed(k) = HeldAbove(k)
    BY <2>1 DEF Unflushed, HeldAbove
  <2>3. IsVersion(k, Over(HeldAbove(k), Fold(SegStack(manifest), k)))
    BY <1>2, VersionOver
  <2> QED
    BY <1>1, <1>3, <1>5, <2>2, <2>3, AgreesKeeps, Zenon DEF KeyLive
<1> QED
  BY <1>4, <1>5

\* Whatever is running, the disk alone has lost nothing of what was
\* acknowledged and of what the call in progress has logged; and it has
\* counted nothing twice, unless `open` is at work or a flush is between the
\* manifest and the unlink.
LEMMA Durable ==
  ASSUME FoldLaws, IInv, Running, NEW k \in Key
  PROVE  /\ Keeps(k, DurableView(k),
                  IF wpc = "recover" THEN acked[k] ELSE Over(Get(batch, k), acked[k]))
         /\ phase = "up" /\ mpc # "stored" =>
              Agrees(k, DurableView(k), Over(Get(batch, k), acked[k]))
         /\ IsVersion(k, DurableView(k))
<1> DEFINE b == Get(batch, k)
           g == Unflushed(k)
           o == OldLog(k)
           d == Fold(SegStack(disk), k)
           l == Fold(wals, k)
           v == DurableView(k)
           a == acked[k]
<1>1. Shape /\ KeyReplayed(k) /\ KeyLive(k)
  BY DEF IInv, KInv
<1>2. l = Over(b, Over(g, o)) /\ (Base(o) => l = o) /\ IsVersion(k, g) /\ v = Over(l, d)
  BY LogSplit DEF DurableView
<1>3. IsVersion(k, b) /\ IsVersion(k, o) /\ IsVersion(k, d) /\ IsVersion(k, l) /\ IsVersion(k, a)
  BY <1>1, KeyVersions
<1>4. IsVersion(k, v)
  BY <1>2, <1>3, VersionOver
<1>5. CASE phase = "replay"
  <2>1. g = NoRec /\ wpc \in {"idle", "recover"} /\ (wpc = "idle" => b = NoRec)
        /\ mpc \notin {"stored", "unlinked"}
    <3>1. DOMAIN mem = {} /\ DOMAIN frozen = {} /\ DOMAIN taken = {}
          /\ wpc \in {"idle", "recover"} /\ (wpc = "idle" => DOMAIN batch = {})
          /\ mpc \notin {"stored", "unlinked"}
      BY <1>1, <1>5, Zenon DEF Shape, Control
    <3>2. Fold(Restrict(frozen, DOMAIN frozen \cap DOMAIN wals), k) = NoRec
      BY <3>1, FoldNone, ZenonT(30) DEF Restrict, Holders
    <3> QED
      BY <3>1, <3>2, Zenon DEF Unflushed, Get, Over
  <2>2. b \in {NoRec, o} /\ Agrees(k, Over(o, d), a)
    BY <1>1, <1>5, <2>1, Zenon DEF KeyReplayed, KeyLive, Held, Get
  <2> HIDE DEF b, g, o, d, l, v, a
  <2>3. IsVersion(k, Over(o, d)) /\ l = Over(b, o)
    BY <1>2, <1>3, <2>1, VersionOver, Nothing
  <2>4. Keeps(k, Over(o, d), a)
    BY <2>2, <2>3, AgreesKeeps
  <2>5. Keeps(k, v, a)
    <3>1. CASE b = NoRec
      BY <1>2, <1>3, <2>3, <2>4, <3>1, Nothing
    <3>2. CASE b = o
      <4>1. v = Over(o, Over(o, d))
        BY <1>2, <1>3, <2>3, <3>2, Regroup
      <4>2. Keeps(k, Over(o, Over(o, d)), Over(o, d))
        BY <1>3, KeepsTwice
      <4> QED
        BY <1>3, <1>4, <2>3, <2>4, <4>1, <4>2, KeepsTrans, Zenon
    <3> QED
      BY <2>2, <3>1, <3>2
  <2>6. wpc = "idle" => Over(b, a) = a
    BY <2>1 DEF Over
  <2> QED
    BY <1>4, <1>5, <2>1, <2>5, <2>6, ZenonT(30) DEF b, v, a
<1>6. CASE phase # "replay"
  <2>1. Keeps(k, Over(g, d), a) /\ (mpc # "stored" => Agrees(k, Over(g, d), a))
    BY <1>6, UnflushedKept
  <2>2. (phase = "up" => o = NoRec) /\ (Base(o) => Keeps(k, o, a)) /\ wpc # "recover"
        /\ (phase # "up" => b = NoRec)
    BY <1>1, <1>6, ZenonT(30) DEF KeyReplayed, Shape, Control, Get
  <2> HIDE DEF b, g, o, d, l, v, a
  <2>3. /\ IsVersion(k, Over(g, d)) /\ IsVersion(k, Over(o, d)) /\ IsVersion(k, Over(g, o))
        /\ IsVersion(k, Over(g, Over(o, d))) /\ IsVersion(k, Over(b, a))
    BY <1>2, <1>3, VersionOver
  <2>4. v = Over(b, Over(g, Over(o, d)))
    <3>1. v = Over(b, Over(Over(g, o), d))
      BY <1>2, <1>3, <2>3, Regroup
    <3>2. Over(Over(g, o), d) = Over(g, Over(o, d))
      BY <1>2, <1>3, Regroup
    <3> QED
      BY <3>1, <3>2
  <2>5. CASE phase = "up"
    <3>1. v = Over(b, Over(g, d))
      BY <2>2, <2>4, <2>5 DEF Over
    <3>2. Keeps(k, Over(b, Over(g, d)), Over(b, a))
      BY <1>3, <2>1, <2>3, KeepsOver
    <3>3. mpc # "stored" => Agrees(k, Over(b, Over(g, d)), Over(b, a))
      BY <1>3, <2>1, <2>3, AgreesOver
    <3> QED
      BY <1>4, <2>2, <3>1, <3>2, <3>3 DEF b, v, a
  <2>6. CASE phase # "up"
    <3>1. v = Over(g, Over(o, d)) /\ Over(b, a) = a
      BY <2>2, <2>4, <2>6 DEF Over
    <3>2. Keeps(k, v, a)
      <4>1. CASE Base(o)
        <5>1. v = o
          BY <1>2, <4>1 DEF Base, Over
        <5> QED
          BY <2>2, <4>1, <5>1
      <4>2. CASE ~Base(o)
        <5>1. Keeps(k, Over(o, d), d)
          BY <1>3, <4>2, KeepsGrow
        <5>2. Keeps(k, Over(g, Over(o, d)), Over(g, d))
          BY <1>2, <1>3, <2>3, <5>1, KeepsOver
        <5> QED
          BY <1>3, <2>1, <2>3, <3>1, <5>2, KeepsTrans
      <4> QED
        BY <4>1, <4>2
    <3> QED
      BY <1>4, <2>2, <2>6, <3>1, <3>2 DEF b, v, a
  <2> QED
    BY <2>5, <2>6
<1> QED
  BY <1>5, <1>6

(***************************************************************************)
(* Opening, closing and crashing                                           *)
(***************************************************************************)

\* An empty directory.
LEMMA InitKeys == ASSUME Init PROVE KInv
<1>1. ~Running /\ wals = EmptyTable /\ disk = EmptyManifest
  BY DEF Init, Running
<1>2. DOMAIN wals = {} /\ DOMAIN disk.segs = {}
  BY <1>1, EmptyTableType DEF EmptyManifest
<1> SUFFICES ASSUME NEW k \in Key
             PROVE  Agrees(k, DurableView(k), acked[k])
  BY <1>1 DEF KInv
<1>3. Fold(wals, k) = NoRec /\ Fold(SegStack(disk), k) = NoRec
  BY <1>2, FoldNone DEF SegStack, Holders
<1>4. DurableView(k) = NoRec /\ acked[k] = NoRec /\ IsVersion(k, NoRec)
  BY <1>3 DEF DurableView, Over, Init, IsVersion
<1>5. Count(NoRec) \in Nat
  BY <1>4, CountType
<1> QED
  BY <1>4, <1>5 DEF Agrees, Keeps

\* The process ends: by close, by a crash, or by a recovery that fails.
LEMMA LoseKeys ==
  ASSUME FoldLaws, IInv, Benign, Close \/ Crash \/ OpenFails
  PROVE  KInv'
<1>1. /\ Shape /\ Running /\ ~Running' /\ torn = {} /\ UNCHANGED <<wals, files, disk>>
  BY DEF IInv, Shape, WalOrder, Benign, Close, Crash, OpenFails, Running, Lose, segVars, walVars
<1> SUFFICES ASSUME NEW k \in Key
             PROVE  Agrees(k, DurableView(k)', acked'[k])
  BY <1>1 DEF KInv
<1>2. DurableView(k)' = DurableView(k)
  BY <1>1, ZenonT(30) DEF DurableView, SegStack
<1>3. wpc \notin {"append", "incr", "recover"} => Over(Get(batch, k), acked[k]) = acked[k]
  BY <1>1, Zenon DEF Shape, Control, Get, Over
<1>4. CASE Close
  <2>1. phase = "up" /\ mpc = "idle" /\ wpc = "idle" /\ acked' = acked
    BY <1>4 DEF Close
  <2> QED
    BY <1>1, <1>2, <1>3, <2>1, Durable
<1>5. CASE ~Close
  <2>1. Fault # {}
    BY <1>5 DEF Crash, OpenFails
  <2>2. acked'[k] = IF wpc = "recover" THEN acked[k] ELSE Over(Get(batch, k), acked[k])
    <3>1. CASE Crash
      <4>1. CASE wpc \in {"append", "incr"}
        BY <1>1, <3>1, <4>1 DEF Crash
      <4>2. CASE wpc \notin {"append", "incr"}
        BY <1>1, <1>3, <3>1, <4>2, Zenon DEF Crash
      <4> QED
        BY <4>1, <4>2
    <3>2. CASE OpenFails
      <4>1. wpc = "idle" /\ acked' = acked
        BY <3>2, ZenonT(30) DEF OpenFails, Benign
      <4> QED
        BY <1>3, <4>1
    <3> QED
      BY <1>5, <3>1, <3>2
  <2>3. Keeps(k, DurableView(k), acked'[k]) /\ IsVersion(k, DurableView(k))
    BY <1>1, <2>2, Durable, Zenon
  <2> QED
    BY <1>2, <2>1, <2>3, AgreesKeeps
<1> QED
  BY <1>4, <1>5

\* Open: what it replays is the fold of the logs, which over the stored
\* segments is what the disk alone gave.
LEMMA OpenKeys ==
  ASSUME FoldLaws, IInv, Open
  PROVE  KInv'
<1> DEFINE last == IF DOMAIN wals = {} THEN 0 ELSE Max(DOMAIN wals) + 1
           tail == [k \in UNION {DOMAIN wals[w] : w \in DOMAIN wals} |-> Fold(wals, k)]
<1>1. /\ Shape /\ phase = "down" /\ walSeq' = last
      /\ wals' = insert(wals, last, EmptyTable) /\ recovered' = tail
      /\ phase' = (IF DOMAIN tail = {} THEN "up" ELSE "replay")
      /\ oldWals' = DOMAIN wals
      /\ UNCHANGED <<mem, taken, wpc, batch, frozen, manifest, mpc, job, files, disk, acked>>
  BY ZenonT(30) DEF IInv, Open, maintVars, segVars
<1>2. /\ ~Running /\ Running' /\ wpc = "idle" /\ mpc = "idle" /\ manifest = disk
      /\ DOMAIN mem = {} /\ DOMAIN frozen = {} /\ DOMAIN batch = {} /\ DOMAIN taken = {}
  BY <1>1, Zenon DEF Shape, Control, Running
<1>3. last \in Nat /\ \A w \in DOMAIN wals : w < last
  <2>1. CASE DOMAIN wals = {}
    BY <2>1
  <2>2. CASE DOMAIN wals # {}
    <3>1. Max(DOMAIN wals) \in DOMAIN wals /\ \A w \in DOMAIN wals : w <= Max(DOMAIN wals)
      BY <1>1, <2>2, LogBounds, ZenonT(30) DEF FoldLaws, MaxLaw, IsStack
    <3>2. DOMAIN wals \subseteq Nat
      BY <1>1, LogBounds, Zenon DEF IsStack
    <3>3. last = Max(DOMAIN wals) + 1
      BY <2>2, Zenon
    <3> HIDE DEF last
    <3> QED
      BY <3>1, <3>2, <3>3
  <2> QED
    BY <2>1, <2>2, Zenon
<1>4. /\ \A k : k \in DOMAIN tail <=> Holders(wals, k) # {}
      /\ \A k \in DOMAIN tail : tail[k] = Fold(wals, k)
  BY DEF Holders
<1> HIDE DEF last, tail
<1>5. /\ IsStack(wals) /\ DOMAIN wals' = DOMAIN wals \cup {last} /\ DOMAIN wals'[last] = {}
      /\ \A w \in DOMAIN wals : w # last /\ wals'[w] = wals[w]
  BY <1>1, <1>3, LogBounds, EmptyTableType DEF insert, IsStack
<1> SUFFICES ASSUME NEW k \in Key
             PROVE  KeyLogged(k)' /\ KeyReplayed(k)' /\ KeyLive(k)' /\ KeyMerged(k)'
  BY <1>2 DEF KInv
<1>6. /\ Get(mem, k) = NoRec /\ Get(batch, k) = NoRec /\ Get(taken, k) = NoRec
      /\ Fold(frozen, k) = NoRec /\ Get(wals'[last], k) = NoRec
  BY <1>2, <1>5, FoldNone, Zenon DEF Get, Holders
<1>7. KeyLogged(k)'
  BY <1>1, <1>2, <1>6, Zenon DEF KeyLogged, Over
<1>8. OldLog(k)' = Fold(wals, k) /\ IsVersion(k, Fold(wals, k))
  <2> DEFINE p == Restrict(wals', DOMAIN wals)
  <2>1. DOMAIN p = DOMAIN wals /\ \A w \in DOMAIN p : p[w] = wals[w]
    BY <1>5, ZenonT(30) DEF Restrict
  <2> HIDE DEF p
  <2>2. Within(wals, k, walSeq) /\ Within(p, k, walSeq)
    BY <1>1, <2>1, LogBounds, StackWithin, ZenonT(30) DEF IsStack
  <2>3. \A i \in Nat : At(p, k, i) = At(wals, k, i)
    BY <2>1 DEF At
  <2>4. Fold(p, k) = Fold(wals, k)
    BY <2>2, <2>3 DEF FoldLaws, LikeLaw
  <2> QED
    BY <1>1, <2>4, KeyVersions, Zenon DEF OldLog, p
<1>9. Get(recovered', k) = Fold(wals, k) /\ (phase' = "up" => Fold(wals, k) = NoRec)
  <2>1. k \notin DOMAIN tail => Fold(wals, k) = NoRec
    BY <1>4, FoldNone, Zenon
  <2> QED
    BY <1>1, <1>4, <2>1 DEF Get
<1>10. Agrees(k, DurableView(k), acked[k]) /\ IsVersion(k, DurableView(k))
  BY <1>1, <1>2, KeyVersions, VersionOver, Zenon DEF IInv, KInv, DurableView
<1>11. KeyReplayed(k)'
  <2>1. ASSUME Base(Fold(wals, k)) PROVE Keeps(k, Fold(wals, k), acked[k])
    <3>1. DurableView(k) = Fold(wals, k)
      BY <2>1 DEF DurableView, Over, Base
    <3> QED
      BY <1>10, <3>1, AgreesKeeps
  <2>2. \A w \in DOMAIN wals' \ oldWals' : Get(wals'[w], k) = NoRec
    BY <1>1, <1>5, <1>6, Zenon
  <2>3. k \notin DOMAIN batch'
    BY <1>1, <1>2, Zenon
  <2>4. Base(OldLog(k)') => /\ Keeps(k, OldLog(k)', acked'[k])
                            /\ \A w \in DOMAIN wals' \ oldWals' :
                                 Get(wals'[w], k) \in {NoRec, OldLog(k)'}
    BY <1>1, <1>8, <2>1, <2>2, ZenonT(30)
  <2> QED
    BY <1>8, <1>9, <2>3, <2>4, ZenonT(30) DEF KeyReplayed
<1>12. KeyLive(k)'
  <2>1. Held(k)' = Fold(wals, k)
    BY <1>1, <1>6, <1>9, Zenon DEF Held, Over
  <2>2. SegStack(manifest)' = SegStack(disk) /\ SegStack(disk)' = SegStack(disk)
    BY <1>1, <1>2, ZenonT(30) DEF SegStack
  <2> QED
    BY <1>1, <1>2, <1>10, <2>1, <2>2 DEF KeyLive, DurableView
<1> QED
  BY <1>1, <1>2, <1>7, <1>11, <1>12 DEF KeyMerged

\* RecoverApply: the memtable takes over from the replayed table.
LEMMA RecoverApplyKeys ==
  ASSUME FoldLaws, IInv, RecoverApply
  PROVE  KInv'
<1>1. /\ Shape /\ wpc = "recover" /\ DOMAIN batch = DOMAIN recovered /\ mem' = batch
      /\ batch' = EmptyTable /\ wpc' \in {"over", "idle"} /\ phase' = "settle"
      /\ UNCHANGED <<taken, walSeq, frozen, recovered, oldWals, wals, acked>>
      /\ UNCHANGED <<maintVars, segVars>>
  BY Zenon DEF IInv, RecoverApply, AfterInsert, walVars
<1>2. /\ phase = "replay" /\ Running /\ Running' /\ mpc \notin {"stored", "unlinked"}
      /\ DOMAIN mem = {} /\ DOMAIN frozen = {} /\ DOMAIN taken = {} /\ DOMAIN batch' = {}
  BY <1>1, EmptyTableType, ZenonT(30) DEF Shape, Control, Running
<1> SUFFICES ASSUME NEW k \in Key
             PROVE  KeyLogged(k)' /\ KeyReplayed(k)' /\ KeyLive(k)' /\ KeyMerged(k)'
  BY <1>2 DEF KInv
<1>3. KeyLogged(k) /\ KeyReplayed(k) /\ KeyLive(k) /\ KeyMerged(k)
  BY <1>2, Zenon DEF IInv, KInv
<1>4. /\ Get(mem, k) = NoRec /\ Get(taken, k) = NoRec /\ Fold(frozen, k) = NoRec
      /\ Get(batch', k) = NoRec /\ IsVersion(k, Get(batch, k))
  BY <1>1, <1>2, FoldNone, KeyVersions, Zenon DEF Get, Holders
<1>5. KeyLogged(k)'
  <2>1. Get(wals[walSeq], k) = Get(batch, k)
    BY <1>1, <1>3, <1>4, Nothing, Zenon DEF KeyLogged
  <2>2. Get(wals'[walSeq'], k) = Over(Get(batch', k), Get(mem', k))
    BY <1>1, <1>4, <2>1, Zenon DEF Over
  <2> QED
    BY <1>1, <1>2, <2>2, Zenon DEF KeyLogged
<1>6. KeyReplayed(k)'
  <2>1. OldLog(k)' = OldLog(k)
    BY <1>1, Zenon DEF OldLog
  <2> QED
    BY <1>1, <1>3, <2>1, Zenon DEF KeyReplayed
<1>7. KeyLive(k)'
  <2>1. Held(k)' = Get(batch, k)
    BY <1>1, <1>4, Nothing, Zenon DEF Held, Over
  <2>2. Held(k) = Get(recovered, k) /\ Get(recovered, k) = Get(batch, k)
    BY <1>1, <1>2, <1>3, ZenonT(30) DEF Held, KeyReplayed, Get
  <2> QED
    BY <1>1, <1>2, <1>3, <2>1, <2>2, KeyLiveKept, Zenon
<1> QED
  BY <1>1, <1>3, <1>5, <1>6, <1>7, KeyMergedKept, Zenon

\* Settled: open has only the old logs left to delete.
LEMMA SettledKeys ==
  ASSUME FoldLaws, IInv, Settled
  PROVE  KInv'
<1>1. /\ Shape /\ phase = "settle" /\ phase' = "unlink" /\ DOMAIN frozen = {}
      /\ UNCHANGED <<mem, taken, frozen, wals, batch, recovered, oldWals, acked>>
      /\ UNCHANGED <<maintVars, segVars>> /\ UNCHANGED writerVars
  BY DEF IInv, Settled, walVars, writerVars
<1>2. Running /\ Running' /\ mpc \notin {"stored", "unlinked"}
  BY <1>1, Zenon DEF Shape, Control, Running
<1> SUFFICES ASSUME NEW k \in Key
             PROVE  KeyLogged(k)' /\ KeyReplayed(k)' /\ KeyLive(k)' /\ KeyMerged(k)'
  BY <1>2 DEF KInv
<1>3. KeyLogged(k) /\ KeyReplayed(k) /\ KeyLive(k) /\ KeyMerged(k)
  BY <1>2 DEF IInv, KInv
<1>4. OldLog(k)' = OldLog(k) /\ Held(k)' = Held(k)
  BY <1>1 DEF OldLog, Held
<1>5. KeyLogged(k)' /\ KeyMerged(k)'
  BY <1>1, <1>2, <1>3, KeyLoggedKept, KeyMergedKept, ZenonT(30)
<1>6. KeyReplayed(k)'
  BY <1>1, <1>3, <1>4, ZenonT(30) DEF KeyReplayed
<1>7. KeyLive(k)'
  BY <1>1, <1>2, <1>3, <1>4, KeyLiveKept
<1> QED
  BY <1>5, <1>6, <1>7

\* DropOldWal: memory is empty; deleting from the oldest up, what is left of
\* the old logs hides the deleted one or is a delta over it.
LEMMA DropOldWalKeys ==
  ASSUME FoldLaws, IInv, Benign, DropOldWal
  PROVE  KInv'
<1> DEFINE m == Min(oldWals)
<1>1. /\ Shape /\ phase = "unlink" /\ phase' \in {"up", "unlink"} /\ Running /\ Running'
      /\ wals' = Restrict(wals, DOMAIN wals \ {m})
      /\ oldWals' = oldWals \ {m} /\ (phase' = "up" => oldWals' = {})
      /\ UNCHANGED <<mem, taken, walSeq, wpc, batch, frozen, recovered, acked>>
      /\ UNCHANGED <<maintVars, segVars>>
  BY ZenonT(30) DEF IInv, DropOldWal, RemoveWal, Benign, Running, writerVars
<1>2. /\ wpc = "idle" /\ DOMAIN frozen = {} /\ mpc \notin {"stored", "unlinked"}
      /\ oldWals \in SUBSET Nat /\ oldWals # {} /\ oldWals \subseteq DOMAIN wals
      /\ walSeq \in DOMAIN wals /\ walSeq \notin oldWals /\ IsStack(wals) /\ walSeq \in Nat
      /\ \A w \in DOMAIN wals : w <= walSeq
  <2>1. /\ wpc \in {"idle", "recover"} /\ DOMAIN frozen = {} /\ oldWals # {}
        /\ wpc = "recover" => phase = "replay"
        /\ mpc \in {"written", "stored", "unlinked"} => job.wal \in DOMAIN frozen
    BY <1>1, ZenonT(30) DEF Shape, Control
  <2>2. wpc = "idle" /\ mpc \notin {"stored", "unlinked"}
    BY <1>1, <2>1, Zenon
  <2>3. /\ {walSeq, WalEdge} \subseteq DOMAIN wals /\ oldWals \subseteq DOMAIN wals
        /\ \A o \in oldWals : o < WalEdge
        /\ \A w \in DOMAIN wals : w <= walSeq
    BY <1>1, ZenonT(30) DEF Shape, WalOrder
  <2>4. IsStack(wals) /\ walSeq \in Nat /\ oldWals \in SUBSET Nat
    BY <1>1, ZenonT(30) DEF Shape, TypeOK
  <2>5. WalEdge = walSeq
    BY <2>2, Zenon DEF WalEdge
  <2>6. walSeq \notin oldWals
    BY <2>3, <2>4, <2>5
  <2>7. walSeq \in DOMAIN wals
    BY <2>3, Zenon
  <2> QED
    BY <2>1, <2>2, <2>3, <2>4, <2>6, <2>7, ZenonT(30)
<1>3. m \in oldWals /\ \A o \in oldWals : m <= o
  BY <1>2, ZenonT(30) DEF FoldLaws, MinLaw
<1> HIDE DEF m
<1>4. /\ DOMAIN wals' = DOMAIN wals \ {m} /\ walSeq \in DOMAIN wals'
      /\ \A w \in DOMAIN wals' : wals'[w] = wals[w]
  BY <1>1, <1>2, <1>3 DEF Restrict
<1> SUFFICES ASSUME NEW k \in Key
             PROVE  KeyLogged(k)' /\ KeyReplayed(k)' /\ KeyLive(k)' /\ KeyMerged(k)'
  BY <1>1 DEF KInv
<1>5. KeyLogged(k) /\ KeyReplayed(k) /\ KeyLive(k) /\ KeyMerged(k)
  BY <1>1, Zenon DEF IInv, KInv
<1>6. KeyLogged(k)'
  BY <1>1, <1>2, <1>4, <1>5, ZenonT(30) DEF KeyLogged
<1>7. OldLog(k) = Over(OldLog(k)', Get(wals[m], k))
  <2> DEFINE p == Restrict(wals, oldWals)
  <2>1. DOMAIN p = oldWals /\ p[m] = wals[m]
    BY <1>3 DEF Restrict
  <2>2. IsStack(p) /\ \A i \in DOMAIN p : i <= walSeq
    BY <1>2, <2>1, StackRestrictType
  <2>3. Restrict(p, oldWals \ {m}) = Restrict(wals', oldWals')
    BY <1>1, <1>2, <1>4, <2>1, Zenon DEF Restrict
  <2>4. OldLog(k) = Fold(p, k) /\ OldLog(k)' = Fold(Restrict(p, oldWals \ {m}), k)
    BY <2>3, Zenon DEF OldLog
  <2> HIDE DEF p
  <2> QED
    BY <1>2, <1>3, <2>1, <2>2, <2>4, FoldBottom
<1>8. KeyReplayed(k)'
  <2>1. phase' = "up" => OldLog(k)' = NoRec
    BY <1>1, FoldNone, Zenon DEF OldLog, Holders, Restrict
  <2>2. Base(OldLog(k)') => OldLog(k) = OldLog(k)'
    BY <1>7 DEF Base, Over
  <2>3. DOMAIN wals' \ oldWals' = DOMAIN wals \ oldWals
    BY <1>1, <1>3, <1>4, Zenon
  <2>4. Base(OldLog(k)') => /\ Keeps(k, OldLog(k)', acked'[k])
                            /\ \A w \in DOMAIN wals' \ oldWals' :
                                 Get(wals'[w], k) \in {NoRec, OldLog(k)'}
    BY <1>1, <1>4, <1>5, <2>2, <2>3, ZenonT(30) DEF KeyReplayed
  <2> QED
    BY <1>1, <2>1, <2>4, ZenonT(30) DEF KeyReplayed
<1>9. KeyLive(k)'
  <2>1. Held(k)' = Held(k)
    BY <1>1 DEF Held
  <2> QED
    BY <1>1, <1>2, <1>5, <2>1, KeyLiveKept, ZenonT(30)
<1> QED
  BY <1>1, <1>5, <1>6, <1>8, <1>9, KeyMergedKept, Zenon

\* A step that changes nothing.
LEMMA StutterKeys ==
  ASSUME FoldLaws, IInv, UNCHANGED vars
  PROVE  KInv'
<1> USE DEF vars, writerVars, maintVars, openVars, segVars, walVars
<1> SUFFICES ASSUME NEW k \in Key
             PROVE  /\ Running' => KeyLogged(k)' /\ KeyReplayed(k)' /\ KeyLive(k)' /\ KeyMerged(k)'
                    /\ ~Running' => Agrees(k, DurableView(k)', acked'[k])
  BY DEF KInv
<1>1. /\ Running => KeyLogged(k) /\ KeyReplayed(k) /\ KeyLive(k) /\ KeyMerged(k)
      /\ ~Running => Agrees(k, DurableView(k), acked[k])
  BY ZenonT(30) DEF IInv, KInv
<1>2. DurableView(k)' = DurableView(k) /\ Running' = Running
  BY Zenon DEF DurableView, SegStack, Running
<1>3. KeyLogged(k) => KeyLogged(k)'
  BY Zenon DEF KeyLogged, WalEdge
<1>4. KeyReplayed(k) => KeyReplayed(k)'
  BY KeyReplayedKept
<1>5. KeyLive(k) => KeyLive(k)'
  <2>1. Held(k)' = Held(k) /\ HeldAbove(k)' = HeldAbove(k)
    BY ZenonT(30) DEF Held, HeldAbove
  <2> QED
    BY <2>1, KeyLiveKept, ZenonT(30) DEF IInv
<1>6. KeyMerged(k) => KeyMerged(k)'
  BY KeyMergedKept
<1> QED
  BY <1>1, <1>2, <1>3, <1>4, <1>5, <1>6

(***************************************************************************)
(* What callers see                                                        *)
(***************************************************************************)

\* What the running process serves of a key lost nothing; and it counts
\* nothing twice, unless a flush is between the manifest and the pop.
LEMMA Live ==
  ASSUME FoldLaws, IInv, phase \in {"settle", "unlink", "up"}, NEW k \in Key
  PROVE  /\ Keeps(k, LiveView(k), acked[k])
         /\ mpc \notin {"stored", "unlinked"} => Agrees(k, LiveView(k), acked[k])
<1> DEFINE s == Fold(SegStack(manifest), k)
           f == Fold(frozen, k)
           m == Get(mem, k)
           t == Get(taken, k)
<1>1. Shape /\ KeyLive(k)
  BY ZenonT(30) DEF IInv, KInv, Running
<1>2. IsVersion(k, m) /\ IsVersion(k, t) /\ IsVersion(k, f) /\ IsVersion(k, s) /\ IsVersion(k, Held(k))
  BY <1>1, KeyVersions
<1>3. Held(k) = Over(m, Over(t, f)) /\ LiveView(k) = Over(m, Over(t, Over(f, s)))
  BY DEF Held, LiveView
<1>4. /\ mpc \notin {"stored", "unlinked"} => Agrees(k, Over(Held(k), s), acked[k])
      /\ mpc \in {"stored", "unlinked"} => Keeps(k, Over(Held(k), s), acked[k])
  BY <1>1 DEF KeyLive
<1> HIDE DEF s, f, m, t
<1>5. LiveView(k) = Over(Held(k), s)
  BY <1>2, <1>3, RegroupHeld
<1>6. IsVersion(k, LiveView(k))
  BY <1>2, <1>5, VersionOver
<1> QED
  BY <1>4, <1>5, <1>6, AgreesKeeps

\* What the invariant says of the two views of an ordinary key.
LEMMA Views ==
  ASSUME FoldLaws, IInv, NEW k \in PlainKey
  PROVE  /\ phase \in {"settle", "unlink", "up"} => LiveView(k) = acked[k]
         /\ DurableView(k) = Pending(k)
<1>1. Shape /\ k \in Key /\ IsTable(batch)
  BY Zenon DEF IInv, Shape, TypeOK, PlainKey
<1>2. phase \in {"settle", "unlink", "up"} => LiveView(k) = acked[k]
  BY <1>1, Live DEF Keeps
<1>3. CASE Running
  <2>1. DurableView(k) = IF wpc = "recover" THEN acked[k] ELSE Over(Get(batch, k), acked[k])
    BY <1>1, <1>3, Durable, ZenonT(30) DEF Keeps
  <2>2. Over(Get(batch, k), acked[k]) = IF k \in DOMAIN batch THEN batch[k] ELSE acked[k]
    <3>1. /\ Hides(Get(batch, k)) /\ (Get(batch, k) = NoRec <=> k \notin DOMAIN batch)
          /\ k \in DOMAIN batch => Get(batch, k) = batch[k]
      BY <1>1, GetType, ZenonT(30) DEF Get
    <3> QED
      BY <3>1, OverPlain, ZenonT(30)
  <2>3. wpc \notin {"append", "recover"} => k \notin DOMAIN batch
    BY <1>1, ZenonT(30) DEF Shape, Control
  <2> QED
    BY <1>2, <2>1, <2>2, <2>3 DEF Pending
<1>4. CASE ~Running
  <2>1. DurableView(k) = acked[k]
    BY <1>1, <1>4, ZenonT(30) DEF IInv, KInv, Agrees, Keeps
  <2>2. wpc = "idle"
    BY <1>1, <1>4 DEF Shape, Control, Running
  <2> QED
    BY <1>2, <2>1, <2>2, Zenon DEF Pending
<1> QED
  BY <1>3, <1>4, ZenonT(30)

(***************************************************************************)
(* Engine implements Upsert                                                *)
(***************************************************************************)

\* What was acknowledged, as a caller is shown it.
AckedMap == [k \in PlainKey |-> surface(acked[k])]

\* The mapped map is what was acknowledged.
StoreAgrees == StoredMap = AckedMap

\* Under the invariant the store shows exactly what was acknowledged.
LEMMA StoredAcked ==
  ASSUME FoldLaws
  PROVE  IInv => StoreAgrees
<1> SUFFICES ASSUME IInv, NEW k \in PlainKey
             PROVE  Stored(k) = surface(acked[k])
  BY DEF StoreAgrees, StoredMap, AckedMap
<1>1. CASE phase \in {"settle", "unlink", "up"}
  BY <1>1, Views DEF Stored
<1>2. CASE phase \notin {"settle", "unlink", "up"}
  <2>1. Pending(k) = acked[k]
    BY <1>2 DEF IInv, Shape, Control, Pending
  <2> QED
    BY <1>2, <2>1, Views, ZenonT(30) DEF Stored
<1> QED
  BY <1>1, <1>2

\* A step in which nothing is acknowledged and no client frame is logged.
LEMMA Stutters ==
  ASSUME FoldLaws, IInv, IInv', StoreAgrees',
         acked' = acked,
         UNCHANGED <<wpc, batch>> \/ (wpc # "append" /\ wpc' # "append")
  PROVE  UNCHANGED <<StoredMap, Logged>>
BY StoredAcked DEF Logged, StoreAgrees, AckedMap

\* A step in which the call in progress takes effect.
LEMMA Takes ==
  ASSUME FoldLaws, IInv, IInv', StoreAgrees',
         acked' = [k \in Key |-> Over(Get(batch, k), acked[k])],
         wpc \in {"append", "incr"}, wpc' # "append"
  PROVE  Store!Take
<1>1. IsTable(batch)
  BY Zenon DEF IInv, Shape, TypeOK
<1>2. Logged' = Store!NoCall
  BY Zenon DEF Logged, Store!NoCall, EmptyTable
<1>3. ASSUME NEW k \in PlainKey
      PROVE  surface(acked'[k]) = IF k \in DOMAIN Logged THEN Logged[k] ELSE surface(acked[k])
  <2>1. acked'[k] = Over(Get(batch, k), acked[k])
    BY Zenon DEF PlainKey
  <2>2. Hides(Get(batch, k)) /\ (Get(batch, k) = NoRec <=> k \notin DOMAIN batch)
    BY <1>1, GetType, Zenon
  <2>3. acked'[k] = IF k \in DOMAIN batch THEN batch[k] ELSE acked[k]
    BY <2>1, <2>2, OverPlain, ZenonT(30) DEF Get
  <2>4. CASE wpc = "append"
    <3>1. Logged = [x \in DOMAIN batch \cap PlainKey |-> surface(batch[x])]
      BY <2>4 DEF Logged
    <3> QED
      BY <2>3, <3>1
  <2>5. CASE wpc = "incr"
    <3>1. k \notin DOMAIN batch /\ DOMAIN Logged = {}
      BY <2>5, EmptyTableType, ZenonT(30) DEF IInv, Shape, Control, Logged
    <3> QED
      BY <2>3, <3>1
  <2> QED
    BY <2>4, <2>5, Zenon
<1>4. StoredMap' = [k \in PlainKey |-> IF k \in DOMAIN Logged THEN Logged[k] ELSE StoredMap[k]]
  BY <1>3, StoredAcked, ZenonT(30) DEF StoreAgrees, AckedMap
<1> QED
  BY <1>2, <1>4, ZenonT(30) DEF Store!Take

\* A client frame: Log when its key is an ordinary one.
LEMMA Logs ==
  ASSUME FoldLaws, IInv, IInv', StoreAgrees',
         NEW k \in Key, NEW r, PutFrame(k, r)
  PROVE  Store!Log \/ UNCHANGED <<StoredMap, Logged>>
<1>1. acked' = acked /\ wpc' = "append" /\ wpc \in {"idle", "append"} /\ batch' = insert(batch, k, r)
  BY DEF PutFrame, LogFrame
<1>2. StoredMap' = StoredMap
  BY <1>1, StoredAcked DEF StoreAgrees, AckedMap
<1>3. /\ DOMAIN batch' = DOMAIN batch \cup {k}
      /\ \A x \in DOMAIN batch : x # k => batch'[x] = batch[x]
  BY <1>1 DEF insert
<1>4. Logged' = [x \in DOMAIN batch' \cap PlainKey |-> surface(batch'[x])]
  BY <1>1 DEF Logged
<1>5. Logged = [x \in DOMAIN batch \cap PlainKey |-> surface(batch[x])]
  <2>1. CASE wpc = "append"
    BY <2>1 DEF Logged
  <2>2. CASE wpc # "append"
    <3>1. DOMAIN batch = {}
      BY <1>1, <2>2, ZenonT(30) DEF IInv, Shape, Control
    <3> QED
      BY <2>2, <3>1, ZenonT(30) DEF Logged, EmptyTable
  <2> QED
    BY <2>1, <2>2
<1>6. CASE k \in PlainKey
  <2>1. DOMAIN Logged' = DOMAIN Logged \cup {k}
    BY <1>3, <1>4, <1>5, <1>6, ZenonT(30)
  <2>2. \A x \in DOMAIN Logged \ {k} : Logged'[x] = Logged[x]
    BY <1>3, <1>4, <1>5
  <2> QED
    BY <1>2, <1>6, <2>1, <2>2, Zenon DEF Store!Log
<1>7. CASE k \notin PlainKey
  <2>1. Logged' = Logged
    BY <1>3, <1>4, <1>5, <1>7, ZenonT(30)
  <2> QED
    BY <1>2, <2>1
<1> QED
  BY <1>6, <1>7

\* Every step of the engine is a step of the map, or changes nothing of it.
LEMMA RefinementStep ==
  ASSUME FoldLaws, Benign, IInv, IInv', StoreAgrees', [Next]_vars
  PROVE  [Store!Next]_<<StoredMap, Logged>>
<1>1. ASSUME Writer PROVE Store!Next \/ UNCHANGED <<StoredMap, Logged>>
  <2>1. ~AppendFails /\ ~FreezeFails
    BY DEF Benign, AppendFails, FreezeFails
  <2>2. CASE \E k \in Key : \E r \in ClientRecord : PutFrame(k, r)
    BY <2>2, Logs DEF Store!Next
  <2>3. CASE \E k \in CounterKey : \E d \in Delta : IncrFrame(k, d)
    BY <2>3, Stutters, Zenon DEF IncrFrame
  <2>4. CASE Apply
    <3>1. wpc' # "append"
      BY <2>4, ZenonT(30) DEF Apply, AfterInsert
    <3> QED
      BY <2>4, <3>1, Takes, ZenonT(30) DEF Apply, Store!Next
  <2>5. CASE FreezeTake
    BY <2>5, Stutters DEF FreezeTake, FreezeEnabled
  <2>6. CASE FreezePush
    BY <2>6, Stutters DEF FreezePush
  <2> QED
    BY <1>1, <2>1, <2>2, <2>3, <2>4, <2>5, <2>6, ZenonT(30) DEF Writer
<1>2. ASSUME Maintenance PROVE UNCHANGED <<StoredMap, Logged>>
  <2>1. UNCHANGED <<wpc, batch, acked>>
    BY <1>2, Zenon DEF Maintenance, FlushWrite, FlushWriteFails, FlushStore, FlushStoreFails,
      FlushUnlink, FlushPop, CompactMerge, CompactChunk, CompactSurplus, CompactFails,
      CompactSurplusFails, CompactStore, CompactStoreFails, CompactDrop, writerVars
  <2> QED
    BY <2>1, Stutters
<1>3. ASSUME Lifecycle PROVE Store!Next \/ UNCHANGED <<StoredMap, Logged>>
  <2>1. CASE Crash
    <3>1. torn = {} /\ wpc' = "idle"
      BY <2>1, ZenonT(30) DEF IInv, Shape, WalOrder, Crash, Lose
    <3>2. CASE wpc \in {"append", "incr"}
      BY <2>1, <3>1, <3>2, Takes DEF Crash, Store!Next
    <3>3. CASE wpc \notin {"append", "incr"}
      BY <2>1, <3>1, <3>3, Stutters, Zenon DEF Crash
    <3> QED
      BY <3>2, <3>3, ZenonT(30)
  <2>2. CASE Close \/ OpenFails
    BY <2>2, Stutters, ZenonT(30) DEF Benign, Close, OpenFails, Lose
  <2>3. CASE Open
    BY <2>3, Stutters, ZenonT(30) DEF Open
  <2>4. CASE \E k \in DOMAIN recovered \ DOMAIN batch : RecoverFrame(k)
    BY <2>4, Stutters DEF RecoverFrame
  <2>5. CASE RecoverApply
    BY <2>5, Stutters, ZenonT(30) DEF RecoverApply, AfterInsert
  <2>6. CASE Settled \/ DropOldWal
    BY <2>6, Stutters DEF Settled, DropOldWal, writerVars
  <2> QED
    BY <1>3, <2>1, <2>2, <2>3, <2>4, <2>5, <2>6, Zenon DEF Lifecycle
<1>4. ASSUME UNCHANGED vars PROVE UNCHANGED <<StoredMap, Logged>>
  BY <1>4, Stutters DEF vars, writerVars
<1> QED
  BY <1>1, <1>2, <1>3, <1>4 DEF Next
==============================================================================
