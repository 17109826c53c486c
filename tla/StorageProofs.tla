--------------------------- MODULE StorageProofs ----------------------------
(***************************************************************************)
(* Proofs about SegmentFiles and Blobs, for any segments, readers, hashes, *)
(* callers and faults: the bytes of every listed segment stay readable, an *)
(* acknowledged blob is kept, a blob read reports corruption only where    *)
(* content was lost, a segment file that a read does not find belongs to a *)
(* segment that moved on, the sections of a read come from one file, and a *)
(* pulled copy is never cut short.                                         *)
(***************************************************************************)
EXTENDS SegmentFiles, Blobs, TLAPS

\* The calls that can be in progress.
Ops == {"put", "unlink", "read", "None", "bytes", "Corrupt"}
Calls == {Idle} \cup [op : Ops, h : Hash]

BlobTypeOK ==
  /\ blobs \subseteq Hash /\ stored \subseteq Hash
  /\ file \in [Hash -> {"none", "good", "bad"}]
  /\ call \in [Caller -> Calls]

\* A put in progress holds the lock, alone, and its file is there unless a
\* delete was under way when it began.
PutHolds ==
  /\ \A c \in Caller, h \in Hash :
       call[c] = Busy("put", h) => locked /\ (h \in exposed \/ file[h] # "none")
  /\ \A c, d \in Caller, g, h \in Hash :
       call[c] = Busy("put", g) /\ call[d] = Busy("put", h) => c = d

\* What a delete is about to remove is listed nowhere, and no put of it is
\* in progress, unless the put came while the delete was under way.
UnlinkUnlisted ==
  \A c, d \in Caller, h \in Hash :
    call[c] = Busy("unlink", h) /\ h \notin exposed =>
      h \notin blobs /\ h \notin stored /\ call[d] # Busy("put", h)

\* The listing in memory and the stored one, and the files.
Listings ==
  /\ ~unstored => stored = blobs
  /\ stored \subseteq blobs \cup exposed
  /\ \A h \in (blobs \cup stored) \ exposed : file[h] # "none"
  /\ acked \ exposed \subseteq blobs

BlobInv == BlobTypeOK /\ PutHolds /\ UnlinkUnlisted /\ Listings

\* The calls of put_blob, get_blob and delete_blob can be told apart.
LEMMA CallsDiffer ==
  /\ \A o, p, g, h : Busy(o, g) = Busy(p, h) <=> o = p /\ g = h
  /\ \A o, h : Busy(o, h) # Idle
  /\ \A o, h : Busy(o, h).op = o
  /\ Idle.op = "idle"
  /\ Idle \in Calls
  /\ \A o \in Ops, h \in Hash : Busy(o, h) \in Calls
BY DEF Busy, Idle, Calls

\* BlobInv holds when the engine opens an empty store.
LEMMA BlobInitInv == BlobInit => BlobInv
<1> SUFFICES ASSUME BlobInit PROVE BlobInv
  OBVIOUS
<1> QED
  BY CallsDiffer DEF BlobInit, BlobInv, BlobTypeOK, PutHolds, UnlinkUnlisted, Listings

\* put_blob's first half, under the lock.
LEMMA PutWriteInv ==
  ASSUME BlobInv, NEW c \in Caller, NEW h \in Hash, PutWrite(c, h) PROVE BlobInv'
<1> USE DEF PutWrite, BlobInv
<1>1. BlobTypeOK'
  BY CallsDiffer DEF BlobTypeOK, Ops
<1>2. PutHolds'
  <2>1. \A d \in Caller, g \in Hash : call[d] # Busy("put", g)
    BY DEF PutHolds
  <2>2. file'[h] # "none"
    BY DEF BlobTypeOK
  <2> QED
    BY <2>1, <2>2, CallsDiffer DEF PutHolds, BlobTypeOK
<1>3. UnlinkUnlisted'
  <2> SUFFICES ASSUME NEW d \in Caller, NEW e \in Caller, NEW g \in Hash,
                      call'[d] = Busy("unlink", g), g \notin exposed'
               PROVE  g \notin blobs' /\ g \notin stored' /\ call'[e] # Busy("put", g)
    BY DEF UnlinkUnlisted
  <2>1. call[d] = Busy("unlink", g)
    BY CallsDiffer DEF BlobTypeOK
  <2>2. g \notin exposed /\ g # h
    BY <2>1 DEF Removing
  <2> QED
    BY <2>1, <2>2, CallsDiffer DEF UnlinkUnlisted, BlobTypeOK
<1>4. Listings'
  BY DEF Listings, BlobTypeOK
<1> QED
  BY <1>1, <1>2, <1>3, <1>4
\* put_blob's second half: the listing, its store and the unlock.
LEMMA PutListInv ==
  ASSUME BlobInv, NEW c \in Caller, NEW h \in Hash, PutList(c, h) PROVE BlobInv'
<1> USE DEF PutList, BlobInv
<1>1. BlobTypeOK'
  BY CallsDiffer DEF BlobTypeOK, Store
<1>2. \A d \in Caller, g \in Hash : call'[d] # Busy("put", g)
  BY CallsDiffer DEF PutHolds, BlobTypeOK
<1>3. PutHolds'
  BY <1>2 DEF PutHolds
<1>4. \A d \in Caller, g \in Hash :
        call'[d] = Busy("unlink", g) /\ g \notin exposed => call[d] = Busy("unlink", g) /\ g # h
  BY CallsDiffer DEF UnlinkUnlisted, BlobTypeOK
<1>5. UnlinkUnlisted'
  BY <1>2, <1>4 DEF UnlinkUnlisted, Store
<1>6. Listings'
  BY Zenon DEF Listings, PutHolds, Store
<1> QED
  BY <1>1, <1>3, <1>5, <1>6

\* delete_blob's listing, stored or not.
LEMMA DeleteListInv ==
  ASSUME BlobInv, NEW c \in Caller, NEW h \in Hash, DeleteList(c, h) PROVE BlobInv'
<1> USE DEF DeleteList, BlobInv
<1>1. BlobTypeOK'
  BY CallsDiffer DEF BlobTypeOK, Store, Ops
<1>2. \A d \in Caller, g \in Hash : call[d] # Busy("put", g) /\ call'[d] # Busy("put", g)
  BY CallsDiffer DEF PutHolds, BlobTypeOK
<1>3. PutHolds'
  BY <1>2 DEF PutHolds
<1>4. exposed \subseteq exposed'
  OBVIOUS
<1>5. UnlinkUnlisted'
  <2> SUFFICES ASSUME NEW d \in Caller, NEW g \in Hash,
                      call'[d] = Busy("unlink", g), g \notin exposed'
               PROVE  g \notin blobs' /\ g \notin stored'
    BY <1>2 DEF UnlinkUnlisted
  <2>1. CASE d = c
    BY <2>1, CallsDiffer DEF BlobTypeOK, Store
  <2>2. CASE d # c
    <3>1. call[d] = Busy("unlink", g) /\ g \notin exposed
      BY <2>2, <1>4 DEF BlobTypeOK
    <3> QED
      BY <3>1 DEF UnlinkUnlisted, Store
  <2> QED
    BY <2>1, <2>2
<1>6. Listings'
  BY Zenon DEF Listings, Store
<1> QED
  BY <1>1, <1>3, <1>5, <1>6

\* delete_blob's removal of the file, outside the lock.
LEMMA DeleteFileInv ==
  ASSUME BlobInv, NEW c \in Caller, NEW h \in Hash, DeleteFile(c, h) PROVE BlobInv'
<1> USE DEF DeleteFile, BlobInv
<1>1. BlobTypeOK'
  BY CallsDiffer DEF BlobTypeOK
<1>2. \A d \in Caller, g \in Hash, o \in {"put", "unlink"} :
        call'[d] = Busy(o, g) => call[d] = Busy(o, g)
  BY CallsDiffer DEF BlobTypeOK
<1>3. \A g \in Hash : file'[g] = file[g] \/ g = h
  BY DEF BlobTypeOK
<1>4. PutHolds'
  BY <1>2, <1>3 DEF PutHolds, UnlinkUnlisted
<1>5. UnlinkUnlisted'
  BY <1>2 DEF UnlinkUnlisted
<1>6. Listings'
  BY <1>3 DEF Listings, UnlinkUnlisted, BlobTypeOK
<1> QED
  BY <1>1, <1>4, <1>5, <1>6
\* get_blob changes nothing but its own call.
LEMMA GetInv ==
  ASSUME BlobInv, NEW c \in Caller,
         (\E h \in Hash : GetLook(c, h) \/ GetRead(c, h)) \/ GetReturns(c)
  PROVE  BlobInv'
<1> USE DEF BlobInv
<1>1. UNCHANGED <<blobs, stored, file, locked, unstored, acked, exposed>>
  BY DEF GetLook, GetRead, GetReturns
<1>2. BlobTypeOK'
  BY <1>1, CallsDiffer DEF BlobTypeOK, GetLook, GetRead, GetReturns, Content, Ops
<1>3. \A d \in Caller, g \in Hash, o \in {"put", "unlink"} :
        call'[d] = Busy(o, g) => call[d] = Busy(o, g)
  BY CallsDiffer DEF BlobTypeOK, GetLook, GetRead, GetReturns, Content
<1>4. PutHolds'
  BY <1>1, <1>3 DEF PutHolds
<1>5. UnlinkUnlisted'
  BY <1>1, <1>3 DEF UnlinkUnlisted
<1>6. Listings'
  BY <1>1 DEF Listings
<1> QED
  BY <1>2, <1>4, <1>5, <1>6

\* The orphan sweep, other stores of the manifest, rot, and a kill.
LEMMA BackgroundInv ==
  ASSUME BlobInv, TickCompletes \/ OtherStore \/ Crash \/ (\E h \in Hash : Rot(h))
  PROVE  BlobInv'
<1> USE DEF BlobInv
<1>1. CASE TickCompletes
  <2>1. \A h \in Hash : file'[h] = file[h] \/ (h \notin blobs /\ file'[h] = "none")
    BY <1>1 DEF TickCompletes, sweep_blob_orphans, Orphans
  <2>2. BlobTypeOK'
    BY <1>1 DEF TickCompletes, sweep_blob_orphans, BlobTypeOK
  <2>3. PutHolds'
    BY <1>1 DEF TickCompletes, PutHolds
  <2>4. UnlinkUnlisted'
    BY <1>1 DEF TickCompletes, sweep_blob_orphans, UnlinkUnlisted
  <2>5. Listings'
    BY <1>1, <2>1 DEF TickCompletes, sweep_blob_orphans, Listings, BlobTypeOK
  <2> QED
    BY <2>2, <2>3, <2>4, <2>5
<1>2. CASE OtherStore
  BY <1>2 DEF OtherStore, Store, BlobTypeOK, PutHolds, UnlinkUnlisted, Listings
<1>3. CASE Crash
  BY <1>3, CallsDiffer DEF Crash, BlobTypeOK, PutHolds, UnlinkUnlisted, Listings
<1>4. CASE \E h \in Hash : Rot(h)
  <2> PICK h \in Hash : Rot(h)
    BY <1>4
  <2>1. \A g \in Hash : file'[g] = "none" <=> file[g] = "none"
    BY DEF Rot, BlobTypeOK
  <2>2. BlobTypeOK'
    BY DEF Rot, BlobTypeOK
  <2>3. PutHolds' /\ UnlinkUnlisted'
    BY <2>1 DEF Rot, PutHolds, UnlinkUnlisted
  <2>4. Listings'
    BY <2>1 DEF Rot, Listings, BlobTypeOK
  <2> QED
    BY <2>2, <2>3, <2>4
<1> QED
  BY <1>1, <1>2, <1>3, <1>4

\* Every step of the blob operations keeps BlobInv.
LEMMA BlobStepInv == BlobInv /\ [BlobNext]_bvars => BlobInv'
<1> SUFFICES ASSUME BlobInv, [BlobNext]_bvars PROVE BlobInv'
  OBVIOUS
<1>1. CASE \E c \in Caller : Call(c) \/ Proceed(c)
  BY <1>1, PutWriteInv, PutListInv, DeleteListInv, DeleteFileInv, GetInv DEF Call, Proceed
<1>2. CASE TickCompletes \/ OtherStore \/ Crash \/ (\E h \in Hash : Rot(h))
  BY <1>2, BackgroundInv
<1>3. CASE UNCHANGED bvars
  BY <1>3 DEF bvars, BlobInv, BlobTypeOK, PutHolds, UnlinkUnlisted, Listings
<1> QED
  BY <1>1, <1>2, <1>3 DEF BlobNext

\* BlobInv holds in every state of the blob operations.
LEMMA BlobInvariant == BlobSpec => []BlobInv
BY BlobInitInv, BlobStepInv, PTL DEF BlobSpec

\* put_blob: an acknowledged blob that nobody deleted since stays listed,
\* in memory and on disk, with its file, whatever other callers, sweeps,
\* failed stores and kills do; but for the two openings that exposed names.
THEOREM AcknowledgedPutsKept == BlobSpec => []AckedPutKept
<1>1. BlobInv => AckedPutKept
  BY DEF BlobInv, Listings, AckedPutKept
<1> QED
  BY <1>1, BlobInvariant, PTL

\* get_blob: a read that ends in the corruption error found damaged
\* content, or was overtaken by a delete.
THEOREM CorruptionIsLoss == BlobSpec => CorruptMeansLost
<1> DEFINE LossStep ==
      \A c \in Caller, h \in Hash :
        call[c] = Busy("read", h) /\ call'[c] = Busy("Corrupt", h)
          => file[h] = "bad" \/ h \notin blobs \/ h \in exposed
<1>1. BlobInv /\ [BlobNext]_bvars => LossStep
  <2> SUFFICES ASSUME BlobInv, [BlobNext]_bvars, NEW c \in Caller, NEW h \in Hash,
                      call[c] = Busy("read", h), call'[c] = Busy("Corrupt", h)
               PROVE  file[h] # "good"
    BY DEF BlobInv, Listings, BlobTypeOK
  <2>1. call'[c] # call[c] /\ call'[c] # Idle
    BY CallsDiffer
  <2>2. ~TickCompletes /\ ~OtherStore /\ ~Crash /\ (\A g \in Hash : ~Rot(g)) /\ ~UNCHANGED bvars
    BY <2>1, Zenon DEF TickCompletes, OtherStore, Crash, Rot, bvars
  <2> PICK d \in Caller : Call(d) \/ Proceed(d)
    BY <2>2 DEF BlobNext
  <2>3. call'[d] # call[d] => d = c
    BY <2>1, Zenon DEF Call, Proceed, PutWrite, PutList, DeleteList, DeleteFile, GetLook, GetRead,
                GetReturns, BlobInv, BlobTypeOK
  <2>4. ASSUME NEW g \in Hash
        PROVE  ~PutWrite(d, g) /\ ~DeleteList(d, g) /\ ~GetLook(d, g)
    BY <2>1, <2>3, CallsDiffer DEF PutWrite, DeleteList, GetLook, BlobInv, BlobTypeOK
  <2>5. ASSUME NEW g \in Hash PROVE ~PutList(d, g) /\ ~DeleteFile(d, g)
    BY <2>1, <2>3, CallsDiffer DEF PutList, DeleteFile, BlobInv, BlobTypeOK
  <2>6. ~GetReturns(d)
    BY <2>1, <2>3, CallsDiffer, ZenonT(30) DEF GetReturns, BlobInv, BlobTypeOK
  <2> PICK g \in Hash : GetRead(d, g)
    BY <2>4, <2>5, <2>6, Zenon DEF Call, Proceed
  <2>7. d = c
    BY <2>1, <2>3 DEF GetRead, BlobInv, BlobTypeOK
  <2> QED
    BY <2>7, CallsDiffer DEF GetRead, Content, BlobInv, BlobTypeOK
<1>2. BlobInv /\ [BlobNext]_bvars => [LossStep]_bvars
  BY <1>1
<1> QED
  BY <1>2, BlobInvariant, PTL DEF BlobSpec, CorruptMeansLost
-----------------------------------------------------------------------------
(* Segment files.                                                          *)

Tiers == {"hot", "cold", "remote"}

\* A manifest: entries by id, no two of them with one file, and all files
\* numbered below next.
Listing(x, next) ==
  /\ x \in [DOMAIN x -> [file : Nat, tier : Tiers]]
  /\ \A i \in DOMAIN x : x[i].file < next
  /\ \A i, j \in DOMAIN x : x[i].file = x[j].file => i = j

Counters == nextFile \in Nat /\ diskNext \in Nat /\ diskNext <= nextFile

MType == m = [pc |-> m.pc, run |-> m.run, out |-> m.out, dead |-> m.dead,
              cold0 |-> m.cold0, then |-> m.then]

\* The files of the entries dropped are no longer listed, and the listing
\* is stored.
Dropped == man = disk /\ \A d \in m.dead : \A i \in DOMAIN man : man[i].file # d.file

\* Where the maintenance thread stands, and what it may rely on there.
Phase ==
  /\ m.pc = "swap" => /\ m.out \in hot \cap Nat /\ nextFile = m.out + 1 /\ m.run \subseteq DOMAIN man
                      /\ \A i \in DOMAIN man : man[i].file < m.out
  /\ m.pc \in {"drop", "erase"} => Dropped
  /\ m.pc \in {"to_cold", "flip_cold"} => m.run \subseteq Ids("hot")
  /\ m.pc = "flip_cold" => m.out \in m.run /\ man[m.out].file \in cold
  /\ m.pc = "to_remote" => m.run \subseteq DOMAIN man
  /\ m.pc = "flip_remote" => /\ m.run \subseteq DOMAIN man /\ m.out \in DOMAIN man
                             /\ man[m.out].file \in obj
  /\ m.pc = "unlink" => /\ m.run \subseteq DOMAIN man /\ m.out \in DOMAIN man
                        /\ man = disk /\ man[m.out].tier = "remote"

FilesInv ==
  /\ MType /\ Counters /\ Listing(man, nextFile) /\ Listing(disk, diskNext)
  /\ Phase /\ ReadableSomewhere

\* FilesInv holds of a store as an earlier life left it.
LEMMA FilesInitInv == FilesInit => FilesInv
<1> SUFFICES ASSUME FilesInit PROVE FilesInv
  OBVIOUS
<1>1. PICK st \in Starts :
        /\ man = [i \in DOMAIN st.tier |-> Entry(i, st.tier[i])]
        /\ disk = man /\ nextFile = st.next /\ diskNext = st.next
        /\ hot = {i \in DOMAIN st.tier : st.tier[i] = "hot"}
        /\ cold = {i \in DOMAIN st.tier : st.tier[i] = "cold"}
        /\ obj = {i \in DOMAIN st.tier : st.tier[i] = "remote"}
        /\ m = Resting
  BY Zenon DEF FilesInit
<1>2. /\ st.next \in Nat /\ DOMAIN st.tier \subseteq Nat
      /\ \A i \in DOMAIN st.tier : i < st.next /\ st.tier[i] \in Tiers
  BY FilesAssumption DEF Tiers
<1>3. /\ DOMAIN man = DOMAIN st.tier
      /\ \A i \in DOMAIN man : man[i].file = i /\ man[i].tier = st.tier[i]
  BY <1>1 DEF Entry
<1>4. \A i \in DOMAIN man : man[i] = Entry(man[i].file, man[i].tier)
  BY <1>1, <1>3, Zenon
<1>5. Listing(man, nextFile) /\ Listing(disk, diskNext)
  BY <1>1, <1>2, <1>3, <1>4 DEF Listing, Entry
<1>6. ReadableSomewhere
  <2>1. /\ \A i \in DOMAIN st.tier : st.tier[i] = "hot" => i \in hot
        /\ \A i \in DOMAIN st.tier : st.tier[i] = "cold" => i \in cold
        /\ \A i \in DOMAIN st.tier : st.tier[i] = "remote" => i \in obj
        /\ \A i \in DOMAIN st.tier : st.tier[i] \in {"hot", "cold", "remote"}
    BY <1>1, <1>2, Zenon DEF Tiers
  <2>2. ReadableIn(man)
    BY <1>3, <2>1 DEF ReadableIn
  <2> QED
    BY <1>1, <2>2, Zenon DEF ReadableSomewhere
<1>7. MType /\ m.pc = "idle"
  BY <1>1 DEF MType, Resting
<1>8. Counters
  BY <1>1, <1>2 DEF Counters
<1>9. Phase
  BY <1>7, ZenonT(30) DEF Phase
<1> QED
  BY <1>5, <1>6, <1>7, <1>8, <1>9, Zenon DEF FilesInv

\* A manifest that is well formed and readable may be committed: stored or
\* not, FilesInv needs only what the thread relies on next.
LEMMA CommitInv ==
  ASSUME NEW STATE new, NEW STATE ok, FilesInv, Commit(new, ok),
         Listing(new, nextFile), ReadableIn(new),
         UNCHANGED <<nextFile, hot, cold, obj>>
  PROVE  /\ man' = new /\ Counters' /\ Listing(man, nextFile)' /\ Listing(disk, diskNext)'
         /\ ReadableSomewhere'
         /\ m' = Resting \/ (m' = ok /\ disk' = new)
<1>1. man' = new /\ (m' = Resting \/ (m' = ok /\ disk' = new))
  BY DEF Commit
<1>2. CASE disk' = new /\ diskNext' = nextFile
  BY <1>1, <1>2 DEF FilesInv, Counters, Listing, ReadableSomewhere, ReadableIn
<1>3. CASE UNCHANGED <<disk, diskNext>>
  BY <1>1, <1>3 DEF FilesInv, Counters, Listing, ReadableSomewhere, ReadableIn
<1> QED
  BY <1>1, <1>2, <1>3 DEF Commit

\* A thread that has given up, or is between passes, relies on nothing.
LEMMA RestingInv ==
  ASSUME \/ m' = Resting \/ m' = ReclaimBegins
         \/ m' = [Resting EXCEPT !.pc = "groom"] \/ m' = [Resting EXCEPT !.pc = "done"]
  PROVE  MType' /\ Phase'
BY DEF MType, Phase, Resting, ReclaimBegins

\* Where the tier pass begins, its candidates are listed.
LEMMA TierBeginsInv ==
  ASSUME m' = TierBegins, UNCHANGED man
  PROVE  MType' /\ Phase'
BY Zenon DEF MType, Phase, TierBegins, Resting, Ids

\* A new file, of a flush or a rewrite, has a number nothing listed has.
LEMMA WritesInv ==
  FilesInv /\ (Flushes \/ Compacts \/ Reclaims \/ Purges) => FilesInv'
<1> SUFFICES ASSUME FilesInv, NEW run, run \subseteq DOMAIN man, NEW then,
                    \/ /\ hot' = hot \cup {nextFile} /\ nextFile' = nextFile + 1
                       /\ m' = [Resting EXCEPT !.pc = "swap", !.run = run, !.out = nextFile, !.then = then]
                    \/ m' = Resting /\ UNCHANGED <<hot, nextFile>>,
                    UNCHANGED <<man, disk, diskNext, cold, obj>>
             PROVE  FilesInv'
  <2>1. Flushes => \/ /\ hot' = hot \cup {nextFile} /\ nextFile' = nextFile + 1
                      /\ m' = [Resting EXCEPT !.pc = "swap", !.run = {}, !.out = nextFile, !.then = "flush"]
                   \/ m' = Resting /\ UNCHANGED <<hot, nextFile>>
    BY ZenonT(30) DEF Flushes, Resting
  <2> QED
    BY <2>1, Zenon DEF Flushes, Compacts, Reclaims, Purges, RewriteWrites, Ids
<1>1. Counters' /\ Listing(man, nextFile)' /\ Listing(disk, diskNext)'
  BY DEF FilesInv, Counters, Listing
<1>2. ReadableSomewhere'
  BY DEF FilesInv, ReadableSomewhere, ReadableIn
<1>3. CASE m' = Resting
  BY <1>1, <1>2, <1>3, RestingInv DEF FilesInv
<1>4. CASE /\ hot' = hot \cup {nextFile} /\ nextFile' = nextFile + 1
           /\ m' = [Resting EXCEPT !.pc = "swap", !.run = run, !.out = nextFile, !.then = then]
  <2>1. m' = [pc |-> "swap", run |-> run, out |-> nextFile, dead |-> {}, cold0 |-> {}, then |-> then]
    BY <1>4, Zenon DEF Resting
  <2>2. MType'
    BY <2>1 DEF MType
  <2>3. \A i \in DOMAIN man : man[i].file < nextFile
    BY DEF FilesInv, Listing
  <2>4. Phase'
    BY <1>4, <2>1, <2>3 DEF FilesInv, Phase, Counters
  <2> QED
    BY <1>1, <1>2, <2>2, <2>4 DEF FilesInv
<1> QED
  BY <1>3, <1>4

\* The swap lists the new file and no longer any file of its inputs.
LEMMA SwapsInv == FilesInv /\ Swaps => FilesInv'
<1> SUFFICES ASSUME FilesInv, Swaps PROVE FilesInv'
  OBVIOUS
<1> DEFINE new == [i \in (DOMAIN man \ m.run) \cup {OutId} |->
                     IF i = OutId THEN Entry(m.out, "hot") ELSE man[i]]
<1> DEFINE ok == IF m.then = "flush" THEN Resting
                 ELSE [m EXCEPT !.pc = "drop", !.dead = {man[i] : i \in m.run}]
<1>1. Commit(new, ok) /\ UNCHANGED <<nextFile, hot, cold, obj>>
  BY DEF Swaps
<1>2. /\ m.out \in hot /\ nextFile = m.out + 1 /\ m.run \subseteq DOMAIN man /\ nextFile \in Nat
      /\ \A i \in DOMAIN man : man[i].file < m.out /\ man[i].file \in Nat /\ man[i].tier \in Tiers
      /\ \A i, j \in DOMAIN man : man[i].file = man[j].file => i = j
      /\ \A i \in DOMAIN man : man[i] \in [file : Nat, tier : Tiers]
  BY DEF Swaps, FilesInv, Phase, Counters, Listing
<1>3. /\ DOMAIN new = (DOMAIN man \ m.run) \cup {OutId}
      /\ new[OutId] = Entry(m.out, "hot")
      /\ \A i \in DOMAIN new : i # OutId => i \in DOMAIN man \ m.run /\ new[i] = man[i]
  OBVIOUS
<1>4. Listing(new, nextFile)
  <2>4. /\ Entry(m.out, "hot") \in [file : Nat, tier : Tiers]
        /\ Entry(m.out, "hot").file = m.out
    BY <1>2 DEF Entry, Tiers, Swaps, FilesInv, Phase
  <2>5. new = [i \in DOMAIN new |-> new[i]]
    BY Zenon
  <2> HIDE DEF new
  <2>1. new \in [DOMAIN new -> [file : Nat, tier : Tiers]]
    BY <1>2, <1>3, <2>4, <2>5
  <2>2. \A i \in DOMAIN new : new[i].file < nextFile
    BY <1>2, <1>3, <2>4, <2>5
  <2>3. \A i, j \in DOMAIN new : new[i].file = new[j].file => i = j
    BY <1>2, <1>3, <2>4, <2>5
  <2> QED
    BY <2>1, <2>2, <2>3 DEF Listing
<1>5. ReadableIn(new)
  BY <1>2, <1>3, Zenon DEF FilesInv, ReadableSomewhere, ReadableIn, Entry
<1>6. /\ man' = new /\ Counters' /\ Listing(man, nextFile)' /\ Listing(disk, diskNext)'
      /\ ReadableSomewhere'
      /\ m' = Resting \/ (m' = ok /\ disk' = new)
  <2> HIDE DEF new, ok
  <2> QED
    BY <1>1, <1>4, <1>5, CommitInv, Zenon
<1>7. \A i \in m.run, j \in DOMAIN new : new[j].file # man[i].file
  BY <1>2, <1>3 DEF Entry
<1>8. MType' /\ Phase'
  <2>1. CASE m' = Resting
    BY <2>1, RestingInv, ZenonT(30)
  <2>2. CASE m' = [m EXCEPT !.pc = "drop", !.dead = {man[i] : i \in m.run}] /\ disk' = new
    <3>1. m' = [pc |-> "drop", run |-> m.run, out |-> m.out, dead |-> {man[i] : i \in m.run},
                cold0 |-> m.cold0, then |-> m.then]
      BY <2>2, Zenon DEF FilesInv, MType
    <3> HIDE DEF new, ok
    <3>2. man' = new /\ disk' = new /\ m'.dead = {man[i] : i \in m.run}
      BY <1>6, <2>2, <3>1, Zenon
    <3>3. \A d \in m'.dead : \A j \in DOMAIN new : new[j].file # d.file
      BY <1>7, <3>2
    <3>4. Dropped'
      BY <3>2, <3>3 DEF Dropped
    <3> QED
      BY <3>1, <3>4 DEF MType, Phase
  <2> QED
    BY <1>6, <2>1, <2>2
<1> QED
  BY <1>6, <1>8 DEF FilesInv

\* Deleting the files dropped takes no listed bytes away.
LEMMA DeletesInv == FilesInv /\ (Drops \/ Erases) => FilesInv'
<1> SUFFICES ASSUME FilesInv, Drops \/ Erases PROVE FilesInv'
  OBVIOUS
<1> DEFINE gone == {e.file : e \in m.dead}
<1>1. /\ UNCHANGED <<man, disk, nextFile, diskNext>>
      /\ hot \ gone \subseteq hot' /\ cold \ gone \subseteq cold' /\ obj \ gone \subseteq obj'
  BY DEF Drops, Erases
<1>2. man = disk /\ \A i \in DOMAIN man : man[i].file \notin gone
  BY DEF FilesInv, Phase, Dropped, Drops, Erases
<1>3. ReadableSomewhere'
  <2> HIDE DEF gone
  <2> QED
    BY <1>1, <1>2 DEF FilesInv, ReadableSomewhere, ReadableIn
<1>4. MType' /\ Phase'
  BY <1>1, RestingInv, TierBeginsInv DEF Drops, Erases
<1> QED
  BY <1>1, <1>3, <1>4 DEF FilesInv, Counters, Listing

\* A rename within the two local directories leaves the bytes readable.
LEMMA RenamesInv == ASSUME NEW i, FilesInv, Renames(i) PROVE FilesInv'
<1>1. UNCHANGED <<man, disk, nextFile, diskNext, obj>> /\ hot' \cup cold' = hot \cup cold
  BY DEF Renames
<1>2. ReadableSomewhere'
  BY <1>1 DEF FilesInv, ReadableSomewhere, ReadableIn
<1>3. MType' /\ Phase'
  <2>1. CASE m' = Resting
    BY <2>1, RestingInv
  <2>2. CASE m' = [m EXCEPT !.pc = "flip_cold", !.out = i] /\ man[i].file \in cold'
    <3>1. m' = [pc |-> "flip_cold", run |-> m.run, out |-> i, dead |-> m.dead,
                cold0 |-> m.cold0, then |-> m.then]
      BY <2>2, Zenon DEF FilesInv, MType
    <3> QED
      BY <1>1, <2>2, <3>1, Zenon DEF MType, Phase, Ids, FilesInv, Renames
  <2> QED
    BY <2>1, <2>2 DEF Renames
<1> QED
  BY <1>1, <1>2, <1>3 DEF FilesInv, Counters, Listing

\* An entry turns cold once its file is in the cold directory, and remote
\* once its object is stored.
LEMMA FlipsInv == FilesInv /\ (FlipsCold \/ FlipsRemote) => FilesInv'
<1> SUFFICES ASSUME FilesInv, FlipsCold \/ FlipsRemote PROVE FilesInv'
  OBVIOUS
<1>1. /\ m.run \subseteq DOMAIN man /\ m.out \in DOMAIN man
      /\ man \in [DOMAIN man -> [file : Nat, tier : Tiers]]
      /\ FlipsCold => man[m.out].file \in cold
      /\ FlipsRemote => man[m.out].file \in obj
  BY DEF FilesInv, Phase, Ids, Listing, FlipsCold, FlipsRemote
<1>2. ASSUME NEW t \in {"cold", "remote"}, NEW STATE ok, Commit([man EXCEPT ![m.out].tier = t], ok),
             UNCHANGED <<nextFile, hot, cold, obj>>,
             IF t = "cold" THEN man[m.out].file \in cold ELSE man[m.out].file \in obj
      PROVE  /\ man' = [man EXCEPT ![m.out].tier = t]
             /\ Counters' /\ Listing(man, nextFile)' /\ Listing(disk, diskNext)'
             /\ ReadableSomewhere'
             /\ m' = Resting \/ (m' = ok /\ disk' = man')
  <2> DEFINE new == [man EXCEPT ![m.out].tier = t]
  <2>1. /\ DOMAIN new = DOMAIN man
        /\ \A i \in DOMAIN man : /\ new[i].file = man[i].file
                                 /\ new[i].tier = IF i = m.out THEN t ELSE man[i].tier
        /\ new \in [DOMAIN man -> [file : Nat, tier : Tiers]]
    BY <1>1 DEF Tiers
  <2>2. Listing(new, nextFile)
    BY <2>1 DEF FilesInv, Listing
  <2>3. ReadableIn(new)
    BY <1>2, <2>1 DEF FilesInv, ReadableSomewhere, ReadableIn
  <2> HIDE DEF new
  <2> QED
    BY <1>2, <2>2, <2>3, CommitInv DEF new
<1>3. CASE FlipsCold
  <2> DEFINE ok == [m EXCEPT !.pc = "to_cold", !.run = @ \ {m.out}, !.out = 0]
  <2>1. /\ man' = [man EXCEPT ![m.out].tier = "cold"]
        /\ Counters' /\ Listing(man, nextFile)' /\ Listing(disk, diskNext)' /\ ReadableSomewhere'
        /\ m' = Resting \/ m' = ok
    BY <1>1, <1>2, <1>3 DEF FlipsCold
  <2>2. m' = ok => m' = [pc |-> "to_cold", run |-> m.run \ {m.out}, out |-> 0, dead |-> m.dead,
                         cold0 |-> m.cold0, then |-> m.then]
    BY Zenon DEF FilesInv, MType
  <2>3. (m.run \ {m.out}) \subseteq Ids("hot")'
    BY <1>1, <1>3, <2>1 DEF FlipsCold, FilesInv, Phase, Ids
  <2> HIDE DEF ok
  <2>4. m' = ok => MType' /\ Phase'
    BY <1>1, <2>2, <2>3 DEF MType, Phase
  <2> QED
    BY <2>1, <2>4, RestingInv DEF FilesInv
<1>4. CASE FlipsRemote
  <2> DEFINE ok == [m EXCEPT !.pc = "unlink"]
  <2>1. /\ man' = [man EXCEPT ![m.out].tier = "remote"]
        /\ Counters' /\ Listing(man, nextFile)' /\ Listing(disk, diskNext)' /\ ReadableSomewhere'
        /\ m' = Resting \/ (m' = ok /\ disk' = man')
    BY <1>1, <1>2, <1>4 DEF FlipsRemote
  <2>2. ok = [pc |-> "unlink", run |-> m.run, out |-> m.out, dead |-> m.dead,
              cold0 |-> m.cold0, then |-> m.then]
    BY DEF FilesInv, MType
  <2>3. DOMAIN man' = DOMAIN man /\ man'[m.out].tier = "remote"
    BY <1>1, <2>1
  <2>4. m' = ok /\ disk' = man' => MType' /\ Phase'
    BY <1>1, <2>2, <2>3 DEF MType, Phase
  <2> QED
    BY <2>1, <2>4, RestingInv DEF FilesInv
<1> QED
  BY <1>3, <1>4, Zenon

\* The object is stored before the entry turns remote.
LEMMA PutsInv == ASSUME NEW i, FilesInv, Puts(i) PROVE FilesInv'
<1>1. UNCHANGED <<man, disk, nextFile, diskNext, hot, cold>> /\ obj \subseteq obj'
  BY Zenon DEF Puts
<1>2. ReadableSomewhere'
  BY <1>1 DEF FilesInv, ReadableSomewhere, ReadableIn
<1>3. MType' /\ Phase'
  <2>1. CASE m' = Resting
    BY <2>1, RestingInv
  <2>2. CASE m' = [m EXCEPT !.pc = "flip_remote", !.out = i] /\ man[i].file \in obj'
    <3>1. m' = [pc |-> "flip_remote", run |-> m.run, out |-> i, dead |-> m.dead,
                cold0 |-> m.cold0, then |-> m.then]
      BY <2>2, Zenon DEF FilesInv, MType
    <3> QED
      BY <1>1, <2>2, <3>1, Zenon DEF MType, Phase, FilesInv, Puts
  <2> QED
    BY <2>1, <2>2 DEF Puts
<1> QED
  BY <1>1, <1>2, <1>3 DEF FilesInv, Counters, Listing

\* The local file unlinked belongs to no other entry, and its own reads the
\* object.
LEMMA UnlinksInv == FilesInv /\ Unlinks => FilesInv'
<1> SUFFICES ASSUME FilesInv, Unlinks PROVE FilesInv'
  OBVIOUS
<1>1. /\ UNCHANGED <<man, disk, nextFile, diskNext, hot, obj>>
      /\ cold' = cold \ {man[m.out].file}
      /\ m' = [pc |-> "to_remote", run |-> m.run \ {m.out}, out |-> 0, dead |-> m.dead,
               cold0 |-> m.cold0, then |-> m.then]
  BY Zenon DEF Unlinks, FilesInv, MType
<1>2. /\ m.run \subseteq DOMAIN man /\ m.out \in DOMAIN man
      /\ man = disk /\ man[m.out].tier = "remote"
  BY DEF Unlinks, FilesInv, Phase
<1>3. \A i \in DOMAIN man : man[i].tier # "remote" => man[i].file # man[m.out].file
  BY <1>2, Zenon DEF FilesInv, Listing
<1>4. ReadableSomewhere'
  BY <1>1, <1>2, <1>3, ZenonT(30) DEF FilesInv, ReadableSomewhere, ReadableIn
<1>5. MType' /\ Phase'
  BY <1>1, <1>2 DEF MType, Phase
<1> QED
  BY <1>1, <1>4, <1>5 DEF FilesInv, Counters, Listing

\* An expired segment's entry is committed away before its file is removed.
LEMMA ExpiresInv == ASSUME NEW i, FilesInv, Expires(i) PROVE FilesInv'
<1> DEFINE new == Without({i})
<1> DEFINE ok == [m EXCEPT !.pc = "erase", !.dead = {man[i]}]
<1>1. i \in DOMAIN man /\ Commit(new, ok) /\ UNCHANGED <<nextFile, hot, cold, obj>>
  BY DEF Expires
<1>2. DOMAIN new = DOMAIN man \ {i} /\ \A j \in DOMAIN new : new[j] = man[j]
  BY DEF Without
<1>3. new = [j \in DOMAIN new |-> new[j]]
  BY Zenon DEF Without
<1>4. m' = ok => m' = [pc |-> "erase", run |-> m.run, out |-> m.out, dead |-> {man[i]},
                       cold0 |-> m.cold0, then |-> m.then]
  BY Zenon DEF FilesInv, MType
<1> HIDE DEF new, ok
<1>5. Listing(new, nextFile)
  BY <1>1, <1>2, <1>3 DEF FilesInv, Listing
<1>6. ReadableIn(new)
  BY <1>1, <1>2, Zenon DEF FilesInv, ReadableSomewhere, ReadableIn
<1>7. /\ man' = new /\ Counters' /\ Listing(man, nextFile)' /\ Listing(disk, diskNext)'
      /\ ReadableSomewhere'
      /\ m' = Resting \/ (m' = ok /\ disk' = new)
  BY <1>1, <1>5, <1>6, CommitInv
<1>8. \A j \in DOMAIN new : new[j].file # man[i].file
  BY <1>1, <1>2 DEF FilesInv, Listing
<1>9. m' = ok /\ disk' = new => MType' /\ Phase'
  BY <1>4, <1>7, <1>8 DEF MType, Phase, Dropped
<1> QED
  BY <1>7, <1>9, RestingInv DEF FilesInv

\* Between passes, and as time passes, no file and no listing changes.
LEMMA PassesInv ==
  FilesInv /\ (\/ CompactsNothing \/ ReclaimsNothing \/ AuditFails
              \/ RemoteBegins \/ GroomBegins \/ TickEnds \/ Ages) => FilesInv'
<1> SUFFICES ASSUME FilesInv, \/ CompactsNothing \/ ReclaimsNothing \/ AuditFails
                              \/ RemoteBegins \/ GroomBegins \/ TickEnds \/ Ages
             PROVE  FilesInv'
  OBVIOUS
<1>1. UNCHANGED <<man, disk, nextFile, diskNext, hot, cold, obj>>
  BY DEF CompactsNothing, ReclaimsNothing, AuditFails, RemoteBegins, GroomBegins, TickEnds, Ages,
         bytes
<1>2. Counters' /\ Listing(man, nextFile)' /\ Listing(disk, diskNext)' /\ ReadableSomewhere'
  BY <1>1 DEF FilesInv, Counters, Listing, ReadableSomewhere, ReadableIn
<1>3. CASE RemoteBegins
  <2>1. m' = [pc |-> "to_remote", run |-> {i \in Ids("cold") \cap m.cold0 : Old(i)},
              out |-> m.out, dead |-> m.dead, cold0 |-> {}, then |-> m.then]
    BY <1>3, Zenon DEF RemoteBegins, FilesInv, MType
  <2>2. MType' /\ Phase'
    BY <1>1, <2>1, ZenonT(30) DEF MType, Phase, Ids
  <2> QED
    BY <1>2, <2>2 DEF FilesInv
<1>4. CASE Ages
  <2>1. MType' /\ Phase'
    BY <1>1, <1>4, Zenon DEF Ages, FilesInv, MType, Phase, Ids, Dropped
  <2> QED
    BY <1>2, <2>1 DEF FilesInv
<1>5. CASE CompactsNothing \/ ReclaimsNothing \/ AuditFails \/ GroomBegins \/ TickEnds
  BY <1>1, <1>2, <1>5, RestingInv, TierBeginsInv
  DEF FilesInv, CompactsNothing, ReclaimsNothing, AuditFails, GroomBegins, TickEnds
<1> QED
  BY <1>3, <1>4, <1>5

\* open_inner deletes no bytes the stored manifest needs.
LEMMA ReopensInv == FilesInv /\ Reopens => FilesInv'
<1> SUFFICES ASSUME FilesInv, Reopens PROVE FilesInv'
  OBVIOUS
<1> DEFINE remote == {e.file : e \in {disk[i] : i \in {j \in DOMAIN disk : disk[j].tier = "remote"}}}
<1>1. /\ obj' = obj \cap remote /\ hot' = hot \ remote /\ cold' = cold \ remote
      /\ man' = disk /\ disk' = disk /\ nextFile' = diskNext /\ diskNext' = diskNext /\ m' = Resting
  BY Zenon DEF Reopens
<1>2. \A i \in DOMAIN disk : disk[i].tier = "remote" <=> disk[i].file \in remote
  BY DEF FilesInv, Listing
<1> HIDE DEF remote
<1>3. ReadableSomewhere'
  BY <1>1, <1>2, Zenon DEF FilesInv, ReadableSomewhere, ReadableIn
<1>4. Counters /\ Listing(disk, diskNext)
  BY Zenon DEF FilesInv
<1>5. Counters'
  BY <1>1, <1>4 DEF Counters
<1>6. Listing(man, nextFile)' /\ Listing(disk, diskNext)'
  BY <1>1, <1>4, Zenon DEF Listing
<1>7. MType' /\ Phase'
  BY <1>1, RestingInv, Zenon
<1> QED
  BY <1>3, <1>5, <1>6, <1>7, Zenon DEF FilesInv

\* Reads change no segment file but those of the pull directory.
LEMMA ReadsInv == ASSUME NEW r, FilesInv, ReadStep(r) PROVE FilesInv'
<1>1. UNCHANGED <<man, disk, nextFile, diskNext, hot, cold, obj, m>>
  BY Zenon DEF ReadStep, ReadBegins, Opens, OpensOther, OpensPulled, Prunes, PullWrites, PullWritten,
         PullRenames, PullOpens, Hits, Misses, Caches, ReadEnds, bytes
<1> QED
  BY <1>1, Zenon DEF FilesInv, MType, Counters, Listing, Phase, Ids, Dropped, ReadableSomewhere, ReadableIn

\* Every step of the tick, of the other messages, of a kill and of a read
\* preserves FilesInv.
LEMMA FilesStepInv == FilesInv /\ [FilesNext]_fvars => FilesInv'
<1> SUFFICES ASSUME FilesInv, [FilesNext]_fvars PROVE FilesInv'
  OBVIOUS
<1>1. CASE TickStep
  BY <1>1, WritesInv, PassesInv, SwapsInv, DeletesInv, FlipsInv, UnlinksInv, RenamesInv, PutsInv,
     ExpiresInv DEF TickStep
<1>2. CASE Flushes \/ Purges \/ Ages \/ Reopens
  BY <1>2, WritesInv, PassesInv, ReopensInv
<1>3. CASE \E r \in Readers : ReadStep(r)
  BY <1>3, ReadsInv, ZenonT(30)
<1>4. CASE UNCHANGED fvars
  <2>1. UNCHANGED <<man, disk, nextFile, diskNext, hot, cold, obj, m>>
    BY <1>4 DEF fvars, bytes
  <2> QED
    BY <2>1, Zenon DEF FilesInv, MType, Counters, Listing, Phase, Ids, Dropped, ReadableSomewhere, ReadableIn
<1> QED
  BY <1>1, <1>2, <1>3, <1>4 DEF FilesNext

\* tier_to_remote, actors.rs:1185: the bytes of every segment of the manifest
\* and of the stored manifest are always where a read looks for them,
\* whatever is flushed, rewritten, purged, moved or expired, whichever
\* stores and PUTs fail, and wherever a kill falls.
THEOREM SegmentsReadable == FilesSpec => []ReadableSomewhere
<1>1. FilesInit => FilesInv
  BY FilesInitInv
<1>2. FilesInv /\ [FilesNext]_fvars => FilesInv'
  BY FilesStepInv
<1>3. FilesInv => ReadableSomewhere
  BY ZenonT(30) DEF FilesInv
<1> QED
  BY <1>1, <1>2, <1>3, PTL DEF FilesSpec

-----------------------------------------------------------------------------
(* Reads of segment files.                                                 *)

IsRead(x) ==
  /\ x = [pc |-> x.pc, id |-> x.id, file |-> x.file, tier |-> x.tier, got |-> x.got]
  /\ x.file \in Nat /\ x.tier \in Tiers

RdType == rd = [r \in Readers |-> rd[r]] /\ \A r \in Readers : IsRead(rd[r])

\* Tier u is t or one that segments of tier t move on to.
Onto(t, u) == t = "hot" \/ u = "remote" \/ t = u

\* The entry that r copied is still in the manifest, in whatever tier, and
\* in the tier it had then.
Listed(r) == rd[r].id \in DOMAIN man /\ man[rd[r].id].file = rd[r].file

Current(r) == Listed(r) /\ man[rd[r].id].tier = rd[r].tier

\* What a read that holds no lock may rely on: its file is no new one, its
\* entry only moved on, a file that was not in its tier's directory is not
\* there later, and a read that found nothing has an entry that is outdated.
Behind(r) ==
  /\ rd[r].file < nextFile /\ (m.pc = "swap" => rd[r].file < m.out)
  /\ Listed(r) => Onto(rd[r].tier, man[rd[r].id].tier)
  /\ rd[r].pc \in {"open", "other"} => rd[r].tier # "remote"
  /\ rd[r].pc = "pulled" => rd[r].tier = "remote"
  /\ rd[r].pc = "other" /\ Current(r) => rd[r].file \notin Dir(rd[r].tier)
  /\ rd[r].pc \in {"vanished", "missing"} => ~Current(r)

StaleInv == \A r \in Readers : rd[r].pc \in {"idle", "off"} \/ Behind(r)

\* What maintenance may do under a read: entries move on or go, and only a
\* swap lists a new file; the hot directory gains only new files, the cold
\* one only files of hot entries.
Shifts ==
  /\ UNCHANGED rd /\ nextFile' \in Nat /\ nextFile <= nextFile'
  /\ m'.pc = "swap" => m'.out = nextFile \/ (m.pc = "swap" /\ m'.out = m.out)
  /\ \A i \in DOMAIN man' :
       \/ /\ i \in DOMAIN man /\ man'[i].file = man[i].file
          /\ Onto(man[i].tier, man'[i].tier)
       \/ m.pc = "swap" /\ man'[i].file = m.out
  /\ hot' \subseteq hot \cup {nextFile}
  /\ \A f \in cold' : f \in cold \/ \E i \in DOMAIN man : man[i].file = f /\ man[i].tier = "hot"

\* Under such a step an entry that is outdated stays outdated.
LEMMA StaleUnderShifts ==
  ASSUME FilesInv, RdType, StaleInv, Shifts
  PROVE  StaleInv'
<1>1. /\ nextFile \in Nat /\ nextFile' \in Nat /\ nextFile <= nextFile'
      /\ m.pc = "swap" => m.out \in Nat
      /\ \A i, j \in DOMAIN man : man[i].file = man[j].file => i = j
      /\ \A i \in DOMAIN man : man[i].tier \in Tiers
  BY Zenon DEF FilesInv, Counters, Phase, Listing, Shifts
<1> SUFFICES ASSUME NEW r \in Readers, rd[r].pc \notin {"idle", "off"}
             PROVE  Behind(r)'
  BY Zenon DEF StaleInv, Shifts
<1>2. Behind(r) /\ rd' = rd /\ rd[r].file \in Nat /\ rd[r].tier \in Tiers
  BY Zenon DEF StaleInv, Shifts, RdType, IsRead
<1>3. rd[r].file < nextFile' /\ (m'.pc = "swap" => rd[r].file < m'.out)
  <2>1. /\ rd[r].file < nextFile /\ (m.pc = "swap" => rd[r].file < m.out)
        /\ m'.pc = "swap" => m'.out = nextFile \/ (m.pc = "swap" /\ m'.out = m.out)
    BY <1>2, ZenonT(30) DEF Behind, Shifts
  <2>2. rd[r].file < nextFile'
    BY <1>1, <1>2, <2>1
  <2> QED
    BY <2>1, <2>2, Zenon
<1>4. ASSUME Listed(r)'
      PROVE  Listed(r) /\ Onto(man[rd[r].id].tier, man'[rd[r].id].tier)
  <2>1. rd[r].id \in DOMAIN man' /\ man'[rd[r].id].file = rd[r].file
    BY <1>2, <1>4, Zenon DEF Listed
  <2>2. m.pc = "swap" => rd[r].file # m.out
    <3>1. m.pc = "swap" => rd[r].file < m.out /\ m.out \in Nat
      BY <1>1, <1>2, Zenon DEF Behind
    <3> QED
      BY <1>2, <3>1
  <2> QED
    BY <2>1, <2>2, Zenon DEF Shifts, Listed
<1>5. Listed(r)' => Onto(rd[r].tier, man'[rd[r].id].tier)
  BY <1>1, <1>2, <1>4, Zenon DEF Behind, Listed, Onto
<1>6. Current(r)' => Current(r)
  BY <1>1, <1>2, <1>4, Zenon DEF Behind, Current, Listed, Onto, Tiers
<1>7. ASSUME rd[r].pc = "other", Current(r)'
      PROVE  rd[r].file \notin Dir(rd[r].tier)'
  <2>1. Current(r) /\ rd[r].file \notin Dir(rd[r].tier) /\ rd[r].tier \in {"hot", "cold"}
    BY <1>2, <1>6, <1>7, Zenon DEF Behind, Tiers
  <2>2. CASE rd[r].tier = "hot"
    <3>1. rd[r].file < nextFile
      BY <1>2, ZenonT(30) DEF Behind
    <3>2. rd[r].file # nextFile
      BY <1>1, <1>2, <3>1
    <3> QED
      BY <1>2, <2>1, <2>2, <3>2, Zenon DEF Dir, Shifts
  <2>3. CASE rd[r].tier = "cold"
    <3>1. rd[r].file \notin cold /\ rd'[r].file = rd[r].file /\ rd'[r].tier = "cold"
      BY <1>2, <2>1, <2>3, Zenon DEF Dir
    <3>2. /\ rd[r].id \in DOMAIN man /\ man[rd[r].id].file = rd[r].file
          /\ man[rd[r].id].tier = "cold"
      BY <2>1, <2>3, Zenon DEF Current, Listed
    <3>3. rd[r].file \notin cold'
      BY <1>1, <3>1, <3>2, ZenonT(30) DEF Shifts
    <3> QED
      BY <3>1, <3>3, Zenon DEF Dir
  <2> QED
    BY <2>1, <2>2, <2>3, Zenon
<1> QED
  BY <1>2, <1>3, <1>5, <1>6, <1>7, Zenon DEF Behind

\* Maintenance does nothing else under a read.
LEMMA MaintenanceShifts ==
  ASSUME FilesInv, TickStep \/ Flushes \/ Purges \/ Ages
  PROVE  Shifts
<1>0. /\ m = [pc |-> m.pc, run |-> m.run, out |-> m.out, dead |-> m.dead,
              cold0 |-> m.cold0, then |-> m.then]
      /\ Resting.pc = "idle" /\ ReclaimBegins.pc = "reclaim" /\ TierBegins.pc = "to_cold"
      /\ [Resting EXCEPT !.pc = "groom"].pc = "groom" /\ [Resting EXCEPT !.pc = "done"].pc = "done"
  BY DEF FilesInv, MType, Resting, ReclaimBegins, TierBegins
<1>1. /\ nextFile \in Nat /\ \A t : Onto(t, t)
      /\ man \in [DOMAIN man -> [file : Nat, tier : Tiers]]
  BY DEF FilesInv, Counters, Listing, Onto
<1>2. ASSUME UNCHANGED <<man, rd, nextFile>>, hot' \subseteq hot, cold' \subseteq cold,
             m'.pc # "swap" \/ m' = m
      PROVE  Shifts
  BY <1>1, <1>2 DEF Shifts
<1>3. ASSUME NEW run, NEW then, UNCHANGED <<man, rd, cold>>,
             \/ /\ hot' = hot \cup {nextFile} /\ nextFile' = nextFile + 1
                /\ m' = [Resting EXCEPT !.pc = "swap", !.run = run, !.out = nextFile, !.then = then]
             \/ m' = Resting /\ UNCHANGED <<hot, nextFile>>
      PROVE  Shifts
  <2>1. [Resting EXCEPT !.pc = "swap", !.run = run, !.out = nextFile, !.then = then].out = nextFile
    BY DEF Resting
  <2>2. hot' \subseteq hot \cup {nextFile} /\ nextFile' \in {nextFile, nextFile + 1}
    BY <1>3
  <2>3. m'.pc = "swap" => m'.out = nextFile
    BY <1>0, <1>3, <2>1, Zenon
  <2>4. UNCHANGED <<man, rd, cold>>
    BY <1>3
  <2> QED
    BY <1>1, <2>2, <2>3, <2>4 DEF Shifts
<1>4. CASE Flushes
  <2>1. /\ UNCHANGED <<man, rd, cold>> /\ hot' = hot \cup {nextFile} /\ nextFile' = nextFile + 1
        /\ m'.pc = "swap" /\ m'.out = nextFile
    BY <1>4, ZenonT(30) DEF Flushes, Resting
  <2> QED
    BY <1>1, <2>1 DEF Shifts
<1>5. CASE Compacts \/ Reclaims \/ Purges
  BY <1>3, <1>5, Zenon DEF Compacts, Reclaims, Purges, RewriteWrites
<1>6. CASE Swaps
  <2>1. /\ UNCHANGED <<rd, nextFile, hot, cold>> /\ m.pc = "swap"
        /\ man' = [i \in (DOMAIN man \ m.run) \cup {OutId} |->
                     IF i = OutId THEN Entry(m.out, "hot") ELSE man[i]]
    BY <1>6 DEF Swaps, Commit
  <2>2. m'.pc # "swap"
    BY <1>0, <1>6, Zenon DEF Swaps, Commit
  <2>3. \A i \in DOMAIN man' : man'[i].file = m.out \/ (i \in DOMAIN man /\ man'[i] = man[i])
    BY <2>1 DEF Entry
  <2>4. UNCHANGED <<rd, nextFile, hot, cold>> /\ m.pc = "swap"
    BY <2>1
  <2> QED
    BY <1>1, <2>2, <2>3, <2>4 DEF Shifts
<1>7. CASE \/ Drops \/ Erases \/ CompactsNothing \/ ReclaimsNothing \/ AuditFails
           \/ RemoteBegins \/ GroomBegins \/ TickEnds \/ Unlinks \/ Ages
           \/ \E i \in 0..MaxFile : Puts(i)
  <2>1. UNCHANGED <<man, rd, nextFile>> /\ hot' \subseteq hot /\ cold' \subseteq cold
    BY <1>7, Zenon DEF Drops, Erases, CompactsNothing, ReclaimsNothing, AuditFails, RemoteBegins,
                       GroomBegins, TickEnds, Unlinks, Ages, Puts, bytes
  <2>2. m'.pc # "swap" \/ m' = m
    BY <1>0, <1>7, Zenon DEF Drops, Erases, CompactsNothing, ReclaimsNothing, AuditFails, RemoteBegins,
                            GroomBegins, TickEnds, Unlinks, Ages, Puts
  <2> QED
    BY <1>2, <2>1, <2>2
<1>8. ASSUME NEW i, Renames(i)
      PROVE  Shifts
  <2>1. /\ UNCHANGED <<man, rd, nextFile>> /\ hot' \subseteq hot
        /\ cold' \subseteq cold \cup {man[i].file} /\ i \in m.run /\ m.pc = "to_cold"
    BY <1>8 DEF Renames
  <2>2. m'.pc # "swap"
    BY <1>0, <1>8, Zenon DEF Renames
  <2>3. i \in DOMAIN man /\ man[i].tier = "hot"
    BY <2>1 DEF FilesInv, Phase, Ids
  <2> QED
    BY <1>1, <2>1, <2>2, <2>3 DEF Shifts
<1>9. CASE FlipsCold \/ FlipsRemote
  <2>1. /\ UNCHANGED <<rd, nextFile, hot, cold>>
        /\ \/ man' = [man EXCEPT ![m.out].tier = "remote"]
           \/ man' = [man EXCEPT ![m.out].tier = "cold"] /\ man[m.out].tier = "hot"
    BY <1>9 DEF FlipsCold, FlipsRemote, Commit, FilesInv, Phase, Ids
  <2>2. m'.pc # "swap"
    BY <1>0, <1>9, Zenon DEF FlipsCold, FlipsRemote, Commit
  <2>3. \A i \in DOMAIN man' : i \in DOMAIN man /\ man'[i].file = man[i].file
                               /\ Onto(man[i].tier, man'[i].tier)
    BY <1>1, <2>1 DEF Onto
  <2> QED
    BY <1>1, <2>1, <2>2, <2>3 DEF Shifts
<1>10. ASSUME NEW i, Expires(i)
       PROVE  Shifts
  <2>1. UNCHANGED <<rd, nextFile, hot, cold>> /\ man' = [j \in DOMAIN man \ {i} |-> man[j]]
    BY <1>10 DEF Expires, Commit, Without
  <2>2. m'.pc # "swap"
    BY <1>0, <1>10, Zenon DEF Expires, Commit
  <2> QED
    BY <1>1, <2>1, <2>2 DEF Shifts
<1> QED
  BY <1>4, <1>5, <1>6, <1>7, <1>8, <1>9, <1>10 DEF TickStep

\* The read of r goes on to p with the entry it has.
Keeps(r, p) ==
  /\ RdType' /\ \A q \in Readers : q # r => rd'[q] = rd[q]
  /\ rd'[r].pc = p /\ rd'[r].id = rd[r].id
  /\ rd'[r].file = rd[r].file /\ rd'[r].tier = rd[r].tier

\* A step to another place of a read.
LEMMA GotoKeeps ==
  ASSUME RdType, NEW r \in Readers, NEW p, Goto(r, p)
  PROVE  Keeps(r, p) /\ rd'[r].got = rd[r].got
<1>1. rd = [q \in Readers |-> rd[q]] /\ IsRead(rd[r]) /\ rd' = [rd EXCEPT ![r].pc = p]
  BY DEF RdType, Goto
<1>2. rd'[r] = [pc |-> p, id |-> rd[r].id, file |-> rd[r].file, tier |-> rd[r].tier, got |-> rd[r].got]
  BY <1>1 DEF IsRead
<1>3. rd' = [q \in Readers |-> rd'[q]] /\ \A q \in Readers : q # r => rd'[q] = rd[q]
  BY <1>1
<1>4. IsRead(rd'[r])
  BY <1>1, <1>2 DEF IsRead
<1>5. RdType'
  BY <1>3, <1>4 DEF RdType, IsRead
<1> QED
  BY <1>2, <1>3, <1>5 DEF Keeps

\* The fields of a read that a load updates.
LEMMA LoadFields ==
  ASSUME NEW x, IsRead(x), NEW g
  PROVE  /\ [x EXCEPT !.got = g]
              = [pc |-> x.pc, id |-> x.id, file |-> x.file, tier |-> x.tier, got |-> g]
         /\ [x EXCEPT !.pc = "load", !.got = g]
              = [pc |-> "load", id |-> x.id, file |-> x.file, tier |-> x.tier, got |-> g]
<1>1. PICK a, b, c, d, e : x = [pc |-> a, id |-> b, file |-> c, tier |-> d, got |-> e]
  BY Zenon DEF IsRead
<1>2. x.pc = a /\ x.id = b /\ x.file = c /\ x.tier = d
  BY <1>1
<1>3. [x EXCEPT !.got = g] = [pc |-> a, id |-> b, file |-> c, tier |-> d, got |-> g]
  BY <1>1
<1> DEFINE y == [x EXCEPT !.pc = "load"]
<1>4. y = [pc |-> "load", id |-> b, file |-> c, tier |-> d, got |-> e]
  BY <1>1
<1>5. [x EXCEPT !.pc = "load", !.got = g] = [y EXCEPT !.got = g]
  BY Zenon
<1> HIDE DEF y
<1>6. [y EXCEPT !.got = g] = [pc |-> "load", id |-> b, file |-> c, tier |-> d, got |-> g]
  BY <1>4
<1> QED
  BY <1>2, <1>3, <1>5, <1>6, Zenon

\* A step that loads a section.
LEMMA LoadKeeps ==
  ASSUME RdType, NEW r \in Readers, NEW s, Hits(r, s) \/ Caches(r, s)
  PROVE  /\ Keeps(r, "load") /\ rd[r].pc \in {"load", s} /\ s \in Sections
         /\ Hits(r, s) => rd'[r].got = rd[r].got \cup {<<s, cache[<<CacheKey(r), s>>].of>>}
         /\ Caches(r, s) => rd'[r].got = rd[r].got \cup {<<s, rd[r].file>>}
<1>1. rd = [q \in Readers |-> rd[q]] /\ IsRead(rd[r])
      /\ rd[r] = [pc |-> rd[r].pc, id |-> rd[r].id, file |-> rd[r].file, tier |-> rd[r].tier,
                  got |-> rd[r].got]
  BY DEF RdType, IsRead
<1>2. PICK g : /\ rd' = [rd EXCEPT ![r] = [pc |-> "load", id |-> rd[r].id, file |-> rd[r].file,
                                           tier |-> rd[r].tier, got |-> g]]
               /\ Hits(r, s) => g = rd[r].got \cup {<<s, cache[<<CacheKey(r), s>>].of>>}
               /\ Caches(r, s) => g = rd[r].got \cup {<<s, rd[r].file>>}
  <2>1. CASE Hits(r, s)
    <3> DEFINE g == rd[r].got \cup {<<s, cache[<<CacheKey(r), s>>].of>>}
    <3>1. rd[r].pc = "load" /\ rd' = [rd EXCEPT ![r].got = g] /\ ~Caches(r, s)
      BY <2>1, FilesAssumption DEF Hits, Caches, Places
    <3>2. [rd[r] EXCEPT !.got = g] = [pc |-> "load", id |-> rd[r].id, file |-> rd[r].file,
                                      tier |-> rd[r].tier, got |-> g]
      BY <1>1, <3>1, LoadFields, Zenon
    <3>3. rd' = [rd EXCEPT ![r] = [rd[r] EXCEPT !.got = g]]
      BY <3>1, Zenon
    <3> HIDE DEF g
    <3> QED
      BY <3>1, <3>2, <3>3, Zenon DEF g
  <2>2. CASE Caches(r, s)
    <3> DEFINE g == rd[r].got \cup {<<s, rd[r].file>>}
    <3>1. rd' = [rd EXCEPT ![r] = [rd[r] EXCEPT !.pc = "load", !.got = g]]
      BY <2>2, Zenon DEF Caches
    <3>2. ~Hits(r, s)
      BY <2>2, FilesAssumption DEF Hits, Caches, Places
    <3>3. [rd[r] EXCEPT !.pc = "load", !.got = g] = [pc |-> "load", id |-> rd[r].id, file |-> rd[r].file,
                                                     tier |-> rd[r].tier, got |-> g]
      BY <1>1, LoadFields, Zenon
    <3> HIDE DEF g
    <3> QED
      BY <3>1, <3>2, <3>3, Zenon DEF g
  <2> QED
    BY <2>1, <2>2, Zenon
<1>3. rd'[r] = [pc |-> "load", id |-> rd[r].id, file |-> rd[r].file, tier |-> rd[r].tier, got |-> g]
  BY <1>1, <1>2
<1>4. rd' = [q \in Readers |-> rd'[q]] /\ \A q \in Readers : q # r => rd'[q] = rd[q]
  BY <1>1, <1>2
<1>5. IsRead(rd'[r])
  BY <1>1, <1>3 DEF IsRead
<1>6. RdType'
  BY <1>4, <1>5 DEF RdType, IsRead
<1>7. rd[r].pc \in {"load", s} /\ s \in Sections
  BY Zenon DEF Hits, Caches
<1> QED
  BY <1>2, <1>3, <1>4, <1>6, <1>7, Zenon DEF Keeps

\* A read goes on: what it relied on holds, if it holds of the new place.
LEMMA KeepsBehind ==
  ASSUME RdType, StaleInv, NEW r \in Readers, NEW p, Keeps(r, p),
         UNCHANGED <<man, m, nextFile, hot, cold>>,
         rd[r].pc \notin {"idle", "off"}, p \notin {"open", "pulled"},
         p = "other" => rd[r].tier # "remote" /\ rd[r].file \notin Dir(rd[r].tier),
         p \in {"vanished", "missing"} => ~Current(r)
  PROVE  StaleInv'
<1>1. ASSUME NEW q \in Readers, q # r
      PROVE  Behind(q)' <=> Behind(q)
  <2>1. rd'[q] = rd[q]
    BY <1>1, Zenon DEF Keeps
  <2>2. (Current(q)' <=> Current(q)) /\ (Listed(q)' <=> Listed(q)) /\ Dir(rd[q].tier)' = Dir(rd[q].tier)
    BY <2>1, Zenon DEF Current, Listed, Dir
  <2> QED
    BY <2>1, <2>2, Zenon DEF Behind
<1>2. Behind(r)'
  <2>1. Behind(r) /\ rd'[r].pc = p /\ rd'[r].id = rd[r].id /\ rd'[r].file = rd[r].file
        /\ rd'[r].tier = rd[r].tier
    BY Zenon DEF StaleInv, Keeps
  <2>2. (Current(r)' <=> Current(r)) /\ (Listed(r)' <=> Listed(r)) /\ Dir(rd[r].tier)' = Dir(rd[r].tier)
    BY <2>1, Zenon DEF Current, Listed, Dir
  <2> QED
    BY <2>1, <2>2, Zenon DEF Behind
<1>3. \A q \in Readers : q # r => rd'[q] = rd[q]
  BY Zenon DEF Keeps
<1> QED
  BY <1>1, <1>2, <1>3, Zenon DEF StaleInv

\* A read takes an entry of the manifest, or is over.
LEMMA BeginsBehind ==
  ASSUME FilesInv, RdType, StaleInv, NEW r \in Readers,
         (\E i \in 0..MaxFile : ReadBegins(r, i)) \/ ReadEnds(r)
  PROVE  /\ RdType' /\ StaleInv' /\ rd'[r].got = {}
         /\ rd'[r].pc \in {"idle", "open", "pulled"} /\ \A q \in Readers : q # r => rd'[q] = rd[q]
<1>1. rd = [q \in Readers |-> rd[q]] /\ \A q \in Readers : IsRead(rd[q])
  BY Zenon DEF RdType
<1>2. UNCHANGED <<man, m, nextFile, hot, cold>>
  BY ZenonT(30) DEF ReadBegins, ReadEnds, bytes
<1>3. PICK new : rd' = [rd EXCEPT ![r] = new] /\ IsRead(new) /\ new.got = {}
                 /\ \/ new.pc = "idle"
                    \/ /\ new.id \in DOMAIN man /\ new.file = man[new.id].file /\ new.tier = man[new.id].tier
                       /\ new.pc = IF new.tier = "remote" THEN "pulled" ELSE "open"
  <2>1. CASE ReadEnds(r)
    <3>1. rd' = [rd EXCEPT ![r] = NoRead]
      BY <2>1, ZenonT(30) DEF ReadEnds
    <3>2. IsRead(NoRead) /\ NoRead.pc = "idle" /\ NoRead.got = {}
      BY Zenon DEF IsRead, NoRead, Tiers
    <3> QED
      BY <3>1, <3>2, ZenonT(30)
  <2>2. ASSUME NEW i, ReadBegins(r, i)
        PROVE  \E new : rd' = [rd EXCEPT ![r] = new] /\ IsRead(new) /\ new.got = {}
                 /\ \/ new.pc = "idle"
                    \/ /\ new.id \in DOMAIN man /\ new.file = man[new.id].file /\ new.tier = man[new.id].tier
                       /\ new.pc = IF new.tier = "remote" THEN "pulled" ELSE "open"
    <3> DEFINE new == [pc |-> IF man[i].tier = "remote" THEN "pulled" ELSE "open",
                       id |-> i, file |-> man[i].file, tier |-> man[i].tier, got |-> {}]
    <3>1. i \in DOMAIN man /\ rd' = [rd EXCEPT ![r] = new]
      BY <2>2, Zenon DEF ReadBegins
    <3>2. man[i].file \in Nat /\ man[i].tier \in Tiers
      BY <3>1, Zenon DEF FilesInv, Listing
    <3>3. /\ new.id = i /\ new.file = man[i].file /\ new.tier = man[i].tier /\ new.got = {}
          /\ new.pc = IF man[i].tier = "remote" THEN "pulled" ELSE "open"
      BY Zenon
    <3>4. IsRead(new)
      BY <3>2, Zenon DEF IsRead
    <3> HIDE DEF new
    <3> QED
      BY <3>1, <3>3, <3>4, ZenonT(30)
  <2> QED
    BY <2>1, <2>2, Zenon
<1>4. rd'[r] = new /\ rd' = [q \in Readers |-> rd'[q]] /\ \A q \in Readers : q # r => rd'[q] = rd[q]
  BY <1>1, <1>3, Zenon
<1>5. RdType'
  BY <1>1, <1>3, <1>4, Zenon DEF RdType, IsRead
<1>6. new.pc # "idle" => Behind(r)'
  <2>1. /\ \A i \in DOMAIN man : man[i].file < nextFile /\ (m.pc = "swap" => man[i].file < m.out)
    BY Zenon DEF FilesInv, Listing, Phase
  <2> QED
    BY <1>2, <1>3, <1>4, <2>1, Zenon DEF Behind, Listed, Onto
<1>7. ASSUME NEW q \in Readers, q # r
      PROVE  Behind(q)' <=> Behind(q)
  <2>1. rd'[q] = rd[q]
    BY <1>4, <1>7, Zenon
  <2>2. (Current(q)' <=> Current(q)) /\ (Listed(q)' <=> Listed(q)) /\ Dir(rd[q].tier)' = Dir(rd[q].tier)
    BY <1>2, <2>1, Zenon DEF Current, Listed, Dir
  <2> QED
    BY <1>2, <2>1, <2>2, Zenon DEF Behind
<1>8. StaleInv'
  BY <1>4, <1>6, <1>7, Zenon DEF StaleInv
<1> QED
  BY <1>3, <1>4, <1>5, <1>8

\* The places a read with an entry goes on to, and what it has seen there.
LEMMA ReadGoesOn ==
  ASSUME NEW r \in Readers, ReadStep(r), ~ReadEnds(r), ~\E i \in 0..MaxFile : ReadBegins(r, i)
  PROVE  \/ \E s \in Sections : Hits(r, s) \/ Caches(r, s)
         \/ \E p \in (Places \cup Sections) \ {"idle", "off", "open", "pulled"} :
              /\ Goto(r, p) /\ rd[r].pc \in Places \ {"idle", "off"}
              /\ p = "other" => rd[r].pc = "open" /\ rd[r].file \notin Dir(rd[r].tier)
              /\ p = "vanished" => /\ rd[r].pc = "other"
                                   /\ rd[r].file \notin Dir(IF rd[r].tier = "hot" THEN "cold" ELSE "hot")
              /\ p = "missing" => rd[r].pc = "pulled" /\ rd[r].file \notin obj
              /\ p = "writing" => PullWrites(r)
              /\ p = "rename" => PullWritten(r)
<1>1. Sections \cap Places = {}
  BY FilesAssumption, Zenon
<1>2. \A f : PullState(f) \in {"load", "none", "corrupt"}
  BY Zenon DEF PullState
<1>3. CASE Opens(r) \/ OpensOther(r)
  <2>1. CASE Opens(r)
    <3>1. /\ rd[r].pc = "open"
          /\ \E p \in {"load", "other"} :
               Goto(r, p) /\ (p = "other" => rd[r].file \notin Dir(rd[r].tier))
      BY <2>1, Zenon DEF Opens
    <3> QED
      BY <3>1, Zenon DEF Places
  <2>2. CASE OpensOther(r)
    <3>1. /\ rd[r].pc = "other"
          /\ \E p \in {"load", "vanished"} :
               /\ Goto(r, p)
               /\ p = "vanished" =>
                    rd[r].file \notin Dir(IF rd[r].tier = "hot" THEN "cold" ELSE "hot")
      BY <2>2, Zenon DEF OpensOther
    <3> QED
      BY <3>1, Zenon DEF Places
  <2> QED
    BY <1>3, <2>1, <2>2, ZenonT(30)
<1>4. CASE OpensPulled(r)
  <2>1. /\ rd[r].pc = "pulled"
        /\ \E p \in {"load", "corrupt", "prune", "missing"} :
             Goto(r, p) /\ (p = "missing" => rd[r].file \notin obj)
    BY <1>2, <1>4 DEF OpensPulled
  <2> QED
    BY <2>1, Zenon DEF Places
<1>5. CASE Prunes(r) \/ PullWrites(r) \/ PullWritten(r)
  <2>1. CASE Prunes(r)
    <3>1. rd[r].pc = "prune" /\ \E p \in {"fetched"} : Goto(r, p)
      BY <2>1, ZenonT(30) DEF Prunes
    <3> QED
      BY <3>1, ZenonT(30) DEF Places
  <2>2. CASE PullWrites(r)
    <3>1. rd[r].pc = "fetched" /\ \E p \in {"writing"} : Goto(r, p)
      BY <2>2, ZenonT(30) DEF PullWrites
    <3> QED
      BY <2>2, <3>1, ZenonT(30) DEF Places
  <2>3. CASE PullWritten(r)
    <3>1. Goto(r, "rename") /\ rd[r].pc = "writing"
      BY <2>3, Zenon DEF PullWritten
    <3> QED
      BY <2>3, <3>1, Zenon DEF Places
  <2> QED
    BY <1>5, <2>1, <2>2, <2>3, ZenonT(30)
<1>6. CASE PullRenames(r) \/ PullOpens(r)
  <2>1. CASE PullRenames(r)
    <3>1. rd[r].pc = "rename" /\ \E p \in {"again", "reopen"} : Goto(r, p)
      BY <2>1, ZenonT(30) DEF PullRenames
    <3> QED
      BY <3>1, ZenonT(30) DEF Places
  <2>2. CASE PullOpens(r)
    <3>1. rd[r].pc = "reopen" /\ \E p \in {"again", "load", "corrupt"} : Goto(r, p)
      BY <1>2, <2>2, ZenonT(30) DEF PullOpens
    <3> QED
      BY <3>1, ZenonT(30) DEF Places
  <2> QED
    BY <1>6, <2>1, <2>2, Zenon
<1>7. ASSUME NEW s \in Sections, Misses(r, s)
      PROVE  Goto(r, s) /\ rd[r].pc = "load" /\ s \notin Places
  BY <1>1, <1>7 DEF Misses, Goto
<1> QED
  BY <1>3, <1>4, <1>5, <1>6, <1>7, ZenonT(30) DEF ReadStep, Places

\* Every step of a read keeps what reads may rely on.
LEMMA StaleUnderReads ==
  ASSUME FilesInv, RdType, StaleInv, NEW r \in Readers, ReadStep(r)
  PROVE  RdType' /\ StaleInv'
<1>1. CASE ReadEnds(r) \/ \E i \in 0..MaxFile : ReadBegins(r, i)
  BY <1>1, BeginsBehind, ZenonT(30)
<1>2. UNCHANGED <<man, m, nextFile, hot, cold>>
  BY Zenon DEF ReadStep, ReadBegins, Opens, OpensOther, OpensPulled, Prunes, PullWrites, PullWritten,
         PullRenames, PullOpens, Hits, Misses, Caches, ReadEnds, bytes
<1>3. ASSUME NEW s \in Sections, Hits(r, s) \/ Caches(r, s)
      PROVE  RdType' /\ StaleInv'
  <2>1. Keeps(r, "load") /\ rd[r].pc \in {"load", s} /\ s \notin Places
    BY <1>3, LoadKeeps, FilesAssumption, Zenon
  <2>2. rd[r].pc \notin {"idle", "off"}
    BY <2>1, Zenon DEF Places
  <2> QED
    BY <1>2, <2>1, <2>2, KeepsBehind, Zenon DEF Keeps
<1>4. ASSUME NEW p \in (Places \cup Sections) \ {"idle", "off", "open", "pulled"},
             Goto(r, p), rd[r].pc \in Places \ {"idle", "off"},
             p = "other" => rd[r].pc = "open" /\ rd[r].file \notin Dir(rd[r].tier),
             p = "vanished" => /\ rd[r].pc = "other"
                               /\ rd[r].file \notin Dir(IF rd[r].tier = "hot" THEN "cold" ELSE "hot"),
             p = "missing" => rd[r].pc = "pulled" /\ rd[r].file \notin obj
      PROVE  RdType' /\ StaleInv'
  <2>1. Keeps(r, p)
    BY <1>4, GotoKeeps, Zenon
  <2>2. Behind(r) /\ rd[r].tier \in Tiers
    BY <1>4, Zenon DEF StaleInv, RdType, IsRead
  <2>3. Current(r) => IF rd[r].tier = "remote" THEN rd[r].file \in obj ELSE rd[r].file \in hot \cup cold
    BY Zenon DEF FilesInv, ReadableSomewhere, ReadableIn, Current, Listed
  <2>4. p = "vanished" => ~Current(r)
    BY <1>4, <2>2, <2>3, Zenon DEF Behind, Dir, Tiers
  <2>5. p = "missing" => ~Current(r)
    BY <1>4, <2>2, <2>3, Zenon DEF Behind
  <2>6. p = "other" => rd[r].tier # "remote"
    BY <1>4, <2>2, Zenon DEF Behind
  <2> QED
    BY <1>2, <1>4, <2>1, <2>4, <2>5, <2>6, KeepsBehind, ZenonT(30) DEF Keeps
<1> QED
  BY <1>1, <1>3, <1>4, ReadGoesOn, Zenon

\* A kill ends every read.
LEMMA ReopenEndsReads ==
  ASSUME RdType, Reopens
  PROVE  /\ RdType' /\ StaleInv'
         /\ \A r \in Readers : rd'[r].pc \in {"idle", "off"} /\ (rd'[r].got = {} \/ rd'[r] = rd[r])
<1>1. rd' = [r \in Readers |-> IF rd[r].pc = "off" THEN rd[r] ELSE NoRead]
  BY Zenon DEF Reopens
<1>2. NoRead.pc = "idle" /\ IsRead(NoRead) /\ NoRead.got = {}
  BY Zenon DEF NoRead, IsRead, Tiers
<1>3. \A r \in Readers : IsRead(rd[r])
  BY DEF RdType
<1>4. \A r \in Readers : /\ rd'[r].pc \in {"idle", "off"} /\ IsRead(rd'[r])
                         /\ rd'[r].got = {} \/ rd'[r] = rd[r]
  BY <1>1, <1>2, <1>3
<1>5. RdType'
  BY <1>1, <1>4, Zenon DEF RdType, IsRead
<1> QED
  BY <1>4, <1>5, Zenon DEF StaleInv

\* RdType and StaleInv of a store as an earlier life left it.
LEMMA StaleInit ==
  ASSUME FilesInit
  PROVE  /\ RdType /\ StaleInv
         /\ \A r \in Readers : rd[r].pc \in {"idle", "off"} /\ rd[r].got = {}
<1>1. PICK A : rd = [r \in Readers |-> IF r \in A THEN NoRead ELSE [NoRead EXCEPT !.pc = "off"]]
  BY ZenonT(30) DEF FilesInit
<1>2. /\ NoRead.pc = "idle" /\ IsRead(NoRead) /\ NoRead.got = {}
      /\ [NoRead EXCEPT !.pc = "off"].pc = "off" /\ IsRead([NoRead EXCEPT !.pc = "off"])
      /\ [NoRead EXCEPT !.pc = "off"].got = {}
  BY DEF NoRead, IsRead, Tiers
<1>3. \A r \in Readers : rd[r].pc \in {"idle", "off"} /\ IsRead(rd[r]) /\ rd[r].got = {}
  BY <1>1, <1>2, Zenon
<1>4. RdType
  BY <1>1, <1>3, Zenon DEF RdType
<1> QED
  BY <1>3, <1>4 DEF StaleInv

\* What reads may rely on is kept by every step.
LEMMA StaleStep ==
  ASSUME FilesInv, RdType, StaleInv, [FilesNext]_fvars
  PROVE  RdType' /\ StaleInv'
<1>1. CASE TickStep \/ Flushes \/ Purges \/ Ages
  <2>1. Shifts
    BY <1>1, MaintenanceShifts
  <2> QED
    BY <2>1, StaleUnderShifts, Zenon DEF Shifts, RdType, IsRead
<1>2. CASE Reopens
  BY <1>2, ReopenEndsReads
<1>3. CASE \E r \in Readers : ReadStep(r)
  BY <1>3, StaleUnderReads, ZenonT(30)
<1>4. CASE UNCHANGED fvars
  BY <1>4, ZenonT(30) DEF fvars, bytes, RdType, IsRead, StaleInv, Behind, Current, Listed, Dir
<1> QED
  BY <1>1, <1>2, <1>3, <1>4 DEF FilesNext

-----------------------------------------------------------------------------
(* The section cache and the pull directory.                               *)

\* Every cached section is of the file it is cached under.
OfKey(c) ==
  /\ c = [x \in DOMAIN c |-> c[x]]
  /\ \A x \in DOMAIN c : c[x] = [of |-> x[1], used |-> c[x].used]

CacheInv == OfKey(cache) /\ SectionsOfOneFile

\* New stamps leave the sections as they are.
LEMMA RankedOfKey ==
  ASSUME NEW c, \A x \in DOMAIN c : c[x].of = x[1]
  PROVE  OfKey(Ranked(c))
<1> DEFINE n(x) == Cardinality({y \in DOMAIN c : c[y].used < c[x].used})
<1>1. Ranked(c) = [x \in DOMAIN c |-> [of |-> c[x].of, used |-> n(x)]]
  BY Zenon DEF Ranked
<1> HIDE DEF n
<1> QED
  BY <1>1 DEF OfKey

\* An eviction, an invalidation and a new life only take sections out.
LEMMA CacheShrinks ==
  ASSUME OfKey(cache), \/ \E F : cache' = Invalidated(F)
                       \/ cache' = cache \/ cache' = NoSections
  PROVE  OfKey(cache)'
<1>1. ASSUME NEW F, cache' = Invalidated(F)
      PROVE  OfKey(cache)'
  <2> DEFINE c == [x \in {y \in DOMAIN cache : y[1] \notin F} |-> cache[x]]
  <2>1. \A x \in DOMAIN c : c[x].of = x[1]
    BY DEF OfKey
  <2>2. cache' = Ranked(c)
    BY <1>1, Zenon DEF Invalidated
  <2> HIDE DEF c
  <2> QED
    BY <2>1, <2>2, RankedOfKey
<1> QED
  BY <1>1, Zenon DEF OfKey, NoSections

\* A hit returns, and a put caches, a section of the file that is read.
LEMMA LoadsOfOneFile ==
  ASSUME RdType, CacheInv, NEW r \in Readers, NEW s, Hits(r, s) \/ Caches(r, s)
  PROVE  CacheInv'
<1> DEFINE x == <<CacheKey(r), s>>
<1>1. /\ Keeps(r, "load")
      /\ Hits(r, s) => rd'[r].got = rd[r].got \cup {<<s, cache[x].of>>}
      /\ Caches(r, s) => rd'[r].got = rd[r].got \cup {<<s, rd[r].file>>}
  BY LoadKeeps, Zenon
<1>2. x[1] = rd[r].file
  BY DEF CacheKey
<1>3. Hits(r, s) => x \in DOMAIN cache /\ cache[x].of = rd[r].file
  BY <1>2 DEF Hits, CacheInv, OfKey
<1>4. SectionsOfOneFile'
  BY <1>1, <1>3 DEF Keeps, CacheInv, SectionsOfOneFile
<1>5. CASE Hits(r, s)
  <2> DEFINE c == [cache EXCEPT ![x].used = Stamp]
  <2>1. cache' = Ranked(c)
    BY <1>5 DEF Hits
  <2>2. DOMAIN c = DOMAIN cache /\ \A y \in DOMAIN cache : c[y].of = y[1]
    BY DEF CacheInv, OfKey
  <2> HIDE DEF c
  <2> QED
    BY <1>4, <2>1, <2>2, RankedOfKey DEF CacheInv
<1>6. CASE Caches(r, s)
  <2> DEFINE c == [y \in DOMAIN cache \cup {x} |->
                     IF y = x THEN [of |-> rd[r].file, used |-> Stamp] ELSE cache[y]]
  <2>1. cache' = Ranked(Trimmed(c))
    BY <1>6, Zenon DEF Caches
  <2>2. \A y \in DOMAIN c : c[y].of = y[1]
    BY <1>2 DEF CacheInv, OfKey
  <2> HIDE DEF c
  <2>3. PICK K : K \subseteq DOMAIN c /\ Trimmed(c) = [y \in K |-> c[y]]
    BY Zenon DEF Trimmed
  <2>4. \A y \in DOMAIN Trimmed(c) : Trimmed(c)[y].of = y[1]
    BY <2>2, <2>3
  <2> QED
    BY <1>4, <2>1, <2>4, RankedOfKey DEF CacheInv
<1> QED
  BY <1>5, <1>6, ZenonT(30)

\* The read writes the .tmp of f, or is about to rename it.
Writes(r, f) == rd[r].file = f /\ rd[r].pc \in {"writing", "rename"}

\* Unless two reads fetched a file at once, its pulled copy is whole, its one
\* writer has the .tmp, and what is renamed is complete.
PullInv ==
  /\ tmp = [f \in Files |-> tmp[f]] /\ pull = [f \in Files |-> pull[f]]
  /\ \A f \in Files \ shared :
       /\ pull[f] \in {"none", "whole"}
       /\ \A r \in Readers : Writes(r, f) =>
            /\ tmp[f] = "none" \/ tmp[f] = IF rd[r].pc = "writing" THEN r ELSE "whole"
            /\ \A q \in Readers : Writes(q, f) => q = r

\* A step that starts no write and only takes files out of the pull directory.
LEMMA PullShrinks ==
  ASSUME PullInv, UNCHANGED shared,
         \A r \in Readers, f \in Files : Writes(r, f)' => Writes(r, f) /\ rd'[r].pc = rd[r].pc,
         tmp' = [f \in Files |-> tmp'[f]], pull' = [f \in Files |-> pull'[f]],
         \A f \in Files : pull'[f] \in {pull[f], "none"},
         \/ \A f \in Files : tmp'[f] \in {tmp[f], "none"}
         \/ \A r \in Readers, f \in Files : ~Writes(r, f)'
  PROVE  PullInv'
<1> SUFFICES ASSUME NEW f \in Files \ shared
             PROVE  /\ pull'[f] \in {"none", "whole"}
                    /\ \A r \in Readers : Writes(r, f)' =>
                         /\ tmp'[f] = "none" \/ tmp'[f] = IF rd'[r].pc = "writing" THEN r ELSE "whole"
                         /\ \A q \in Readers : Writes(q, f)' => q = r
  BY Zenon DEF PullInv
<1>1. pull'[f] \in {"none", "whole"}
  BY ZenonT(30) DEF PullInv
<1>2. ASSUME NEW r \in Readers, Writes(r, f)'
      PROVE  /\ tmp'[f] = "none" \/ tmp'[f] = IF rd'[r].pc = "writing" THEN r ELSE "whole"
             /\ \A q \in Readers : Writes(q, f)' => q = r
  BY <1>2 DEF PullInv
<1> QED
  BY <1>1, <1>2, Zenon

\* fs::write, its end and the rename, of a read that fetches alone.
LEMMA PullProceeds ==
  ASSUME RdType, PullInv, NEW r \in Readers, PullWrites(r) \/ PullWritten(r) \/ PullRenames(r)
  PROVE  PullInv'
<1> DEFINE g == rd[r].file
<1>1. PICK p \in {"writing", "rename", "again", "reopen"} : Goto(r, p)
  BY Zenon DEF PullWrites, PullWritten, PullRenames
<1>2. Keeps(r, p)
  BY <1>1, GotoKeeps, Zenon
<1>3. \A q \in Readers : q # r => \A f : Writes(q, f)' <=> Writes(q, f)
  BY <1>2, Zenon DEF Keeps, Writes
<1>4. rd'[r].file = g /\ rd'[r].pc = p
  BY <1>2, ZenonT(30) DEF Keeps
<1>5. /\ tmp' = [f \in Files |-> tmp'[f]] /\ pull' = [f \in Files |-> pull'[f]]
      /\ \A f \in Files : f # g => tmp'[f] = tmp[f] /\ pull'[f] = pull[f]
      /\ shared \subseteq shared'
  BY Zenon DEF PullWrites, PullWritten, PullRenames, PullInv
<1> SUFFICES ASSUME NEW f \in Files \ shared'
             PROVE  /\ pull'[f] \in {"none", "whole"}
                    /\ \A q \in Readers : Writes(q, f)' =>
                         /\ tmp'[f] = "none" \/ tmp'[f] = IF rd'[q].pc = "writing" THEN q ELSE "whole"
                         /\ \A z \in Readers : Writes(z, f)' => z = q
  BY <1>5, Zenon DEF PullInv
<1>6. /\ pull[f] \in {"none", "whole"}
      /\ \A q \in Readers : Writes(q, f) =>
           /\ tmp[f] = "none" \/ tmp[f] = IF rd[q].pc = "writing" THEN q ELSE "whole"
           /\ \A z \in Readers : Writes(z, f) => z = q
  BY <1>5, ZenonT(30) DEF PullInv
<1>7. CASE f # g
  <2>1. ~Writes(r, f)' /\ tmp'[f] = tmp[f] /\ pull'[f] = pull[f]
    BY <1>4, <1>5, <1>7, Zenon DEF Writes
  <2>2. \A q \in Readers : Writes(q, f)' => Writes(q, f) /\ q # r /\ rd'[q] = rd[q]
    BY <1>2, <1>3, <2>1, Zenon DEF Keeps
  <2> QED
    BY <1>6, <2>1, <2>2, Zenon
<1>8. CASE f = g /\ PullWrites(r)
  <2>1. pull' = pull /\ tmp'[f] = r /\ p = "writing" /\ Fetching(f) = {r}
    BY <1>1, <1>4, <1>8, GotoKeeps, Zenon DEF PullWrites, PullInv, Keeps
  <2>2. \A q \in Readers : Writes(q, f)' => q = r
    BY <1>3, <2>1, Zenon DEF Fetching, Writes
  <2> QED
    BY <1>4, <1>6, <2>1, <2>2, ZenonT(30)
<1>9. CASE f = g /\ PullWritten(r)
  <2>1. /\ tmp'[f] = (IF tmp[f] = r THEN "whole" ELSE tmp[f]) /\ rd[r].pc = "writing" /\ p = "rename"
        /\ pull'[f] = IF pull[f] = r THEN "whole" ELSE pull[f]
    BY <1>1, <1>4, <1>9, GotoKeeps, Zenon DEF PullWritten, PullInv, Keeps
  <2>2. Writes(r, f)
    BY <1>9, <2>1, ZenonT(30) DEF Writes
  <2>3. \A q \in Readers : Writes(q, f)' => q = r
    BY <1>3, <1>6, <2>2, Zenon
  <2> QED
    BY <1>4, <1>6, <2>1, <2>2, <2>3, ZenonT(30)
<1>10. CASE f = g /\ PullRenames(r)
  <2>1. /\ rd[r].pc = "rename" /\ p \in {"again", "reopen"}
        /\ pull'[f] = (IF tmp[f] = "none" THEN pull[f] ELSE tmp[f])
    BY <1>1, <1>4, <1>10, GotoKeeps, ZenonT(60) DEF PullRenames, PullInv, Keeps
  <2>2. Writes(r, f)
    BY <1>10, <2>1, Zenon DEF Writes
  <2>3. \A q \in Readers : ~Writes(q, f)'
    BY <1>3, <1>4, <1>6, <2>1, <2>2, Zenon DEF Writes
  <2> QED
    BY <1>6, <2>1, <2>2, <2>3, Zenon
<1> QED
  BY <1>7, <1>8, <1>9, <1>10, Zenon

\* Every step of a read keeps the cache and the pull directory in order.
LEMMA LoadsUnderReads ==
  ASSUME FilesInv, RdType, StaleInv, CacheInv, PullInv, NEW r \in Readers, ReadStep(r)
  PROVE  CacheInv' /\ PullInv'
<1>1. CASE ReadEnds(r) \/ \E i \in 0..MaxFile : ReadBegins(r, i)
  <2>1. UNCHANGED <<tmp, pull, cache, shared>>
    BY <1>1, ZenonT(30) DEF ReadEnds, ReadBegins
  <2>2. /\ rd'[r].got = {} /\ rd'[r].pc \in {"idle", "open", "pulled"}
        /\ \A q \in Readers : q # r => rd'[q] = rd[q]
    BY <1>1, BeginsBehind, Zenon
  <2>3. CacheInv'
    BY <2>1, <2>2 DEF CacheInv, OfKey, SectionsOfOneFile
  <2>4. \A q \in Readers, f \in Files : Writes(q, f)' => Writes(q, f) /\ rd'[q].pc = rd[q].pc
    BY <2>2 DEF Writes
  <2> QED
    BY <2>1, <2>3, <2>4, PullShrinks, ZenonT(30) DEF PullInv
<1>2. ASSUME NEW s \in Sections, Hits(r, s) \/ Caches(r, s)
      PROVE  CacheInv' /\ PullInv'
  <2>1. UNCHANGED <<tmp, pull, shared>> /\ Keeps(r, "load")
    BY <1>2, LoadKeeps, ZenonT(30) DEF Hits, Caches
  <2>2. \A q \in Readers, f \in Files : Writes(q, f)' => Writes(q, f) /\ rd'[q].pc = rd[q].pc
    BY <2>1, Zenon DEF Writes, Keeps
  <2> QED
    BY <1>2, <2>1, <2>2, PullShrinks, LoadsOfOneFile, Zenon DEF PullInv
<1>3. ASSUME NEW p, Goto(r, p), UNCHANGED cache
      PROVE  CacheInv'
  <2>1. Keeps(r, p) /\ rd'[r].got = rd[r].got /\ OfKey(cache)' /\ SectionsOfOneFile
    BY <1>3, GotoKeeps, ZenonT(30) DEF CacheInv, OfKey
  <2>2. SectionsOfOneFile'
    BY <2>1 DEF Keeps, SectionsOfOneFile
  <2> QED
    BY <2>1, <2>2, Zenon DEF CacheInv
<1>4. CASE PullWrites(r) \/ PullWritten(r) \/ PullRenames(r)
  <2>1. UNCHANGED cache /\ \E p : Goto(r, p)
    BY <1>4, Zenon DEF PullWrites, PullWritten, PullRenames
  <2> QED
    BY <1>3, <1>4, <2>1, PullProceeds
<1>5. ASSUME ~ReadEnds(r), ~\E i \in 0..MaxFile : ReadBegins(r, i),
             ~\E s \in Sections : Hits(r, s) \/ Caches(r, s),
             ~(PullWrites(r) \/ PullWritten(r) \/ PullRenames(r))
      PROVE  CacheInv' /\ PullInv'
  <2>1. PICK p : Goto(r, p) /\ p \notin {"writing", "rename"}
    BY <1>5, ReadGoesOn, Zenon
  <2>2. UNCHANGED <<cache, shared>>
    BY <1>5, Zenon DEF ReadStep, Opens, OpensOther, OpensPulled, Prunes, PullOpens, Misses
  <2>3. Keeps(r, p)
    BY <2>1, GotoKeeps, Zenon
  <2>4. \A q \in Readers, f \in Files : Writes(q, f)' => Writes(q, f) /\ rd'[q].pc = rd[q].pc
    BY <2>1, <2>3, Zenon DEF Writes, Keeps
  <2>5. /\ tmp' = [f \in Files |-> tmp'[f]] /\ pull' = [f \in Files |-> pull'[f]]
        /\ \A f \in Files : pull'[f] \in {pull[f], "none"} /\ tmp'[f] \in {tmp[f], "none"}
    <3>1. CASE Prunes(r)
      <4>1. PICK gone : /\ tmp' = [x \in Files |-> IF <<"tmp", x>> \in gone THEN "none" ELSE tmp[x]]
                        /\ pull' = [x \in Files |-> IF <<"pull", x>> \in gone THEN "none" ELSE pull[x]]
        BY <3>1, Zenon DEF Prunes
      <4> QED
        BY <4>1
    <3>2. CASE ~Prunes(r)
      <4>1. UNCHANGED <<tmp, pull>>
        BY <1>5, <3>2, Zenon DEF ReadStep, Opens, OpensOther, OpensPulled, PullOpens, Misses
      <4> QED
        BY <4>1 DEF PullInv
    <3> QED
      BY <3>1, <3>2
  <2> QED
    BY <1>3, <2>1, <2>2, <2>4, <2>5, PullShrinks, Zenon
<1> QED
  BY <1>1, <1>2, <1>4, <1>5, Zenon

\* Maintenance, flushes and a kill invalidate sections and take pulled copies
\* away, and write neither.
LEMMA LoadsUnderMaintenance ==
  ASSUME FilesInv, RdType, CacheInv, PullInv, TickStep \/ Flushes \/ Purges \/ Ages \/ Reopens
  PROVE  CacheInv' /\ PullInv'
<1>1. CASE Reopens
  <2>1. /\ \A r \in Readers : rd'[r].pc \in {"idle", "off"} /\ (rd'[r].got = {} \/ rd'[r] = rd[r])
    BY <1>1, ReopenEndsReads, Zenon
  <2>2. /\ cache' = NoSections /\ UNCHANGED shared
        /\ tmp' = [f \in Files |-> Cut(tmp[f])] /\ pull' = [f \in Files |-> Cut(pull[f])]
    BY <1>1, ZenonT(30) DEF Reopens
  <2>3. CacheInv'
    BY <2>1, <2>2, CacheShrinks, ZenonT(30) DEF CacheInv, SectionsOfOneFile
  <2>4. \A r \in Readers, f \in Files : ~Writes(r, f)'
    BY <2>1 DEF Writes
  <2>5. \A f \in Files \ shared : pull'[f] \in {"none", "whole"}
    BY <2>2, FilesAssumption DEF Cut, PullInv
  <2> QED
    BY <2>2, <2>3, <2>4, <2>5, Zenon DEF PullInv
<1>2. CASE TickStep \/ Flushes \/ Purges \/ Ages
  <2>1. UNCHANGED rd
    BY <1>2, MaintenanceShifts, Zenon DEF Shifts
  <2>2. UNCHANGED <<tmp, shared>>
    BY <1>2, Zenon DEF TickStep, Compacts, Reclaims, RewriteWrites, CompactsNothing,
                       ReclaimsNothing, AuditFails, Swaps, Drops, FlipsCold,
                       RemoteBegins, FlipsRemote, Unlinks, Renames, Puts, Expires, GroomBegins, Erases,
                       TickEnds, Flushes, Purges, Ages
  <2>3. \/ (Drops \/ Erases)
        \/ UNCHANGED <<pull, cache>>
    BY <1>2, Zenon DEF TickStep, Compacts, Reclaims, RewriteWrites, CompactsNothing,
                       ReclaimsNothing, AuditFails, Swaps, FlipsCold,
                       RemoteBegins, FlipsRemote, Unlinks, Renames, Puts, Expires, GroomBegins,
                       TickEnds, Flushes, Purges, Ages
  <2>4. /\ \/ \E F : cache' = Invalidated(F)
           \/ cache' = cache
        /\ \/ \E G : pull' = [f \in Files |-> IF f \in G THEN "none" ELSE pull[f]]
           \/ pull' = pull
    BY <2>3, Zenon DEF Drops, Erases
  <2>5. /\ pull' = [f \in Files |-> pull'[f]]
        /\ \A f \in Files : pull'[f] \in {pull[f], "none"}
    BY <2>4, ZenonT(30) DEF PullInv
  <2>6. CacheInv'
    BY <2>1, <2>4, CacheShrinks DEF CacheInv, SectionsOfOneFile
  <2>7. \A r \in Readers, f \in Files : Writes(r, f)' => Writes(r, f) /\ rd'[r].pc = rd[r].pc
    BY <2>1 DEF Writes
  <2>8. tmp' = [f \in Files |-> tmp'[f]] /\ \A f \in Files : tmp'[f] \in {tmp[f], "none"}
    BY <2>2, ZenonT(30) DEF PullInv
  <2> QED
    BY <2>2, <2>5, <2>6, <2>7, <2>8, PullShrinks, ZenonT(30)
<1> QED
  BY <1>1, <1>2

LoadInv == FilesInv /\ RdType /\ StaleInv /\ CacheInv /\ PullInv

\* All of what reads rely on holds in every state.
LEMMA LoadsInvariant == FilesSpec => []LoadInv
<1>1. FilesInit => LoadInv
  <2> SUFFICES ASSUME FilesInit PROVE CacheInv /\ PullInv
    BY FilesInitInv, StaleInit DEF LoadInv
  <2>1. \A r \in Readers : rd[r].pc \in {"idle", "off"} /\ rd[r].got = {}
    BY StaleInit
  <2>2. /\ cache = NoSections
        /\ tmp = [f \in Files |-> "none"] /\ pull = [f \in Files |-> "none"]
    BY Zenon DEF FilesInit
  <2> QED
    BY <2>1, <2>2, Zenon DEF CacheInv, OfKey, NoSections, SectionsOfOneFile, PullInv, Writes
<1>2. LoadInv /\ [FilesNext]_fvars => LoadInv'
  <2> SUFFICES ASSUME LoadInv, [FilesNext]_fvars PROVE LoadInv'
    OBVIOUS
  <2>1. FilesInv' /\ RdType' /\ StaleInv'
    BY FilesStepInv, StaleStep DEF LoadInv
  <2>2. CacheInv' /\ PullInv'
    <3>1. CASE UNCHANGED fvars
      <4>1. CacheInv /\ PullInv /\ UNCHANGED <<tmp, pull, rd, cache, shared>>
        BY <3>1, Zenon DEF LoadInv, fvars
      <4>2. CacheInv'
        BY <4>1, ZenonT(30) DEF CacheInv, OfKey, SectionsOfOneFile
      <4>3. PullInv'
        BY <4>1 DEF PullInv, Writes
      <4> QED
        BY <4>2, <4>3, Zenon
    <3> QED
      BY <3>1, LoadsUnderReads, LoadsUnderMaintenance, ZenonT(30) DEF LoadInv, FilesNext
  <2> QED
    BY <2>1, <2>2 DEF LoadInv
<1> QED
  BY <1>1, <1>2, PTL DEF FilesSpec

\* retry_vanished, engine.rs:678-682: a read that finds no file in either
\* directory, or no object, holds an entry that a fresh copy of the manifest
\* no longer has, however the moves, rewrites, deletions and kills fall
\* between its steps: to start over is never in vain.
THEOREM VanishedReadsAreStale == FilesSpec => []VanishedIsStale
<1>1. LoadInv => VanishedIsStale
  <2> SUFFICES ASSUME LoadInv, NEW r \in Readers, rd[r].pc \in {"vanished", "missing"},
                      rd[r].id \in DOMAIN man, man[rd[r].id] = Entry(rd[r].file, rd[r].tier)
               PROVE  FALSE
    BY ZenonT(30) DEF VanishedIsStale
  <2>1. ~Current(r)
    BY Zenon DEF LoadInv, StaleInv, Behind
  <2> QED
    BY <2>1 DEF Current, Listed, Entry
<1> QED
  BY <1>1, LoadsInvariant, PTL

\* cache_key, manifest.rs:46: the sections a read puts together all come from
\* the file its entry names, although compaction gives the segment's id to a
\* new file, and whatever is evicted, invalidated or put late.
THEOREM SectionsMatch == FilesSpec => []SectionsOfOneFile
<1>1. LoadInv => SectionsOfOneFile
  BY DEF LoadInv, CacheInv
<1> QED
  BY <1>1, LoadsInvariant, PTL

\* open_remote_segment: the pulled copy of a segment is whole under its final
\* name whenever no two reads fetched it at once: the .tmp, its one writer and
\* the rename see to it, evictions and kills included.
THEOREM PulledCopiesWhole == FilesSpec => []PulledWhole
<1>1. LoadInv => PulledWhole
  BY DEF LoadInv, PullInv, PulledWhole
<1> QED
  BY <1>1, LoadsInvariant, PTL
=============================================================================
