------------------------------- MODULE Blobs -------------------------------
(***************************************************************************)
(* Content-addressed blobs: put_blob, get_blob and delete_blob of          *)
(* src/src/engine.rs, src/src/blob.rs and the orphan sweep of              *)
(* src/src/actors.rs.                                                      *)
(*                                                                         *)
(* A blob is its hash.  put_blob holds the manifest lock over the file     *)
(* write, the listing and the store; delete_blob holds it over the listing *)
(* and the store only and removes the file after; get_blob holds it for    *)
(* the look-up only.  Any other manifest store also writes the listing.    *)
(***************************************************************************)
EXTENDS Naturals, FiniteSets

CONSTANTS
  Hash,      \* blob ids
  Caller,    \* concurrent callers
  SweepEvery, \* blob_sweep_every_n_ticks
  BlobFault  \* subset of {"crash", "store", "rot"}: what the environment does

ASSUME BlobAssumption ==
  BlobFault \subseteq {"crash", "store", "rot"} /\ SweepEvery \in Nat \ {0}

VARIABLES
  blobs,     \* Manifest.blobs in memory
  stored,    \* Manifest.blobs on disk
  file,      \* per hash: "none", "good", or "bad" (rotten)
  call,      \* per caller: the call in progress, or its answer
  locked,    \* whether a put holds the manifest write lock
  ticks,     \* completed ticks of this life, modulo SweepEvery
  \* history
  unstored,  \* the last store failed
  acked,     \* hashes whose last acknowledged call was a put
  exposed    \* hashes a put wrote under a delete's pending removal, or
             \* whose delete failed to reach the disk

bvars == <<blobs, stored, file, call, locked, ticks, unstored, acked, exposed>>

Idle == [op |-> "idle"]

Busy(op, h) == [op |-> op, h |-> h]

BlobInit ==
  /\ blobs = {} /\ stored = {}
  /\ file = [h \in Hash |-> "none"]
  /\ call = [c \in Caller |-> Idle]
  /\ locked = FALSE /\ ticks = 0
  /\ unstored = FALSE /\ acked = {} /\ exposed = {}

\* store_manifest: the listing reaches the disk, or the call fails.
Store(listing, ok) ==
  /\ ok \/ "store" \in BlobFault
  /\ stored' = IF ok THEN listing ELSE stored
  /\ unstored' = ~ok

(***************************************************************************)
(* put_blob                                                                *)
(***************************************************************************)

\* Some caller stands between the listing and the file of a delete of h.
Removing(h) == \E c \in Caller : call[c] = Busy("unlink", h)

\* Mutant of PutWrite: the file is written without the lock.
PutWriteUnlocked(c, h) ==
  /\ call[c] = Idle /\ ~locked
  /\ file' = [file EXCEPT ![h] = IF @ = "none" THEN "good" ELSE @]
  /\ exposed' = IF Removing(h) THEN exposed \cup {h} ELSE exposed
  /\ call' = [call EXCEPT ![c] = Busy("put", h)]
  /\ UNCHANGED <<blobs, stored, locked, unstored, acked, ticks>>

\* The lock, and write_blob_file: an existing file is left alone.
PutWrite(c, h) ==
  /\ call[c] = Idle /\ ~locked
  /\ locked' = TRUE
  /\ file' = [file EXCEPT ![h] = IF @ = "none" THEN "good" ELSE @]
  /\ exposed' = IF Removing(h) THEN exposed \cup {h} ELSE exposed
  /\ call' = [call EXCEPT ![c] = Busy("put", h)]
  /\ UNCHANGED <<blobs, stored, unstored, acked, ticks>>

\* The listing; the store only if the hash was not listed before.
PutList(c, h) ==
  /\ call[c] = Busy("put", h)
  /\ blobs' = blobs \cup {h}
  /\ \E ok \in BOOLEAN :
       /\ IF h \in blobs THEN ok /\ UNCHANGED <<stored, unstored>> ELSE Store(blobs', ok)
       /\ acked' = IF ok THEN acked \cup {h} ELSE acked
  /\ call' = [call EXCEPT ![c] = Idle]
  /\ locked' = FALSE
  /\ UNCHANGED <<file, exposed, ticks>>

(***************************************************************************)
(* delete_blob                                                             *)
(***************************************************************************)

\* Mutant of DeleteList: the file goes first, and then the listing.
DeleteFileFirst(c, h) ==
  /\ call[c] = Idle /\ ~locked /\ h \in blobs /\ file[h] # "none"
  /\ file' = [file EXCEPT ![h] = "none"]
  /\ call' = [call EXCEPT ![c] = Busy("unlink", h)]
  /\ UNCHANGED <<blobs, stored, locked, unstored, acked, exposed, ticks>>

\* Under the lock: the listing goes, and the stored one.  A failed store
\* returns the error with the listing gone from memory only.
DeleteList(c, h) ==
  /\ call[c] = Idle /\ ~locked /\ h \in blobs
  /\ blobs' = blobs \ {h}
  /\ \E ok \in BOOLEAN :
       /\ Store(blobs', ok)
       /\ call' = [call EXCEPT ![c] = IF ok THEN Busy("unlink", h) ELSE Idle]
       /\ exposed' = IF ok THEN exposed ELSE exposed \cup {h}
  /\ acked' = acked \ {h}
  /\ UNCHANGED <<file, locked, ticks>>

\* Without the lock: the file goes.
DeleteFile(c, h) ==
  /\ call[c] = Busy("unlink", h)
  /\ file' = [file EXCEPT ![h] = "none"]
  /\ call' = [call EXCEPT ![c] = Idle]
  /\ UNCHANGED <<blobs, stored, locked, unstored, acked, exposed, ticks>>

(***************************************************************************)
(* get_blob                                                                *)
(***************************************************************************)

\* The look-up under the read lock: an unlisted blob is None.
GetLook(c, h) ==
  /\ call[c] = Idle /\ ~locked
  /\ call' = [call EXCEPT ![c] = Busy(IF h \in blobs THEN "read" ELSE "None", h)]
  /\ UNCHANGED <<blobs, stored, file, locked, unstored, acked, exposed, ticks>>

\* read_blob_file: the content counts only if it hashes to its id; a
\* missing file of a listed blob is corruption.
Content(h) == IF file[h] = "good" THEN "bytes" ELSE "Corrupt"

GetRead(c, h) ==
  /\ call[c] = Busy("read", h)
  /\ call' = [call EXCEPT ![c] = Busy(Content(h), h)]
  /\ UNCHANGED <<blobs, stored, file, locked, unstored, acked, exposed, ticks>>

GetReturns(c) ==
  /\ call[c].op \in {"None", "bytes", "Corrupt"}
  /\ call' = [call EXCEPT ![c] = Idle]
  /\ UNCHANGED <<blobs, stored, file, locked, unstored, acked, exposed, ticks>>

(***************************************************************************)
(* Maintenance and the environment                                         *)
(***************************************************************************)

\* on_disk_hashes less the listing.
Orphans == {h \in Hash : file[h] # "none" /\ h \notin blobs}

\* The files once the listed ones alone are left.
sweep_blob_orphans == [h \in Hash |-> IF h \in Orphans THEN "none" ELSE file[h]]

\* Mutant of TickCompletes: a file the stored manifest lists is left alone too.
TickSweepsUnstored ==
  /\ ticks = 0 => ~locked
  /\ file' = [h \in Hash |-> IF ticks = 0 /\ h \in Orphans \ stored THEN "none" ELSE file[h]]
  /\ ticks' = (ticks + 1) % SweepEvery
  /\ UNCHANGED <<blobs, stored, call, locked, unstored, acked, exposed>>

\* The last step of a tick whose passes met no error: the first of them and
\* every SweepEvery-th after it calls sweep_blob_orphans, under the read
\* lock, so no put is in progress.
TickCompletes ==
  /\ ticks = 0 => ~locked
  /\ file' = IF ticks = 0 THEN sweep_blob_orphans ELSE file
  /\ ticks' = (ticks + 1) % SweepEvery
  /\ UNCHANGED <<blobs, stored, call, locked, unstored, acked, exposed>>

\* Any other change of the manifest stores the blob listing with it.
OtherStore ==
  /\ ~locked /\ stored # blobs
  /\ Store(blobs, TRUE)
  /\ UNCHANGED <<blobs, file, call, locked, acked, exposed, ticks>>

\* The medium loses a blob's content.
Rot(h) ==
  /\ "rot" \in BlobFault /\ file[h] = "good"
  /\ file' = [file EXCEPT ![h] = "bad"]
  /\ UNCHANGED <<blobs, stored, call, locked, unstored, acked, exposed, ticks>>

\* A kill and the next open: what was stored is what is listed.  A put
\* acknowledged on a listing that never reached the disk is forgotten.
Crash ==
  /\ "crash" \in BlobFault
  /\ blobs' = stored
  /\ call' = [c \in Caller |-> Idle]
  /\ locked' = FALSE /\ ticks' = 0 /\ unstored' = FALSE
  /\ acked' = IF unstored THEN acked \cap stored ELSE acked
  /\ UNCHANGED <<stored, file, exposed>>

Call(c) ==
  \/ \E h \in Hash : PutWrite(c, h) \/ DeleteList(c, h) \/ GetLook(c, h)

Proceed(c) ==
  \/ \E h \in Hash : PutList(c, h) \/ DeleteFile(c, h) \/ GetRead(c, h)
  \/ GetReturns(c)

BlobNext ==
  \/ \E c \in Caller : Call(c) \/ Proceed(c)
  \/ TickCompletes \/ OtherStore \/ Crash
  \/ \E h \in Hash : Rot(h)

BlobSpec == BlobInit /\ [][BlobNext]_bvars

(***************************************************************************)
(* Properties                                                              *)
(***************************************************************************)

\* delete_blob, engine.rs:599-601: "Manifest first -- the file is garbage
\* the moment the listing is durable".  A listed blob has its file, so
\* get_blob never reports corruption where nothing was lost.
ListedHasFile == \A h \in blobs : file[h] # "none"

\* put_blob's promise: a blob whose put was acknowledged, and which nobody
\* deleted since, is in the stored listing and has a file that get_blob
\* finds -- over crashes, other callers' puts and deletes, and sweeps.  The
\* exceptions are the two the code leaves open: a put that starts
\* while a delete of its hash has yet to remove the file, and a failed store.
AckedPutKept == \A h \in acked \ exposed : (h \in stored \/ unstored) /\ h \in blobs /\ file[h] # "none"

\* get_blob's "LOUD corruption": the error means that the content is
\* damaged, or that a delete overtook the read between its look-up and its
\* open; a blob that is listed and whole is never reported lost.
CorruptMeansLost ==
  [][\A c \in Caller, h \in Hash :
       call[c] = Busy("read", h) /\ call'[c] = Busy("Corrupt", h)
         => file[h] = "bad" \/ h \notin blobs \/ h \in exposed]_bvars

\* sweep_blob_orphans: as long as ticks complete over and over, a file nobody
\* lists is removed, or listed by a put.  A tick that fails in one of its
\* passes, or does not get the lock, sweeps nothing.
OrphansGo ==
  []<><<TickCompletes>>_bvars => \A h \in Hash : h \in Orphans ~> h \notin Orphans
=============================================================================
