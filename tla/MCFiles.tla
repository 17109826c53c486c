------------------------------- MODULE MCFiles ------------------------------
(***************************************************************************)
(* Instances of SegmentFiles and Blobs.  The two share the manifest lock   *)
(* and its store and nothing else: OtherStore is what the one does to the  *)
(* other.  They are explored side by side: a behaviour is of the one or of *)
(* the other.                                                              *)
(***************************************************************************)
EXTENDS SegmentFiles, Blobs, TLC

CONSTANTS
  r1, r2,   \* readers
  Sides     \* subset of {"files", "blobs"}

VARIABLE side

TwoReaders == {r1, r2}

\* One hot segment and room for one rewrite, with a reader and one fault, or
\* without and with two; two hot segments, without either; two remote
\* segments that two readers fetch through a pull cache with room for one,
\* with no rewrites.
MCStarts ==
  {[tier |-> (0 :> "hot"), next |-> 2, clock |-> 0, readers |-> {r1}, faults |-> MaxFaults - 1],
   [tier |-> (0 :> "hot"), next |-> 2, clock |-> 0, readers |-> {}, faults |-> MaxFaults - 2],
   [tier |-> (0 :> "hot" @@ 1 :> "hot"), next |-> 2, clock |-> 0, readers |-> {}, faults |-> MaxFaults],
   [tier |-> (0 :> "remote" @@ 1 :> "remote"), next |-> 3, clock |-> 3, readers |-> {r1, r2},
    faults |-> MaxFaults]}

\* One hot segment, no rewrites and no readers.
LoneSegment == {[tier |-> (0 :> "hot"), next |-> 3, clock |-> 0, readers |-> {}, faults |-> 0]}

\* The blobs need but one of the starts.
MCInit ==
  /\ side \in Sides /\ FilesInit /\ BlobInit
  /\ side = "blobs" => nextFile = MaxFile

FilesStep == side = "files" /\ FilesNext /\ UNCHANGED <<side, bvars>>

BlobStep == side = "blobs" /\ BlobNext /\ UNCHANGED <<side, fvars>>

\* FilesFairness on its side; Blobs assumes none.
MCSpec ==
  /\ MCInit /\ [][FilesStep \/ BlobStep]_<<side, fvars, bvars>>
  /\ WF_fvars(side = "files" /\ TickStep)

\* The periodic tick runs to its end over and over, unless a segment is
\* stranded, or hot segments keep lying beside remote ones that are not
\* pulled: TicksCompleteUnlessStranded where maintenance runs.
TicksGoOn == side = "files" => TicksCompleteUnlessStranded
=============================================================================
