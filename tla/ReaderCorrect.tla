---------------------------- MODULE ReaderCorrect ----------------------------
(***************************************************************************)
(* Why a read beside the two actors is correct: the inductive invariants   *)
(* behind the theorems of EngineProofs.                                    *)
(***************************************************************************)
EXTENDS Reader, EngineCorrect

(***************************************************************************)
(* Restarts                                                                *)
(***************************************************************************)

\* Every restart of the read, and every doomed file of its snapshot, is paid
\* for by a manifest swap of its own since the read began.
ChurnInv ==
  /\ tries \in Nat /\ swaps \in Nat
  /\ rpc = "failed" => swaps > Retries
  /\ Reading =>
       /\ phase = "up"
       /\ tries <= Retries /\ tries <= swaps
  /\ rpc = "segments" =>
       /\ DOMAIN plan # {} /\ DOMAIN plan \subseteq Nat
       /\ \A i \in DOMAIN plan : /\ i < manifest.next
                                 /\ plan[i] \in Nat /\ plan[i] < manifest.next
                                 /\ Doomed(plan[i]) => swaps > tries

(***************************************************************************)
(* What a read has found                                                   *)
(***************************************************************************)

\* Some moment of S had k as x has it; for a counter, x has no less.
Covered(S, k, x) ==
  \E s \in S : IF k \in PlainKey THEN s[k] = surface(x)
               ELSE Count(s[k]) \in Nat /\ Count(x) >= Count(s[k])

\* What the frozen list has of k, without the memtable whose segment is
\* already in the manifest.
AboveSegs(k) ==
  IF mpc \in {"stored", "unlinked"}
  THEN Fold(Restrict(frozen, DOMAIN frozen \ {job.wal}), k)
  ELSE Fold(frozen, k)

\* What a read can meet of k after the memtable.
Below(k) == Over(AboveSegs(k), Fold(SegStack(manifest), k))

\* A put of k in table t that reaches the segments before the read does hides
\* what was there; laid under what the read has, it is covered.
PutCovered(t, k) == Base(Get(t, k)) => Covered(seen, k, Over(found[k], Get(t, k)))

\* The rest of the snapshot, as it was when it was taken: files may have
\* vanished since, the others hold what they held.
PlanCovered(k) ==
  \E stack : /\ IsStack(stack) /\ DOMAIN stack = DOMAIN plan
             /\ \A i \in DOMAIN plan : plan[i] \in DOMAIN files => files[plan[i]] = stack[i]
             /\ Covered(seen, k, Over(found[k], Fold(stack, k)))

\* What a read has of k, laid over what it can still meet, is covered by what
\* k was at some moment of the read.
KeyInv(k) ==
  /\ rpc \in {"frozen", "plan", "segments", "done"} => found[k] = NoRec \/ IsRecordOf(k, found[k])
  /\ rpc = "frozen" =>
       /\ Covered(seen, k, Over(IF found[k] = NoRec THEN Get(taken, k) ELSE found[k], Below(k)))
       /\ PutCovered(taken, k)
  /\ rpc = "plan" =>
       /\ Covered(seen, k, Over(found[k], Fold(SegStack(manifest), k)))
       /\ PutCovered(taken, k)
       /\ \A w \in DOMAIN frozen : PutCovered(frozen[w], k)
  /\ rpc = "segments" => PlanCovered(k)
  /\ rpc = "done" => Covered(seen, k, found[k])

\* The keys whose versions the read lays over each other: a raw scan takes
\* the newest one, which for an ordinary key is the same.
Folded == {k \in want : k \in PlainKey \/ mode # "raw"}

FreshInv ==
  /\ want \subseteq Key
  /\ Reading => Holding \in seen
  /\ ~gap => \A k \in Folded : KeyInv(k)
=============================================================================
