------------------------------- MODULE Upsert -------------------------------
(***************************************************************************)
(* What docs/GUARANTEES.md promises of the store, with no log, memtable,   *)
(* segment or restart in it: a map that only calls change, each call whole *)
(* and in turn.  A call cut off by a crash takes effect for the records    *)
(* that were logged by then.                                               *)
(***************************************************************************)
EXTENDS Naturals

CONSTANTS Key, Absent

VARIABLES
  kv,   \* what a reader is shown, per key
  call  \* the logged part of the call in progress: key -> value or Absent

NoCall == [k \in {} |-> Absent]

Init == kv = [k \in Key |-> Absent] /\ call = NoCall

\* One more record of the call is logged; no reader sees it.
Log ==
  /\ \E k \in Key :
       /\ DOMAIN call' = DOMAIN call \cup {k}
       /\ \A x \in DOMAIN call \ {k} : call'[x] = call[x]
  /\ UNCHANGED kv

\* The call takes effect at once: acknowledged, or cut off by a crash.
Take ==
  /\ kv' = [k \in Key |-> IF k \in DOMAIN call THEN call[k] ELSE kv[k]]
  /\ call' = NoCall

Next == Log \/ Take

Spec == Init /\ [][Next]_<<kv, call>>
=============================================================================
