----------------------------- MODULE MCRewrites -----------------------------
(***************************************************************************)
(* Rewrites for TLC: four keys, the first two under a common prefix.       *)
(***************************************************************************)
EXTENDS Rewrites

A == <<1, 1>>
B == <<1, 2>>
C == <<2>>
D == <<3>>

AllKeys == {A, B, C, D}
ABC == {A, B, C}
OnlyA == {A}
OnlyB == {B}
NoKeys == {}

\* The prefix of A and B has a TTL, B's own row a longer one; C and D are
\* kept forever.
PrefixRows == <<[prefix |-> <<1>>, ttl |-> 1], [prefix |-> B, ttl |-> 2]>>
NoRows == <<>>
NoGlobal == {}
GlobalTtl == {1}

OldTable(ks, version) == [k \in ks |-> [kind |-> "full", n |-> version, ts |-> 0]]

\* A new store, and some that an older version left behind.
MCLegacy ==
  {<<>>,
   <<OldTable({A, B}, 1)>>,
   <<OldTable({C}, 1), OldTable({C, D}, 2)>>,
   <<OldTable({A, D}, 1), OldTable({B, C}, 1)>>}
NewStore == {<<>>}
=============================================================================
