------------------------------- MODULE Folding -------------------------------
(***************************************************************************)
(* What the proofs about the engine use of Fold: laws of laying records    *)
(* over each other, for every stack of tables.  AlgorithmProofs proves     *)
(* them by induction over the walk; the proofs about the engine's steps    *)
(* take them as an assumption, FoldLaws, that EngineProofs discharges.     *)
(***************************************************************************)
EXTENDS Records

Version == Record \cup {NoRec}

\* What position i of a stack has for k.
At(stack, k, i) == IF i \in DOMAIN stack THEN Get(stack[i], k) ELSE NoRec

\* A stack no higher than b that has versions of k.
Within(stack, k, b) ==
  /\ b \in Nat
  /\ \A i \in DOMAIN stack : i \in 0..b
  /\ \A i \in DOMAIN stack : Get(stack[i], k) \in Version

\* A stack is its lower part below height c and its upper part from there.
SplitAt(stack, upper, lower, k, c) ==
  \A i \in Nat : IF i < c
                 THEN At(stack, k, i) = At(lower, k, i) /\ At(upper, k, i) = NoRec
                 ELSE At(stack, k, i) = At(upper, k, i) /\ At(lower, k, i) = NoRec

\* Min and Max of a set of numbers are what their names say.
MinLaw ==
  \A S \in SUBSET Nat : S # {} => Min(S) \in S /\ \A x \in S : Min(S) <= x

MaxLaw ==
  \A S \in SUBSET Nat : \A b \in Nat :
    S # {} /\ (\A x \in S : x <= b) => Max(S) \in S /\ \A x \in S : x <= Max(S)

\* The order in which three versions are laid over each other is free.
GroupLaw ==
  \A a, b, c \in Version : Over(Over(a, b), c) = Over(a, Over(b, c))

\* The walk from a position that holds k finds a record.
RecordLaw ==
  \A stack, k, b : \A m \in Nat :
    Within(stack, k, b) /\ At(stack, k, m) \in Record => Walk(stack, k)[m] \in Record

\* The fold of a stack is the upper part's over the lower part's.
SplitLaw ==
  \A stack, upper, lower, k, b : \A c \in Nat :
    /\ Within(stack, k, b) /\ Within(upper, k, b) /\ Within(lower, k, b)
    /\ SplitAt(stack, upper, lower, k, c)
    => Fold(stack, k) = Over(Fold(upper, k), Fold(lower, k))

\* Stacks that have the same of k fold alike.
LikeLaw ==
  \A s, t, k, b :
    Within(s, k, b) /\ Within(t, k, b) /\ (\A i \in Nat : At(s, k, i) = At(t, k, i))
    => Fold(s, k) = Fold(t, k)

\* The fold of a stack that holds k once is what it holds.
OneLaw ==
  \A stack, k, b : \A m \in Nat :
    Within(stack, k, b) /\ (\A i \in Nat : i # m => At(stack, k, i) = NoRec)
    => Fold(stack, k) = At(stack, k, m)

\* A newest record that is not a delta is all there is to see.
TopLaw ==
  \A stack, k, i :
    /\ DOMAIN stack \subseteq Nat /\ Top(stack, k, i)
    /\ stack[i][k] \in Record /\ ~is_delta(stack[i][k])
    => Fold(stack, k) = stack[i][k]

FoldLaws ==
  /\ MinLaw /\ MaxLaw /\ GroupLaw /\ RecordLaw
  /\ SplitLaw /\ LikeLaw /\ OneLaw /\ TopLaw
=============================================================================
