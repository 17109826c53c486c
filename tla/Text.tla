-------------------------------- MODULE Text --------------------------------
(***************************************************************************)
(* The text predicates of src/src/text.rs: the tokenizer, the LIKE matcher *)
(* and the token constraints that a LIKE pattern implies.                  *)
(*                                                                         *)
(* A text or pattern is a sequence of characters.  A few characters stand  *)
(* for all that the code tells apart: "a" and its upper case "A", the      *)
(* Greek "S" whose lower case is "z" at the end of a word and "s"          *)
(* elsewhere, the separator "-", and "%" and "_", which are wildcards in a *)
(* pattern and ordinary separators in a text.                              *)
(* An optional value is a set with at most one element.                    *)
(***************************************************************************)
EXTENDS Integers, Sequences, SequencesExt, FiniteSetsExt

is_alphanumeric(c) == c \in {"a", "A", "b", "S", "s", "z"}
is_ascii_alphanumeric(c) == c \in {"a", "A", "b"}
Wild(c) == c \in {"%", "_"}

\* str::to_lowercase, with its one rule that looks at the neighbours.
to_lowercase(word) ==
  [i \in DOMAIN word |->
     CASE word[i] = "A" -> "a"
       [] word[i] = "S" /\ i = Len(word) /\ i > 1 -> "z"
       [] word[i] = "S" -> "s"
       [] OTHER -> word[i]]

\* The maximal stretches of alphanumerics, as pairs of positions.
Words(text) ==
  LET in(i) == i \in DOMAIN text /\ is_alphanumeric(text[i])
  IN  {w \in (DOMAIN text) \X (DOMAIN text) :
         /\ w[1] <= w[2]
         /\ \A i \in w[1]..w[2] : in(i)
         /\ ~in(w[1] - 1) /\ ~in(w[2] + 1)}

\* The distinct tokens; every caller sorts and dedups, or asks membership.
fts_tokens(text) == {to_lowercase(SubSeq(text, w[1], w[2])) : w \in Words(text)}

text_contains_all(text, want) ==
  want # {} /\ \E t \in text : want \subseteq fts_tokens(t)

\* The two-pointer loop of like_match, positions counted from 1: star is
\* empty or holds (pattern position behind the last %, text position it has
\* swallowed up to).
RECURSIVE LikeLoop(_, _, _, _, _)
LikeLoop(p, t, pi, ti, star) ==
  IF ti > Len(t) THEN \A i \in pi..Len(p) : p[i] = "%"
  ELSE IF pi <= Len(p) /\ (p[pi] = "_" \/ p[pi] = t[ti])
       THEN LikeLoop(p, t, pi + 1, ti + 1, star)
  ELSE IF pi <= Len(p) /\ p[pi] = "%"
       THEN LikeLoop(p, t, pi + 1, ti, {<<pi + 1, ti>>})
  ELSE \E s \in star : LikeLoop(p, t, s[1], s[2] + 1, {<<s[1], s[2] + 1>>})

\* Mutant of like_match: the text left over when the pattern ends after a %
\* is taken as matched.
LikeUnanchored(pattern, text) ==
  \E n \in 0..Len(text) : LikeLoop(pattern, SubSeq(text, 1, n), 1, 1, {})

like_match(pattern, text) == LikeLoop(pattern, text, 1, 1, {})

\* The constraints of one pattern; Narrow decides what a word that a
\* wildcard cuts on its right contributes.
Constraints(pattern, Narrow(_)) ==
  LET left_complete(w) == w[1] = 1 \/ ~Wild(pattern[w[1] - 1])
      right_complete(w) == w[2] = Len(pattern) \/ ~Wild(pattern[w[2] + 1])
      word(w) == SubSeq(pattern, w[1], w[2])
      left == {w \in Words(pattern) : left_complete(w)}
  IN  {[kind |-> "Token", word |-> to_lowercase(word(w))] :
          w \in {v \in left : right_complete(v)}}
      \cup {[kind |-> "Prefix", word |-> x] :
          x \in {Narrow(word(w)) : w \in {v \in left : ~right_complete(v)}} \ {<<>>}}

\* Mutant of like_constraints: the whole lowercased word is the prefix.
WholeWordPrefix(pattern) == Constraints(pattern, to_lowercase)

\* like_constraints: the prefix is the leading ASCII run alone.
like_constraints(pattern) ==
  LET ascii(word) ==
        to_lowercase(SubSeq(word, 1, Max({n \in 0..Len(word) :
          \A i \in 1..n : is_ascii_alphanumeric(word[i])})))
  IN  Constraints(pattern, ascii)

-----------------------------------------------------------------------------
\* LIKE as SQL defines it: % stands for any run, _ for one character.
RECURSIVE Like(_, _)
Like(p, t) ==
  IF p = <<>> THEN t = <<>>
  ELSE IF Head(p) = "%" THEN \E n \in 0..Len(t) : Like(Tail(p), SubSeq(t, n + 1, Len(t)))
  ELSE t # <<>> /\ Head(p) \in {"_", Head(t)} /\ Like(Tail(p), Tail(t))

\* The tokens of a text meet a constraint.
Meets(tokens, c) ==
  \E token \in tokens : IF c.kind = "Token" THEN token = c.word
                        ELSE IsPrefix(c.word, token)
=============================================================================
