------------------------------ MODULE Subsequence ------------------------------
(***************************************************************************)
(* Part of a sequence, in its order: what Array.filter of the scripts and  *)
(* the list comprehensions of the installers keep.  The places that are    *)
(* kept are a set, so that facts about what is kept are facts about sets.  *)
(***************************************************************************)
EXTENDS Naturals, Sequences

\* The elements of s at the places in K; what K has beyond s does not count.
Selected(s, K) ==
  LET upTo[i \in 0..Len(s)] ==
        IF i = 0 THEN <<>> ELSE IF i \in K THEN Append(upTo[i - 1], s[i]) ELSE upTo[i - 1]
  IN  upTo[Len(s)]

\* The elements of s that are in V.
Within(s, V) == Selected(s, {i \in DOMAIN s : s[i] \in V})
=============================================================================
