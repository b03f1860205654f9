----------------------------- MODULE RecordsProofs -----------------------------
(***************************************************************************)
(* What the tools make of the lists they keep: the entries of the memory   *)
(* and evidence files, the lines of .zshenv, the results of benchmark      *)
(* scenarios, and the items of the backlog.                                *)
(*                                                                         *)
(* The models select, join, add up and search with recursive functions on  *)
(* the places of a sequence or on a depth.  What such a function computes  *)
(* is shown without an induction scheme: the places at which a claim fails *)
(* would have a first one (LeastNatural), from which UpTo and              *)
(* EverySequence follow.                                                   *)
(***************************************************************************)
EXTENDS Memory, ShellBlock, Evaluation, Backlog, WellFoundedInduction, FiniteSetTheorems, SequenceTheorems, TLAPS

\* A set of natural numbers that is not empty has a least member.
LEMMA LeastNatural ==
  ASSUME NEW T, T \subseteq Nat, T # {}
  PROVE  \E n \in T : \A m \in T : n <= m
<1> DEFINE R == OpToRel(<, Nat)
<1>1. IsWellFoundedOn(R, Nat)
  BY NatLessThanWellFounded
<1>2. \A x, y \in Nat : <<x, y>> \in R <=> x < y
  BY DEF OpToRel
<1> HIDE DEF R
<1>3. PICK n \in T : \A m \in T : ~(<<m, n>> \in R)
  BY <1>1, WFMin
<1>4. \A m \in T : ~(m < n)
  BY <1>2, <1>3
<1> QED BY <1>4

\* A set of numbers that holds 0 and with each number below N the next one holds
\* every number up to N.
LEMMA UpTo ==
  ASSUME NEW N \in Nat, NEW T, 0 \in T, \A n \in 0..N : n \in T /\ n < N => n + 1 \in T
  PROVE  \A n \in 0..N : n \in T
<1> SUFFICES ASSUME NEW x \in 0..N, x \notin T PROVE FALSE
  OBVIOUS
<1> DEFINE Out == {n \in 0..N : n \notin T}
<1>1. PICK n \in Out : \A m \in Out : n <= m
  <2>1. Out \subseteq Nat /\ Out # {}
    OBVIOUS
  <2> QED BY <2>1, LeastNatural
<1>2. n # 0 /\ n - 1 \in 0..N /\ n - 1 < N /\ n - 1 + 1 = n
  BY <1>1
<1>3. n - 1 \notin Out
  BY <1>1, <1>2
<1> QED BY <1>1, <1>2, <1>3

\* What holds of the empty sequence and is kept by Append holds of every sequence.
LEMMA EverySequence ==
  ASSUME NEW S, NEW T, <<>> \in T, \A s \in Seq(S), x \in S : s \in T => Append(s, x) \in T
  PROVE  Seq(S) \subseteq T
<1> SUFFICES ASSUME NEW s \in Seq(S) PROVE s \in T
  OBVIOUS
<1> DEFINE Good == {n \in 0..Len(s) : SubSeq(s, 1, n) \in T}
<1>1. Len(s) \in Nat /\ \A i \in 1..Len(s) : s[i] \in S
  OBVIOUS
<1>2. 0 \in Good
  <2>1. SubSeq(s, 1, 0) = <<>>
    OBVIOUS
  <2>2. SubSeq(s, 1, 0) \in T
    BY <2>1
  <2>3. 0 \in 0..Len(s)
    BY <1>1
  <2> QED BY <2>2, <2>3, Zenon
<1>3. ASSUME NEW n \in 0..Len(s), n \in Good, n < Len(s) PROVE n + 1 \in Good
  <2>1. SubSeq(s, 1, n) \in Seq(S) /\ s[n + 1] \in S
    BY <1>1, <1>3
  <2>2. SubSeq(s, 1, n + 1) = Append(SubSeq(s, 1, n), s[n + 1])
    BY <1>1, <1>3, SubSeqRecursiveSecond
  <2>3. SubSeq(s, 1, n) \in T
    BY <1>3, Zenon
  <2>4. Append(SubSeq(s, 1, n), s[n + 1]) \in T
    BY <2>1, <2>3
  <2>5. n + 1 \in 0..Len(s)
    BY <1>1, <1>3
  <2> QED BY <2>2, <2>4, <2>5, Zenon
<1>4. Len(s) \in Good
  <2> HIDE DEF Good
  <2>1. \A n \in 0..Len(s) : n \in Good /\ n < Len(s) => n + 1 \in Good
    BY <1>3, Zenon
  <2>2. \A n \in 0..Len(s) : n \in Good
    BY <1>1, <1>2, <2>1, UpTo, Zenon
  <2> QED BY <1>1, <2>2
<1>5. SubSeq(s, 1, Len(s)) = s
  BY SubSeqFull
<1> QED BY <1>4, <1>5

\* A function on 0..N is given by its value at 0 and by the value after each.
Follows(f, first, N, step) == f[0] = first /\ \A i \in 1..N : f[i] = step[i][f[i - 1]]

\* What a recursion over the places of a sequence builds exists.
LEMMA RecursionExists ==
  ASSUME NEW V, NEW first \in V, NEW N \in Nat, NEW step \in [1..N -> [V -> V]]
  PROVE  \E f \in [0..N -> V] : Follows(f, first, N, step)
<1> DEFINE Is(f, n) == f[0] = first /\ \A i \in 1..n : f[i] = step[i][f[i - 1]]
           Good == {n \in 0..N : \E f \in [0..n -> V] : Is(f, n)}
<1>1. 0 \in Good
  <2>1. [i \in 0..0 |-> first] \in [0..0 -> V] /\ Is([i \in 0..0 |-> first], 0)
    OBVIOUS
  <2> HIDE DEF Is
  <2>2. \E f \in [0..0 -> V] : Is(f, 0)
    BY <2>1, Zenon
  <2>3. 0 \in 0..N
    OBVIOUS
  <2> QED BY <2>2, <2>3, Zenon
<1>2. ASSUME NEW n \in 0..N, n \in Good, n < N PROVE n + 1 \in Good
  <2>1. PICK f \in [0..n -> V] : Is(f, n)
    BY <1>2
  <2> DEFINE g == [i \in 0..(n + 1) |-> IF i = n + 1 THEN step[n + 1][f[n]] ELSE f[i]]
  <2>2. f[n] \in V /\ step[n + 1] \in [V -> V] /\ step[n + 1][f[n]] \in V
    BY <1>2
  <2>3. g \in [0..(n + 1) -> V]
    BY <1>2, <2>2
  <2>4. g[0] = first
    BY <1>2, <2>1
  <2>5. ASSUME NEW i \in 1..(n + 1) PROVE g[i] = step[i][g[i - 1]]
    <3>1. CASE i = n + 1
      <4>1. g[i] = step[n + 1][f[n]] /\ g[n] = f[n]
        BY <1>2, <3>1
      <4> QED BY <1>2, <3>1, <4>1
    <3>2. CASE i # n + 1
      <4>1. i \in 1..n /\ i - 1 \in 0..n
        BY <1>2, <3>2
      <4>2. g[i] = f[i] /\ g[i - 1] = f[i - 1]
        BY <1>2, <4>1
      <4> QED BY <2>1, <4>1, <4>2
    <3> QED BY <3>1, <3>2
  <2>6. Is(g, n + 1)
    BY <2>4, <2>5
  <2> HIDE DEF g, Is
  <2>7. \E h \in [0..(n + 1) -> V] : Is(h, n + 1)
    BY <2>3, <2>6
  <2> QED BY <1>2, <2>7
<1>3. N \in Good
  <2> HIDE DEF Good
  <2>1. \A n \in 0..N : n \in Good /\ n < N => n + 1 \in Good
    BY <1>2, Zenon
  <2>2. \A n \in 0..N : n \in Good
    BY <1>1, <2>1, UpTo, Zenon
  <2> QED BY <2>2
<1>4. PICK f \in [0..N -> V] : Is(f, N)
  BY <1>3
<1>5. Follows(f, first, N, step)
  BY <1>4 DEF Follows
<1> QED BY <1>5

\* What the recursion of Selected computes, place by place.
Builds(f, s, K) ==
  f[0] = <<>> /\ \A i \in 1..Len(s) : f[i] = IF i \in K THEN Append(f[i - 1], s[i]) ELSE f[i - 1]

\* Selected is the last value of the function that builds it place by place.
LEMMA SelectedUpTo ==
  ASSUME NEW S, NEW s \in Seq(S), NEW K
  PROVE  \E f \in [0..Len(s) -> Seq(S)] : Builds(f, s, K) /\ Selected(s, K) = f[Len(s)]
<1> DEFINE step == [i \in 1..Len(s) |-> [t \in Seq(S) |-> IF i \in K THEN Append(t, s[i]) ELSE t]]
           Is(f) == f = [i \in 0..Len(s) |-> IF i = 0 THEN <<>>
                                             ELSE IF i \in K THEN Append(f[i - 1], s[i]) ELSE f[i - 1]]
<1>1. Len(s) \in Nat /\ \A i \in 1..Len(s) : s[i] \in S
  OBVIOUS
<1>2. step \in [1..Len(s) -> [Seq(S) -> Seq(S)]]
  BY <1>1
<1>3. PICK f \in [0..Len(s) -> Seq(S)] : f[0] = <<>> /\ \A i \in 1..Len(s) : f[i] = step[i][f[i - 1]]
  <2> HIDE DEF step
  <2>1. <<>> \in Seq(S)
    OBVIOUS
  <2> DEFINE V == Seq(S)
             first == <<>>
             N == Len(s)
  <2>2. N \in Nat /\ first \in V /\ step \in [1..N -> [V -> V]]
    BY <1>1, <1>2, <2>1
  <2> HIDE DEF V, first, N
  <2>3. \E f \in [0..N -> V] : Follows(f, first, N, step)
    BY <2>2, RecursionExists
  <2> QED BY <2>3 DEF V, first, N, Follows
<1>4. ASSUME NEW i \in 1..Len(s)
      PROVE  f[i] = IF i \in K THEN Append(f[i - 1], s[i]) ELSE f[i - 1]
  <2>1. f[i - 1] \in Seq(S)
    BY <1>1
  <2>2. step[i] = [t \in Seq(S) |-> IF i \in K THEN Append(t, s[i]) ELSE t]
    BY Zenon
  <2>3. f[i] = step[i][f[i - 1]]
    BY <1>3, Zenon
  <2> QED BY <2>1, <2>2, <2>3, Zenon
<1>5. Is(f)
  <2>1. ASSUME NEW i \in 0..Len(s)
        PROVE  f[i] = IF i = 0 THEN <<>> ELSE IF i \in K THEN Append(f[i - 1], s[i]) ELSE f[i - 1]
    <3>1. CASE i = 0
      BY <1>3, <3>1, Zenon
    <3>2. CASE i # 0
      <4>1. i \in 1..Len(s)
        BY <1>1, <3>2
      <4> QED BY <1>4, <3>2, <4>1, Zenon
    <3> QED BY <3>1, <3>2
  <2> QED BY <2>1, Zenon
<1> HIDE DEF step
<1> DEFINE g == CHOOSE h : Is(h)
<1>6. Is(g)
  <2> HIDE DEF Is
  <2> QED BY <1>5, Zenon
<1>7. Selected(s, K) = g[Len(s)]
  BY DEF Selected
<1>8. ASSUME NEW i \in 0..Len(s)
      PROVE  g[i] = IF i = 0 THEN <<>> ELSE IF i \in K THEN Append(g[i - 1], s[i]) ELSE g[i - 1]
  <2> HIDE DEF g
  <2> QED BY <1>6, Zenon
<1> HIDE DEF g, Is
<1>9. g[0] = <<>>
  <2>1. 0 \in 0..Len(s)
    BY <1>1
  <2> QED BY <1>8, <2>1, Zenon
<1>10. ASSUME NEW i \in 1..Len(s) PROVE g[i] = IF i \in K THEN Append(g[i - 1], s[i]) ELSE g[i - 1]
  <2>1. i \in 0..Len(s) /\ i # 0
    BY <1>1
  <2> QED BY <1>8, <2>1, Zenon
<1>11. ASSUME NEW i \in 0..Len(s) PROVE g[i] \in Seq(S)
  <2> DEFINE Good == {n \in 0..Len(s) : g[n] \in Seq(S)}
  <2>1. 0 \in Good
    <3>1. 0 \in 0..Len(s) /\ g[0] \in Seq(S)
      BY <1>1, <1>9
    <3> QED BY <3>1, Zenon
  <2>2. ASSUME NEW n \in 0..Len(s), n \in Good, n < Len(s) PROVE n + 1 \in Good
    <3>1. n + 1 \in 1..Len(s) /\ n + 1 \in 0..Len(s) /\ n + 1 - 1 = n
      BY <1>1, <2>2
    <3>2. g[n + 1] = IF n + 1 \in K THEN Append(g[n], s[n + 1]) ELSE g[n]
      BY <1>10, <3>1
    <3>3. g[n + 1] \in Seq(S)
      BY <1>1, <2>2, <3>1, <3>2
    <3> QED BY <3>1, <3>3
  <2>3. \A n \in 0..Len(s) : n \in Good
    <3> HIDE DEF Good
    <3>1. \A n \in 0..Len(s) : n \in Good /\ n < Len(s) => n + 1 \in Good
      BY <2>2, Zenon
    <3> QED BY <1>1, <2>1, <3>1, UpTo, Zenon
  <2> QED BY <2>3
<1>12. g \in [0..Len(s) -> Seq(S)]
  <2>1. DOMAIN g = 0..Len(s) /\ g = [i \in DOMAIN g |-> g[i]]
    BY <1>6 DEF Is
  <2> QED BY <1>11, <2>1, Zenon
<1>13. Builds(g, s, K)
  BY <1>9, <1>10, Zenon DEF Builds
<1> QED BY <1>7, <1>12, <1>13, Zenon

\* Selected, sequence by sequence: what a filter does with one more element.
LEMMA SelectedOfNone ==
  ASSUME NEW S, NEW s \in Seq(S), NEW K
  PROVE  Len(s) = 0 => Selected(s, K) = <<>>
<1>1. PICK f \in [0..Len(s) -> Seq(S)] : Builds(f, s, K) /\ Selected(s, K) = f[Len(s)]
  BY SelectedUpTo
<1> QED BY <1>1 DEF Builds

\* Nothing is selected from the empty sequence.
LEMMA SelectedEmpty ==
  ASSUME NEW K
  PROVE  Selected(<<>>, K) = <<>>
<1>1. <<>> \in Seq(Nat) /\ Len(<<>>) = 0
  OBVIOUS
<1> QED BY <1>1, SelectedOfNone, Zenon

\* A selection has elements of the sequence only.
LEMMA SelectedType ==
  ASSUME NEW S, NEW s \in Seq(S), NEW K
  PROVE  Selected(s, K) \in Seq(S)
<1>1. Len(s) \in Nat
  OBVIOUS
<1> QED BY <1>1, SelectedUpTo

\* The last place is selected or not, the others stay.
LEMMA SelectedAppend ==
  ASSUME NEW S, NEW s \in Seq(S), NEW x \in S, NEW K
  PROVE  Selected(Append(s, x), K) =
           IF Len(s) + 1 \in K THEN Append(Selected(s, K), x) ELSE Selected(s, K)
<1> DEFINE t == Append(s, x)
<1>1. t \in Seq(S) /\ Len(t) = Len(s) + 1 /\ Len(s) \in Nat /\ t[Len(s) + 1] = x
      /\ \A i \in 1..Len(s) : t[i] = s[i]
  OBVIOUS
<1> HIDE DEF t
<1>2. PICK f \in [0..Len(s) -> Seq(S)] : Builds(f, s, K) /\ Selected(s, K) = f[Len(s)]
  BY SelectedUpTo
<1>3. PICK g \in [0..Len(t) -> Seq(S)] : Builds(g, t, K) /\ Selected(t, K) = g[Len(t)]
  BY <1>1, SelectedUpTo
<1>4. \A n \in 0..Len(s) : g[n] = f[n]
  <2> DEFINE Good == {n \in 0..Len(s) : g[n] = f[n]}
  <2>1. 0 \in Good
    BY <1>1, <1>2, <1>3 DEF Builds
  <2>2. ASSUME NEW n \in 0..Len(s), n \in Good, n < Len(s) PROVE n + 1 \in Good
    <3>1. n + 1 \in 1..Len(s) /\ n + 1 - 1 = n /\ n + 1 \in 1..Len(t) /\ t[n + 1] = s[n + 1]
      BY <1>1, <2>2
    <3>2. g[n + 1] = IF n + 1 \in K THEN Append(g[n], s[n + 1]) ELSE g[n]
      BY <1>3, <3>1 DEF Builds
    <3>3. f[n + 1] = IF n + 1 \in K THEN Append(f[n], s[n + 1]) ELSE f[n]
      BY <1>2, <3>1 DEF Builds
    <3> QED BY <1>1, <2>2, <3>1, <3>2, <3>3
  <2>3. \A n \in 0..Len(s) : n \in Good
    <3> HIDE DEF Good
    <3> QED BY <1>1, <2>1, <2>2, UpTo
  <2> QED BY <2>3
<1>5. g[Len(t)] = IF Len(s) + 1 \in K THEN Append(g[Len(s)], x) ELSE g[Len(s)]
  <2>1. Len(t) \in 1..Len(t) /\ Len(t) - 1 = Len(s)
    BY <1>1
  <2> QED BY <1>1, <1>3, <2>1 DEF Builds
<1>6. g[Len(s)] = f[Len(s)]
  BY <1>1, <1>4
<1> QED BY <1>2, <1>3, <1>5, <1>6 DEF t

\* Only the places in the sequence count.
LEMMA SelectedSame ==
  ASSUME NEW S, NEW s \in Seq(S), NEW K, NEW L, K \cap (1..Len(s)) = L \cap (1..Len(s))
  PROVE  Selected(s, K) = Selected(s, L)
<1> DEFINE Same(t) == \A A, B : A \cap (1..Len(t)) = B \cap (1..Len(t)) => Selected(t, A) = Selected(t, B)
           Good == {t \in Seq(S) : Same(t)}
<1>1. Same(<<>>)
  BY SelectedEmpty
<1>2. ASSUME NEW t \in Seq(S), NEW x \in S, Same(t) PROVE Same(Append(t, x))
  <2> SUFFICES ASSUME NEW A, NEW B, A \cap (1..Len(Append(t, x))) = B \cap (1..Len(Append(t, x)))
               PROVE  Selected(Append(t, x), A) = Selected(Append(t, x), B)
    OBVIOUS
  <2>1. Len(t) \in Nat /\ Len(Append(t, x)) = Len(t) + 1
    OBVIOUS
  <2>2. A \cap (1..Len(t)) = B \cap (1..Len(t)) /\ (Len(t) + 1 \in A <=> Len(t) + 1 \in B)
    BY <2>1
  <2>3. Selected(t, A) = Selected(t, B)
    BY <1>2, <2>2
  <2>4. Selected(Append(t, x), A) = (IF Len(t) + 1 \in A THEN Append(Selected(t, A), x) ELSE Selected(t, A))
    BY SelectedAppend
  <2>5. Selected(Append(t, x), B) = (IF Len(t) + 1 \in B THEN Append(Selected(t, B), x) ELSE Selected(t, B))
    BY SelectedAppend
  <2> QED BY <2>2, <2>3, <2>4, <2>5, Zenon
<1> HIDE DEF Same
<1>3. <<>> \in Good /\ \A t \in Seq(S), x \in S : t \in Good => Append(t, x) \in Good
  BY <1>1, <1>2
<1>4. s \in Good
  <2> HIDE DEF Good
  <2> QED BY <1>3, EverySequence
<1> QED BY <1>4 DEF Same

\* As many as there are places.
LEMMA SelectedLen ==
  ASSUME NEW S, NEW s \in Seq(S), NEW K
  PROVE  Len(Selected(s, K)) = Cardinality(K \cap (1..Len(s)))
<1> DEFINE Counted(t) == \A A : Len(Selected(t, A)) = Cardinality(A \cap (1..Len(t)))
           Good == {t \in Seq(S) : Counted(t)}
<1>1. Counted(<<>>)
  <2> SUFFICES ASSUME NEW A PROVE Len(Selected(<<>>, A)) = Cardinality(A \cap (1..Len(<<>>)))
    OBVIOUS
  <2>1. A \cap (1..Len(<<>>)) = {}
    OBVIOUS
  <2> QED BY <2>1, SelectedEmpty, FS_EmptySet
<1>2. ASSUME NEW t \in Seq(S), NEW x \in S, Counted(t) PROVE Counted(Append(t, x))
  <2> SUFFICES ASSUME NEW A
               PROVE  Len(Selected(Append(t, x), A)) = Cardinality(A \cap (1..Len(Append(t, x))))
    OBVIOUS
  <2> DEFINE Below == A \cap (1..Len(t))
  <2>1. Len(t) \in Nat /\ Len(Append(t, x)) = Len(t) + 1 /\ Len(t) + 1 \notin Below
    OBVIOUS
  <2>2. IsFiniteSet(Below) /\ Len(Selected(t, A)) = Cardinality(Below)
    <3>1. IsFiniteSet(1..Len(t))
      BY <2>1, FS_Interval
    <3> QED BY <1>2, <3>1, FS_Subset
  <2>3. Selected(t, A) \in Seq(S)
    BY SelectedType
  <2>4. CASE Len(t) + 1 \in A
    <3>1. A \cap (1..Len(Append(t, x))) = Below \cup {Len(t) + 1}
      BY <2>1, <2>4
    <3>2. Cardinality(Below \cup {Len(t) + 1}) = Cardinality(Below) + 1
      BY <2>1, <2>2, FS_AddElement
    <3>3. Selected(Append(t, x), A) = Append(Selected(t, A), x)
      BY <2>4, SelectedAppend
    <3>4. Len(Append(Selected(t, A), x)) = Len(Selected(t, A)) + 1
      BY <2>3
    <3> QED BY <2>2, <3>1, <3>2, <3>3, <3>4
  <2>5. CASE Len(t) + 1 \notin A
    <3>1. A \cap (1..Len(Append(t, x))) = Below
      BY <2>1, <2>5
    <3>2. Selected(Append(t, x), A) = Selected(t, A)
      BY <2>5, SelectedAppend
    <3> QED BY <2>2, <3>1, <3>2
  <2> QED BY <2>4, <2>5
<1> HIDE DEF Counted
<1>3. <<>> \in Good /\ \A t \in Seq(S), x \in S : t \in Good => Append(t, x) \in Good
  BY <1>1, <1>2
<1>4. s \in Good
  <2> HIDE DEF Good
  <2> QED BY <1>3, EverySequence
<1> QED BY <1>4 DEF Counted

\* The end of a sequence grows with it.
LEMMA EndAppend ==
  ASSUME NEW S, NEW s \in Seq(S), NEW x \in S, NEW n \in 0..Len(s)
  PROVE  SubSeq(Append(s, x), n + 1, Len(s) + 1) = Append(SubSeq(s, n + 1, Len(s)), x)
<1> DEFINE t == Append(s, x)
           left == SubSeq(t, n + 1, Len(s) + 1)
           end == SubSeq(s, n + 1, Len(s))
<1>1. Len(s) \in Nat /\ t \in Seq(S) /\ Len(t) = Len(s) + 1 /\ t[Len(s) + 1] = x
      /\ \A i \in 1..Len(s) : t[i] = s[i] /\ s[i] \in S /\ t[i] \in S
  OBVIOUS
<1> HIDE DEF t
<1>2. /\ end \in Seq(S) /\ Len(end) = Len(s) - n
      /\ \A i \in 1..(Len(s) - n) : end[i] = s[n + i]
  <2>1. \A i \in (n + 1)..Len(s) : s[i] \in S
    BY <1>1
  <2> QED BY <1>1, <2>1, SubSeqProperties
<1>3. /\ left \in Seq(S) /\ Len(left) = Len(s) + 1 - n
      /\ \A i \in 1..(Len(s) + 1 - n) : left[i] = t[n + i]
  <2>1. \A i \in (n + 1)..(Len(s) + 1) : t[i] \in S
    BY <1>1
  <2> QED BY <1>1, <2>1, SubSeqProperties
<1> HIDE DEF left, end
<1>4. Append(end, x) \in Seq(S) /\ Len(Append(end, x)) = Len(s) + 1 - n
      /\ (\A i \in 1..Len(end) : Append(end, x)[i] = end[i]) /\ Append(end, x)[Len(end) + 1] = x
  BY <1>1, <1>2, AppendProperties
<1>5. ASSUME NEW i \in 1..Len(left) PROVE left[i] = Append(end, x)[i]
  <2>1. i \in 1..(Len(s) + 1 - n) /\ left[i] = t[n + i]
    BY <1>1, <1>3
  <2>2. CASE i = Len(s) + 1 - n
    <3>1. n + i = Len(s) + 1 /\ i = Len(end) + 1
      BY <1>1, <1>2, <2>2
    <3> QED BY <1>1, <1>4, <2>1, <3>1
  <2>3. CASE i # Len(s) + 1 - n
    <3>1. n + i \in 1..Len(s) /\ i \in 1..Len(end) /\ i \in 1..(Len(s) - n)
      BY <1>1, <1>2, <2>1, <2>3, SMTT(20)
    <3>2. left[i] = t[n + i] /\ t[n + i] = s[n + i]
      BY <1>1, <2>1, <3>1
    <3>3. end[i] = s[n + i] /\ Append(end, x)[i] = end[i]
      BY <1>2, <1>4, <3>1
    <3> QED BY <3>2, <3>3
  <2> QED BY <2>2, <2>3
<1>6. left = Append(end, x)
  BY <1>3, <1>4, <1>5, SeqEqual
<1> QED BY <1>6 DEF left, end, t

\* The elements of a set, element by element.
LEMMA WithinEmpty ==
  ASSUME NEW V
  PROVE  Within(<<>>, V) = <<>>
BY SelectedEmpty DEF Within

\* The elements that lie in V are of the sequence.
LEMMA WithinType ==
  ASSUME NEW S, NEW s \in Seq(S), NEW V
  PROVE  Within(s, V) \in Seq(S)
BY SelectedType DEF Within

\* An appended element comes last, if it lies in V.
LEMMA WithinAppend ==
  ASSUME NEW S, NEW s \in Seq(S), NEW x \in S, NEW V
  PROVE  Within(Append(s, x), V) = IF x \in V THEN Append(Within(s, V), x) ELSE Within(s, V)
<1> DEFINE longer == Append(s, x)
           K == {k \in DOMAIN longer : longer[k] \in V}
           L == {k \in DOMAIN s : s[k] \in V}
<1>1. Len(s) \in Nat /\ DOMAIN s = 1..Len(s) /\ DOMAIN longer = 1..(Len(s) + 1)
      /\ longer[Len(s) + 1] = x /\ \A k \in 1..Len(s) : longer[k] = s[k]
  OBVIOUS
<1>2. K \cap (1..Len(s)) = L \cap (1..Len(s)) /\ (Len(s) + 1 \in K <=> x \in V)
  BY <1>1
<1>3. Selected(s, K) = Selected(s, L)
  <2> HIDE DEF K, L
  <2> QED BY <1>2, SelectedSame
<1>4. Selected(longer, K) = IF Len(s) + 1 \in K THEN Append(Selected(s, K), x) ELSE Selected(s, K)
  <2> HIDE DEF K
  <2> QED BY SelectedAppend
<1>5. Within(longer, V) = Selected(longer, K) /\ Within(s, V) = Selected(s, L)
  BY DEF Within
<1> HIDE DEF K, L, longer
<1> QED BY <1>2, <1>3, <1>4, <1>5 DEF longer

\* A set of places has a first and a last one.
LEMMA FirstAndLast ==
  ASSUME NEW n \in Nat, NEW T, T \subseteq 1..n, T # {}
  PROVE  /\ Min(T) \in T /\ \A i \in T : Min(T) <= i
         /\ Max(T) \in T /\ \A i \in T : i <= Max(T)
<1>1. PICK first \in T : \A i \in T : first <= i
  <2>1. T \subseteq Nat
    OBVIOUS
  <2> QED BY <2>1, LeastNatural
<1>2. PICK last \in T : \A i \in T : i <= last
  <2> DEFINE Back == {k \in 0..n : n - k \in T}
  <2>1. Back \subseteq Nat /\ Back # {}
    <3>1. first \in 1..n /\ n - (n - first) = first
      OBVIOUS
    <3>2. n - first \in Back
      BY <3>1
    <3>3. Back \subseteq Nat
      OBVIOUS
    <3> HIDE DEF Back
    <3> QED BY <3>2, <3>3
  <2>2. PICK k \in Back : \A m \in Back : k <= m
    BY <2>1, LeastNatural
  <2>3. ASSUME NEW i \in T PROVE i <= n - k
    <3>1. i \in 1..n /\ n - i \in 0..n /\ n - (n - i) = i
      OBVIOUS
    <3>2. n - i \in Back
      BY <3>1
    <3>3. k <= n - i
      BY <2>2, <3>2
    <3> QED BY <3>1, <3>3
  <2>4. n - k \in T
    OBVIOUS
  <2> QED BY <2>3, <2>4
<1>3. Min(T) \in T /\ \A i \in T : Min(T) <= i
  BY <1>1 DEF Min
<1>4. Max(T) \in T /\ \A i \in T : Max(T) >= i
  <2>1. \A i \in T : last >= i
    BY <1>2
  <2> QED BY <2>1 DEF Max
<1> QED BY <1>3, <1>4

\* What stands behind the last element of a set does not count.
LEMMA WithinFront ==
  ASSUME NEW S, NEW s \in Seq(S), NEW V, NEW n \in 0..Len(s), \A i \in (n + 1)..Len(s) : s[i] \notin V
  PROVE  Within(SubSeq(s, 1, n), V) = Within(s, V)
<1> DEFINE Fronts(t) == \A m \in 0..Len(t) : (\A i \in (m + 1)..Len(t) : t[i] \notin V)
                                             => Within(SubSeq(t, 1, m), V) = Within(t, V)
           Good == {t \in Seq(S) : Fronts(t)}
<1>1. Fronts(<<>>)
  <2>1. ASSUME NEW m \in 0..Len(<<>>) PROVE SubSeq(<<>>, 1, m) = <<>>
    OBVIOUS
  <2> QED BY <2>1
<1>2. ASSUME NEW t \in Seq(S), NEW x \in S, Fronts(t) PROVE Fronts(Append(t, x))
  <2> DEFINE longer == Append(t, x)
  <2>1. longer \in Seq(S) /\ Len(t) \in Nat /\ Len(longer) = Len(t) + 1 /\ longer[Len(t) + 1] = x
        /\ \A i \in 1..Len(t) : longer[i] = t[i]
    OBVIOUS
  <2> SUFFICES ASSUME NEW m \in 0..Len(longer), \A i \in (m + 1)..Len(longer) : longer[i] \notin V
               PROVE  Within(SubSeq(longer, 1, m), V) = Within(longer, V)
    BY DEF Fronts
  <2>2. CASE m = Len(longer)
    <3>1. SubSeq(longer, 1, m) = longer
      BY <2>1, <2>2, SubSeqFull
    <3> QED BY <3>1
  <2>3. CASE m # Len(longer)
    <3>1. m \in 0..Len(t) /\ x \notin V
      BY <2>1, <2>3
    <3>2. \A i \in (m + 1)..Len(t) : t[i] \notin V
      BY <2>1, <3>1
    <3>3. Within(SubSeq(t, 1, m), V) = Within(t, V)
      BY <1>2, <3>1, <3>2
    <3>4. SubSeq(longer, 1, m) = SubSeq(t, 1, m)
      BY <2>1, <3>1
    <3>5. Within(longer, V) = (IF x \in V THEN Append(Within(t, V), x) ELSE Within(t, V))
      BY WithinAppend
    <3> QED BY <3>1, <3>3, <3>4, <3>5
  <2> QED BY <2>2, <2>3
<1> HIDE DEF Fronts
<1>3. <<>> \in Good /\ \A t \in Seq(S), x \in S : t \in Good => Append(t, x) \in Good
  BY <1>1, <1>2
<1>4. s \in Good
  <2> HIDE DEF Good
  <2> QED BY <1>3, EverySequence
<1> QED BY <1>4 DEF Fronts

\* Selecting more than the elements of a set keeps them.
LEMMA WithinSelected ==
  ASSUME NEW S, NEW s \in Seq(S), NEW V, NEW K, \A i \in 1..Len(s) : s[i] \in V => i \in K
  PROVE  Within(Selected(s, K), V) = Within(s, V)
<1> DEFINE Holds(t) == (\A i \in 1..Len(t) : t[i] \in V => i \in K) => Within(Selected(t, K), V) = Within(t, V)
           Good == {t \in Seq(S) : Holds(t)}
<1>1. Holds(<<>>)
  BY SelectedEmpty
<1>2. ASSUME NEW t \in Seq(S), NEW x \in S, Holds(t) PROVE Holds(Append(t, x))
  <2> DEFINE longer == Append(t, x)
  <2>1. longer \in Seq(S) /\ Len(t) \in Nat /\ Len(longer) = Len(t) + 1 /\ longer[Len(t) + 1] = x
        /\ \A i \in 1..Len(t) : longer[i] = t[i]
    OBVIOUS
  <2> HIDE DEF longer
  <2> SUFFICES ASSUME \A i \in 1..Len(longer) : longer[i] \in V => i \in K
               PROVE  Within(Selected(longer, K), V) = Within(longer, V)
    BY DEF Holds, longer
  <2>2. Within(Selected(t, K), V) = Within(t, V) /\ (x \in V => Len(t) + 1 \in K)
    <3>1. \A i \in 1..Len(t) : t[i] \in V => i \in K
      BY <2>1
    <3>2. x \in V => Len(t) + 1 \in K
      BY <2>1
    <3> QED BY <1>2, <3>1, <3>2
  <2>3. Selected(t, K) \in Seq(S)
    BY SelectedType
  <2>4. Within(longer, V) = (IF x \in V THEN Append(Within(t, V), x) ELSE Within(t, V))
    BY WithinAppend DEF longer
  <2>5. Selected(longer, K) = (IF Len(t) + 1 \in K THEN Append(Selected(t, K), x) ELSE Selected(t, K))
    BY SelectedAppend DEF longer
  <2>6. Within(Append(Selected(t, K), x), V)
          = (IF x \in V THEN Append(Within(Selected(t, K), V), x) ELSE Within(Selected(t, K), V))
    BY <2>3, WithinAppend
  <2>7. CASE Len(t) + 1 \in K
    <3>1. Selected(longer, K) = Append(Selected(t, K), x)
      BY <2>5, <2>7, Zenon
    <3>2. CASE x \in V
      BY <2>2, <2>4, <2>6, <3>1, <3>2, Zenon
    <3>3. CASE x \notin V
      BY <2>2, <2>4, <2>6, <3>1, <3>3, Zenon
    <3> QED BY <3>2, <3>3
  <2>8. CASE Len(t) + 1 \notin K
    BY <2>2, <2>4, <2>5, <2>8, Zenon
  <2> QED BY <2>7, <2>8
<1> HIDE DEF Holds
<1>3. <<>> \in Good /\ \A t \in Seq(S), x \in S : t \in Good => Append(t, x) \in Good
  BY <1>1, <1>2
<1>4. s \in Good
  <2> HIDE DEF Good
  <2> QED BY <1>3, EverySequence
<1> QED BY <1>4 DEF Holds

\* What is selected comes from a selected place.
LEMMA SelectedFrom ==
  ASSUME NEW S, NEW s \in Seq(S), NEW K
  PROVE  \A i \in 1..Len(Selected(s, K)) : \E j \in 1..Len(s) : j \in K /\ Selected(s, K)[i] = s[j]
<1> DEFINE From(t) == \A i \in 1..Len(Selected(t, K)) : \E j \in 1..Len(t) : j \in K /\ Selected(t, K)[i] = t[j]
           Good == {t \in Seq(S) : From(t)}
<1>1. From(<<>>)
  BY SelectedEmpty
<1>2. ASSUME NEW t \in Seq(S), NEW x \in S, From(t) PROVE From(Append(t, x))
  <2> DEFINE longer == Append(t, x)
             old == Selected(t, K)
             new == Selected(longer, K)
  <2>1. longer \in Seq(S) /\ Len(t) \in Nat /\ Len(longer) = Len(t) + 1 /\ longer[Len(t) + 1] = x
        /\ \A i \in 1..Len(t) : longer[i] = t[i]
    OBVIOUS
  <2>2. old \in Seq(S)
    BY SelectedType
  <2>3. new = (IF Len(t) + 1 \in K THEN Append(old, x) ELSE old)
    BY SelectedAppend
  <2>4. \A i \in 1..Len(old) : \E j \in 1..Len(t) : j \in K /\ old[i] = t[j]
    BY <1>2
  <2> HIDE DEF longer, old, new
  <2>5. ASSUME NEW i \in 1..Len(new) PROVE \E j \in 1..Len(longer) : j \in K /\ new[i] = longer[j]
    <3>1. CASE i \in 1..Len(old)
      <4>1. new[i] = old[i]
        BY <2>2, <2>3, <3>1
      <4>2. PICK j \in 1..Len(t) : j \in K /\ old[i] = t[j]
        BY <2>4, <3>1
      <4>3. j \in 1..Len(longer) /\ longer[j] = t[j]
        BY <2>1
      <4> QED BY <4>1, <4>2, <4>3
    <3>2. CASE i \notin 1..Len(old)
      <4>1. Len(t) + 1 \in K /\ new[i] = x
        BY <2>2, <2>3, <3>2
      <4> QED BY <2>1, <4>1
    <3> QED BY <3>1, <3>2
  <2> QED BY <2>5 DEF longer, new
<1> HIDE DEF From
<1>3. <<>> \in Good /\ \A t \in Seq(S), x \in S : t \in Good => Append(t, x) \in Good
  BY <1>1, <1>2
<1>4. s \in Good
  <2> HIDE DEF Good
  <2> QED BY <1>3, EverySequence
<1> QED BY <1>4 DEF From

-----------------------------------------------------------------------------
\* Memory: what there is of a project, entry by entry.
LEMMA OfAppend ==
  ASSUME NEW list \in Seq(Entries), NEW e \in Entries, NEW p
  PROVE  /\ Of(<<>>, p) = <<>>
         /\ Of(list, p) \in Seq(Entries)
         /\ Of(Append(list, e), p) = IF e.project = p THEN Append(Of(list, p), e) ELSE Of(list, p)
<1> DEFINE V == {x \in Entries : x.project = p}
<1>1. ASSUME NEW l \in Seq(Entries) PROVE Of(l, p) = Within(l, V)
  <2>1. {k \in DOMAIN l : l[k].project = p} = {k \in DOMAIN l : l[k] \in V}
    OBVIOUS
  <2> QED BY <2>1 DEF Of, Within
<1>2. Append(list, e) \in Seq(Entries) /\ <<>> \in Seq(Entries) /\ (e \in V <=> e.project = p)
  OBVIOUS
<1> HIDE DEF V
<1>3. Within(<<>>, V) = <<>>
  BY WithinEmpty
<1>4. Within(Append(list, e), V) = IF e \in V THEN Append(Within(list, V), e) ELSE Within(list, V)
  BY WithinAppend
<1>5. Within(list, V) \in Seq(Entries)
  BY WithinType
<1> QED BY <1>1, <1>2, <1>3, <1>4, <1>5

\* The parts of a list of entries are lists of entries.
LEMMA PartsType ==
  ASSUME NEW list \in Seq(Entries), NEW p, NEW n
  PROVE  Of(list, p) \in Seq(Entries) /\ WithoutOldest(list, p, n) \in Seq(Entries)
BY SelectedType DEF Of, WithoutOldest

\* What goes with the oldest entries, entry by entry.
LEMMA WithoutOldestAppend ==
  ASSUME NEW list \in Seq(Entries), NEW e \in Entries, NEW p, NEW n \in Nat
  PROVE  /\ WithoutOldest(<<>>, p, n) = <<>>
         /\ WithoutOldest(list, p, n) \in Seq(Entries)
         /\ WithoutOldest(Append(list, e), p, n) =
              IF e.project = p /\ Len(Of(list, p)) + 1 <= n
                THEN WithoutOldest(list, p, n) ELSE Append(WithoutOldest(list, p, n), e)
<1> DEFINE longer == Append(list, e)
           upto(l, k) == Cardinality({j \in 1..k : l[j].project = p})
           K == {k \in DOMAIN longer : ~(longer[k].project = p /\ upto(longer, k) <= n)}
           L == {k \in DOMAIN list : ~(list[k].project = p /\ upto(list, k) <= n)}
<1>1. Len(list) \in Nat /\ DOMAIN list = 1..Len(list) /\ DOMAIN longer = 1..(Len(list) + 1)
      /\ longer[Len(list) + 1] = e /\ (\A k \in 1..Len(list) : longer[k] = list[k])
      /\ longer \in Seq(Entries) /\ Len(longer) = Len(list) + 1
  OBVIOUS
<1>2. ASSUME NEW k \in 1..Len(list) PROVE upto(longer, k) = upto(list, k)
  <2>1. {j \in 1..k : longer[j].project = p} = {j \in 1..k : list[j].project = p}
    BY <1>1
  <2> QED BY <2>1
<1>3. e.project = p => upto(longer, Len(list) + 1) = Len(Of(list, p)) + 1
  <2> DEFINE at == {k \in DOMAIN longer : longer[k].project = p}
  <2>1. {j \in 1..(Len(list) + 1) : longer[j].project = p} = at \cap (1..Len(longer))
    BY <1>1
  <2>2. Of(longer, p) = Selected(longer, at)
    BY DEF Of
  <2> HIDE DEF at
  <2>3. Len(Of(longer, p)) = Cardinality(at \cap (1..Len(longer)))
    BY <1>1, <2>2, SelectedLen
  <2>4. ASSUME e.project = p PROVE Len(Of(longer, p)) = Len(Of(list, p)) + 1
    <3>1. Of(longer, p) = Append(Of(list, p), e) /\ Of(list, p) \in Seq(Entries)
      BY <2>4, OfAppend
    <3> QED BY <3>1
  <2> HIDE DEF longer
  <2> QED BY <2>1, <2>3, <2>4
<1> HIDE DEF upto
<1>4. K \cap (1..Len(list)) = L \cap (1..Len(list))
  BY <1>1, <1>2
<1>5. Len(list) + 1 \in K <=> ~(e.project = p /\ Len(Of(list, p)) + 1 <= n)
  BY <1>1, <1>3
<1>6. Selected(list, K) = Selected(list, L)
  <2> HIDE DEF K, L
  <2> QED BY <1>4, SelectedSame
<1>7. Selected(longer, K) = IF Len(list) + 1 \in K THEN Append(Selected(list, K), e) ELSE Selected(list, K)
  <2> HIDE DEF K
  <2> QED BY SelectedAppend
<1>8. WithoutOldest(longer, p, n) = Selected(longer, K) /\ WithoutOldest(list, p, n) = Selected(list, L)
  BY DEF WithoutOldest, upto
<1>9. WithoutOldest(<<>>, p, n) = <<>>
  BY SelectedEmpty DEF WithoutOldest
<1>10. Selected(list, L) \in Seq(Entries)
  BY SelectedType
<1> HIDE DEF K, L, longer
<1>11. CASE Len(list) + 1 \in K
  BY <1>5, <1>6, <1>7, <1>8, <1>9, <1>10, <1>11 DEF longer
<1>12. CASE Len(list) + 1 \notin K
  BY <1>5, <1>6, <1>7, <1>8, <1>9, <1>10, <1>12 DEF longer
<1> QED BY <1>11, <1>12

\* They go from their project alone, and are its first.
LEMMA OldestGone ==
  ASSUME NEW list \in Seq(Entries), NEW p, NEW q, NEW n \in Nat
  PROVE  Of(WithoutOldest(list, p, n), q) =
           IF q = p THEN SubSeq(Of(list, p), n + 1, Len(Of(list, p))) ELSE Of(list, q)
<1> DEFINE Gone(l) == Of(WithoutOldest(l, p, n), q) =
                        IF q = p THEN SubSeq(Of(l, p), n + 1, Len(Of(l, p))) ELSE Of(l, q)
           Good == {l \in Seq(Entries) : Gone(l)}
<1>1. Gone(<<>>)
  <2>1. Entry(NoProject, 0) \in Entries
    BY DEF Entry, Entries
  <2>2. <<>> \in Seq(Entries)
    OBVIOUS
  <2>3. WithoutOldest(<<>>, p, n) = <<>> /\ Of(<<>>, p) = <<>> /\ Of(<<>>, q) = <<>>
    BY <2>1, <2>2, OfAppend, WithoutOldestAppend
  <2>4. SubSeq(<<>>, n + 1, Len(<<>>)) = <<>>
    OBVIOUS
  <2> QED BY <2>3, <2>4
<1>2. ASSUME NEW l \in Seq(Entries), NEW e \in Entries, Gone(l) PROVE Gone(Append(l, e))
  <2> DEFINE rest == WithoutOldest(l, p, n)
             its == Of(l, p)
  <2>1. /\ rest \in Seq(Entries)
        /\ WithoutOldest(Append(l, e), p, n) = IF e.project = p /\ Len(its) + 1 <= n THEN rest ELSE Append(rest, e)
    BY WithoutOldestAppend
  <2>2. its \in Seq(Entries) /\ Of(Append(l, e), p) = IF e.project = p THEN Append(its, e) ELSE its
    BY OfAppend, SMTT(20)
  <2>3. Of(Append(l, e), q) = IF e.project = q THEN Append(Of(l, q), e) ELSE Of(l, q)
    BY OfAppend
  <2>4. Of(Append(rest, e), q) = IF e.project = q THEN Append(Of(rest, q), e) ELSE Of(rest, q)
    BY <2>1, OfAppend, SMTT(20)
  <2>5. Of(rest, q) = IF q = p THEN SubSeq(its, n + 1, Len(its)) ELSE Of(l, q)
    BY <1>2
  <2> HIDE DEF rest, its
  <2>6. CASE q # p
    BY <2>1, <2>3, <2>4, <2>5, <2>6
  <2>7. CASE q = p /\ e.project # p
    BY <2>1, <2>2, <2>4, <2>5, <2>7
  <2>8. CASE q = p /\ e.project = p /\ Len(its) + 1 <= n
    <3>1. SubSeq(Append(its, e), n + 1, Len(Append(its, e))) = <<>> /\ SubSeq(its, n + 1, Len(its)) = <<>>
      BY <2>2, <2>8
    <3> QED BY <2>1, <2>2, <2>5, <2>8, <3>1
  <2>9. CASE q = p /\ e.project = p /\ ~(Len(its) + 1 <= n)
    <3>1. n \in 0..Len(its) /\ Len(Append(its, e)) = Len(its) + 1
      BY <2>2, <2>9
    <3>2. SubSeq(Append(its, e), n + 1, Len(its) + 1) = Append(SubSeq(its, n + 1, Len(its)), e)
      BY <2>2, <3>1, EndAppend
    <3> QED BY <3>2, <2>1, <2>2, <2>4, <2>5, <2>9, <3>1
  <2> QED BY <2>6, <2>7, <2>8, <2>9
<1> HIDE DEF Gone
<1>3. <<>> \in Good /\ \A l \in Seq(Entries), e \in Entries : l \in Good => Append(l, e) \in Good
  BY <1>1, <1>2
<1>4. list \in Good
  <2> HIDE DEF Good
  <2> QED BY <1>3, EverySequence
<1> QED BY <1>4 DEF Gone

\* The latest n entries are the end of the list.
LEMMA LatestIsEnd ==
  ASSUME NEW S, NEW all \in Seq(S), NEW n \in Nat, n <= Len(all)
  PROVE  Latest(all, n) = SubSeq(all, Len(all) - n + 1, Len(all))
<1> DEFINE m == IF Len(all) > n THEN n ELSE Len(all)
<1>1. m = n
  OBVIOUS
<1>2. Latest(all, n) = SubSeq(all, Len(all) - m + 1, Len(all))
  BY DEF Latest
<1> HIDE DEF m
<1> QED BY <1>1, <1>2

\* The newest of a history, entry by entry.
LEMMA LatestAppend ==
  ASSUME NEW S, NEW all \in Seq(S), NEW x \in S, NEW n \in Nat
  PROVE  /\ Latest(all, n) \in Seq(S)
         /\ Latest(<<>>, n) = <<>>
         /\ Latest(Append(Latest(all, n), x), n) = Latest(Append(all, x), n)
         /\ Latest(Append(all, x), 1) = <<x>>
         /\ Latest(all, Len(all)) = all
<1> DEFINE m == IF Len(all) > n THEN n ELSE Len(all)
           last == Latest(all, n)
<1>1. Len(all) \in Nat /\ m \in 0..Len(all) /\ m <= n /\ Append(all, x) \in Seq(S)
      /\ Len(Append(all, x)) = Len(all) + 1
  OBVIOUS
<1> DEFINE more == Append(all, x)
<1>0. more \in Seq(S) /\ Len(more) = Len(all) + 1
  BY <1>1
<1> HIDE DEF more
<1>2. last = SubSeq(all, Len(all) - m + 1, Len(all))
  BY DEF Latest
<1>3. /\ last \in Seq(S) /\ Len(last) = m
      /\ \A i \in 1..m : last[i] = all[Len(all) - m + i]
  <2>1. \A i \in (Len(all) - m + 1)..Len(all) : all[i] \in S
    BY <1>1
  <2> HIDE DEF m, last
  <2> QED BY <1>1, <1>2, <2>1, SubSeqProperties
<1>4. Latest(<<>>, n) = <<>>
  BY DEF Latest
<1>5. Latest(all, Len(all)) = all
  BY SubSeqFull DEF Latest
<1>6. Latest(Append(all, x), 1) = <<x>>
  <2>1. Latest(more, 1) = SubSeq(more, Len(all) + 1, Len(all) + 1)
    <3>1. Latest(more, 1) = SubSeq(more, Len(more) - 1 + 1, Len(more))
      <4>1. 1 \in Nat /\ 1 <= Len(more)
        BY <1>0, <1>1
      <4> QED BY <1>0, <4>1, LatestIsEnd, Zenon
    <3>2. Len(more) - 1 + 1 = Len(all) + 1
      BY <1>0, <1>1
    <3> QED BY <1>0, <3>1, <3>2
  <2>2. SubSeq(Append(all, x), Len(all) + 1, Len(all) + 1) = Append(SubSeq(all, Len(all) + 1, Len(all)), x)
    BY <1>1, EndAppend
  <2>3. SubSeq(all, Len(all) + 1, Len(all)) = <<>>
    BY <1>1
  <2>4. Latest(Append(all, x), 1) = Append(<<>>, x)
    BY <2>1, <2>2, <2>3, Zenon DEF more
  <2> QED BY <2>4
<1>7. Latest(Append(last, x), n) = Latest(Append(all, x), n)
  <2> HIDE DEF m, last
  <2>0. Append(last, x) \in Seq(S) /\ Len(Append(last, x)) = m + 1
    BY <1>3
  <2>1. CASE n = 0
    <3>1. Latest(Append(last, x), n) = SubSeq(Append(last, x), m + 2, m + 1)
      BY <1>1, <2>0, <2>1 DEF Latest
    <3>2. Latest(Append(all, x), n) = SubSeq(Append(all, x), Len(all) + 2, Len(all) + 1)
      <4>1. Latest(more, n) = SubSeq(more, Len(more) - 0 + 1, Len(more))
        BY <1>0, <1>1, <2>1, LatestIsEnd
      <4>2. Len(more) - 0 + 1 = Len(all) + 2
        BY <1>0, <1>1
      <4> QED BY <1>0, <4>1, <4>2 DEF more
    <3>3. SubSeq(Append(last, x), m + 2, m + 1) = <<>> /\ SubSeq(Append(all, x), Len(all) + 2, Len(all) + 1) = <<>>
      BY <1>1, SubSeqEmpty
    <3> QED BY <3>1, <3>2, <3>3
  <2>2. CASE n # 0 /\ Len(all) < n
    <3>1. m = Len(all) /\ Len(all) - m + 1 = 1
      BY <1>1, <2>2 DEF m
    <3>2. last = all
      BY <1>2, <3>1, SubSeqFull
    <3> QED BY <3>2
  <2>3. CASE n # 0 /\ n <= Len(all)
    <3>1. m = n
      BY <1>1, <2>3 DEF m
    <3>2. Latest(Append(last, x), n) = SubSeq(Append(last, x), 2, n + 1)
      BY <1>1, <2>0, <2>3, <3>1 DEF Latest
    <3>3. Latest(Append(all, x), n) = SubSeq(Append(all, x), Len(all) - n + 2, Len(all) + 1)
      <4>1. Latest(more, n) = SubSeq(more, Len(more) - n + 1, Len(more))
        <5>1. n <= Len(more)
          BY <1>0, <1>1, <2>3
        <5> QED BY <1>0, <5>1, LatestIsEnd, Zenon
      <4>2. Len(more) - n + 1 = Len(all) - n + 2
        BY <1>0, <1>1
      <4> QED BY <1>0, <4>1, <4>2 DEF more
    <3>4. SubSeq(Append(last, x), 2, n + 1) = Append(SubSeq(last, 2, n), x)
      <4>1. 1 \in 0..Len(last)
        BY <1>3, <2>3, <3>1
      <4>2. SubSeq(Append(last, x), 1 + 1, Len(last) + 1) = Append(SubSeq(last, 1 + 1, Len(last)), x)
        BY <1>3, <4>1, EndAppend
      <4>3. 1 + 1 = 2 /\ Len(last) = n
        BY <1>3, <3>1
      <4> QED BY <4>2, <4>3
    <3>5. SubSeq(Append(all, x), Len(all) - n + 2, Len(all) + 1) = Append(SubSeq(all, Len(all) - n + 2, Len(all)), x)
      <4>1. Len(all) - n + 1 \in 0..Len(all)
        BY <1>1, <2>3
      <4>2. Len(all) - n + 1 + 1 = Len(all) - n + 2
        BY <1>1
      <4> QED BY <4>1, <4>2, EndAppend
    <3>6. SubSeq(last, 2, n) = SubSeq(all, Len(all) - n + 2, Len(all))
      <4>1. \A i \in 2..n : last[i] \in S
        BY <1>3, <3>1
      <4>2. \A i \in (Len(all) - n + 2)..Len(all) : all[i] \in S
        BY <1>1, <2>3
      <4> DEFINE l == SubSeq(last, 2, n)
                 a == SubSeq(all, Len(all) - n + 2, Len(all))
      <4>3. l \in Seq(S) /\ Len(l) = n - 1 /\ \A i \in 1..(n - 1) : l[i] = last[i + 1]
        BY <2>3, <4>1, SubSeqProperties
      <4>4. a \in Seq(S) /\ Len(a) = n - 1 /\ \A i \in 1..(n - 1) : a[i] = all[Len(all) - n + 1 + i]
        BY <1>1, <2>3, <4>2, SubSeqProperties
      <4> HIDE DEF l, a
      <4>5. ASSUME NEW i \in 1..(n - 1) PROVE l[i] = a[i]
        <5>1. i + 1 \in 1..m /\ Len(all) - m + (i + 1) = Len(all) - n + 1 + i
          BY <1>1, <3>1
        <5>2. last[i + 1] = all[Len(all) - n + 1 + i]
          BY <1>3, <5>1
        <5> QED BY <4>3, <4>4, <5>2
      <4>6. l = a
        BY <4>3, <4>4, <4>5, SeqEqual
      <4> QED BY <4>6 DEF l, a
    <3> QED BY <3>2, <3>3, <3>4, <3>5, <3>6
  <2> QED BY <1>1, <2>1, <2>2, <2>3
<1> QED BY <1>3, <1>4, <1>5, <1>6, <1>7

\* What the state is made of.
MemTypeOK ==
  /\ which \in {"memory", "scratchpad", "rules", "evidence"}
  /\ file \in Seq(Entries) \cup {Missing}
  /\ writer \in [Writers -> [step : {"idle", "open", "fill"}, entry : Entries, content : Seq(Entries)]]
  /\ entries \in Nat /\ added \in Seq(Entries) /\ disturbed \in BOOLEAN
  /\ \A w \in Writers : writer[w].step # "idle" => writer[w].entry.project \in Projects

\* A file of the kind that holds what is left of the entries of all, and the rules
\* there were.
Kept(kind, all) ==
  CASE kind = "memory" -> maxCapacity [] kind = "scratchpad" -> 1 [] OTHER -> Len(all)
Remembers(kind, text, all) ==
  /\ kind = "rules" => Of(text, NoProject) = FirstRules
  /\ \A p \in Projects : Of(text, p) = Latest(Of(all, p), Kept(kind, Of(all, p)))

\* Of the files that are written over: who writes remembers what was added and adds
\* his own; only he sees the file empty.
Undisturbed ==
  /\ \A v, w \in Writers : writer[v].step # "idle" /\ writer[w].step # "idle" => v = w
  /\ file # Missing => (\E w \in Writers : writer[w].step = "fill") \/ Remembers(which, file, added)
  /\ \A w \in Writers :
       writer[w].step # "idle" => Remembers(which, writer[w].content, Append(added, writer[w].entry))

\* Of the evidence: who found no file brings the header.
Recorded(text) == Selected(text, {k \in DOMAIN text : text[k] # Header})
HeaderFirst ==
  /\ file # Missing => file # <<>> /\ Head(file) = Header /\ Recorded(file) = added
  /\ \A w \in Writers :
       LET e == writer[w].entry
           c == writer[w].content
       IN  writer[w].step # "idle" =>
             /\ c = <<Header, e>> \/ (c = <<e>> /\ file # Missing)
             /\ e # Header /\ writer[w].step = "open"

MemIInv ==
  /\ MemTypeOK
  /\ file = Missing => added = <<>> /\ \A w \in Writers : writer[w].step # "fill"
  /\ which = "evidence" => HeaderFirst
  /\ which # "evidence" /\ ~disturbed => Undisturbed

\* One key's values go, the others stay.
Others(list, p) == Selected(list, {k \in DOMAIN list : list[k].project # p})

\* Filtering a project out leaves the entries of all others.
LEMMA OthersStay ==
  ASSUME NEW list \in Seq(Entries), NEW p, NEW q
  PROVE  /\ Others(list, p) \in Seq(Entries)
         /\ Of(Others(list, p), q) = IF q = p THEN <<>> ELSE Of(list, q)
<1> DEFINE V == {x \in Entries : x.project # p}
           Stay(l) == Of(Within(l, V), q) = IF q = p THEN <<>> ELSE Of(l, q)
           Good == {l \in Seq(Entries) : Stay(l)}
<1>1. Stay(<<>>)
  BY SelectedEmpty DEF Of, Within
<1>2. ASSUME NEW l \in Seq(Entries), NEW e \in Entries, Stay(l) PROVE Stay(Append(l, e))
  <2>1. Within(Append(l, e), V) = IF e \in V THEN Append(Within(l, V), e) ELSE Within(l, V)
    BY WithinAppend
  <2>2. e \in V <=> e.project # p
    OBVIOUS
  <2>3. Within(l, V) \in Seq(Entries)
    BY WithinType
  <2> HIDE DEF V
  <2>4. Of(Append(Within(l, V), e), q) =
          IF e.project = q THEN Append(Of(Within(l, V), q), e) ELSE Of(Within(l, V), q)
    BY <2>3, OfAppend
  <2>5. Of(Append(l, e), q) = IF e.project = q THEN Append(Of(l, q), e) ELSE Of(l, q)
    BY OfAppend
  <2> QED BY <1>2, <2>1, <2>2, <2>4, <2>5
<1> HIDE DEF Stay
<1>3. <<>> \in Good /\ \A l \in Seq(Entries), e \in Entries : l \in Good => Append(l, e) \in Good
  BY <1>1, <1>2
<1>4. list \in Good
  <2> HIDE DEF Good
  <2> QED BY <1>3, EverySequence
<1>5. Others(list, p) = Within(list, V)
  <2>1. {k \in DOMAIN list : list[k].project # p} = {k \in DOMAIN list : list[k] \in V}
    OBVIOUS
  <2> QED BY <2>1 DEF Others, Within
<1>6. Within(list, V) \in Seq(Entries)
  BY WithinType
<1>7. Stay(list)
  BY <1>4
<1> HIDE DEF V
<1> QED BY <1>5, <1>6, <1>7 DEF Stay

\* A scratchpad that replaces that of its project is remembered.
LEMMA PutRemembers ==
  ASSUME NEW list \in Seq(Entries), NEW all \in Seq(Entries), NEW e \in Entries, e.project \in Projects,
         Remembers("scratchpad", list, all)
  PROVE  Put(list, e) \in Seq(Entries) /\ Remembers("scratchpad", Put(list, e), Append(all, e))
<1> DEFINE rest == Others(list, e.project)
<1>1. rest \in Seq(Entries)
  BY OthersStay
<1>5. ASSUME NEW q PROVE Of(rest, q) = IF q = e.project THEN <<>> ELSE Of(list, q)
  BY OthersStay
<1>2. Put(list, e) = Append(rest, e)
  BY DEF Put, Others
<1> HIDE DEF rest
<1>3. Put(list, e) \in Seq(Entries)
  BY <1>1, <1>2
<1>4. ASSUME NEW p \in Projects PROVE Of(Put(list, e), p) = Latest(Of(Append(all, e), p), 1)
  <2>1. Of(Append(rest, e), p) = IF e.project = p THEN Append(Of(rest, p), e) ELSE Of(rest, p)
    BY <1>1, OfAppend
  <2>2. Of(Append(all, e), p) = IF e.project = p THEN Append(Of(all, p), e) ELSE Of(all, p)
    BY OfAppend
  <2>3. CASE p = e.project
    <3>1. Of(Put(list, e), p) = Append(<<>>, e)
      BY <1>2, <1>5, <2>1, <2>3
    <3>2. Of(all, p) \in Seq(Entries)
      BY PartsType
    <3>3. Latest(Append(Of(all, p), e), 1) = <<e>>
      BY <3>2, LatestAppend
    <3> QED BY <2>2, <2>3, <3>1, <3>3
  <2>4. CASE p # e.project
    <3>1. Of(list, p) = Latest(Of(all, p), 1)
      BY DEF Remembers, Kept
    <3> QED BY <1>2, <1>5, <2>1, <2>2, <2>4, <3>1
  <2> QED BY <2>3, <2>4
<1> QED BY <1>3, <1>4 DEF Remembers, Kept

\* A rule that is pushed is remembered, and so are those before it.
LEMMA PushRemembers ==
  ASSUME NEW list \in Seq(Entries), NEW all \in Seq(Entries), NEW e \in Entries, e.project \in Projects,
         Remembers("rules", list, all)
  PROVE  Push(list, e) \in Seq(Entries) /\ Remembers("rules", Push(list, e), Append(all, e))
<1>1. Push(list, e) \in Seq(Entries)
  BY DEF Push
<1>2. Of(Push(list, e), NoProject) = FirstRules
  BY OfAppend, MemoryAssumption DEF Push, Remembers
<1>3. ASSUME NEW p \in Projects
      PROVE  Of(Push(list, e), p) = Latest(Of(Append(all, e), p), Len(Of(Append(all, e), p)))
  <2>1. Of(list, p) = Of(all, p)
    <3>1. Of(all, p) \in Seq(Entries)
      BY OfAppend
    <3>2. Of(list, p) = Latest(Of(all, p), Len(Of(all, p)))
      BY DEF Remembers, Kept
    <3> QED BY <3>1, <3>2, LatestAppend
  <2>2. Of(Push(list, e), p) = Of(Append(all, e), p)
    <3>1. Of(Append(list, e), p) = IF e.project = p THEN Append(Of(list, p), e) ELSE Of(list, p)
      BY OfAppend
    <3>2. Of(Append(all, e), p) = IF e.project = p THEN Append(Of(all, p), e) ELSE Of(all, p)
      BY OfAppend
    <3>3. CASE e.project = p
      BY <2>1, <3>1, <3>2, <3>3 DEF Push
    <3>4. CASE e.project # p
      BY <2>1, <3>1, <3>2, <3>4 DEF Push
    <3> QED BY <3>3, <3>4
  <2>3. Of(Append(all, e), p) \in Seq(Entries)
    <3>1. Append(all, e) \in Seq(Entries)
      OBVIOUS
    <3> QED BY <3>1, PartsType
  <2> QED BY <2>2, <2>3, LatestAppend
<1> QED BY <1>1, <1>2, <1>3 DEF Remembers, Kept

\* Pruning the memory after an append keeps the latest maxCapacity entries.
LEMMA PrunedRemembers ==
  ASSUME NEW list \in Seq(Entries), NEW all \in Seq(Entries), NEW e \in Entries, e.project \in Projects,
         Remembers("memory", list, all)
  PROVE  LET text == Pruned(Append(list, e), e.project)
         IN  text \in Seq(Entries) /\ Remembers("memory", text, Append(all, e))
<1> DEFINE more == Append(list, e)
           its == Of(more, e.project)
           n == Excess(its)
           text == Pruned(more, e.project)
<1>1. more \in Seq(Entries) /\ its \in Seq(Entries)
  <2>1. more \in Seq(Entries)
    OBVIOUS
  <2> HIDE DEF more
  <2> QED BY <2>1, PartsType
<1>2. n \in Nat /\ SubSeq(its, n + 1, Len(its)) = Latest(its, maxCapacity)
  <2> HIDE DEF its
  <2>1. CASE Len(its) > maxCapacity
    <3>1. n = Len(its) - maxCapacity
      BY <2>1 DEF Excess
    <3> QED BY <1>1, <2>1, <3>1, LatestIsEnd, MemoryAssumption
  <2>2. CASE ~(Len(its) > maxCapacity)
    <3>1. n = 0
      BY <2>2 DEF Excess
    <3>2. Latest(its, maxCapacity) = Latest(its, Len(its))
      BY <1>1, <2>2, MemoryAssumption DEF Latest
    <3>3. Latest(its, Len(its)) = its
      BY <1>1, LatestAppend
    <3>4. SubSeq(its, 1, Len(its)) = its
      BY <1>1, SubSeqFull
    <3> QED BY <3>1, <3>2, <3>3, <3>4
  <2> QED BY <2>1, <2>2
<1>3. text = WithoutOldest(more, e.project, n)
  BY DEF Pruned
<1>4. text \in Seq(Entries)
  BY <1>1, <1>3, PartsType
<1>5. ASSUME NEW p \in Projects PROVE Of(text, p) = Latest(Of(Append(all, e), p), maxCapacity)
  <2> HIDE DEF more, n, text
  <2>1. Of(list, p) = Latest(Of(all, p), maxCapacity)
    BY DEF Remembers, Kept
  <2>2. CASE p = e.project
    <3>1. Of(text, p) = Latest(its, maxCapacity)
      BY <1>1, <1>2, <1>3, <2>2, OldestGone
    <3>2. its = Append(Of(list, p), e) /\ Of(Append(all, e), p) = Append(Of(all, p), e)
      BY <2>2, OfAppend DEF more
    <3>3. Of(all, p) \in Seq(Entries)
      BY OfAppend
    <3> QED BY <2>1, <3>1, <3>2, <3>3, LatestAppend, MemoryAssumption
  <2>3. CASE p # e.project
    <3>1. Of(text, p) = Of(more, p)
      BY <1>1, <1>2, <1>3, <2>3, OldestGone
    <3>2. Of(more, p) = Of(list, p) /\ Of(Append(all, e), p) = Of(all, p)
      BY <2>3, OfAppend DEF more
    <3> QED BY <2>1, <3>1, <3>2
  <2> QED BY <2>2, <2>3
<1> HIDE DEF text
<1>6. Remembers("memory", text, Append(all, e))
  BY <1>5 DEF Remembers, Kept
<1> QED BY <1>4, <1>6 DEF text

\* The recorded entries are all but the header.
LEMMA RecordedAppend ==
  ASSUME NEW list \in Seq(Entries), NEW e \in Entries
  PROVE  /\ Recorded(<<>>) = <<>>
         /\ Recorded(Append(list, e)) = IF e # Header THEN Append(Recorded(list), e) ELSE Recorded(list)
<1> DEFINE V == {x \in Entries : x # Header}
<1>1. ASSUME NEW l \in Seq(Entries) PROVE Recorded(l) = Within(l, V)
  <2>1. {k \in DOMAIN l : l[k] # Header} = {k \in DOMAIN l : l[k] \in V}
    OBVIOUS
  <2> QED BY <2>1 DEF Recorded, Within
<1>2. Append(list, e) \in Seq(Entries) /\ <<>> \in Seq(Entries) /\ (e \in V <=> e # Header)
  OBVIOUS
<1> HIDE DEF V
<1>3. Within(<<>>, V) = <<>>
  BY WithinEmpty
<1>4. Within(Append(list, e), V) = IF e \in V THEN Append(Within(list, V), e) ELSE Within(list, V)
  BY WithinAppend
<1> QED BY <1>1, <1>2, <1>3, <1>4

\* A file that is not there yet remembers that nothing was added.
LEMMA LoadedRemembers ==
  ASSUME MemTypeOK, which # "evidence",
         file = Missing => added = <<>>, file # Missing => Remembers(which, file, added)
  PROVE  Loaded \in Seq(Entries) /\ Remembers(which, Loaded, added)
<1>1. CASE file # Missing
  BY <1>1 DEF Loaded, MemTypeOK
<1>2. CASE file = Missing
  <2> DEFINE first == Entry(NoProject, 0)
  <2>1. first \in Entries /\ first.project = NoProject /\ FirstRules = Append(<<>>, first) /\ <<>> \in Seq(Entries)
    BY DEF Entry, Entries, FirstRules
  <2> HIDE DEF first
  <2>2. \A p : Of(<<>>, p) = <<>>
    BY <2>1, OfAppend
  <2>3. ASSUME NEW p PROVE Of(FirstRules, p) = IF NoProject = p THEN FirstRules ELSE <<>>
    <3>1. Of(Append(<<>>, first), p) = IF first.project = p THEN Append(Of(<<>>, p), first) ELSE Of(<<>>, p)
      BY <2>1, OfAppend
    <3> QED BY <2>1, <2>2, <3>1
  <2>4. \A n \in Nat : Latest(<<>>, n) = <<>>
    BY <2>1, LatestAppend
  <2>5. Kept(which, <<>>) \in Nat
    BY MemoryAssumption DEF Kept
  <2>6. Loaded = IF which = "rules" THEN FirstRules ELSE <<>>
    BY <1>2 DEF Loaded
  <2>7. Loaded \in Seq(Entries)
    BY <2>1, <2>6
  <2>8. \A p \in Projects : Of(Loaded, p) = <<>>
    BY <2>2, <2>3, <2>6, MemoryAssumption
  <2>9. Of(added, NoProject) = <<>> /\ \A p \in Projects : Of(added, p) = <<>>
    BY <1>2, <2>2
  <2> QED BY <2>3, <2>4, <2>5, <2>6, <2>7, <2>8, <2>9 DEF Remembers
<1> QED BY <1>1, <1>2

\* A new project remembers nothing.
LEMMA MemInitIInv == MemInit => MemIInv
<1> SUFFICES ASSUME MemInit PROVE MemIInv
  OBVIOUS
<1>1. Entry(NoProject, 0) \in Entries
  BY DEF Entry, Entries
<1>2. MemTypeOK
  <2>1. Idle \in [step : {"idle", "open", "fill"}, entry : Entries, content : Seq(Entries)]
    BY <1>1 DEF Idle
  <2>2. Idle.step = "idle"
    BY DEF Idle
  <2>3. writer \in [Writers -> [step : {"idle", "open", "fill"}, entry : Entries, content : Seq(Entries)]]
    BY <2>1 DEF MemInit
  <2>4. \A w \in Writers : writer[w].step = "idle"
    BY <2>2 DEF MemInit
  <2>5. added \in Seq(Entries)
    <3>1. <<>> \in Seq(Entries)
      OBVIOUS
    <3> QED BY <3>1, Zenon DEF MemInit
  <2>7. disturbed \in BOOLEAN /\ entries \in Nat
    BY DEF MemInit
  <2>6. which \in {"memory", "scratchpad", "rules", "evidence"} /\ file = Missing
    BY DEF MemInit
  <2> QED BY <2>3, <2>4, <2>5, <2>6, <2>7 DEF MemTypeOK
<1>3. \A w \in Writers : writer[w].step = "idle"
  BY DEF MemInit, Idle
<1> QED BY <1>2, <1>3 DEF MemIInv, MemInit, HeaderFirst, Undisturbed

\* What a call makes of the file, as its kind is.
LEMMA LoadContent ==
  ASSUME MemTypeOK, NEW w \in Writers, NEW p \in Projects, Load(w, p)
  PROVE  LET e == writer'[w].entry
             c == writer'[w].content
         IN  /\ e \in Entries /\ e.project = p /\ e # Header
             /\ writer' = [writer EXCEPT ![w] = [step |-> "open", entry |-> e, content |-> c]]
             /\ which = "memory" => c = Pruned(Append(Loaded, e), e.project)
             /\ which = "scratchpad" => c = Put(Loaded, e)
             /\ which = "rules" => c = Push(Loaded, e)
             /\ which = "evidence" => c = Formatted(e)
<1> DEFINE new == Entry(p, entries + 1)
           text == CASE which = "memory" -> Pruned(Append(Loaded, new), p)
                     [] which = "scratchpad" -> Put(Loaded, new)
                     [] which = "rules" -> Push(Loaded, new)
                     [] which = "evidence" -> Formatted(new)
<1>1. writer' = [writer EXCEPT ![w] = [step |-> "open", entry |-> new, content |-> text]]
  BY DEF Load
<1>2. new \in Entries /\ new.project = p /\ new # Header
  BY MemoryAssumption DEF MemTypeOK, Entry, Entries, Header
<1>3. /\ which = "memory" => text = Pruned(Append(Loaded, new), p)
      /\ which = "scratchpad" => text = Put(Loaded, new)
      /\ which = "rules" => text = Push(Loaded, new)
      /\ which = "evidence" => text = Formatted(new)
  OBVIOUS
<1> HIDE DEF new, text
<1>4. writer'[w].entry = new /\ writer'[w].content = text
  BY <1>1 DEF MemTypeOK
<1> QED BY <1>1, <1>2, <1>3, <1>4

\* Every step keeps the invariant.
LEMMA LoadKeeps ==
  ASSUME MemIInv, NEW w \in Writers, NEW p \in Projects, Load(w, p)
  PROVE  MemIInv'
<1> DEFINE e == writer'[w].entry
           c == writer'[w].content
<1>1. MemTypeOK
  BY DEF MemIInv
<1>2. /\ e \in Entries /\ e.project = p /\ e # Header
      /\ writer' = [writer EXCEPT ![w] = [step |-> "open", entry |-> e, content |-> c]]
      /\ which = "memory" => c = Pruned(Append(Loaded, e), e.project)
      /\ which = "scratchpad" => c = Put(Loaded, e)
      /\ which = "rules" => c = Push(Loaded, e)
      /\ which = "evidence" => c = Formatted(e)
  BY <1>1, LoadContent
<1>3. /\ UNCHANGED <<which, file, added>> /\ entries' = entries + 1
      /\ disturbed' = (disturbed \/ \E v \in Writers : writer[v].step # "idle")
      /\ writer[w].step = "idle"
  BY DEF Load
<1> HIDE DEF e, c
<1>4. Loaded \in Seq(Entries)
  <2>1. FirstRules \in Seq(Entries)
    BY DEF FirstRules, Entries, Entry
  <2> QED BY <1>1, <2>1 DEF Loaded, MemTypeOK
<1>5. c \in Seq(Entries)
  <2>1. Append(Loaded, e) \in Seq(Entries)
    BY <1>2, <1>4
  <2>2. Pruned(Append(Loaded, e), e.project) \in Seq(Entries)
    BY <2>1, PartsType DEF Pruned
  <2>3. Put(Loaded, e) \in Seq(Entries)
    <3>1. Others(Loaded, e.project) \in Seq(Entries)
      BY <1>4, OthersStay
    <3> QED BY <1>2, <3>1 DEF Put, Others
  <2>4. Push(Loaded, e) \in Seq(Entries)
    BY <2>1 DEF Push
  <2>5. Formatted(e) \in Seq(Entries)
    <3>1. Header \in Entries
      BY DEF Header, Entry, Entries
    <3> QED BY <1>2, <3>1 DEF Formatted
  <2> QED BY <1>1, <1>2, <2>2, <2>3, <2>4, <2>5 DEF MemTypeOK
<1>6. \A v \in Writers : v # w => writer'[v] = writer[v]
  BY <1>1, <1>2 DEF MemTypeOK
<1>7. writer'[w] = [step |-> "open", entry |-> e, content |-> c]
  BY <1>1, <1>2 DEF MemTypeOK
<1>8. MemTypeOK'
  <2>1. writer' \in [Writers -> [step : {"idle", "open", "fill"}, entry : Entries, content : Seq(Entries)]]
    BY <1>1, <1>2, <1>5 DEF MemTypeOK
  <2> QED BY <1>1, <1>2, <1>3, <1>6, <1>7, <2>1 DEF MemTypeOK
<1>9. file' = Missing => added' = <<>> /\ \A v \in Writers : writer'[v].step # "fill"
  BY <1>3, <1>6, <1>7 DEF MemIInv
<1>10. ASSUME which' = "evidence" PROVE HeaderFirst'
  <2>1. HeaderFirst
    BY <1>3, <1>10 DEF MemIInv
  <2>2. c = <<Header, e>> \/ (c = <<e>> /\ file # Missing)
    BY <1>2, <1>3, <1>10 DEF Formatted
  <2>3. ASSUME NEW v \in Writers, writer'[v].step # "idle"
        PROVE  /\ \/ writer'[v].content = <<Header, writer'[v].entry>>
                  \/ writer'[v].content = <<writer'[v].entry>> /\ file # Missing
               /\ writer'[v].entry # Header /\ writer'[v].step = "open"
    <3>1. CASE v = w
      BY <1>2, <1>7, <2>2, <3>1
    <3>2. CASE v # w
      BY <1>6, <2>1, <2>3, <3>2 DEF HeaderFirst
    <3> QED BY <3>1, <3>2
  <2> QED BY <1>3, <2>1, <2>3 DEF HeaderFirst, Recorded, Header
<1>11. ASSUME which' # "evidence", ~disturbed' PROVE Undisturbed'
  <2>1. Undisturbed /\ \A v \in Writers : writer[v].step = "idle"
    BY <1>1, <1>3, <1>11 DEF MemIInv, MemTypeOK
  <2>2. file # Missing => Remembers(which, file, added)
    BY <2>1 DEF Undisturbed
  <2>3. Remembers(which, Loaded, added)
    BY <1>1, <1>3, <1>11, <2>2, LoadedRemembers DEF MemIInv
  <2>4. Remembers(which, c, Append(added, e))
    <3>1. added \in Seq(Entries) /\ e.project \in Projects
      BY <1>1, <1>2 DEF MemTypeOK
    <3>2. CASE which = "memory"
      BY <1>2, <1>4, <2>3, <3>1, <3>2, PrunedRemembers
    <3>3. CASE which = "scratchpad"
      BY <1>2, <1>4, <2>3, <3>1, <3>3, PutRemembers
    <3>4. CASE which = "rules"
      BY <1>2, <1>4, <2>3, <3>1, <3>4, PushRemembers
    <3> QED BY <1>1, <1>3, <1>11, <3>2, <3>3, <3>4 DEF MemTypeOK
  <2>5. \A v \in Writers : v # w => writer'[v].step = "idle"
    BY <1>6, <2>1
  <2> QED BY <1>3, <1>7, <2>2, <2>4, <2>5 DEF Undisturbed
<1> QED BY <1>8, <1>9, <1>10, <1>11 DEF MemIInv

\* Opening the file, which empties it, keeps the invariant.
LEMMA OpenKeeps ==
  ASSUME MemIInv, NEW w \in Writers, OpenFile(w)
  PROVE  MemIInv'
<1>1. MemTypeOK
  BY DEF MemIInv
<1>2. /\ which # "evidence" /\ UNCHANGED <<which, entries, added, disturbed>> /\ file' = <<>>
      /\ writer[w].step = "open" /\ writer' = [writer EXCEPT ![w].step = "fill"]
  BY DEF OpenFile
<1>3. /\ \A v \in Writers : v # w => writer'[v] = writer[v]
      /\ writer'[w].step = "fill" /\ writer'[w].entry = writer[w].entry /\ writer'[w].content = writer[w].content
  BY <1>1, <1>2 DEF MemTypeOK
<1>4. file' # Missing
  <2>1. <<>> \in Seq(Entries)
    OBVIOUS
  <2> QED BY <1>2, <2>1, MemoryAssumption
<1>5. MemTypeOK'
  <2>1. writer' \in [Writers -> [step : {"idle", "open", "fill"}, entry : Entries, content : Seq(Entries)]]
    BY <1>1, <1>2 DEF MemTypeOK
  <2> QED BY <1>1, <1>2, <1>3, <2>1 DEF MemTypeOK
<1>6. ASSUME ~disturbed' PROVE Undisturbed'
  <2>1. Undisturbed
    BY <1>2, <1>6 DEF MemIInv
  <2>2. \A v \in Writers : v # w => writer[v].step = "idle"
    BY <1>2, <2>1 DEF Undisturbed
  <2>3. Remembers(which, writer[w].content, Append(added, writer[w].entry))
    BY <1>2, <2>1 DEF Undisturbed
  <2> QED BY <1>2, <1>3, <2>2, <2>3 DEF Undisturbed
<1> QED BY <1>2, <1>4, <1>5, <1>6 DEF MemIInv

\* Writing the text that was computed keeps it.
LEMMA FillKeeps ==
  ASSUME MemIInv, NEW w \in Writers, FillFile(w)
  PROVE  MemIInv'
<1>1. MemTypeOK
  BY DEF MemIInv
<1>2. /\ UNCHANGED <<which, entries, disturbed>> /\ file' = writer[w].content
      /\ added' = Append(added, writer[w].entry)
      /\ writer[w].step = "fill" /\ writer' = [writer EXCEPT ![w] = Idle]
  BY DEF FillFile, Ended
<1>3. (\A v \in Writers : v # w => writer'[v] = writer[v]) /\ writer'[w].step = "idle"
  BY <1>1, <1>2 DEF MemTypeOK, Idle
<1>4. which # "evidence" /\ file' # Missing
  BY <1>1, <1>2, MemoryAssumption DEF MemTypeOK, MemIInv, HeaderFirst
<1>5. MemTypeOK'
  <2>1. Idle \in [step : {"idle", "open", "fill"}, entry : Entries, content : Seq(Entries)]
    BY DEF Idle, Entry, Entries
  <2>2. writer' \in [Writers -> [step : {"idle", "open", "fill"}, entry : Entries, content : Seq(Entries)]]
    BY <1>1, <1>2, <2>1 DEF MemTypeOK
  <2> QED BY <1>1, <1>2, <1>3, <2>2 DEF MemTypeOK
<1>6. ASSUME ~disturbed' PROVE Undisturbed'
  <2>1. Undisturbed
    BY <1>2, <1>4, <1>6 DEF MemIInv
  <2>2. \A v \in Writers : writer'[v].step = "idle"
    BY <1>2, <1>3, <2>1 DEF Undisturbed
  <2>3. Remembers(which, writer[w].content, Append(added, writer[w].entry))
    BY <1>2, <2>1 DEF Undisturbed
  <2> QED BY <1>2, <2>2, <2>3 DEF Undisturbed
<1> QED BY <1>2, <1>4, <1>5, <1>6 DEF MemIInv

\* Appending to the file keeps it.
LEMMA AppendKeeps ==
  ASSUME MemIInv, NEW w \in Writers, AppendFile(w)
  PROVE  MemIInv'
<1> DEFINE e == writer[w].entry
           c == writer[w].content
           old == IF file = Missing THEN <<>> ELSE file
<1>1. MemTypeOK
  BY DEF MemIInv
<1>2. /\ which = "evidence" /\ UNCHANGED <<which, entries, disturbed>> /\ file' = old \o c
      /\ added' = Append(added, e)
      /\ writer[w].step = "open" /\ writer' = [writer EXCEPT ![w] = Idle]
  BY DEF AppendFile, Ended
<1>3. (\A v \in Writers : v # w => writer'[v] = writer[v]) /\ writer'[w].step = "idle"
  BY <1>1, <1>2 DEF MemTypeOK, Idle
<1>4. HeaderFirst
  BY <1>2 DEF MemIInv
<1>5. /\ e \in Entries /\ e # Header /\ old \in Seq(Entries) /\ Header \in Entries /\ added \in Seq(Entries)
      /\ c = <<Header, e>> \/ (c = <<e>> /\ file # Missing)
  BY <1>1, <1>2, <1>4 DEF MemTypeOK, HeaderFirst, Header, Entry, Entries
<1>6. Recorded(old) = added /\ (old # <<>> => Head(old) = Header) /\ (file # Missing => old # <<>>)
  <2>1. CASE file = Missing
    BY <1>5, <2>1, RecordedAppend DEF MemIInv
  <2>2. CASE file # Missing
    BY <1>4, <2>2 DEF HeaderFirst
  <2> QED BY <2>1, <2>2
<1> HIDE DEF e, c, old
<1>7. file' \in Seq(Entries) /\ file' # <<>> /\ Head(file') = Header /\ Recorded(file') = Append(added, e)
  <2>1. CASE c = <<Header, e>>
    <3> DEFINE more == Append(old, Header)
    <3>1. file' = Append(more, e)
      BY <1>2, <1>5, <2>1
    <3>2. more \in Seq(Entries) /\ more # <<>> /\ Head(more) = Header
      <4>1. Head(more) = IF old = <<>> THEN Header ELSE Head(old)
        BY <1>5, HeadTailAppend
      <4> QED BY <1>5, <1>6, <4>1, AppendProperties
    <3>3. Recorded(more) = added
      BY <1>5, <1>6, RecordedAppend
    <3> HIDE DEF more
    <3>4. Recorded(Append(more, e)) = Append(added, e)
      BY <1>5, <3>2, <3>3, RecordedAppend
    <3>5. Head(Append(more, e)) = Header
      BY <3>2, HeadTailAppend
    <3>6. Append(more, e) \in Seq(Entries) /\ Append(more, e) # <<>>
      BY <1>5, <3>2, AppendProperties
    <3> QED BY <3>1, <3>4, <3>5, <3>6
  <2>2. CASE c = <<e>> /\ file # Missing
    <3>1. file' = Append(old, e)
      BY <1>2, <1>5, <2>2
    <3>2. Recorded(Append(old, e)) = Append(added, e)
      BY <1>5, <1>6, RecordedAppend
    <3> QED BY <1>5, <1>6, <2>2, <3>1, <3>2, HeadTailAppend
  <2> QED BY <1>5, <2>1, <2>2
<1>8. MemTypeOK'
  <2>1. Idle \in [step : {"idle", "open", "fill"}, entry : Entries, content : Seq(Entries)]
    BY DEF Idle, Entry, Entries
  <2>2. writer' \in [Writers -> [step : {"idle", "open", "fill"}, entry : Entries, content : Seq(Entries)]]
    BY <1>1, <1>2, <2>1 DEF MemTypeOK
  <2> QED BY <1>1, <1>2, <1>3, <1>5, <1>7, <2>2 DEF MemTypeOK
<1>9. HeaderFirst'
  <2>1. ASSUME NEW v \in Writers, writer'[v].step # "idle"
        PROVE  /\ writer'[v].content = <<Header, writer'[v].entry>> \/ writer'[v].content = <<writer'[v].entry>>
               /\ writer'[v].entry # Header /\ writer'[v].step = "open"
    BY <1>3, <1>4, <2>1 DEF HeaderFirst
  <2>2. file' # Missing
    BY <1>7, MemoryAssumption
  <2> QED BY <1>2, <1>7, <2>1, <2>2 DEF HeaderFirst, Recorded, Header
<1>10. file' # Missing
  BY <1>7, MemoryAssumption
<1> QED BY <1>2, <1>8, <1>9, <1>10 DEF MemIInv

\* A kill within the write or between two keeps it.
LEMMA KillKeeps ==
  ASSUME MemIInv, NEW w \in Writers, KillWriter(w)
  PROVE  MemIInv'
<1>1. MemTypeOK
  BY DEF MemIInv
<1>2. /\ UNCHANGED <<which, file, entries, added>> /\ disturbed' = (disturbed \/ writer[w].step = "fill")
      /\ writer[w].step # "idle" /\ writer' = [writer EXCEPT ![w] = Idle]
  BY DEF KillWriter
<1>3. (\A v \in Writers : v # w => writer'[v] = writer[v]) /\ writer'[w].step = "idle"
  BY <1>1, <1>2 DEF MemTypeOK, Idle
<1>4. MemTypeOK'
  <2>1. Idle \in [step : {"idle", "open", "fill"}, entry : Entries, content : Seq(Entries)]
    BY DEF Idle, Entry, Entries
  <2>2. writer' \in [Writers -> [step : {"idle", "open", "fill"}, entry : Entries, content : Seq(Entries)]]
    BY <1>1, <1>2, <2>1 DEF MemTypeOK
  <2> QED BY <1>1, <1>2, <1>3, <2>2 DEF MemTypeOK
<1>5. ASSUME which' = "evidence" PROVE HeaderFirst'
  <2>1. HeaderFirst
    BY <1>2, <1>5 DEF MemIInv
  <2> QED BY <1>2, <1>3, <2>1 DEF HeaderFirst, Recorded, Header
<1>6. ASSUME which' # "evidence", ~disturbed' PROVE Undisturbed'
  <2>1. Undisturbed /\ ~\E v \in Writers : writer[v].step = "fill"
    <3>1. Undisturbed /\ writer[w].step # "fill"
      BY <1>1, <1>2, <1>6 DEF MemIInv, MemTypeOK
    <3> QED BY <1>2, <3>1 DEF Undisturbed
  <2> QED BY <1>2, <1>3, <2>1 DEF Undisturbed
<1>7. file' = Missing => added' = <<>> /\ \A v \in Writers : writer'[v].step # "fill"
  BY <1>2, <1>3 DEF MemIInv
<1> QED BY <1>4, <1>5, <1>6, <1>7 DEF MemIInv

\* Every state satisfies the invariant.
THEOREM MemoryInvariant == MemSpec => []MemIInv
<1>1. ASSUME MemIInv, [MemNext]_memVars PROVE MemIInv'
  <2>1. CASE UNCHANGED memVars
    BY <1>1, <2>1 DEF memVars, MemIInv, MemTypeOK, HeaderFirst, Undisturbed
  <2>2. CASE MemNext
    BY <1>1, <2>2, LoadKeeps, OpenKeeps, FillKeeps, AppendKeeps, KillKeeps DEF MemNext
  <2> QED BY <1>1, <2>1, <2>2
<1> QED BY <1>1, MemInitIInv, PTL DEF MemSpec

\* The newest entries are remembered.
THEOREM MemoryRemembers == MemSpec => []NewestRemembered
<1>1. ASSUME MemIInv PROVE NewestRemembered
  <2> DEFINE text == IF file = Missing THEN <<>> ELSE file
  <2>1. CASE which = "evidence"
    <3>1. Recorded(text) = added /\ (text # <<>> => Head(text) = Header)
      <4>1. Recorded(<<>>) = <<>>
        BY SelectedEmpty DEF Recorded
      <4> QED BY <1>1, <2>1, <4>1 DEF MemIInv, HeaderFirst
    <3> QED BY <2>1, <3>1 DEF NewestRemembered, Recorded
  <2>2. CASE which # "evidence" /\ ~disturbed /\ \A w \in Writers : writer[w].step = "idle"
    <3>1. file # Missing => Remembers(which, file, added)
      BY <1>1, <2>2 DEF MemIInv, Undisturbed
    <3>2. file = Missing => added = <<>>
      BY <1>1 DEF MemIInv
    <3>3. ASSUME NEW p \in Projects
          PROVE  Of(text, p) = Latest(Of(added, p), Kept(which, Of(added, p)))
      <4>1. CASE file # Missing
        BY <3>1, <4>1 DEF Remembers
      <4>2. CASE file = Missing
        <5>1. Of(<<>>, p) = <<>>
          BY SelectedEmpty DEF Of
        <5>2. Kept(which, <<>>) \in Nat /\ <<>> \in Seq(Nat) /\ 0 \in Nat
          BY MemoryAssumption DEF Kept
        <5>3. Latest(<<>>, Kept(which, <<>>)) = <<>>
          BY <5>2, LatestAppend
        <5> QED BY <3>2, <4>2, <5>1, <5>3
      <4> QED BY <4>1, <4>2
    <3>4. which = "rules" /\ added # <<>> => Of(text, NoProject) = FirstRules
      BY <3>1, <3>2 DEF Remembers
    <3> QED BY <2>2, <3>3, <3>4 DEF NewestRemembered, Kept
  <2> QED BY <2>1, <2>2 DEF NewestRemembered
<1> QED BY <1>1, MemoryInvariant, PTL

-----------------------------------------------------------------------------
\* ShellBlock: the lines.

\* Marks alternate; a start mark at j has its end mark behind it, or none does.
Alternating(marks) == \A i \in 1..Len(marks) : marks[i] = IF i % 2 = 1 THEN "start" ELSE "end"
Closed(lines, j) == \E e \in (j + 1)..Len(lines) : lines[e] = "end" /\ \A k \in (j + 1)..e : lines[k] # "start"
Unclosed(lines, j) == /\ \A k \in (j + 1)..Len(lines) : lines[k] \notin {"start", "end"}
                      /\ Len(Within(lines, {"start", "end"})) % 2 = 1

\* When start and end markers alternate, a start is closed or the last one.
LEMMA StartsEnd ==
  ASSUME NEW lines \in Seq(Line), Alternating(Within(lines, {"start", "end"}))
  PROVE  \A j \in 1..Len(lines) : lines[j] = "start" => Closed(lines, j) \/ Unclosed(lines, j)
<1> DEFINE M == {"start", "end"}
           Ends(t) == Alternating(Within(t, M))
                      => \A j \in 1..Len(t) : t[j] = "start" => Closed(t, j) \/ Unclosed(t, j)
           Good == {t \in Seq(Line) : Ends(t)}
<1>1. Ends(<<>>)
  OBVIOUS
<1>2. ASSUME NEW t \in Seq(Line), NEW x \in Line, Ends(t) PROVE Ends(Append(t, x))
  <2> DEFINE longer == Append(t, x)
             old == Within(t, M)
             new == Within(longer, M)
  <2>1. longer \in Seq(Line) /\ Len(t) \in Nat /\ Len(longer) = Len(t) + 1 /\ longer[Len(t) + 1] = x
        /\ \A i \in 1..Len(t) : longer[i] = t[i]
    OBVIOUS
  <2>2. old \in Seq(Line)
    BY WithinType
  <2>3. new = (IF x \in M THEN Append(old, x) ELSE old)
    BY WithinAppend
  <2> HIDE DEF longer, old, new
  <2> SUFFICES ASSUME Alternating(new), NEW j \in 1..Len(longer), longer[j] = "start"
               PROVE  Closed(longer, j) \/ Unclosed(longer, j)
    BY DEF Ends, longer, new
  <2>4. Alternating(old)
    <3>1. ASSUME NEW i \in 1..Len(old) PROVE i \in 1..Len(new) /\ new[i] = old[i]
      BY <2>2, <2>3
    <3> QED BY <3>1 DEF Alternating
  <2>5. x \in M => /\ Len(new) = Len(old) + 1 /\ Len(old) \in Nat
                   /\ x = IF (Len(old) + 1) % 2 = 1 THEN "start" ELSE "end"
    <3>1. x \in M => Len(old) + 1 \in 1..Len(new) /\ new[Len(old) + 1] = x /\ Len(new) = Len(old) + 1 /\ Len(old) \in Nat
      BY <2>2, <2>3
    <3> QED BY <3>1 DEF Alternating
  <2>6. CASE j = Len(longer)
    <3>1. x = "start" /\ (j + 1)..Len(longer) = {}
      BY <2>1, <2>6
    <3>2. Len(new) % 2 = 1
      BY <2>5, <3>1
    <3> QED BY <3>1, <3>2 DEF Unclosed, new
  <2>7. CASE j # Len(longer)
    <3>1. j \in 1..Len(t) /\ t[j] = "start"
      BY <2>1, <2>7
    <3>2. CASE Closed(t, j)
      <4>1. PICK e \in (j + 1)..Len(t) : t[e] = "end" /\ \A k \in (j + 1)..e : t[k] # "start"
        BY <3>2 DEF Closed
      <4>2. e \in (j + 1)..Len(longer) /\ longer[e] = "end" /\ \A k \in (j + 1)..e : longer[k] # "start"
        BY <2>1, <3>1, <4>1, SMTT(20)
      <4> QED BY <4>2 DEF Closed
    <3>3. CASE Unclosed(t, j)
      <4>1. (\A k \in (j + 1)..Len(t) : longer[k] \notin M) /\ Len(old) % 2 = 1
        BY <2>1, <3>1, <3>3 DEF Unclosed, old
      <4>2. CASE x \notin M
        <5>1. \A k \in (j + 1)..Len(longer) : longer[k] \notin M
          BY <2>1, <3>1, <4>1, <4>2, SMTT(20)
        <5> QED BY <2>3, <4>1, <4>2, <5>1 DEF Unclosed, new
      <4>3. CASE x \in M
        <5>1. x = "end"
          BY <2>5, <4>1, <4>3
        <5>2. Len(longer) \in (j + 1)..Len(longer) /\ longer[Len(longer)] = "end"
              /\ \A k \in (j + 1)..Len(longer) : longer[k] # "start"
          BY <2>1, <3>1, <4>1, <5>1
        <5> QED BY <5>2 DEF Closed
      <4> QED BY <4>2, <4>3
    <3> QED BY <1>2, <2>4, <3>1, <3>2, <3>3 DEF old
  <2> QED BY <2>6, <2>7
<1> HIDE DEF Ends
<1>3. <<>> \in Good /\ \A t \in Seq(Line), x \in Line : t \in Good => Append(t, x) \in Good
  BY <1>1, <1>2
<1>4. lines \in Good
  <2> HIDE DEF Good
  <2> QED BY <1>3, EverySequence
<1> QED BY <1>4 DEF Ends

\* Between the marks of a file whose marks are in order is the managed line only.
LEMMA BlockPlaces ==
  ASSUME NEW lines \in Seq(Line), WellFormed(lines), Intact(lines)
  PROVE  \A j \in 1..Len(lines) : lines[j] = "start" =>
           j + 2 \in 1..Len(lines) /\ lines[j + 1] = "managed" /\ lines[j + 2] = "end"
<1> SUFFICES ASSUME NEW j \in 1..Len(lines), lines[j] = "start"
             PROVE  j + 2 \in 1..Len(lines) /\ lines[j + 1] = "managed" /\ lines[j + 2] = "end"
  OBVIOUS
<1>1. Len(lines) \in Nat /\ DOMAIN lines = 1..Len(lines)
  OBVIOUS
<1>2. Alternating(Within(lines, {"start", "end"})) /\ ~Unclosed(lines, j)
  BY DEF WellFormed, Alternating, Unclosed
<1>3. PICK e \in (j + 1)..Len(lines) : lines[e] = "end" /\ \A k \in (j + 1)..e : lines[k] # "start"
  BY <1>2, StartsEnd DEF Closed
<1>4. lines[e - 1] = "managed" /\ e - 1 \in 1..Len(lines)
  BY <1>1, <1>3 DEF Intact
<1>5. lines[e - 2] = "start" /\ e - 2 \in 1..Len(lines)
  <2> DEFINE d == e - 1
  <2>1. d \in DOMAIN lines /\ lines[d] = "managed" /\ d - 1 = e - 2
    BY <1>1, <1>4
  <2> HIDE DEF d
  <2>2. d > 1 /\ lines[d - 1] = "start"
    BY <2>1 DEF Intact
  <2> QED BY <1>1, <1>4, <2>1, <2>2
<1>6. e - 2 = j
  BY <1>1, <1>3, <1>4, <1>5
<1> QED BY <1>1, <1>3, <1>4, <1>6

\* A file without marks and managed line.
Clean(lines) == \A i \in DOMAIN lines : lines[i] \notin {"start", "end", "managed"}

\* Outside the marks are the user's lines, and no mark.
LEMMA OutsideKeeps ==
  ASSUME NEW lines \in Seq(Line), WellFormed(lines), Intact(lines)
  PROVE  /\ Outside(lines) \in Seq(Line) /\ UserLines(Outside(lines)) = UserLines(lines)
         /\ Clean(Outside(lines))
<1> DEFINE open(i) == \E j \in 1..i : lines[j] = "start" /\ \A k \in j..i : lines[k] # "end"
           K == {i \in DOMAIN lines : ~open(i) /\ lines[i] # "end"}
<1>1. Len(lines) \in Nat /\ DOMAIN lines = 1..Len(lines)
  OBVIOUS
<1>2. Outside(lines) = Selected(lines, K)
  BY DEF Outside
<1>3. ASSUME NEW i \in 1..Len(lines), lines[i] \in {"user1", "user2"} PROVE i \in K
  <2>1. ASSUME open(i) PROVE FALSE
    <3>1. PICK j \in 1..i : lines[j] = "start" /\ \A k \in j..i : lines[k] # "end"
      BY <2>1
    <3>2. lines[j + 1] = "managed" /\ lines[j + 2] = "end"
      BY <1>1, <3>1, BlockPlaces
    <3>3. i # j /\ i # j + 1
      BY <1>3, <3>1, <3>2
    <3> QED BY <1>1, <3>1, <3>2, <3>3
  <2> QED BY <1>1, <1>3, <2>1
<1>4. ASSUME NEW i \in 1..Len(lines), i \in K PROVE lines[i] \notin {"start", "end", "managed"}
  <2>1. lines[i] # "start"
    BY <1>1, <1>4
  <2>2. ASSUME lines[i] = "managed" PROVE FALSE
    <3> DEFINE j == i - 1
    <3>1. i > 1 /\ lines[j] = "start" /\ j \in 1..i
      <4>1. i \in DOMAIN lines
        BY <1>1
      <4>2. i > 1 /\ lines[i - 1] = "start"
        BY <2>2, <4>1, Zenon DEF Intact
      <4> QED BY <4>2
    <3>2. \A k \in j..i : lines[k] # "end"
      BY <1>1, <2>2, <3>1
    <3> HIDE DEF j
    <3>3. open(i)
      BY <3>1, <3>2
    <3> QED BY <1>4, <3>3
  <2> QED BY <1>4, <2>1, <2>2
<1> HIDE DEF K
<1>5. Outside(lines) \in Seq(Line)
  BY <1>2, SelectedType
<1>6. UserLines(Outside(lines)) = UserLines(lines)
  BY <1>2, <1>3, WithinSelected DEF UserLines
<1>7. Clean(Outside(lines))
  <2>1. \A i \in 1..Len(Outside(lines)) : \E j \in 1..Len(lines) : j \in K /\ Outside(lines)[i] = lines[j]
    BY <1>2, SelectedFrom
  <2> QED BY <1>4, <1>5, <2>1 DEF Clean
<1> QED BY <1>5, <1>6, <1>7

\* A part of a file that does not begin with what belongs behind another line.
LEMMA PartIntact ==
  ASSUME NEW lines \in Seq(Line), Intact(lines), NEW m \in 1..(Len(lines) + 1), NEW n \in 0..Len(lines),
         m \in 1..n => m = 1 \/ lines[m] \notin {"end", "managed"}
  PROVE  SubSeq(lines, m, n) \in Seq(Line) /\ Intact(SubSeq(lines, m, n))
<1> DEFINE part == SubSeq(lines, m, n)
<1>1. Len(lines) \in Nat /\ DOMAIN lines = 1..Len(lines) /\ m \in Int /\ n \in Int
      /\ \A i \in 1..Len(lines) : lines[i] \in Line
  OBVIOUS
<1>2. part \in Seq(Line) /\ Len(part) = (IF m <= n THEN n - m + 1 ELSE 0)
      /\ \A i \in 1..(n - m + 1) : part[i] = lines[m + i - 1]
  <2>1. \A i \in m..n : lines[i] \in Line
    BY <1>1
  <2> QED BY <1>1, <2>1, SubSeqProperties
<1> HIDE DEF part
<1>3. ASSUME NEW i \in 1..Len(part), part[i] \in {"end", "managed"}
      PROVE  i > 1 /\ part[i - 1] = IF part[i] = "end" THEN "managed" ELSE "start"
  <2> DEFINE d == m + i - 1
  <2>1. i \in 1..(n - m + 1) /\ m \in 1..n /\ d \in 1..Len(lines) /\ part[i] = lines[d]
    BY <1>1, <1>2, <1>3
  <2>2. d > 1 /\ lines[d - 1] = IF part[i] = "end" THEN "managed" ELSE "start"
    <3> HIDE DEF d
    <3> QED BY <1>1, <1>3, <2>1 DEF Intact
  <2>3. i # 1
    <3>1. i = 1 => d = m
      BY <2>1
    <3> QED BY <1>3, <2>1, <2>2, <3>1
  <2>4. i - 1 \in 1..(n - m + 1) /\ m + (i - 1) - 1 = d - 1
    BY <1>1, <2>1, <2>3
  <2>5. part[i - 1] = lines[m + (i - 1) - 1]
    BY <1>2, <2>4
  <2> QED BY <2>1, <2>2, <2>3, <2>4, <2>5
<1>4. Intact(part)
  <2>1. ASSUME NEW i \in DOMAIN part
        PROVE  /\ part[i] = "end" => i > 1 /\ part[i - 1] = "managed"
               /\ part[i] = "managed" => i > 1 /\ part[i - 1] = "start"
    <3>1. i \in 1..Len(part)
      BY <1>2, <1>2, LenProperties
    <3> QED BY <1>3, <3>1
  <2> QED BY <2>1 DEF Intact
<1> QED BY <1>2, <1>4 DEF part

\* What is joined from two intact parts is intact.
LEMMA IntactConcat ==
  ASSUME NEW lines \in Seq(Line), NEW more \in Seq(Line), Intact(lines), Intact(more)
  PROVE  lines \o more \in Seq(Line) /\ Intact(lines \o more)
<1> DEFINE all == lines \o more
<1>1. /\ all \in Seq(Line) /\ Len(all) = Len(lines) + Len(more)
      /\ \A i \in 1..(Len(lines) + Len(more)) : all[i] = IF i <= Len(lines) THEN lines[i] ELSE more[i - Len(lines)]
  BY ConcatProperties
<1>2. Len(lines) \in Nat /\ Len(more) \in Nat /\ DOMAIN lines = 1..Len(lines) /\ DOMAIN more = 1..Len(more)
      /\ DOMAIN all = 1..Len(all)
  BY <1>1
<1> HIDE DEF all
<1>3. ASSUME NEW i \in 1..Len(all), all[i] \in {"end", "managed"}
      PROVE  i > 1 /\ all[i - 1] = IF all[i] = "end" THEN "managed" ELSE "start"
  <2>1. CASE i <= Len(lines)
    <3>1. i \in 1..Len(lines) /\ lines[i] = all[i]
      BY <1>1, <1>2, <1>3, <2>1
    <3>2. i > 1 /\ lines[i - 1] = IF all[i] = "end" THEN "managed" ELSE "start"
      BY <1>2, <1>3, <3>1 DEF Intact
    <3> QED BY <1>1, <1>2, <3>1, <3>2
  <2>2. CASE i > Len(lines)
    <3> DEFINE d == i - Len(lines)
    <3>1. d \in 1..Len(more) /\ more[d] = all[i]
      BY <1>1, <1>2, <1>3, <2>2
    <3>2. d > 1 /\ more[d - 1] = IF all[i] = "end" THEN "managed" ELSE "start"
      <4> HIDE DEF d
      <4> QED BY <1>2, <1>3, <3>1 DEF Intact
    <3>3. i - 1 \in 1..(Len(lines) + Len(more)) /\ ~(i - 1 <= Len(lines)) /\ i - 1 - Len(lines) = d - 1
      BY <1>1, <1>2, <3>1, <3>2
    <3> QED BY <1>1, <3>2, <3>3
  <2> QED BY <1>1, <1>2, <2>1, <2>2
<1>4. Intact(all)
  <2>1. ASSUME NEW i \in DOMAIN all
        PROVE  /\ all[i] = "end" => i > 1 /\ all[i - 1] = "managed"
               /\ all[i] = "managed" => i > 1 /\ all[i - 1] = "start"
    <3>1. i \in 1..Len(all)
      BY <1>1, <1>2, LenProperties
    <3> QED BY <1>3, <3>1
  <2> QED BY <2>1 DEF Intact
<1> QED BY <1>1, <1>4 DEF all

\* What rstrip leaves.
LEMMA StrippedIsFront ==
  ASSUME NEW lines \in Seq(Line)
  PROVE  \E n \in 0..Len(lines) :
           Stripped(lines) = SubSeq(lines, 1, n) /\ \A i \in (n + 1)..Len(lines) : lines[i] = "blank"
<1>1. Len(lines) \in Nat /\ Text(lines) \subseteq 1..Len(lines)
  BY DEF Text
<1>2. CASE Text(lines) = {}
  <2>1. SubSeq(lines, 1, 0) = <<>> /\ Stripped(lines) = <<>>
    BY <1>2 DEF Stripped
  <2>2. \A i \in (0 + 1)..Len(lines) : lines[i] = "blank"
    BY <1>1, <1>2 DEF Text
  <2>3. 0 \in 0..Len(lines)
    BY <1>1
  <2> QED BY <2>1, <2>2, <2>3
<1>3. CASE Text(lines) # {}
  <2> DEFINE last == Max(Text(lines))
  <2>1. last \in Text(lines) /\ \A i \in Text(lines) : i <= last
    BY <1>1, <1>3, FirstAndLast
  <2>2. Stripped(lines) = SubSeq(lines, 1, last)
    BY <1>3 DEF Stripped
  <2> HIDE DEF last
  <2>3. last \in 0..Len(lines) /\ \A i \in (last + 1)..Len(lines) : lines[i] = "blank"
    <3>1. last \in 1..Len(lines)
      BY <1>1, <2>1
    <3>2. ASSUME NEW i \in (last + 1)..Len(lines) PROVE lines[i] = "blank"
      <4>1. i \in 1..Len(lines) /\ ~(i <= last)
        BY <1>1, <3>1
      <4>2. i \notin Text(lines)
        BY <2>1, <4>1
      <4> QED BY <4>1, <4>2 DEF Text
    <3> QED BY <3>1, <3>2
  <2> QED BY <2>2, <2>3
<1> QED BY <1>2, <1>3

\* Stripping blank lines at the end loses no line of the user.
LEMMA StrippedKeeps ==
  ASSUME NEW lines \in Seq(Line)
  PROVE  /\ Stripped(lines) \in Seq(Line) /\ UserLines(Stripped(lines)) = UserLines(lines)
         /\ Clean(lines) => Clean(Stripped(lines))
         /\ (\A i \in DOMAIN lines : lines[i] # "source") => \A i \in DOMAIN Stripped(lines) : Stripped(lines)[i] # "source"
<1>1. PICK n \in 0..Len(lines) : Stripped(lines) = SubSeq(lines, 1, n) /\ \A i \in (n + 1)..Len(lines) : lines[i] = "blank"
  BY StrippedIsFront
<1>2. Len(lines) \in Nat /\ DOMAIN lines = 1..Len(lines) /\ \A i \in 1..Len(lines) : lines[i] \in Line
  OBVIOUS
<1>3. SubSeq(lines, 1, n) \in Seq(Line) /\ Len(SubSeq(lines, 1, n)) = n
      /\ \A i \in 1..n : SubSeq(lines, 1, n)[i] = lines[i]
  BY <1>2
<1>4. UserLines(SubSeq(lines, 1, n)) = UserLines(lines)
  <2>1. \A i \in (n + 1)..Len(lines) : lines[i] \notin {"user1", "user2"}
    BY <1>1
  <2> QED BY <2>1, WithinFront DEF UserLines
<1>5. DOMAIN Stripped(lines) = 1..n /\ \A i \in 1..n : i \in 1..Len(lines) /\ Stripped(lines)[i] = lines[i]
  BY <1>1, <1>2, <1>3
<1> QED BY <1>1, <1>2, <1>3, <1>4, <1>5 DEF Clean

\* An appended line is one of the user or changes nothing of his.
LEMMA UserAppend ==
  ASSUME NEW lines \in Seq(Line), NEW x \in Line
  PROVE  /\ x \in {"user1", "user2"} => UserLines(Append(lines, x)) = Append(UserLines(lines), x)
         /\ x \notin {"user1", "user2"} => UserLines(Append(lines, x)) = UserLines(lines)
<1>1. \A V : Within(Append(lines, x), V) = IF x \in V THEN Append(Within(lines, V), x) ELSE Within(lines, V)
  BY WithinAppend
<1> QED BY <1>1, Zenon DEF UserLines

\* Lines without a marker are intact.
LEMMA CleanIntact ==
  ASSUME NEW lines \in Seq(Line), Clean(lines)
  PROVE  Intact(lines)
BY DEF Clean, Intact

\* What install and uninstall make of the file has the user's lines; what
\* uninstall makes of it has nothing else of the scripts.
LEMMA StripKeeps ==
  ASSUME NEW lines \in Seq(Line), WellFormed(lines), Intact(lines)
  PROVE  /\ Stripped(Outside(lines)) \in Seq(Line) /\ Clean(Stripped(Outside(lines)))
         /\ UserLines(Stripped(Outside(lines))) = UserLines(lines)
BY OutsideKeeps, StrippedKeeps

\* Rendering the block keeps the user's lines, and the file is intact.
LEMMA RenderKeeps ==
  ASSUME NEW lines \in Seq(Line), WellFormed(lines), Intact(lines)
  PROVE  Render(lines) \in Seq(Line) /\ Intact(Render(lines)) /\ UserLines(Render(lines)) = UserLines(lines)
<1> DEFINE text == Stripped(Outside(lines))
           before == IF text = <<>> THEN <<>> ELSE Append(text, "blank")
<1>1. text \in Seq(Line) /\ Clean(text) /\ UserLines(text) = UserLines(lines)
  BY StripKeeps
<1>2. Render(lines) = before \o Block
  BY DEF Render
<1> HIDE DEF text
<1>3. before \in Seq(Line) /\ Clean(before) /\ UserLines(before) = UserLines(lines)
  <2>1. CASE text = <<>>
    BY <1>1, <2>1
  <2>2. CASE text # <<>>
    <3>1. "blank" \in Line /\ Append(text, "blank") \in Seq(Line)
      BY <1>1 DEF Line
    <3>2. UserLines(Append(text, "blank")) = UserLines(text)
      BY <1>1, <3>1, UserAppend
    <3>3. Clean(Append(text, "blank"))
      BY <1>1 DEF Clean
    <3> QED BY <1>1, <2>2, <3>1, <3>2, <3>3
  <2> QED BY <2>1, <2>2
<1> HIDE DEF before
<1>4. Block \in Seq(Line) /\ Intact(Block)
  BY DEF Block, Intact, Line
<1>5. Render(lines) \in Seq(Line) /\ Intact(Render(lines))
  BY <1>2, <1>3, <1>4, CleanIntact, IntactConcat
<1>6. UserLines(before \o Block) = UserLines(before)
  <2> DEFINE one == Append(before, "start")
             two == Append(one, "managed")
             three == Append(two, "end")
  <2>1. {"start", "managed", "end"} \subseteq Line
    BY DEF Line
  <2>2. one \in Seq(Line) /\ two \in Seq(Line) /\ three \in Seq(Line)
    BY <1>3, <2>1
  <2>3. before \o Block = three
    BY <1>3 DEF Block
  <2>4. UserLines(three) = UserLines(two)
    BY <2>1, <2>2, UserAppend
  <2>5. UserLines(two) = UserLines(one)
    BY <2>1, <2>2, UserAppend
  <2>6. UserLines(one) = UserLines(before)
    BY <1>3, <2>1, UserAppend
  <2> HIDE DEF one, two, three
  <2> QED BY <2>3, <2>4, <2>5, <2>6
<1> QED BY <1>2, <1>3, <1>5, <1>6

\* What trim leaves, and what the healer makes of the file.
LEMMA TrimmedIntact ==
  ASSUME NEW lines \in Seq(Line), Intact(lines)
  PROVE  Trimmed(lines) \in Seq(Line) /\ Intact(Trimmed(lines))
<1>1. Len(lines) \in Nat /\ Text(lines) \subseteq 1..Len(lines) /\ DOMAIN lines = 1..Len(lines)
  BY DEF Text
<1>2. CASE Text(lines) = {}
  <2>1. Trimmed(lines) = <<>>
    BY <1>2 DEF Trimmed
  <2> QED BY <2>1 DEF Intact
<1>3. CASE Text(lines) # {}
  <2> DEFINE first == Min(Text(lines))
             last == Max(Text(lines))
  <2>1. /\ first \in Text(lines) /\ \A i \in Text(lines) : first <= i
        /\ last \in Text(lines) /\ \A i \in Text(lines) : i <= last
    BY <1>1, <1>3, FirstAndLast
  <2>2. Trimmed(lines) = SubSeq(lines, first, last)
    BY <1>3 DEF Trimmed
  <2> HIDE DEF first, last
  <2>3. first \in 1..(Len(lines) + 1) /\ last \in 0..Len(lines) /\ first \in 1..Len(lines)
    BY <1>1, <2>1
  <2>4. first = 1 \/ lines[first] \notin {"end", "managed"}
    <3> SUFFICES ASSUME lines[first] \in {"end", "managed"} PROVE FALSE
      OBVIOUS
    <3> DEFINE d == first - 1
    <3>1. first > 1 /\ lines[first - 1] \in {"managed", "start"}
      BY <1>1, <2>3 DEF Intact
    <3>2. d \in DOMAIN lines /\ lines[d] # "blank" /\ ~(first <= d)
      BY <1>1, <2>3, <3>1
    <3> HIDE DEF d
    <3> QED BY <2>1, <3>2 DEF Text
  <2> QED BY <2>2, <2>3, <2>4, PartIntact
<1> QED BY <1>2, <1>3

\* The healer leaves an intact file.
LEMMA HealedIntact ==
  ASSUME NEW lines \in Seq(Line), Intact(lines)
  PROVE  Healed(lines) \in Seq(Line) /\ Intact(Healed(lines))
<1> DEFINE at(m) == {i \in DOMAIN lines : lines[i] = m}
           first(m) == IF at(m) = {} THEN Len(lines) + 1 ELSE Min(at(m))
           rest == IF at("END") # {} /\ first("END") > first("BEGIN") THEN SubSeq(lines, first("END") + 1, Len(lines)) ELSE <<>>
           left == IF at("BEGIN") = {} THEN lines ELSE SubSeq(lines, 1, first("BEGIN") - 1) \o rest
           text == Trimmed(left)
           before == IF text = <<>> THEN <<>> ELSE Append(text, "blank")
<1>1. Healed(lines) = before \o <<"BEGIN", "note", "END">>
  BY DEF Healed
<1>2. Len(lines) \in Nat /\ DOMAIN lines = 1..Len(lines)
  OBVIOUS
<1>3. ASSUME NEW m, at(m) # {} PROVE first(m) \in 1..Len(lines) /\ lines[first(m)] = m
  <2>1. at(m) \subseteq 1..Len(lines)
    OBVIOUS
  <2>2. Min(at(m)) \in at(m)
    <3> HIDE DEF at
    <3> QED BY <1>2, <1>3, <2>1, FirstAndLast
  <2>3. first(m) = Min(at(m))
    BY <1>3
  <2> QED BY <1>2, <2>2, <2>3
<1>4. rest \in Seq(Line) /\ Intact(rest)
  <2>1. CASE at("END") # {} /\ first("END") > first("BEGIN")
    <3> DEFINE e == first("END")
    <3>1. e \in 1..Len(lines) /\ lines[e] = "END"
      BY <1>3, <2>1
    <3>2. rest = SubSeq(lines, e + 1, Len(lines))
      BY <2>1
    <3> HIDE DEF e
    <3>3. e + 1 \in 1..Len(lines) => lines[e + 1] \notin {"end", "managed"}
      <4> SUFFICES ASSUME e + 1 \in 1..Len(lines), lines[e + 1] \in {"end", "managed"} PROVE FALSE
        OBVIOUS
      <4> DEFINE d == e + 1
      <4>1. d \in DOMAIN lines /\ d - 1 = e
        BY <1>2, <3>1
      <4>2. lines[d - 1] \in {"managed", "start"}
        <5>1. lines[d] \in {"end", "managed"}
          OBVIOUS
        <5> HIDE DEF d
        <5> QED BY <4>1, <5>1 DEF Intact
      <4> HIDE DEF d
      <4> QED BY <3>1, <4>1, <4>2
    <3>4. e + 1 \in 1..(Len(lines) + 1) /\ Len(lines) \in 0..Len(lines)
          /\ (e + 1 \in (e + 1)..Len(lines) => e + 1 \in 1..Len(lines))
      BY <1>2, <3>1
    <3>5. SubSeq(lines, e + 1, Len(lines)) \in Seq(Line) /\ Intact(SubSeq(lines, e + 1, Len(lines)))
      BY <3>3, <3>4, PartIntact
    <3> QED BY <3>2, <3>5
  <2>2. CASE ~(at("END") # {} /\ first("END") > first("BEGIN"))
    <3>1. rest = <<>>
      BY <2>2
    <3> HIDE DEF rest
    <3> QED BY <3>1 DEF Intact
  <2> QED BY <2>1, <2>2
<1> HIDE DEF rest
<1>5. left \in Seq(Line) /\ Intact(left)
  <2>1. CASE at("BEGIN") = {}
    BY <2>1
  <2>2. CASE at("BEGIN") # {}
    <3> DEFINE b == first("BEGIN")
               front == SubSeq(lines, 1, b - 1)
    <3>1. b \in 1..Len(lines)
      BY <1>3, <2>2
    <3>2. left = front \o rest
      BY <2>2
    <3> HIDE DEF b
    <3>3. b - 1 \in 0..Len(lines) /\ 1 \in 1..(Len(lines) + 1)
      BY <1>2, <3>1
    <3>4. front \in Seq(Line) /\ Intact(front)
      BY <3>3, PartIntact
    <3> HIDE DEF front, left
    <3> QED BY <1>4, <3>2, <3>4, IntactConcat
  <2> QED BY <2>1, <2>2
<1> HIDE DEF left, at
<1>6. text \in Seq(Line) /\ Intact(text)
  BY <1>5, TrimmedIntact
<1> HIDE DEF text
<1>7. before \in Seq(Line) /\ Intact(before)
  <2>1. CASE text = <<>>
    BY <1>6, <2>1
  <2>2. CASE text # <<>>
    <3>1. <<"blank">> \in Seq(Line) /\ Intact(<<"blank">>)
      BY DEF Line, Intact
    <3>2. before = text \o <<"blank">>
      BY <1>6, <2>2
    <3> QED BY <1>6, <3>1, <3>2, IntactConcat
  <2> QED BY <2>1, <2>2
<1> HIDE DEF before
<1>8. <<"BEGIN", "note", "END">> \in Seq(Line) /\ Intact(<<"BEGIN", "note", "END">>)
  BY DEF Line, Intact
<1> QED BY <1>1, <1>7, <1>8, IntactConcat

\* The loader without the scripts' line.
LEMMA WithoutSourceHasNone ==
  ASSUME NEW lines \in Seq(Line)
  PROVE  WithoutSource(lines) \in Seq(Line) /\ \A i \in DOMAIN WithoutSource(lines) : WithoutSource(lines)[i] # "source"
<1> DEFINE K == {i \in DOMAIN lines : lines[i] # "source"}
           others == Selected(lines, K)
<1>1. WithoutSource(lines) = Stripped(others)
  BY DEF WithoutSource
<1>2. others \in Seq(Line) /\ \A i \in 1..Len(others) : \E j \in 1..Len(lines) : j \in K /\ others[i] = lines[j]
  <2> HIDE DEF K
  <2> QED BY SelectedType, SelectedFrom
<1>3. \A i \in DOMAIN others : others[i] # "source"
  <2>1. \A j \in K : lines[j] # "source"
    OBVIOUS
  <2>2. DOMAIN others = 1..Len(others)
    BY <1>2, LenProperties
  <2> HIDE DEF K, others
  <2> QED BY <1>2, <2>1, <2>2
<1> HIDE DEF others
<1> QED BY <1>1, <1>2, <1>3, StrippedKeeps

-----------------------------------------------------------------------------
\* ShellBlock: the invariant.

\* What the state is made of.
Contents == [is : {"kaku", "patched", "half", "halfpatched", "plain", "edited", "empty"}, n : Nat]
Copies == [is : {"kaku", "half", "empty"}, n : Nat]
Manifests == [backup : Copies \cup {NoBackup}, patched : Contents \cup {NoBackup}]
StepsOf == [none |-> {"none"}, heal |-> {"zshenv"},
            install |-> {"own", "zshenv", "loader", "interactive", "manifest"},
            uninstall |-> {"zshenv", "loader", "interactive", "own", "manifest"}]
Jobs == {j \in [kind : DOMAIN StepsOf, step : UNION {StepsOf[k] : k \in DOMAIN StepsOf}, lines : Seq(Line), found : Manifests] :
           j.step \in StepsOf[j.kind] /\ (j.kind = "none" => j = NoJob)}

ShTypeOK ==
  /\ zshenv \in Seq(Line) /\ mine \in Seq(Line) /\ loader \in Seq(Line) /\ zbackups \subseteq Seq(Line)
  /\ interactive \in Contents /\ theirs \in Contents /\ kept \subseteq Copies
  /\ own \in [Range(OwnFiles) -> {"absent", "managed"}]
  /\ manifest \in Manifests /\ job \in Jobs
  /\ said \in {"nothing", "installed", "removed", "raised"}
  /\ lapse \subseteq {"cut", "lost", "unrecorded", "replaced"}

\* The user's lines are in .zshenv or in a backup, and what install and uninstall
\* have computed has them too.
LinesKept ==
  /\ Intact(zshenv) /\ Intact(job.lines)
  /\ job.kind \in {"install", "uninstall"} => UserLines(job.lines) = UserLines(zshenv)
  /\ {"cut", "lost"} \cap lapse = {} => UserLines(zshenv) = UserLines(mine)
  /\ "cut" \in lapse /\ "lost" \notin lapse => \E old \in zbackups : UserLines(old) = UserLines(mine)

\* What uninstall has removed so far.
NoSource == \A i \in DOMAIN loader : loader[i] # "source"
UninstallAt(steps) == job.kind = "uninstall" /\ job.step \in steps
Removed ==
  /\ job.kind = "uninstall" => Clean(job.lines)
  /\ UninstallAt({"loader", "interactive", "own", "manifest"}) => zshenv = job.lines
  /\ UninstallAt({"interactive", "own", "manifest"}) => NoSource
  /\ UninstallAt({"manifest"}) => own["env"] = "absent"
  /\ job.kind # "none" => said = "nothing"
  /\ said = "removed" => Clean(zshenv) /\ NoSource /\ own["env"] = "absent" /\ own["plugin"] = "absent"

\* A manifest that records a backup records that of the present file of Kaku, or that
\* of what a cut write had left of it.
Records(m) ==
  m.backup # NoBackup =>
    /\ m.backup \in kept /\ m.patched.is \in {"patched", "halfpatched", "empty"}
    /\ theirs.is = "kaku" =>
         /\ theirs \in kept
         /\ m.backup = theirs \/ (Damaged(m.backup) /\ Damaged(interactive))

\* The file is as it was left, or there is a backup of it.
FileHeld ==
  \/ interactive = theirs
  \/ /\ theirs.is = "kaku" /\ theirs \in kept
     /\ interactive = patched(theirs.n) \/ Damaged(interactive)

Patched ==
  /\ theirs.is \in {"kaku", "plain", "edited"}
  /\ FileHeld /\ Records(manifest)
  /\ Doing("install", "manifest") =>
       /\ Records(job.found)
       /\ interactive.is = "patched" =>
            /\ job.found.backup # NoBackup
            /\ "unrecorded" \notin lapse => job.found.patched = interactive
  /\ "unrecorded" \notin lapse =>
       /\ interactive.is = "patched" =>
            (manifest.backup # NoBackup /\ manifest.patched = interactive) \/ Doing("install", "manifest")
       /\ UninstallAt({"own", "manifest"}) \/ said = "removed" => interactive.is # "patched"

ShIInv == ShTypeOK /\ LinesKept /\ Removed /\ ("replaced" \notin lapse => Patched)

\* The idle job and the empty manifest have their types.
LEMMA NoJobIsJob == NoManifest \in Manifests /\ NoJob \in Jobs
<1>1. NoManifest \in Manifests
  BY DEF NoManifest, Manifests
<1>2. <<>> \in Seq(Line)
  OBVIOUS
<1> QED BY <1>1, <1>2 DEF NoJob, Jobs, StepsOf

\* The files of the integration itself.
LEMMA OwnFilesAre == Range(OwnFiles) = {"env", "plugin", "codex-harness", "agy"}
  BY DEF OwnFiles, Range

\* Which script takes which step.
LEMMA JobSteps ==
  ASSUME job \in Jobs
  PROVE  /\ job.kind \in {"none", "heal", "install", "uninstall"} /\ (job.kind = "none" <=> job = NoJob)
         /\ job.step = "zshenv" => job.kind \in {"heal", "install", "uninstall"}
         /\ job.step \in {"own", "loader", "interactive", "manifest"} => job.kind \in {"install", "uninstall"}
         /\ job.lines \in Seq(Line) /\ job.found \in Manifests
BY NoJobIsJob DEF Jobs, StepsOf, NoJob

\* A script that takes another of its steps stays a job.
LEMMA JobStays ==
  ASSUME job \in Jobs, NEW s, job.kind # "none", s \in StepsOf[job.kind]
  PROVE  [job EXCEPT !.step = s] \in Jobs
BY DEF Jobs, StepsOf

\* So does an install that has found what to record in the manifest.
LEMMA JobFinds ==
  ASSUME job \in Jobs, job.kind = "install", NEW m \in Manifests
  PROVE  [job EXCEPT !.step = "manifest", !.found = m] \in Jobs
<1> DEFINE j == [job EXCEPT !.step = "manifest", !.found = m]
           Steps == UNION {StepsOf[k] : k \in DOMAIN StepsOf}
           Kinds == DOMAIN StepsOf
<1>1. job \in [kind : Kinds, step : Steps, lines : Seq(Line), found : Manifests] /\ "manifest" \in Steps
  BY DEF Jobs, StepsOf
<1> HIDE DEF Kinds, Steps
<1>2. j.kind = "install" /\ j.step = "manifest" /\ j \in [kind : Kinds, step : Steps, lines : Seq(Line), found : Manifests]
  BY <1>1
<1> HIDE DEF j
<1>3. j.step \in StepsOf[j.kind] /\ j.kind # "none"
  BY <1>2 DEF StepsOf
<1> QED BY <1>2, <1>3 DEF Jobs, j, Steps, Kinds

\* The script that begins has computed its lines.
Begun(k, s, text) == [NoJob EXCEPT !.kind = k, !.step = s, !.lines = text]

\* A script that begins is a job with what it has computed.
LEMMA JobBegins ==
  ASSUME NEW k \in {"install", "uninstall", "heal"}, NEW s \in StepsOf[k], NEW text \in Seq(Line)
  PROVE  /\ Begun(k, s, text) \in Jobs
         /\ Begun(k, s, text).kind = k /\ Begun(k, s, text).step = s /\ Begun(k, s, text).lines = text
<1> DEFINE j == Begun(k, s, text)
           Steps == UNION {StepsOf[x] : x \in DOMAIN StepsOf}
           Kinds == DOMAIN StepsOf
<1>1. NoJob \in [kind : Kinds, step : Steps, lines : Seq(Line), found : Manifests]
  BY NoJobIsJob DEF Jobs
<1>2. k \in Kinds /\ k # "none" /\ s \in Steps
  BY DEF StepsOf
<1> HIDE DEF Kinds, Steps
<1>3. j.kind = k /\ j.step = s /\ j.lines = text /\ j \in [kind : Kinds, step : Steps, lines : Seq(Line), found : Manifests]
  BY <1>1, <1>2 DEF Begun
<1> HIDE DEF j
<1>4. j.step \in StepsOf[j.kind] /\ j.kind # "none"
  BY <1>2, <1>3
<1>5. j \in Jobs
  BY <1>3, <1>4 DEF Jobs, Steps, Kinds
<1> QED BY <1>3, <1>5 DEF j

\* Before the first install the invariant holds.
LEMMA ShInitIInv == ShInit => ShIInv
<1> SUFFICES ASSUME ShInit PROVE ShIInv
  OBVIOUS
<1>1. zshenv \in Seq(Line) /\ mine \in Seq(Line) /\ Intact(zshenv)
  BY ShellAssumption DEF ShInit
<1>2. loader \in Seq(Line)
  <2>1. <<>> \in Seq(Line) /\ <<"user1">> \in Seq(Line)
    BY DEF Line
  <2> QED BY <2>1 DEF ShInit
<1>3. interactive \in Contents /\ theirs \in Contents
  BY DEF ShInit, Contents, kaku, other
<1>4. own \in [Range(OwnFiles) -> {"absent", "managed"}]
  BY DEF ShInit
<1>5. kept \subseteq Copies /\ zbackups \subseteq Seq(Line) /\ manifest \in Manifests /\ job \in Jobs
  BY NoJobIsJob DEF ShInit
<1>6. ShTypeOK
  BY <1>1, <1>2, <1>3, <1>4, <1>5 DEF ShTypeOK, ShInit
<1>7. LinesKept
  BY <1>1 DEF LinesKept, ShInit, NoJob, Intact
<1>8. Removed
  BY DEF Removed, ShInit, NoJob, UninstallAt
<1>9. Patched
  BY DEF Patched, FileHeld, ShInit, NoJob, NoManifest, UninstallAt, Doing, Records, kaku, other
<1> QED BY <1>6, <1>7, <1>8, <1>9 DEF ShIInv

\* What the contents of Kaku's file become when they are patched, or their write is cut.
LEMMA KakuFiles ==
  ASSUME NEW f \in Contents
  PROVE  /\ Curated(f) \in Contents /\ f.n \in Nat
         /\ f.is = "kaku" => Curated(f) = patched(f.n) /\ Curated(f).is = "patched" /\ Curated(f).n = f.n
         /\ f.is = "half" => Curated(f).is = "halfpatched"
         /\ ~Prefixed(f) => Curated(f) = f
         /\ f.is = "patched" => f = patched(f.n)
         /\ f.is = "kaku" => f = kaku(f.n)
         /\ \A c \in CutOf(f) : c \in Contents /\ Damaged(c) /\ (f.is \in {"kaku", "half", "empty"} => c \in Copies)
         /\ Prefixed(f) => f \in Copies
<1>1. f.n \in Nat /\ f.is \in {"kaku", "patched", "half", "halfpatched", "plain", "edited", "empty"} /\ 0 \in Nat
      /\ f = [is |-> f.is, n |-> f.n]
  BY DEF Contents
<1>2. /\ patched(f.n) \in Contents /\ patched(f.n).is = "patched" /\ patched(f.n).n = f.n
      /\ halfpatched(f.n) \in Contents /\ halfpatched(f.n).is = "halfpatched"
      /\ half(f.n) \in Contents /\ half(f.n).is = "half" /\ half(f.n) \in Copies
      /\ other("empty") \in Contents /\ other("empty").is = "empty" /\ other("empty") \in Copies
  BY <1>1 DEF Contents, Copies, patched, half, halfpatched, other
<1>3. /\ Curated(f) \in Contents
      /\ f.is = "kaku" => Curated(f) = patched(f.n)
      /\ f.is = "half" => Curated(f) = halfpatched(f.n)
      /\ ~Prefixed(f) => Curated(f) = f
  BY <1>2 DEF Curated, Prefixed
<1>4. /\ f.is = "patched" => f = patched(f.n)
      /\ f.is = "kaku" => f = kaku(f.n)
      /\ Prefixed(f) => f \in Copies
  BY <1>1 DEF patched, kaku, Copies, Prefixed
<1>5. ASSUME NEW c \in CutOf(f) PROVE c \in Contents /\ Damaged(c) /\ (f.is \in {"kaku", "half", "empty"} => c \in Copies)
  <2>1. \/ c = other("empty") \/ c = half(f.n) \/ (c = halfpatched(f.n) /\ f.is = "patched")
    BY <1>5 DEF CutOf
  <2> QED BY <1>2, <2>1 DEF Damaged
<1> QED BY <1>1, <1>2, <1>3, <1>4, <1>5

\* What is kept in a backup.
LEMMA CopyFiles ==
  ASSUME NEW f \in Copies
  PROVE  /\ f \in Contents /\ f # NoBackup /\ f.is \in {"kaku", "half", "empty"}
         /\ Curated(f).is \in {"patched", "halfpatched", "empty"}
         /\ f.is # "kaku" => Curated(f).is # "patched" /\ Damaged(f)
         /\ f.is = "kaku" => Curated(f).is = "patched"
<1>1. /\ f \in Contents /\ f.is \in {"kaku", "half", "empty"}
      /\ f \in [is : {"kaku", "patched", "half", "halfpatched", "empty"}, n : Nat]
  BY DEF Contents, Copies
<1>2. f # NoBackup
  BY <1>1, ShellAssumption
<1>3. f.is = "empty" => ~Prefixed(f)
  BY DEF Prefixed
<1> QED BY <1>1, <1>2, <1>3, KakuFiles DEF Damaged

\* Every step keeps the type of the state.
LEMMA ShTypeKept == ShIInv /\ [ShNext]_shVars => ShTypeOK'
<1> SUFFICES ASSUME ShIInv, [ShNext]_shVars PROVE ShTypeOK'
  OBVIOUS
<1>0. ShTypeOK /\ Intact(zshenv)
  BY DEF ShIInv, LinesKept
<1>a. job \in Jobs /\ zshenv \in Seq(Line) /\ own \in [Range(OwnFiles) -> {"absent", "managed"}]
  BY <1>0 DEF ShTypeOK
<1>b. ASSUME NEW n PROVE Installed(n) \in [Range(OwnFiles) -> {"absent", "managed"}]
  BY <1>a DEF Installed
<1>1. ASSUME NEW kind \in {"install", "uninstall"}, BeginShell(kind) PROVE ShTypeOK'
  <2>1. job' \in Jobs
    <3>1. CASE Renderable(zshenv)
      <4> DEFINE text == IF kind = "install" THEN Render(zshenv) ELSE Stripped(Outside(zshenv))
                 step == IF kind = "install" THEN "own" ELSE "zshenv"
      <4>1. text \in Seq(Line)
        BY <1>0, <1>a, <3>1, RenderKeeps, StripKeeps DEF Renderable
      <4>2. job' = Begun(kind, step, text)
        BY <1>1, <3>1 DEF BeginShell, Begun
      <4>3. step \in StepsOf[kind]
        BY DEF StepsOf
      <4> HIDE DEF text, step
      <4> QED BY <4>1, <4>2, <4>3, JobBegins
    <3> QED BY <1>1, <1>a, <3>1 DEF BeginShell
  <2> QED BY <1>0, <1>1, <2>1 DEF BeginShell, ShTypeOK, Texts
<1>2. CASE WriteOwn
  <2>1. job' \in Jobs
    <3>1. job.kind # "none" /\ "zshenv" \in StepsOf[job.kind]
      BY <1>2 DEF WriteOwn, Doing, StepsOf
    <3>2. job' = [job EXCEPT !.step = "zshenv"]
      BY <1>2 DEF WriteOwn, Step
    <3> QED BY <1>a, <3>1, <3>2, JobStays
  <2> QED BY <1>0, <1>2, <1>b, <2>1 DEF WriteOwn, ShTypeOK, Past
<1>3. CASE RemoveOwn
  <2>1. job' \in Jobs
    <3>1. job.kind # "none" /\ "manifest" \in StepsOf[job.kind]
      BY <1>3 DEF RemoveOwn, Doing, StepsOf
    <3>2. job' = [job EXCEPT !.step = "manifest"]
      BY <1>3 DEF RemoveOwn, Step
    <3> QED BY <1>a, <3>1, <3>2, JobStays
  <2>2. own' \in [Range(OwnFiles) -> {"absent", "managed"}]
    BY <1>3, <1>a DEF RemoveOwn
  <2> QED BY <1>0, <1>3, <2>1, <2>2 DEF RemoveOwn, ShTypeOK, Past
<1>4. CASE BeginHeal
  <2>1. Healed(zshenv) \in Seq(Line)
    BY <1>0, <1>a, HealedIntact
  <2>2. job' \in Jobs
    BY <1>4, <2>1, NoJobIsJob DEF BeginHeal, Jobs, NoJob, StepsOf
  <2> QED BY <1>0, <1>4, <2>2 DEF BeginHeal, ShTypeOK, Texts
<1>5. CASE WriteZshenv
  <2>1. job.lines \in Seq(Line) /\ job.kind \in {"heal", "install", "uninstall"}
    BY <1>5, <1>a, JobSteps DEF WriteZshenv
  <2>2. job' \in Jobs
    <3>1. CASE job.kind = "heal"
      BY <1>5, <3>1, NoJobIsJob DEF WriteZshenv
    <3>2. CASE job.kind # "heal"
      <4>1. job.kind # "none" /\ "loader" \in StepsOf[job.kind]
        BY <2>1, <3>2 DEF StepsOf
      <4> QED BY <1>5, <1>a, <3>2, <4>1, JobStays DEF WriteZshenv, Step
    <3> QED BY <3>1, <3>2
  <2> QED BY <1>0, <1>5, <2>1, <2>2 DEF WriteZshenv, ShTypeOK, BackedUp
<1>6. CASE WriteLoader
  <2>1. job.kind \in {"install", "uninstall"}
    BY <1>6, <1>a, JobSteps DEF WriteLoader
  <2>2. job' \in Jobs
    <3>1. job.kind # "none" /\ "interactive" \in StepsOf[job.kind]
      BY <2>1 DEF StepsOf
    <3> QED BY <1>6, <1>a, <3>1, JobStays DEF WriteLoader, Step
  <2>3. loader' \in Seq(Line)
    <3>1. WithoutSource(loader) \in Seq(Line) /\ "source" \in Line
      BY <1>0, WithoutSourceHasNone DEF ShTypeOK, Line
    <3> QED BY <1>6, <3>1 DEF WriteLoader
  <2> QED BY <1>0, <1>6, <2>2, <2>3 DEF WriteLoader, ShTypeOK, Past
<1>f. interactive \in Contents /\ manifest \in Manifests /\ kept \subseteq Copies /\ kept \subseteq Contents
  BY <1>0, CopyFiles DEF ShTypeOK
<1>k. Known(interactive) \in Manifests
  <2> DEFINE matches == {b \in kept : Curated(b) = interactive}
             known == Known(interactive)
  <2>1. matches # {} => (CHOOSE b \in matches : TRUE) \in Copies
    BY <1>f
  <2>2. known = (IF manifest.backup \in kept \/ matches = {} THEN manifest
                 ELSE [backup |-> CHOOSE b \in matches : TRUE, patched |-> interactive])
    BY DEF Known
  <2> HIDE DEF matches, known
  <2>3. known \in Manifests
    BY <1>f, <2>1, <2>2 DEF Manifests
  <2> QED BY <2>3 DEF known
<1>n. Prefixed(interactive) => kept \cup NewBackup \subseteq Copies
  BY <1>f, KakuFiles DEF NewBackup
<1>7. CASE PatchInteractive
  <2> DEFINE known == Known(interactive)
             new == [backup |-> IF known.backup = NoBackup THEN interactive ELSE known.backup,
                     patched |-> Curated(interactive)]
  <2>1. CASE Prefixed(interactive)
    <3>1. interactive \in Copies /\ Curated(interactive) \in Contents
      BY <1>f, <2>1, KakuFiles
    <3> HIDE DEF known
    <3>2. new \in Manifests
      <4>1. known \in Manifests
        BY <1>k DEF known
      <4> QED BY <3>1, <4>1 DEF Manifests
    <3>3. job' = [job EXCEPT !.step = "manifest", !.found = new] /\ interactive' = Curated(interactive)
          /\ kept' = kept \cup NewBackup
      BY <1>7, <2>1 DEF PatchInteractive, known
    <3> HIDE DEF new
    <3>4. job' \in Jobs
      BY <1>7, <1>a, <3>2, <3>3, JobFinds DEF PatchInteractive, Doing
    <3> QED BY <1>0, <1>7, <1>n, <2>1, <3>1, <3>3, <3>4 DEF PatchInteractive, ShTypeOK, Past
  <2>2. CASE ~Prefixed(interactive)
    <3>1. job' = [job EXCEPT !.step = "manifest", !.found = known] /\ UNCHANGED <<interactive, kept>>
      BY <1>7, <2>2 DEF PatchInteractive
    <3>2. job' \in Jobs
      BY <1>7, <1>a, <1>k, <3>1, JobFinds DEF PatchInteractive, Doing
    <3> QED BY <1>0, <1>7, <3>1, <3>2 DEF PatchInteractive, ShTypeOK, Past
  <2> QED BY <2>1, <2>2
<1>8. CASE RestoreInteractive
  <2>1. job' \in Jobs
    <3>1. job.kind # "none" /\ "own" \in StepsOf[job.kind]
      BY <1>8 DEF RestoreInteractive, Doing, StepsOf
    <3>2. job' = [job EXCEPT !.step = "own"]
      BY <1>8 DEF RestoreInteractive, Step
    <3> QED BY <1>a, <3>1, <3>2, JobStays
  <2>2. interactive' \in Contents
    BY <1>8, <1>f DEF RestoreInteractive, Restorable
  <2> QED BY <1>0, <1>8, <2>1, <2>2 DEF RestoreInteractive, ShTypeOK, Past
<1>9. CASE EndShell
  <2>1. job.found \in Manifests
    BY <1>a, JobSteps
  <2>2. own' \in [Range(OwnFiles) -> {"absent", "managed"}]
    BY <1>9, <1>a DEF EndShell
  <2> QED BY <1>0, <1>9, <2>1, <2>2, NoJobIsJob DEF EndShell, ShTypeOK
<1>10. CASE KillShell
  <2>0. UNCHANGED <<mine, theirs, shellOps, edits, wrappers>> /\ job' = NoJob /\ said' = "nothing"
    BY <1>10 DEF KillShell
  <2>1. job.lines \in Seq(Line) /\ zbackups \subseteq Seq(Line) /\ loader \in Seq(Line)
    BY <1>0, <1>a, JobSteps DEF ShTypeOK
  <2>2. CASE KillBetween
    <3>1. own' \in [Range(OwnFiles) -> {"absent", "managed"}]
      BY <1>a, <1>b, <2>2 DEF KillBetween
    <3> QED BY <1>0, <2>0, <2>2, <3>1, NoJobIsJob DEF KillBetween, ShTypeOK
  <2>3. CASE CutZshenv
    <3>1. zshenv' \in Seq(Line) /\ zbackups' \subseteq Seq(Line)
      BY <1>a, <2>1, <2>3 DEF CutZshenv, BackedUp
    <3> QED BY <1>0, <2>0, <2>3, <3>1, NoJobIsJob DEF CutZshenv, ShTypeOK
  <2>4. CASE CutLoader
    <3>1. loader' \in Seq(Line)
      <4>1. PICK n \in 0..Len(WithoutSource(loader)) : loader' = SubSeq(WithoutSource(loader), 1, n)
        BY <2>4 DEF CutLoader
      <4>2. WithoutSource(loader) \in Seq(Line)
        BY <2>1, WithoutSourceHasNone
      <4> QED BY <4>1, <4>2
    <3> QED BY <1>0, <2>0, <2>4, <3>1, NoJobIsJob DEF CutLoader, ShTypeOK
  <2>5. CASE CutPatch
    <3>1. interactive' \in Contents
      <4>1. \A c \in CutOf(Curated(interactive)) : c \in Contents
        BY <1>f, KakuFiles
      <4> QED BY <1>f, <2>5, <4>1 DEF CutPatch
    <3>2. kept' \subseteq Copies
      <4>1. Prefixed(interactive) => \A c \in CutOf(interactive) : c \in Copies
        BY <1>f, KakuFiles DEF Prefixed
      <4> QED BY <1>n, <2>5, <4>1 DEF CutPatch
    <3> QED BY <1>0, <2>0, <2>5, <3>1, <3>2, NoJobIsJob DEF CutPatch, ShTypeOK
  <2>6. CASE CutRestore
    <3>1. interactive' \in Contents
      BY <1>f, <2>6, KakuFiles DEF CutRestore, Restorable
    <3> QED BY <1>0, <2>0, <2>6, <3>1, NoJobIsJob DEF CutRestore, ShTypeOK
  <2>7. CASE CutManifest
    BY <1>0, <2>0, <2>7, NoJobIsJob DEF CutManifest, ShTypeOK
  <2> QED BY <1>10, <2>2, <2>3, <2>4, <2>5, <2>6, <2>7 DEF KillShell
<1>11. CASE Edit
  <2>1. mine \in Seq(Line) /\ {"user2", "blank", "start", "BEGIN"} \subseteq Line
    BY <1>0 DEF ShTypeOK, Line
  <2>2. zshenv' \in Seq(Line) /\ mine' \in Seq(Line)
    <3>1. CASE UNCHANGED <<zshenv, mine>>
      BY <1>a, <2>1, <3>1
    <3>2. CASE \E l \in {"user2", "blank", "start", "BEGIN"} : zshenv' = Append(zshenv, l) /\ mine' = Append(mine, l)
      BY <1>a, <2>1, <3>2
    <3> QED BY <1>11, <3>1, <3>2 DEF Edit
  <2>3. interactive' \in Contents /\ theirs' \in Contents
    BY <1>0, <1>11 DEF Edit, ShTypeOK, Contents, other
  <2> QED BY <1>0, <1>11, <2>2, <2>3 DEF Edit, ShTypeOK
<1>12. CASE NewKaku
  <2>1. interactive' \in Contents /\ theirs' \in Contents
    BY <1>0, <1>12 DEF NewKaku, ShTypeOK, Contents, kaku
  <2> QED BY <1>0, <1>12, <2>1 DEF NewKaku, ShTypeOK
<1>13. CASE UNCHANGED shVars
  BY <1>0, <1>13 DEF shVars, ShTypeOK
<1> QED BY <1>1, <1>2, <1>3, <1>4, <1>5, <1>6, <1>7, <1>8, <1>9, <1>10, <1>11, <1>12, <1>13 DEF ShNext

\* A step changes nothing else of the job.
LEMMA JobMoves ==
  ASSUME job \in Jobs, NEW s, Step(s)
  PROVE  job'.kind = job.kind /\ job'.lines = job.lines /\ job'.found = job.found /\ job'.step = s
BY DEF Jobs, Step

\* Every step keeps the user's lines, in the file or in a backup.
LEMMA LinesStay == ShIInv /\ [ShNext]_shVars => LinesKept'
<1> SUFFICES ASSUME ShIInv, [ShNext]_shVars PROVE LinesKept'
  OBVIOUS
<1>0. ShTypeOK /\ LinesKept
  BY DEF ShIInv
<1>a. job \in Jobs /\ zshenv \in Seq(Line) /\ mine \in Seq(Line) /\ job.lines \in Seq(Line) /\ Intact(zshenv) /\ Intact(job.lines)
  BY <1>0, JobSteps DEF ShTypeOK, LinesKept
<1>b. NoJob.kind = "none" /\ Intact(NoJob.lines)
  BY DEF NoJob, Intact
<1>c. (UNCHANGED <<zshenv, zbackups, mine>> /\ job'.lines = job.lines /\ job'.kind = job.kind
       /\ lapse' \cap {"cut", "lost"} = lapse \cap {"cut", "lost"}) => LinesKept'
  BY <1>0 DEF LinesKept
<1>d. (UNCHANGED <<zshenv, zbackups, mine>> /\ job' = NoJob /\ lapse' \cap {"cut", "lost"} = lapse \cap {"cut", "lost"}) => LinesKept'
  BY <1>0, <1>b DEF LinesKept
<1>1. ASSUME NEW kind \in {"install", "uninstall"}, BeginShell(kind) PROVE LinesKept'
  <2>1. UNCHANGED <<zshenv, zbackups, mine, lapse>>
    BY <1>1 DEF BeginShell, Texts
  <2>2. CASE Renderable(zshenv)
    <3> DEFINE text == IF kind = "install" THEN Render(zshenv) ELSE Stripped(Outside(zshenv))
               step == IF kind = "install" THEN "own" ELSE "zshenv"
    <3>1. text \in Seq(Line) /\ Intact(text) /\ UserLines(text) = UserLines(zshenv)
      BY <1>a, <2>2, RenderKeeps, StripKeeps, CleanIntact DEF Renderable
    <3>2. job' = Begun(kind, step, text) /\ step \in StepsOf[kind]
      BY <1>1, <2>2 DEF BeginShell, StepsOf, Begun
    <3> HIDE DEF text, step
    <3>3. job'.lines = text /\ job'.kind = kind
      BY <3>1, <3>2, JobBegins
    <3> QED BY <1>0, <2>1, <3>1, <3>3 DEF LinesKept
  <2>3. CASE ~Renderable(zshenv)
    BY <1>1, <1>c, <2>1, <2>3 DEF BeginShell
  <2> QED BY <2>2, <2>3
<1>2. CASE WriteOwn
  BY <1>2, <1>a, <1>c, JobMoves DEF WriteOwn, Past
<1>3. CASE RemoveOwn
  BY <1>3, <1>a, <1>c, JobMoves DEF RemoveOwn, Past
<1>4. CASE BeginHeal
  <2> DEFINE text == Healed(zshenv)
  <2>1. text \in Seq(Line) /\ Intact(text)
    BY <1>a, HealedIntact
  <2>2. job' = Begun("heal", "zshenv", text) /\ "zshenv" \in StepsOf["heal"]
    BY <1>4 DEF BeginHeal, StepsOf, Begun
  <2> HIDE DEF text
  <2>3. job'.lines = text /\ job'.kind = "heal"
    BY <2>1, <2>2, JobBegins
  <2>4. UNCHANGED <<zshenv, zbackups, mine, lapse>>
    BY <1>4 DEF BeginHeal, Texts
  <2> QED BY <1>0, <2>1, <2>3, <2>4 DEF LinesKept
<1>5. CASE WriteZshenv
  <2>1. zshenv' = job.lines /\ zbackups' = BackedUp /\ mine' = mine
        /\ lapse' = lapse \cup {l \in {"cut"} : job.kind = "heal" /\ UserLines(job.lines) # UserLines(zshenv)}
    BY <1>5 DEF WriteZshenv
  <2>2. CASE job.kind = "heal"
    <3>1. job' = NoJob /\ zbackups' = zbackups \cup {zshenv}
      BY <1>5, <2>1, <2>2 DEF WriteZshenv, BackedUp
    <3> QED BY <1>0, <1>a, <1>b, <2>1, <2>2, <3>1 DEF LinesKept
  <2>3. CASE job.kind # "heal"
    <3>1. job.kind \in {"install", "uninstall"} /\ job'.kind = job.kind /\ job'.lines = job.lines
      BY <1>5, <1>a, <2>3, JobSteps, JobMoves DEF WriteZshenv
    <3>2. zbackups \subseteq zbackups' /\ lapse' = lapse
      BY <2>1, <2>3 DEF BackedUp
    <3> QED BY <1>0, <1>a, <2>1, <3>1, <3>2 DEF LinesKept
  <2> QED BY <2>2, <2>3
<1>6. CASE WriteLoader
  BY <1>6, <1>a, <1>c, JobMoves DEF WriteLoader, Past
<1>7. CASE PatchInteractive
  <2>1. job'.lines = job.lines /\ job'.kind = job.kind
    BY <1>7, <1>a DEF PatchInteractive, Jobs
  <2> QED BY <1>7, <1>c, <2>1 DEF PatchInteractive, Past
<1>8. CASE RestoreInteractive
  BY <1>8, <1>a, <1>c, JobMoves DEF RestoreInteractive, Past
<1>9. CASE EndShell
  BY <1>9, <1>d DEF EndShell
<1>10. CASE KillShell
  <2>1. job' = NoJob /\ mine' = mine
    BY <1>10 DEF KillShell
  <2>2. CASE KillBetween \/ CutLoader \/ CutPatch \/ CutRestore \/ CutManifest
    <3>1. UNCHANGED <<zshenv, zbackups>> /\ lapse' \cap {"cut", "lost"} = lapse \cap {"cut", "lost"}
      BY <2>2 DEF KillBetween, CutLoader, CutPatch, CutRestore, CutManifest
    <3> QED BY <1>d, <2>1, <3>1
  <2>3. CASE CutZshenv
    <3>0. /\ job.step = "zshenv" /\ (\E n \in 0..Len(job.lines) - 1 : zshenv' = SubSeq(job.lines, 1, n))
          /\ zbackups' = BackedUp /\ lapse' = lapse \cup {IF job.kind = "uninstall" THEN "lost" ELSE "cut"}
      BY <2>3 DEF CutZshenv
    <3>1. Intact(zshenv')
      <4>1. PICK n \in 0..Len(job.lines) - 1 : zshenv' = SubSeq(job.lines, 1, n)
        BY <3>0
      <4>2. n \in 0..Len(job.lines) /\ 1 \in 1..(Len(job.lines) + 1)
        BY <1>a
      <4> QED BY <1>a, <4>1, <4>2, PartIntact
    <3>2. CASE job.kind = "uninstall"
      BY <1>b, <2>1, <3>0, <3>1, <3>2 DEF LinesKept
    <3>3. CASE job.kind # "uninstall"
      <4>1. zbackups' = zbackups \cup {zshenv} /\ lapse' = lapse \cup {"cut"}
        BY <3>0, <3>3 DEF BackedUp
      <4> QED BY <1>0, <1>b, <2>1, <3>1, <4>1 DEF LinesKept
    <3> QED BY <3>2, <3>3
  <2> QED BY <1>10, <2>2, <2>3 DEF KillShell
<1>11. CASE Edit
  <2>1. job' = job /\ zbackups' = zbackups /\ lapse' = lapse
    BY <1>11 DEF Edit
  <2>2. CASE UNCHANGED <<zshenv, mine>>
    BY <1>c, <2>1, <2>2
  <2>3. CASE /\ {"cut", "lost"} \cap lapse = {}
             /\ \E l \in {"user2", "blank", "start", "BEGIN"} : zshenv' = Append(zshenv, l) /\ mine' = Append(mine, l)
    <3>1. PICK l \in {"user2", "blank", "start", "BEGIN"} : zshenv' = Append(zshenv, l) /\ mine' = Append(mine, l)
      BY <2>3
    <3>2. l \in Line /\ l \notin {"end", "managed"}
      BY DEF Line
    <3>3. UserLines(zshenv) = UserLines(mine)
      BY <1>0, <2>3 DEF LinesKept
    <3>4. UserLines(Append(zshenv, l)) = UserLines(Append(mine, l))
      BY <1>a, <3>2, <3>3, UserAppend, SMTT(20)
    <3>5. Intact(Append(zshenv, l))
      BY <1>a, <3>2 DEF Intact
    <3>6. job.kind \notin {"install", "uninstall"}
      BY <1>11, <1>b DEF Edit
    <3>7. UserLines(zshenv') = UserLines(mine') /\ Intact(zshenv')
      BY <3>1, <3>4, <3>5
    <3> QED BY <1>0, <2>1, <2>3, <3>6, <3>7 DEF LinesKept
  <2> QED BY <1>11, <2>2, <2>3 DEF Edit
<1>12. CASE NewKaku
  BY <1>12, <1>c DEF NewKaku
<1>13. CASE UNCHANGED shVars
  BY <1>13, <1>c DEF shVars
<1> QED BY <1>1, <1>2, <1>3, <1>4, <1>5, <1>6, <1>7, <1>8, <1>9, <1>10, <1>11, <1>12, <1>13 DEF ShNext

\* Every step keeps what uninstall has removed so far.
LEMMA RemovedStays == ShIInv /\ [ShNext]_shVars => Removed'
<1> SUFFICES ASSUME ShIInv, [ShNext]_shVars PROVE Removed'
  OBVIOUS
<1>0. ShTypeOK /\ LinesKept /\ Removed
  BY DEF ShIInv
<1>a. job \in Jobs /\ zshenv \in Seq(Line) /\ loader \in Seq(Line) /\ job.lines \in Seq(Line) /\ Intact(zshenv)
      /\ own \in [Range(OwnFiles) -> {"absent", "managed"}]
  BY <1>0, JobSteps DEF ShTypeOK, LinesKept
<1>b. NoJob.kind = "none"
  BY DEF NoJob
<1>1. ASSUME NEW kind \in {"install", "uninstall"}, BeginShell(kind) PROVE Removed'
  <2>1. UNCHANGED <<zshenv, loader, own>> /\ job = NoJob /\ said' \in {"nothing", "raised"}
    BY <1>1 DEF BeginShell, Texts
  <2>2. CASE Renderable(zshenv)
    <3> DEFINE text == IF kind = "install" THEN Render(zshenv) ELSE Stripped(Outside(zshenv))
               step == IF kind = "install" THEN "own" ELSE "zshenv"
    <3>1. text \in Seq(Line) /\ (kind = "uninstall" => Clean(text) /\ step = "zshenv")
      BY <1>a, <2>2, RenderKeeps, StripKeeps DEF Renderable
    <3>2. job' = Begun(kind, step, text) /\ step \in StepsOf[kind] /\ said' = "nothing"
      BY <1>1, <2>2 DEF BeginShell, StepsOf, Begun
    <3> HIDE DEF text, step
    <3>3. job'.lines = text /\ job'.kind = kind /\ job'.step = step
      BY <3>1, <3>2, JobBegins
    <3> QED BY <2>1, <3>1, <3>2, <3>3 DEF Removed, UninstallAt
  <2>3. CASE ~Renderable(zshenv)
    <3>1. job' = NoJob
      BY <1>1, <2>1, <2>3 DEF BeginShell
    <3> QED BY <1>b, <2>1, <3>1 DEF Removed, UninstallAt
  <2> QED BY <2>2, <2>3
<1>2. CASE WriteOwn
  <2>1. job.kind = "install" /\ job'.kind = "install" /\ said' = said
    BY <1>2, <1>a, JobMoves DEF WriteOwn, Doing
  <2>2. said' = "nothing"
    BY <1>0, <2>1 DEF Removed
  <2> QED BY <2>1, <2>2 DEF Removed, UninstallAt
<1>3. CASE RemoveOwn
  <2>1. job.kind = "uninstall" /\ job.step = "own" /\ job'.kind = "uninstall" /\ job'.lines = job.lines
        /\ UNCHANGED <<zshenv, loader, said>>
    BY <1>3, <1>a, JobMoves DEF RemoveOwn, Doing
  <2>2. own'["env"] = "absent"
    BY <1>3, OwnFilesAre DEF RemoveOwn
  <2> QED BY <1>0, <2>1, <2>2 DEF Removed, UninstallAt, NoSource
<1>4. CASE BeginHeal
  <2>1. Healed(zshenv) \in Seq(Line)
    BY <1>a, HealedIntact
  <2>2. job' = Begun("heal", "zshenv", Healed(zshenv)) /\ "zshenv" \in StepsOf["heal"]
    BY <1>4 DEF BeginHeal, StepsOf, Begun
  <2>3. job'.kind = "heal"
    BY <2>1, <2>2, JobBegins
  <2> QED BY <1>4, <2>3 DEF BeginHeal, Removed, UninstallAt
<1>5. CASE WriteZshenv
  <2>1. job.kind \in {"heal", "install", "uninstall"} /\ said' = "nothing" /\ zshenv' = job.lines
    BY <1>0, <1>5, <1>a, JobSteps DEF WriteZshenv, Removed
  <2>2. CASE job.kind = "heal"
    BY <1>5, <1>b, <2>1, <2>2 DEF WriteZshenv, Removed, UninstallAt
  <2>3. CASE job.kind # "heal"
    <3>1. job'.kind = job.kind /\ job'.lines = job.lines /\ job'.step = "loader"
      BY <1>5, <1>a, <2>3, JobMoves DEF WriteZshenv
    <3> QED BY <1>0, <2>1, <3>1 DEF Removed, UninstallAt
  <2> QED BY <2>2, <2>3
<1>6. CASE WriteLoader
  <2>1. job.kind \in {"install", "uninstall"} /\ UNCHANGED <<zshenv, said>>
    BY <1>6, <1>a, JobSteps DEF WriteLoader
  <2>2. job'.kind = job.kind /\ job'.lines = job.lines /\ job'.step = "interactive" /\ job.step = "loader"
    BY <1>6, <1>a, JobMoves DEF WriteLoader
  <2>3. said = "nothing"
    BY <1>0, <2>1 DEF Removed
  <2>4. job.kind = "uninstall" => \A i \in DOMAIN loader' : loader'[i] # "source"
    BY <1>6, <1>a, WithoutSourceHasNone DEF WriteLoader
  <2> QED BY <1>0, <2>1, <2>2, <2>3, <2>4 DEF Removed, UninstallAt, NoSource
<1>7. CASE PatchInteractive
  <2>1. job.kind = "install" /\ job'.kind = "install" /\ said' = said
    BY <1>7, <1>a DEF PatchInteractive, Jobs, Doing
  <2>2. said' = "nothing"
    BY <1>0, <2>1 DEF Removed
  <2> QED BY <2>1, <2>2 DEF Removed, UninstallAt
<1>8. CASE RestoreInteractive
  <2>1. job.kind = "uninstall" /\ job.step = "interactive" /\ job'.kind = "uninstall" /\ job'.lines = job.lines
        /\ job'.step = "own" /\ UNCHANGED <<zshenv, loader, said>>
    BY <1>8, <1>a, JobMoves DEF RestoreInteractive, Doing
  <2> QED BY <1>0, <2>1 DEF Removed, UninstallAt, NoSource
<1>9. CASE EndShell
  <2>1. job' = NoJob /\ UNCHANGED <<zshenv, loader>> /\ job.kind \in {"install", "uninstall"}
    BY <1>9, <1>a, JobSteps DEF EndShell
  <2>2. CASE job.kind = "install"
    BY <1>9, <1>b, <2>1, <2>2 DEF EndShell, Removed, UninstallAt
  <2>3. CASE job.kind = "uninstall"
    <3>1. Clean(zshenv) /\ NoSource /\ own["env"] = "absent"
      BY <1>0, <1>9, <2>3 DEF Removed, UninstallAt, EndShell
    <3>2. own'["env"] = "absent" /\ own'["plugin"] = "absent"
      BY <1>9, <1>a, <2>3, <3>1, OwnFilesAre DEF EndShell
    <3>3. Clean(zshenv') /\ NoSource'
      BY <2>1, <3>1 DEF NoSource
    <3> QED BY <1>b, <2>1, <3>2, <3>3 DEF Removed, UninstallAt
  <2> QED BY <2>1, <2>2, <2>3
<1>10. CASE KillShell
  BY <1>10, <1>b DEF KillShell, Removed, UninstallAt
<1>11. CASE Edit
  BY <1>11, <1>b DEF Edit, Removed, UninstallAt
<1>12. CASE NewKaku
  BY <1>12, <1>b DEF NewKaku, Removed, UninstallAt
<1>13. CASE UNCHANGED shVars
  BY <1>0, <1>13 DEF shVars, Removed, UninstallAt, NoSource
<1> QED BY <1>1, <1>2, <1>3, <1>4, <1>5, <1>6, <1>7, <1>8, <1>9, <1>10, <1>11, <1>12, <1>13 DEF ShNext

\* Every step keeps the patched file with its backup and its record.
LEMMA PatchedStays == ShIInv /\ [ShNext]_shVars => ("replaced" \notin lapse' => Patched')
<1> SUFFICES ASSUME ShIInv, [ShNext]_shVars, "replaced" \notin lapse' PROVE Patched'
  OBVIOUS
<1>0. ShTypeOK /\ Removed
  BY DEF ShIInv
<1>a. "replaced" \notin lapse
  BY DEF ShNext, shVars, BeginShell, WriteOwn, RemoveOwn, BeginHeal, WriteZshenv, WriteLoader, PatchInteractive,
         RestoreInteractive, EndShell, KillShell, KillBetween, CutZshenv, CutLoader, CutPatch, CutRestore, CutManifest,
         Edit, NewKaku, Past
<1>b. Patched
  BY <1>a DEF ShIInv
<1>c. /\ job \in Jobs /\ interactive \in Contents /\ theirs \in Contents /\ manifest \in Manifests
      /\ kept \subseteq Copies /\ kept \subseteq Contents /\ NoBackup \notin kept
  BY <1>0, CopyFiles DEF ShTypeOK
<1>d. NoJob.kind = "none"
  BY DEF NoJob
\* What does not touch Kaku's file.
<1>e. ASSUME UNCHANGED <<interactive, theirs, kept, manifest>>, lapse' \cap {"unrecorded"} = lapse \cap {"unrecorded"},
             job'.kind # "install" \/ job'.step # "manifest", job.kind # "install" \/ job.step # "manifest",
             UninstallAt({"own", "manifest"})' \/ said' = "removed" => UninstallAt({"own", "manifest"}) \/ said = "removed"
      PROVE  Patched'
  BY <1>b, <1>e DEF Patched, FileHeld, Records, Doing, UninstallAt
\* Which file is patched, and what is known of it.
<1>f. ASSUME Prefixed(interactive)
      PROVE  /\ Known(interactive) = manifest /\ theirs.is = "kaku" /\ theirs \in kept \cup NewBackup
             /\ (interactive.is = "kaku" /\ interactive = theirs) \/ (interactive.is = "half" /\ Damaged(interactive))
             /\ manifest.backup # NoBackup => manifest.backup = theirs \/ (Damaged(manifest.backup) /\ interactive.is = "half")
  <2>1. Known(interactive) = manifest
    <3> DEFINE matches == {b \in kept : Curated(b) = interactive}
    <3>1. matches = {}
      <4>1. \A b \in kept : Curated(b).is \notin {"kaku", "half"}
        BY <1>c, CopyFiles
      <4> QED BY <1>f, <4>1 DEF Prefixed
    <3> QED BY <3>1 DEF Known
  <2>2. CASE interactive.is = "kaku"
    <3>1. ~Damaged(interactive) /\ interactive # patched(theirs.n)
      BY <2>2 DEF Damaged, patched
    <3>2. interactive = theirs
      BY <1>b, <3>1 DEF Patched, FileHeld
    <3>3. manifest.backup # NoBackup => manifest.backup = theirs /\ theirs \in kept
      BY <1>b, <2>2, <3>1, <3>2 DEF Patched, Records
    <3> QED BY <2>1, <2>2, <3>2, <3>3 DEF NewBackup
  <2>3. CASE interactive.is = "half"
    <3>1. Damaged(interactive) /\ interactive # theirs
      BY <1>b, <2>3 DEF Damaged, Patched
    <3>2. theirs.is = "kaku" /\ theirs \in kept
      BY <1>b, <3>1 DEF Patched, FileHeld
    <3> QED BY <1>b, <2>1, <2>3, <3>1, <3>2 DEF Patched, Records
  <2> QED BY <1>f, <2>2, <2>3 DEF Prefixed
\* What is left of the patch of the file, or of the file, when its write is cut.
<1>g. ASSUME theirs' = theirs, theirs.is = "kaku", theirs \in kept', kept \subseteq kept', manifest' = manifest, Damaged(interactive'),
             job' = NoJob, said' = "nothing",
             manifest.backup # NoBackup => manifest.backup = theirs \/ Damaged(manifest.backup)
      PROVE  Patched'
  <2>1. interactive'.is # "patched"
    BY <1>g DEF Damaged
  <2>2. FileHeld' /\ Records(manifest)'
    BY <1>b, <1>g DEF Patched, FileHeld, Records
  <2> QED BY <1>b, <1>d, <1>g, <2>1, <2>2 DEF Patched, Doing, UninstallAt
<1>1. ASSUME NEW kind \in {"install", "uninstall"}, BeginShell(kind) PROVE Patched'
  <2>1. UNCHANGED <<interactive, theirs, kept, manifest, lapse>> /\ said' # "removed" /\ job = NoJob
    BY <1>1 DEF BeginShell, Texts
  <2>2. job'.kind = "none" \/ (job'.step = "own" /\ job'.kind = "install") \/ (job'.step = "zshenv" /\ job'.kind = "uninstall")
    BY <1>1, <1>d, <2>1 DEF BeginShell, NoJob
  <2> QED BY <1>d, <1>e, <2>1, <2>2 DEF UninstallAt
<1>2. CASE WriteOwn
  BY <1>2, <1>c, <1>e, JobMoves DEF WriteOwn, Doing, Past, UninstallAt
<1>3. CASE RemoveOwn
  BY <1>3, <1>c, <1>e, JobMoves DEF RemoveOwn, Doing, Past, UninstallAt
<1>4. CASE BeginHeal
  <2>1. UNCHANGED <<interactive, theirs, kept, manifest, lapse>> /\ said' # "removed" /\ job = NoJob /\ job'.kind = "heal"
    BY <1>4 DEF BeginHeal, Texts, NoJob
  <2> QED BY <1>d, <1>e, <2>1 DEF UninstallAt
<1>5. CASE WriteZshenv
  <2>1. UNCHANGED <<interactive, theirs, kept, manifest, said>> /\ job.step = "zshenv"
        /\ lapse' \cap {"unrecorded"} = lapse \cap {"unrecorded"}
    BY <1>5 DEF WriteZshenv
  <2>2. job'.kind = "none" \/ job'.step = "loader"
    BY <1>5, <1>c, <1>d, JobMoves DEF WriteZshenv
  <2> QED BY <1>e, <2>1, <2>2 DEF UninstallAt
<1>6. CASE WriteLoader
  BY <1>6, <1>c, <1>e, JobMoves DEF WriteLoader, Past, UninstallAt
<1>7. CASE PatchInteractive
  <2>1. UNCHANGED <<theirs, manifest, lapse, said>> /\ job.kind = "install" /\ job.step = "interactive" /\ said = "nothing"
    BY <1>0, <1>7 DEF PatchInteractive, Past, Doing, Removed
  <2>2. CASE Prefixed(interactive)
    <3> DEFINE backup == IF manifest.backup = NoBackup THEN interactive ELSE manifest.backup
               new == [backup |-> backup, patched |-> Curated(interactive)]
    <3>1. /\ job' = [job EXCEPT !.step = "manifest", !.found = new]
          /\ interactive' = Curated(interactive) /\ kept' = kept \cup NewBackup
      BY <1>7, <1>f, <2>2 DEF PatchInteractive
    <3>2. /\ backup \in kept' /\ backup # NoBackup
          /\ backup = theirs \/ (Damaged(backup) /\ interactive.is = "half")
      <4>1. CASE manifest.backup = NoBackup
        <5>1. interactive \in kept' /\ interactive # NoBackup
          BY <1>c, <1>f, <2>2, <3>1, <4>1, KakuFiles, CopyFiles DEF NewBackup
        <5> QED BY <1>f, <2>2, <4>1, <5>1
      <4>2. CASE manifest.backup # NoBackup
        BY <1>b, <1>f, <2>2, <3>1, <4>2 DEF Patched, Records
      <4> QED BY <4>1, <4>2
    <3> HIDE DEF backup
    <3>3. job'.kind = "install" /\ job'.step = "manifest" /\ job'.found.backup = backup /\ job'.found.patched = interactive'
      BY <1>c, <2>1, <3>1 DEF Jobs
    <3>4. /\ interactive'.is \in {"patched", "halfpatched"}
          /\ interactive.is = "kaku" => interactive' = patched(theirs.n)
          /\ interactive.is = "half" => Damaged(interactive')
      BY <1>c, <1>f, <2>2, <3>1, KakuFiles DEF Prefixed, Damaged
    <3>5. theirs \in kept' /\ theirs.is = "kaku"
      BY <1>f, <2>2, <3>1
    <3>6. FileHeld'
      BY <1>f, <2>1, <2>2, <3>4, <3>5 DEF FileHeld
    <3>7. Records(manifest)'
      BY <1>b, <1>f, <2>1, <2>2, <3>1, <3>4, <3>5 DEF Patched, Records
    <3>8. Records(job.found)'
      BY <2>1, <3>2, <3>3, <3>4, <3>5 DEF Records
    <3> QED BY <1>b, <2>1, <3>2, <3>3, <3>6, <3>7, <3>8 DEF Patched, Doing, UninstallAt
  <2>3. CASE ~Prefixed(interactive)
    <3> DEFINE known == Known(interactive)
               matches == {b \in kept : Curated(b) = interactive}
    <3>1. job' = [job EXCEPT !.step = "manifest", !.found = known] /\ interactive' = interactive /\ kept' = kept
      BY <1>7, <2>3 DEF PatchInteractive
    <3>2. known = (IF manifest.backup \in kept \/ matches = {} THEN manifest
                   ELSE [backup |-> CHOOSE b \in matches : TRUE, patched |-> interactive])
      BY DEF Known
    <3>3. ASSUME interactive.is = "patched"
          PROVE  theirs.is = "kaku" /\ interactive = patched(theirs.n) /\ theirs \in kept /\ theirs \in matches
      <4>1. theirs.is = "kaku" /\ interactive = patched(theirs.n) /\ theirs \in kept
        BY <1>b, <3>3 DEF Patched, FileHeld, Damaged
      <4> QED BY <1>c, <4>1, KakuFiles
    <3>4. ASSUME NEW b \in matches
          PROVE  /\ b \in kept /\ b # NoBackup /\ interactive.is \in {"patched", "halfpatched", "empty"}
                 /\ theirs.is = "kaku" /\ theirs \in kept
                 /\ b = theirs \/ (Damaged(b) /\ Damaged(interactive))
      <4>1. b \in kept /\ b \in Copies /\ Curated(b) = interactive
        BY <1>c
      <4>2. b # NoBackup /\ interactive.is \in {"patched", "halfpatched", "empty"}
            /\ (b.is = "kaku" => Curated(b) = patched(b.n) /\ b = kaku(b.n)) /\ (b.is # "kaku" => Damaged(b) /\ interactive.is # "patched")
            /\ (b.is = "kaku" => interactive.is = "patched")
        BY <1>c, <4>1, CopyFiles, KakuFiles
      <4>3. theirs.is = "kaku" /\ theirs \in kept
        BY <1>b, <4>2 DEF Patched, FileHeld
      <4>4. CASE b.is = "kaku"
        <5>1. patched(b.n) = patched(theirs.n) /\ b = kaku(b.n) /\ theirs = kaku(theirs.n)
          BY <1>c, <3>3, <4>1, <4>2, <4>3, <4>4, KakuFiles
        <5>2. b.n = theirs.n
          BY <5>1 DEF patched
        <5> QED BY <4>1, <4>2, <4>3, <5>1, <5>2
      <4>5. CASE b.is # "kaku"
        BY <4>1, <4>2, <4>3, <4>5 DEF Damaged
      <4> QED BY <4>4, <4>5
    <3> HIDE DEF known, matches
    <3>5. CASE manifest.backup \in kept \/ matches = {}
      <4>1. known = manifest
        BY <3>2, <3>5
      <4>2. interactive.is = "patched" => known.backup # NoBackup
        BY <1>c, <3>3, <3>5, <4>1
      <4>3. interactive.is = "patched" /\ "unrecorded" \notin lapse => known.patched = interactive
        BY <1>b, <2>1, <4>1 DEF Patched, Doing
      <4>4. Records(known)
        BY <1>b, <4>1 DEF Patched
      <4>5. job'.kind = "install" /\ job'.step = "manifest" /\ job'.found = known
        BY <1>c, <2>1, <3>1 DEF Jobs
      <4>6. Records(manifest)' /\ Records(job.found)' /\ FileHeld'
        BY <1>b, <2>1, <3>1, <4>4, <4>5 DEF Patched, Records, FileHeld
      <4> QED BY <1>b, <2>1, <3>1, <4>2, <4>3, <4>5, <4>6 DEF Patched, Doing, UninstallAt
    <3>6. CASE ~(manifest.backup \in kept \/ matches = {})
      <4> DEFINE b == CHOOSE b \in matches : TRUE
      <4>1. b \in matches
        BY <3>6
      <4>2. known.backup = b /\ known.patched = interactive
        BY <3>2, <3>6
      <4> HIDE DEF b
      <4>4. Records(known) /\ known.backup # NoBackup
        BY <3>4, <4>1, <4>2 DEF Records
      <4>5. job'.kind = "install" /\ job'.step = "manifest" /\ job'.found = known
        BY <1>c, <2>1, <3>1 DEF Jobs
      <4>6. Records(manifest)' /\ Records(job.found)' /\ FileHeld'
        BY <1>b, <2>1, <3>1, <4>4, <4>5 DEF Patched, Records, FileHeld
      <4> QED BY <1>b, <2>1, <3>1, <4>2, <4>4, <4>5, <4>6 DEF Patched, Doing, UninstallAt
    <3> QED BY <3>5, <3>6
  <2> QED BY <2>2, <2>3
<1>8. CASE RestoreInteractive
  <2>1. UNCHANGED <<theirs, manifest, kept, lapse, said>> /\ job.kind = "uninstall" /\ job.step = "interactive" /\ said = "nothing"
    BY <1>0, <1>8 DEF RestoreInteractive, Past, Doing, Removed
  <2>2. job'.kind = "uninstall" /\ job'.step = "own"
    BY <1>8, <1>c, JobMoves DEF RestoreInteractive, Doing
  <2>3. interactive'.is # "patched" \/ "unrecorded" \in lapse
    <3>1. CASE Restorable
      <4>1. interactive' \in Copies
        BY <1>8, <1>c, <3>1 DEF RestoreInteractive, Restorable
      <4> QED BY <4>1, CopyFiles
    <3>2. CASE ~Restorable
      <4>1. interactive' = interactive
        BY <1>8, <3>2 DEF RestoreInteractive
      <4>2. ASSUME interactive.is = "patched", "unrecorded" \notin lapse PROVE FALSE
        <5>1. manifest.backup # NoBackup /\ manifest.patched = interactive
          BY <1>b, <2>1, <4>2 DEF Patched, Doing
        <5>2. manifest.backup \in kept
          BY <1>b, <5>1 DEF Patched, Records
        <5> QED BY <3>2, <5>1, <5>2 DEF Restorable
      <4> QED BY <4>1, <4>2
    <3> QED BY <3>1, <3>2
  <2>4. FileHeld' /\ Records(manifest)'
    <3>1. CASE Restorable
      <4>1. manifest.backup \in kept /\ manifest.backup # NoBackup /\ manifest.patched = interactive /\ interactive' = manifest.backup
        BY <1>8, <1>c, <3>1 DEF RestoreInteractive, Restorable
      <4>2. interactive # theirs
        BY <1>b, <4>1 DEF Patched, Records
      <4>3. theirs.is = "kaku" /\ theirs \in kept
        BY <1>b, <4>2 DEF Patched, FileHeld
      <4>4. manifest.backup = theirs \/ Damaged(manifest.backup)
        BY <1>b, <4>1, <4>3 DEF Patched, Records
      <4> QED BY <1>b, <2>1, <4>1, <4>3, <4>4 DEF Patched, Records, FileHeld
    <3>2. CASE ~Restorable
      <4>1. interactive' = interactive
        BY <1>8, <3>2 DEF RestoreInteractive
      <4> QED BY <1>b, <2>1, <4>1 DEF Patched, Records, FileHeld
    <3> QED BY <3>1, <3>2
  <2> QED BY <1>b, <2>1, <2>2, <2>3, <2>4 DEF Patched, Doing, UninstallAt
<1>9. CASE EndShell
  <2>1. UNCHANGED <<interactive, theirs, kept>> /\ job' = NoJob /\ job.kind \in {"install", "uninstall"} /\ job.step = "manifest"
    BY <1>9, <1>c, JobSteps DEF EndShell
  <2>2. CASE job.kind = "install"
    <3>1. manifest' = job.found /\ said' = "installed"
          /\ lapse' = lapse \ {l \in {"unrecorded"} : job.found.backup = NoBackup \/ job.found.patched = interactive}
      BY <1>9, <2>2 DEF EndShell
    <3>2. Records(manifest)' /\ FileHeld'
      BY <1>b, <2>1, <2>2, <3>1 DEF Patched, Doing, Records, FileHeld
    <3>3. "unrecorded" \notin lapse' /\ interactive.is = "patched" => job.found.backup # NoBackup /\ job.found.patched = interactive
      BY <1>b, <2>1, <2>2, <3>1 DEF Patched, Doing
    <3> QED BY <1>b, <1>d, <2>1, <3>1, <3>2, <3>3 DEF Patched, Doing, UninstallAt
  <2>3. CASE job.kind = "uninstall"
    <3>1. manifest' = NoManifest /\ said' = "removed" /\ lapse' = lapse
      BY <1>9, <2>3 DEF EndShell
    <3>2. Records(manifest)' /\ FileHeld'
      BY <1>b, <2>1, <3>1 DEF Patched, FileHeld, Records, NoManifest
    <3>3. "unrecorded" \notin lapse => interactive.is # "patched"
      BY <1>b, <2>1, <2>3 DEF Patched, UninstallAt
    <3> QED BY <1>b, <1>d, <2>1, <3>1, <3>2, <3>3 DEF Patched, Doing, UninstallAt
  <2> QED BY <2>1, <2>2, <2>3
<1>10. CASE KillShell
  <2>1. theirs' = theirs /\ job' = NoJob /\ said' = "nothing"
    BY <1>10 DEF KillShell
  <2>2. CASE KillBetween \/ CutZshenv \/ CutLoader
    <3>1. UNCHANGED <<interactive, kept, manifest>> /\ lapse \subseteq lapse'
          /\ (Doing("install", "manifest") /\ job.found # manifest => "unrecorded" \in lapse')
      BY <2>2 DEF KillBetween, CutZshenv, CutLoader, Doing
    <3>2. Records(manifest)' /\ FileHeld'
      BY <1>b, <2>1, <3>1 DEF Patched, Records, FileHeld
    <3>3. "unrecorded" \notin lapse' /\ interactive.is = "patched" => manifest.backup # NoBackup /\ manifest.patched = interactive
      BY <1>b, <3>1 DEF Patched
    <3> QED BY <1>b, <1>d, <2>1, <3>1, <3>2, <3>3 DEF Patched, Doing, UninstallAt
  <2>3. CASE CutPatch
    <3>1. Prefixed(interactive) /\ UNCHANGED <<manifest, lapse>> /\ job.step = "interactive"
      BY <2>3 DEF CutPatch, Doing
    <3>2. CASE UNCHANGED interactive /\ \E c \in CutOf(interactive) \cup NewBackup : kept' = kept \cup {c}
      <4>1. kept \subseteq kept' /\ interactive.is # "patched"
        BY <3>1, <3>2 DEF Prefixed
      <4>2. Records(manifest)' /\ FileHeld'
        BY <1>b, <2>1, <3>1, <3>2, <4>1 DEF Patched, Records, FileHeld
      <4> QED BY <1>b, <1>d, <2>1, <3>1, <3>2, <4>1, <4>2 DEF Patched, Doing, UninstallAt
    <3>3. CASE kept' = kept \cup NewBackup /\ interactive' \in CutOf(Curated(interactive))
      <4>1. Damaged(interactive')
        BY <1>c, <3>3, KakuFiles
      <4>2. theirs.is = "kaku" /\ theirs \in kept'
            /\ (manifest.backup # NoBackup => manifest.backup = theirs \/ Damaged(manifest.backup))
        BY <1>f, <3>1, <3>3
      <4> QED BY <1>g, <2>1, <3>1, <3>3, <4>1, <4>2
    <3> QED BY <2>3, <3>2, <3>3 DEF CutPatch
  <2>4. CASE CutRestore
    <3>1. Restorable /\ interactive' \in CutOf(manifest.backup) /\ UNCHANGED <<kept, manifest>>
      BY <2>4 DEF CutRestore
    <3>2. manifest.backup \in kept /\ manifest.backup # NoBackup /\ manifest.patched = interactive /\ manifest.backup \in Contents
      BY <1>c, <3>1 DEF Restorable
    <3>3. Damaged(interactive')
      BY <3>1, <3>2, KakuFiles
    <3>4. interactive # theirs
      BY <1>b, <3>2 DEF Patched, Records
    <3>5. theirs.is = "kaku" /\ theirs \in kept
      BY <1>b, <3>4 DEF Patched, FileHeld
    <3>6. manifest.backup = theirs \/ Damaged(manifest.backup)
      BY <1>b, <3>2, <3>5 DEF Patched, Records
    <3> QED BY <1>g, <2>1, <3>1, <3>3, <3>5, <3>6
  <2>5. CASE CutManifest
    <3>1. UNCHANGED <<interactive, kept>> /\ manifest' = NoManifest /\ Doing("install", "manifest")
          /\ lapse' = lapse \cup {l \in {"unrecorded"} : job.found # NoManifest}
      BY <2>5 DEF CutManifest
    <3>2. Records(manifest)' /\ FileHeld'
      BY <1>b, <2>1, <3>1 DEF Patched, FileHeld, Records, NoManifest
    <3>3. interactive.is = "patched" => "unrecorded" \in lapse'
      <4>1. interactive.is = "patched" => job.found.backup # NoBackup
        BY <1>b, <3>1 DEF Patched
      <4>2. NoManifest.backup = NoBackup
        BY DEF NoManifest
      <4> QED BY <3>1, <4>1, <4>2
    <3> QED BY <1>b, <1>d, <2>1, <3>1, <3>2, <3>3 DEF Patched, Doing, UninstallAt
  <2> QED BY <1>10, <2>2, <2>3, <2>4, <2>5 DEF KillShell
<1>11. CASE Edit
  <2>1. UNCHANGED <<kept, manifest, job, lapse>> /\ job = NoJob /\ said' = "nothing"
    BY <1>11 DEF Edit
  <2>2. CASE UNCHANGED <<interactive, theirs>>
    BY <1>d, <1>e, <2>1, <2>2 DEF UninstallAt
  <2>3. CASE interactive' = other("edited") /\ theirs' = interactive'
    <3>1. interactive'.is = "edited" /\ theirs'.is = "edited" /\ theirs' = interactive'
      BY <2>3 DEF other
    <3>2. Records(manifest)' /\ FileHeld'
      BY <1>b, <2>1, <3>1 DEF Patched, FileHeld, Records
    <3> QED BY <1>d, <2>1, <3>1, <3>2 DEF Patched, Doing, UninstallAt
  <2> QED BY <1>11, <2>2, <2>3 DEF Edit
<1>12. CASE NewKaku
  <2>1. UNCHANGED <<kept, manifest, job>> /\ job = NoJob /\ said' = "nothing" /\ theirs' = interactive'
        /\ interactive' = kaku(theirs.n + 1) /\ manifest.backup = NoBackup
    BY <1>12 DEF NewKaku
  <2>2. interactive'.is = "kaku"
    BY <2>1 DEF kaku
  <2>3. Records(manifest)' /\ FileHeld'
    BY <2>1 DEF Records, FileHeld
  <2> QED BY <1>d, <2>1, <2>2, <2>3 DEF Patched, Doing, UninstallAt
<1>13. CASE UNCHANGED shVars
  BY <1>b, <1>13 DEF shVars, Patched, FileHeld, Records, Doing, UninstallAt
<1> QED BY <1>1, <1>2, <1>3, <1>4, <1>5, <1>6, <1>7, <1>8, <1>9, <1>10, <1>11, <1>12, <1>13 DEF ShNext

\* The invariant of the shell integration.
THEOREM ShellInvariant == ShSpec => []ShIInv
<1>1. ShIInv /\ [ShNext]_shVars => ShIInv'
  BY ShTypeKept, LinesStay, RemovedStays, PatchedStays DEF ShIInv
<1> QED BY <1>1, ShInitIInv, PTL DEF ShSpec

\* The user's lines of .zshenv are never lost or reordered, except by a cut write
\* of uninstall.
THEOREM ShellKeepsZshenv == ShSpec => []ZshenvKept
<1>1. ShIInv => ZshenvKept
  BY DEF ShIInv, LinesKept, ZshenvKept
<1> QED BY <1>1, ShellInvariant, PTL

\* What uninstall leaves is clean, and the interactive file is restored, or is what a
\* cut write left and there is a backup of it.
THEOREM ShellUninstallRestores == ShSpec => []ShellRestored
<1>1. ShIInv => ShellRestored
  <2> SUFFICES ASSUME ShIInv PROVE ShellRestored
    OBVIOUS
  <2>1. ASSUME said = "removed", "replaced" \notin lapse
        PROVE  \/ interactive = theirs
               \/ theirs \in kept /\ (Damaged(interactive) \/ ("unrecorded" \in lapse /\ interactive = Curated(theirs)))
    <3>1. theirs.is = "kaku" => Curated(theirs) = patched(theirs.n)
      BY DEF Curated
    <3>2. patched(theirs.n).is = "patched"
      BY DEF patched
    <3> QED BY <2>1, <3>1, <3>2 DEF ShIInv, Patched, FileHeld
  <2>2. said = "removed" => Clean(zshenv) /\ NoSource /\ own["env"] = "absent" /\ own["plugin"] = "absent"
    BY DEF ShIInv, Removed
  <2> QED BY <2>1, <2>2 DEF ShellRestored, Clean, NoSource
<1> QED BY <1>1, ShellInvariant, PTL

-----------------------------------------------------------------------------
\* Evaluation: sums.

\* What the recursion of Total computes, number by number.
SumsUp(f, s) == f[0] = 0 /\ \A i \in 1..Len(s) : f[i] = f[i - 1] + s[i]

\* Total is the last value of the function that adds up place by place.
LEMMA TotalUpTo ==
  ASSUME NEW s \in Seq(Int)
  PROVE  \E f \in [0..Len(s) -> Int] : SumsUp(f, s) /\ Total(s) = f[Len(s)]
<1> DEFINE step == [i \in 1..Len(s) |-> [t \in Int |-> t + s[i]]]
           Is(f) == f = [i \in 0..Len(s) |-> IF i = 0 THEN 0 ELSE f[i - 1] + s[i]]
<1>1. Len(s) \in Nat /\ \A i \in 1..Len(s) : s[i] \in Int
  OBVIOUS
<1>2. step \in [1..Len(s) -> [Int -> Int]]
  BY <1>1
<1>3. PICK f \in [0..Len(s) -> Int] : f[0] = 0 /\ \A i \in 1..Len(s) : f[i] = step[i][f[i - 1]]
  <2> HIDE DEF step
  <2> DEFINE V == Int
             first == 0
             N == Len(s)
  <2>1. N \in Nat /\ first \in V /\ step \in [1..N -> [V -> V]]
    BY <1>1, <1>2
  <2> HIDE DEF V, first, N
  <2>2. \E f \in [0..N -> V] : Follows(f, first, N, step)
    BY <2>1, RecursionExists
  <2> QED BY <2>2 DEF V, first, N, Follows
<1>4. ASSUME NEW i \in 1..Len(s) PROVE f[i] = f[i - 1] + s[i]
  <2>1. f[i - 1] \in Int
    BY <1>1
  <2>2. step[i] = [t \in Int |-> t + s[i]]
    BY Zenon
  <2>3. f[i] = step[i][f[i - 1]]
    BY <1>3, Zenon
  <2> QED BY <2>1, <2>2, <2>3, Zenon
<1>5. Is(f)
  <2>1. ASSUME NEW i \in 0..Len(s) PROVE f[i] = IF i = 0 THEN 0 ELSE f[i - 1] + s[i]
    <3>1. CASE i = 0
      BY <1>3, <3>1, Zenon
    <3>2. CASE i # 0
      <4>1. i \in 1..Len(s)
        BY <1>1, <3>2
      <4> QED BY <1>4, <3>2, <4>1, Zenon
    <3> QED BY <3>1, <3>2
  <2> QED BY <2>1, Zenon
<1> HIDE DEF step
<1> DEFINE g == CHOOSE h : Is(h)
<1>6. Is(g)
  <2> HIDE DEF Is
  <2> QED BY <1>5, Zenon
<1>7. Total(s) = g[Len(s)]
  BY DEF Total
<1>8. ASSUME NEW i \in 0..Len(s) PROVE g[i] = IF i = 0 THEN 0 ELSE g[i - 1] + s[i]
  <2> HIDE DEF g
  <2> QED BY <1>6, Zenon
<1>9. DOMAIN g = 0..Len(s) /\ g = [i \in DOMAIN g |-> g[i]]
  <2> HIDE DEF g
  <2> QED BY <1>6
<1> HIDE DEF g, Is
<1>10. g[0] = 0
  <2>1. 0 \in 0..Len(s)
    BY <1>1
  <2> QED BY <1>8, <2>1, Zenon
<1>11. ASSUME NEW i \in 1..Len(s) PROVE g[i] = g[i - 1] + s[i]
  <2>1. i \in 0..Len(s) /\ i # 0
    BY <1>1
  <2> QED BY <1>8, <2>1, Zenon
<1>12. \A n \in 0..Len(s) : g[n] \in Int
  <2> DEFINE Good == {n \in 0..Len(s) : g[n] \in Int}
  <2>1. 0 \in Good
    BY <1>1, <1>10
  <2>2. ASSUME NEW n \in 0..Len(s), n \in Good, n < Len(s) PROVE n + 1 \in Good
    <3>1. n + 1 \in 1..Len(s) /\ n + 1 \in 0..Len(s) /\ n + 1 - 1 = n
      BY <1>1, <2>2
    <3>2. g[n + 1] = g[n] + s[n + 1]
      BY <1>11, <3>1
    <3> QED BY <1>1, <2>2, <3>1, <3>2
  <2> HIDE DEF Good
  <2>3. \A n \in 0..Len(s) : n \in Good
    <3>1. \A n \in 0..Len(s) : n \in Good /\ n < Len(s) => n + 1 \in Good
      BY <2>2, Zenon
    <3> QED BY <1>1, <2>1, <3>1, UpTo, Zenon
  <2> QED BY <2>3 DEF Good
<1>13. g \in [0..Len(s) -> Int]
  BY <1>9, <1>12, Zenon
<1>14. SumsUp(g, s)
  BY <1>10, <1>11, Zenon DEF SumsUp
<1> QED BY <1>7, <1>13, <1>14, Zenon

\* A sum of integers is an integer.
LEMMA TotalType ==
  ASSUME NEW s \in Seq(Int)
  PROVE  Total(s) \in Int
<1>1. PICK f \in [0..Len(s) -> Int] : Total(s) = f[Len(s)]
  BY TotalUpTo
<1>2. Len(s) \in 0..Len(s)
  OBVIOUS
<1> QED BY <1>1, <1>2

\* Numbers that are nowhere greater have a sum that is not.
LEMMA TotalMonotone ==
  ASSUME NEW s \in Seq(Int), NEW t \in Seq(Int), Len(s) = Len(t), \A i \in 1..Len(s) : s[i] <= t[i]
  PROVE  Total(s) <= Total(t)
<1>1. PICK f \in [0..Len(s) -> Int] : SumsUp(f, s) /\ Total(s) = f[Len(s)]
  BY TotalUpTo
<1>2. PICK g \in [0..Len(t) -> Int] : SumsUp(g, t) /\ Total(t) = g[Len(t)]
  BY TotalUpTo
<1>3. Len(s) \in Nat /\ \A i \in 1..Len(s) : s[i] \in Int /\ t[i] \in Int
  OBVIOUS
<1> DEFINE Good == {n \in 0..Len(s) : f[n] <= g[n]}
<1>4. 0 \in Good
  BY <1>1, <1>2, <1>3 DEF SumsUp
<1>5. ASSUME NEW n \in 0..Len(s), n \in Good, n < Len(s) PROVE n + 1 \in Good
  <2>1. n + 1 \in 1..Len(s) /\ n + 1 \in 0..Len(s) /\ n + 1 - 1 = n
    BY <1>3, <1>5
  <2>2. f[n + 1] = f[n] + s[n + 1] /\ g[n + 1] = g[n] + t[n + 1]
    BY <1>1, <1>2, <2>1 DEF SumsUp
  <2>3. f[n] <= g[n] /\ s[n + 1] <= t[n + 1] /\ f[n] \in Int /\ g[n] \in Int /\ s[n + 1] \in Int /\ t[n + 1] \in Int
    BY <1>3, <1>5, <2>1
  <2>4. f[n + 1] <= g[n + 1]
    BY <2>2, <2>3
  <2> QED BY <2>1, <2>4
<1> HIDE DEF Good
<1>6. \A n \in 0..Len(s) : n \in Good
  <2>1. \A n \in 0..Len(s) : n \in Good /\ n < Len(s) => n + 1 \in Good
    BY <1>5, Zenon
  <2> QED BY <1>3, <1>4, <2>1, UpTo, Zenon
<1>7. Len(s) \in 0..Len(s)
  BY <1>3
<1> QED BY <1>1, <1>2, <1>6, <1>7 DEF Good

\* The column of a field that is a number, and of the results what is in the evidence.
LEMMA ColumnType ==
  ASSUME NEW es \in Seq(Evidence), NEW field \in {"duration", "errors"}
  PROVE  /\ Column(es, field) \in Seq(Int) /\ Len(Column(es, field)) = Len(es)
         /\ \A i \in 1..Len(es) : Column(es, field)[i] \in Nat
         /\ Column(Results(es), field) = Column(es, field)
<1>1. Len(es) \in Nat /\ DOMAIN es = 1..Len(es) /\ \A i \in 1..Len(es) : es[i] \in Evidence
  OBVIOUS
<1>2. \A e \in Evidence : e[field] \in Nat /\ deriveScenarioResult(e)[field] = e[field]
  BY DEF Evidence, deriveScenarioResult
<1>3. Column(es, field) = [i \in 1..Len(es) |-> es[i][field]]
  BY <1>1 DEF Column
<1>4. Column(Results(es), field) = [i \in 1..Len(es) |-> deriveScenarioResult(es[i])[field]]
  BY <1>1 DEF Column, Results
<1>5. \A i \in 1..Len(es) : es[i][field] \in Nat /\ deriveScenarioResult(es[i])[field] = es[i][field]
  BY <1>1, <1>2
<1> QED BY <1>1, <1>3, <1>4, <1>5

\* No sum of a column is negative.
LEMMA ColumnNotNegative ==
  ASSUME NEW es \in Seq(Evidence), NEW field \in {"duration", "errors"}
  PROVE  Total(Column(es, field)) \in Nat
<1> DEFINE s == Column(es, field)
<1>1. s \in Seq(Int) /\ Len(s) \in Nat /\ \A i \in 1..Len(s) : s[i] \in Nat
  <2>1. Len(es) \in Nat
    OBVIOUS
  <2> QED BY <2>1, ColumnType
<1> HIDE DEF s
<1>2. PICK f \in [0..Len(s) -> Int] : SumsUp(f, s) /\ Total(s) = f[Len(s)]
  BY <1>1, TotalUpTo
<1> DEFINE Good == {n \in 0..Len(s) : f[n] \in Nat}
<1>3. 0 \in Good
  BY <1>1, <1>2 DEF SumsUp
<1>4. ASSUME NEW n \in 0..Len(s), n \in Good, n < Len(s) PROVE n + 1 \in Good
  <2>1. n + 1 \in 1..Len(s) /\ n + 1 \in 0..Len(s) /\ n + 1 - 1 = n
    BY <1>1, <1>4
  <2>2. f[n + 1] = f[n] + s[n + 1]
    BY <1>2, <2>1 DEF SumsUp
  <2> QED BY <1>1, <1>4, <2>1, <2>2
<1> HIDE DEF Good
<1>5. \A n \in 0..Len(s) : n \in Good
  <2>1. \A n \in 0..Len(s) : n \in Good /\ n < Len(s) => n + 1 \in Good
    BY <1>4, Zenon
  <2> QED BY <1>1, <1>3, <2>1, UpTo, Zenon
<1>6. Len(s) \in 0..Len(s)
  BY <1>1
<1> QED BY <1>2, <1>5, <1>6 DEF Good, s

\* Usage that can be read is a natural number.
LEMMA TokensType ==
  ASSUME NEW e \in Evidence
  PROVE  Tokens(e.usage) = Unknown \/ (Tokens(e.usage) \in Nat /\ e.usage = Tokens(e.usage))
BY DEF Evidence, Tokens

\* The tokens that are known are a lower bound, and the sum when all are known.
LEMMA KnownIsLeast ==
  ASSUME NEW es \in Seq(Evidence), NEW x \in Spendings(es)
  PROVE  /\ KnownTokens(Results(es)) \in Seq(Int) /\ x \in Seq(Int)
         /\ Total(KnownTokens(Results(es))) <= Total(x)
         /\ (\A i \in 1..Len(es) : Tokens(es[i].usage) # Unknown) => x = KnownTokens(Results(es))
<1> DEFINE k == KnownTokens(Results(es))
<1>1. Len(es) \in Nat /\ DOMAIN es = 1..Len(es) /\ \A i \in 1..Len(es) : es[i] \in Evidence
  OBVIOUS
<1>2. k = [i \in 1..Len(es) |-> IF Tokens(es[i].usage) = Unknown THEN 0 ELSE Tokens(es[i].usage)]
  <2>1. DOMAIN Results(es) = 1..Len(es) /\ \A i \in 1..Len(es) : Results(es)[i].tokens = Tokens(es[i].usage)
    BY <1>1 DEF Results, deriveScenarioResult
  <2> QED BY <2>1 DEF KnownTokens
<1> HIDE DEF k
<1>3. ASSUME NEW i \in 1..Len(es)
      PROVE  /\ k[i] \in Nat /\ x[i] \in Nat /\ k[i] <= x[i]
             /\ Tokens(es[i].usage) # Unknown => x[i] = k[i]
  <2>1. x[i] \in MaySpend(es[i])
    BY <1>1 DEF Spendings
  <2>2. k[i] = IF Tokens(es[i].usage) = Unknown THEN 0 ELSE Tokens(es[i].usage)
    BY <1>2
  <2>3. es[i] \in Evidence
    BY <1>1
  <2>4. CASE Tokens(es[i].usage) = Unknown
    <3>1. x[i] \in Spends /\ k[i] = 0
      BY <2>1, <2>2, <2>4, Zenon DEF MaySpend
    <3>2. x[i] \in Nat
      BY <3>1, EvaluationAssumption
    <3> QED BY <2>4, <3>1, <3>2
  <2>5. CASE Tokens(es[i].usage) # Unknown
    <3>1. x[i] = es[i].usage /\ k[i] = Tokens(es[i].usage)
      BY <2>1, <2>2, <2>5 DEF MaySpend
    <3> QED BY <2>3, <2>5, <3>1, TokensType
  <2> QED BY <2>4, <2>5
<1>4. x = [i \in 1..Len(es) |-> x[i]]
  BY <1>1 DEF Spendings
<1>5. k \in Seq(Int) /\ Len(k) = Len(es) /\ DOMAIN k = 1..Len(es)
  BY <1>1, <1>2, <1>3
<1>6. x \in Seq(Int) /\ Len(x) = Len(es)
  BY <1>1, <1>3, <1>4
<1>7. Total(k) <= Total(x)
  BY <1>3, <1>5, <1>6, TotalMonotone
<1>8. (\A i \in 1..Len(es) : Tokens(es[i].usage) # Unknown) => x = k
  BY <1>3, <1>5, <1>6, SeqEqual
<1> QED BY <1>5, <1>6, <1>7, <1>8 DEF k

\* A positive reduction is a smaller sum, and one that is not negative no greater one.
LEMMA Reduced ==
  ASSUME NEW a \in Nat, NEW b \in Nat
  PROVE  (reduction(a, b) > 0 => b < a) /\ (reduction(a, b) >= 0 => b <= a)
BY DEF reduction

\* What compareBenchmarks accepts has what AcceptedIsBetter asks for.
LEMMA AcceptedHas ==
  ASSUME NEW cs \in Seq(Evidence), NEW es \in Seq(Evidence), NEW rollback \in BOOLEAN,
         compareBenchmarks(Results(cs), Results(es), rollback)
  PROVE  /\ \A i \in DOMAIN es : es[i].exit = 0 /\ es[i].failing = {} /\ es[i].checks # {}
         /\ \A i \in DOMAIN cs : \E j \in DOMAIN es : es[j].id = cs[i].id
         /\ Total(Column(es, "duration")) < Total(Column(cs, "duration"))
         /\ Total(Column(es, "errors")) <= Total(Column(cs, "errors"))
         /\ \A x \in Spendings(cs), u \in Spendings(es) : Total(u) < Total(x)
<1>1. /\ uniqueScenarioSetMatches(Results(cs), Results(es)) /\ candidateEvidenceComplete(Results(es))
      /\ reduction(Total(Column(Results(cs), "duration")), Total(Column(Results(es), "duration"))) > 0
      /\ conservativeTokenReduction(Results(cs), Results(es)) > 0
      /\ reduction(Total(Column(Results(cs), "errors")), Total(Column(Results(es), "errors"))) >= 0
  BY DEF compareBenchmarks, summarizeBenchmark
<1>2. /\ DOMAIN Results(cs) = DOMAIN cs /\ \A i \in DOMAIN cs : Results(cs)[i] = deriveScenarioResult(cs[i])
      /\ DOMAIN Results(es) = DOMAIN es /\ \A i \in DOMAIN es : Results(es)[i] = deriveScenarioResult(es[i])
  BY DEF Results
<1>3. \A i \in DOMAIN es : es[i].exit = 0 /\ es[i].failing = {} /\ es[i].checks # {} /\ Tokens(es[i].usage) # Unknown
  <2> SUFFICES ASSUME NEW i \in DOMAIN es
               PROVE  es[i].exit = 0 /\ es[i].failing = {} /\ es[i].checks # {} /\ Tokens(es[i].usage) # Unknown
    OBVIOUS
  <2> DEFINE r == Results(es)[i]
  <2>1. r.passed /\ r.tokens # Unknown
    BY <1>1, <1>2 DEF candidateEvidenceComplete
  <2>2. r = deriveScenarioResult(es[i])
    BY <1>2
  <2> HIDE DEF r
  <2> QED BY <2>1, <2>2 DEF deriveScenarioResult
<1>4. \A i \in DOMAIN cs : \E j \in DOMAIN es : es[j].id = cs[i].id
  <2> SUFFICES ASSUME NEW i \in DOMAIN cs PROVE \E j \in DOMAIN es : es[j].id = cs[i].id
    OBVIOUS
  <2>1. (\A n \in DOMAIN cs : Results(cs)[n].id = cs[n].id) /\ (\A n \in DOMAIN es : Results(es)[n].id = es[n].id)
    <3>1. \A e : deriveScenarioResult(e).id = e.id
      BY DEF deriveScenarioResult
    <3> QED BY <1>2, <3>1
  <2>2. cs[i].id \in Ids(Results(cs))
    BY <1>2, <2>1 DEF Ids
  <2>3. cs[i].id \in Ids(Results(es))
    BY <1>1, <2>2 DEF uniqueScenarioSetMatches
  <2> QED BY <1>2, <2>1, <2>3 DEF Ids
<1>5. Total(Column(es, "duration")) < Total(Column(cs, "duration"))
  BY <1>1, ColumnType, ColumnNotNegative, Reduced
<1>6. Total(Column(es, "errors")) <= Total(Column(cs, "errors"))
  BY <1>1, ColumnType, ColumnNotNegative, Reduced
<1>7. ASSUME NEW x \in Spendings(cs), NEW u \in Spendings(es) PROVE Total(u) < Total(x)
  <2> DEFINE a == Total(KnownTokens(Results(cs)))
             b == Total(KnownTokens(Results(es)))
  <2>1. a # 0 /\ reduction(a, b) > 0
    BY <1>1 DEF conservativeTokenReduction
  <2>2. a \in Int /\ b \in Int /\ Total(x) \in Int /\ a <= Total(x)
    BY KnownIsLeast, TotalType
  <2>3. Total(u) = b
    <3>1. \A i \in 1..Len(es) : Tokens(es[i].usage) # Unknown
      BY <1>3
    <3> QED BY <3>1, KnownIsLeast
  <2> HIDE DEF a, b
  <2>4. b < a
    BY <2>1, <2>2 DEF reduction
  <2> QED BY <2>2, <2>3, <2>4
<1> QED BY <1>3, <1>4, <1>5, <1>6, <1>7

\* The verdict is on the evidence there is.
EvalIInv == evidence \in [control : Seq(Evidence), candidate : Seq(Evidence)] /\ AcceptedIsBetter

\* An accepted candidate is better than the control, whatever the evidence is.
THEOREM EvaluationAcceptsTheBetter == EvalSpec => []AcceptedIsBetter
<1>1. EvalInit => EvalIInv
  BY EvaluationAssumption DEF EvalInit, EvalIInv, AcceptedIsBetter
<1>2. ASSUME EvalIInv, [Judge]_evalVars PROVE EvalIInv'
  <2>1. CASE Judge
    <3>1. PICK rollback \in BOOLEAN :
            verdict' = IF compareBenchmarks(Results(evidence.control), Results(evidence.candidate), rollback)
                       THEN "accepted" ELSE "rejected"
      BY <2>1 DEF Judge
    <3>2. evidence' = evidence /\ evidence \in [control : Seq(Evidence), candidate : Seq(Evidence)]
      BY <1>2, <2>1 DEF Judge, EvalIInv
    <3>3. evidence.control \in Seq(Evidence) /\ evidence.candidate \in Seq(Evidence)
      BY <3>2
    <3>4. AcceptedIsBetter'
      <4> SUFFICES ASSUME verdict' = "accepted" PROVE AcceptedIsBetter'
        BY DEF AcceptedIsBetter
      <4>1. compareBenchmarks(Results(evidence.control), Results(evidence.candidate), rollback)
        BY <3>1
      <4> DEFINE cs == evidence.control
                 es == evidence.candidate
      <4>2. cs = evidence'.control /\ es = evidence'.candidate /\ cs \in Seq(Evidence) /\ es \in Seq(Evidence)
            /\ compareBenchmarks(Results(cs), Results(es), rollback)
        BY <3>2, <3>3, <4>1
      <4> HIDE DEF cs, es
      <4> QED BY <4>2, AcceptedHas DEF AcceptedIsBetter
    <3> QED BY <3>2, <3>4 DEF EvalIInv
  <2>2. CASE UNCHANGED evalVars
    BY <1>2, <2>2 DEF evalVars, EvalIInv, AcceptedIsBetter
  <2> QED BY <1>2, <2>1, <2>2
<1>3. EvalIInv => AcceptedIsBetter
  BY DEF EvalIInv
<1> QED BY <1>1, <1>2, <1>3, PTL DEF EvalSpec
-----------------------------------------------------------------------------
\* Backlog: what is before what, the two searches for cycles, and a board's next steps.

\* The transitive closure contains the set, is closed, and is the least such set.
LEMMA BeforeIs ==
  ASSUME NEW edges, NEW set
  PROVE  /\ set \subseteq Before(edges, set) /\ ClosedUnder(edges, Before(edges, set))
         /\ \A c : set \subseteq c /\ ClosedUnder(edges, c) => Before(edges, set) \subseteq c
<1> DEFINE all == set \cup UNION Range(edges)
           least == {x \in all : \A c \in SUBSET all : set \subseteq c /\ ClosedUnder(edges, c) => x \in c}
<1>1. Before(edges, set) = least
  BY DEF Before
<1>2. \A x \in DOMAIN edges : edges[x] \subseteq all
  BY DEF Range
<1>3. set \subseteq least
  OBVIOUS
<1>4. ClosedUnder(edges, least)
  BY <1>2 DEF ClosedUnder
<1>5. ASSUME NEW c, set \subseteq c, ClosedUnder(edges, c) PROVE least \subseteq c
  <2>1. set \subseteq c \cap all /\ ClosedUnder(edges, c \cap all)
    BY <1>2, <1>5 DEF ClosedUnder
  <2> QED BY <2>1
<1> HIDE DEF least
<1> QED BY <1>1, <1>3, <1>4, <1>5

\* What is before one of those before a set is before the set.
LEMMA BeforeGrows ==
  ASSUME NEW edges, NEW set, NEW part, part \subseteq Before(edges, set)
  PROVE  Before(edges, part) \subseteq Before(edges, set)
BY BeforeIs

\* What is before a set is before one of its members.
LEMMA BeforeOne ==
  ASSUME NEW edges, NEW set, NEW x \in Before(edges, set)
  PROVE  \E y \in set : x \in Before(edges, {y})
<1> DEFINE c == UNION {Before(edges, {y}) : y \in set}
<1>1. set \subseteq c
  <2>1. \A y \in set : y \in Before(edges, {y})
    BY BeforeIs
  <2> QED BY <2>1
<1>2. ClosedUnder(edges, c)
  <2>1. ASSUME NEW z \in c, z \in DOMAIN edges PROVE edges[z] \subseteq c
    <3>1. PICK y \in set : z \in Before(edges, {y})
      OBVIOUS
    <3>2. ClosedUnder(edges, Before(edges, {y}))
      BY BeforeIs
    <3> QED BY <2>1, <3>1, <3>2 DEF ClosedUnder
  <2> HIDE DEF c
  <2> QED BY <2>1 DEF ClosedUnder
<1>3. Before(edges, set) \subseteq c
  <2> HIDE DEF c
  <2> QED BY <1>1, <1>2, BeforeIs
<1> QED BY <1>3

\* A member is before itself only, or what is before its edges is.
LEMMA BeforeStep ==
  ASSUME NEW edges, NEW x, NEW y \in Before(edges, {x}), y # x
  PROVE  x \in DOMAIN edges /\ y \in Before(edges, edges[x])
<1>1. CASE x \in DOMAIN edges
  <2> DEFINE c == {x} \cup Before(edges, edges[x])
  <2>1. ClosedUnder(edges, Before(edges, edges[x])) /\ edges[x] \subseteq Before(edges, edges[x])
    BY BeforeIs
  <2>2. {x} \subseteq c /\ ClosedUnder(edges, c)
    BY <2>1 DEF ClosedUnder
  <2>3. Before(edges, {x}) \subseteq c
    <3> HIDE DEF c
    <3> QED BY <2>2, BeforeIs
  <2> QED BY <1>1, <2>3
<1>2. CASE x \notin DOMAIN edges
  <2>1. {x} \subseteq {x} /\ ClosedUnder(edges, {x})
    BY <1>2 DEF ClosedUnder
  <2>2. Before(edges, {x}) \subseteq {x}
    BY <2>1, BeforeIs
  <2> QED BY <2>2
<1> QED BY <1>1, <1>2

\* In a finite set in which every member waits for another, each leads to a cycle.
LEMMA WaitingHasCycle ==
  ASSUME NEW edges, NEW R, IsFiniteSet(R), R \subseteq DOMAIN edges,
         \A x \in R : edges[x] \cap R # {}, NEW n \in R
  PROVE  Before(edges, {n}) \cap OnCycle(edges) # {}
<1> DEFINE f(x) == Before(edges, {x}) \cap R
           Sizes == {Cardinality(f(x)) : x \in f(n)}
<1>1. \A x : IsFiniteSet(f(x)) /\ Cardinality(f(x)) \in Nat
  BY FS_Subset, FS_CardinalityType
<1>2. \A x \in R : x \in f(x)
  BY BeforeIs
<1>3. PICK k \in Sizes : \A j \in Sizes : k <= j
  <2>1. Sizes \subseteq Nat /\ Sizes # {}
    BY <1>1, <1>2
  <2> QED BY <2>1, LeastNatural
<1>4. PICK x \in f(n) : Cardinality(f(x)) = k
  OBVIOUS
<1>5. PICK y \in edges[x] \cap R : TRUE
  BY <1>4
<1>6. y \in Before(edges, {x})
  BY <1>4, <1>5, BeforeIs DEF ClosedUnder
<1>7. f(y) \subseteq f(x) /\ y \in f(n)
  <2>1. Before(edges, {y}) \subseteq Before(edges, {x}) /\ Before(edges, {x}) \subseteq Before(edges, {n})
    BY <1>4, <1>6, BeforeGrows
  <2> QED BY <1>5, <1>6, <2>1
<1>8. f(y) = f(x)
  <2>1. Cardinality(f(x)) <= Cardinality(f(y))
    BY <1>3, <1>4, <1>7
  <2>2. Cardinality(f(y)) <= Cardinality(f(x)) /\ (Cardinality(f(y)) = Cardinality(f(x)) => f(y) = f(x))
    BY <1>1, <1>7, FS_Subset
  <2> HIDE DEF f
  <2> QED BY <1>1, <2>1, <2>2
<1>9. x \in Before(edges, {y})
  BY <1>2, <1>4, <1>8
<1>10. Before(edges, {y}) \subseteq Before(edges, edges[x])
  BY <1>5, BeforeIs, BeforeGrows
<1> QED BY <1>4, <1>9, <1>10 DEF OnCycle

\* What the passes of initiativeCycleErrors leave, pass by pass.
Passes(f, b) ==
  f[0] = Initiatives /\ \A n \in 1..Cardinality(Initiatives) : f[n] = {i \in f[n - 1] : b.after[i] \cap f[n - 1] # {}}

\* Remaining is what the last pass leaves.
LEMMA RemainingIsLast ==
  ASSUME NEW b
  PROVE  \E f \in [0..Cardinality(Initiatives) -> SUBSET Initiatives] :
           Passes(f, b) /\ Remaining(b) = f[Cardinality(Initiatives)]
<1> DEFINE N == Cardinality(Initiatives)
           pass(r) == {i \in r : b.after[i] \cap r # {}}
           step == [n \in 1..N |-> [r \in SUBSET Initiatives |-> pass(r)]]
           Is(f) == f = [n \in 0..N |-> IF n = 0 THEN Initiatives ELSE pass(f[n - 1])]
           g == CHOOSE f : Is(f)
<1>1. N \in Nat
  BY BacklogAssumption, FS_CardinalityType
<1>2. Remaining(b) = g[N]
  BY DEF Remaining
<1> HIDE DEF N
<1>3. step \in [1..N -> [SUBSET Initiatives -> SUBSET Initiatives]]
  OBVIOUS
<1>4. PICK f \in [0..N -> SUBSET Initiatives] : Follows(f, Initiatives, N, step)
  <2> HIDE DEF step
  <2> DEFINE V == SUBSET Initiatives
             first == Initiatives
  <2>1. first \in V /\ step \in [1..N -> [V -> V]]
    BY <1>3
  <2> HIDE DEF V, first
  <2>2. \E f \in [0..N -> V] : Follows(f, first, N, step)
    BY <1>1, <2>1, RecursionExists
  <2> QED BY <2>2 DEF V, first
<1>5. ASSUME NEW n \in 1..N PROVE f[n] = pass(f[n - 1])
  <2>1. n - 1 \in 0..N
    BY <1>1
  <2>2. f[n - 1] \in SUBSET Initiatives
    BY <2>1
  <2>3. step[n] = [r \in SUBSET Initiatives |-> pass(r)]
    BY Zenon
  <2>4. f[n] = step[n][f[n - 1]]
    BY <1>4, Zenon DEF Follows
  <2> HIDE DEF pass, step
  <2> QED BY <2>2, <2>3, <2>4, Zenon
<1> HIDE DEF step, pass
<1>6. Is(f)
  <2>1. ASSUME NEW n \in 0..N PROVE f[n] = IF n = 0 THEN Initiatives ELSE pass(f[n - 1])
    <3>1. n # 0 => n \in 1..N
      BY <1>1
    <3>2. f[0] = Initiatives
      BY <1>4 DEF Follows
    <3> QED BY <1>5, <3>1, <3>2, Zenon
  <2> QED BY <2>1, Zenon
<1>7. Is(g)
  <2> HIDE DEF Is
  <2> QED BY <1>6, Zenon
<1>8. DOMAIN g = 0..N /\ \A n \in 0..N : g[n] = IF n = 0 THEN Initiatives ELSE pass(g[n - 1])
  <2> HIDE DEF g
  <2> QED BY <1>7, Zenon
<1>9. g = [n \in 0..N |-> g[n]]
  <2> HIDE DEF g
  <2>1. g = [n \in 0..N |-> IF n = 0 THEN Initiatives ELSE pass(g[n - 1])]
    BY <1>7, Zenon
  <2> QED BY <2>1, Zenon
<1> HIDE DEF g, Is
<1>10. g[0] = Initiatives /\ \A n \in 1..N : g[n] = pass(g[n - 1])
  <2>1. 0 \in 0..N /\ \A n \in 1..N : n \in 0..N /\ n # 0
    BY <1>1
  <2> QED BY <1>8, <2>1, Zenon
<1>11. \A n \in 0..N : g[n] \in SUBSET Initiatives
  <2> DEFINE Good == {n \in 0..N : g[n] \in SUBSET Initiatives}
  <2>1. 0 \in Good
    BY <1>1, <1>10
  <2>2. ASSUME NEW n \in 0..N, n \in Good, n < N PROVE n + 1 \in Good
    <3>1. n + 1 \in 1..N /\ n + 1 \in 0..N /\ n + 1 - 1 = n
      BY <1>1, <2>2
    <3>2. g[n + 1] = pass(g[n])
      BY <1>10, <3>1
    <3> QED BY <2>2, <3>1, <3>2 DEF pass
  <2> HIDE DEF Good
  <2>3. \A n \in 0..N : n \in Good
    <3>1. \A n \in 0..N : n \in Good /\ n < N => n + 1 \in Good
      BY <2>2, Zenon
    <3> QED BY <1>1, <2>1, <3>1, UpTo, Zenon
  <2> QED BY <2>3 DEF Good
<1>12. g \in [0..N -> SUBSET Initiatives]
  BY <1>9, <1>11, Zenon
<1>13. Passes(g, b)
  BY <1>10, Zenon DEF Passes, pass, N
<1>14. \E h \in [0..N -> SUBSET Initiatives] : Passes(h, b) /\ Remaining(b) = h[N]
  BY <1>2, <1>12, <1>13, Zenon
<1> QED BY <1>14 DEF N

\* What remains are the initiatives from which a cycle is reached.
LEMMA RemainingIs ==
  ASSUME NEW b, DOMAIN b.after = Initiatives
  PROVE  Remaining(b) = {n \in Initiatives : Before(b.after, {n}) \cap OnCycle(b.after) # {}}
<1> DEFINE N == Cardinality(Initiatives)
           edges == b.after
           pass(r) == {i \in r : edges[i] \cap r # {}}
           R == {n \in Initiatives : Before(edges, {n}) \cap OnCycle(edges) # {}}
<1>1. N \in Nat /\ IsFiniteSet(Initiatives)
  BY BacklogAssumption, FS_CardinalityType
<1>2. PICK f \in [0..N -> SUBSET Initiatives] : Passes(f, b) /\ Remaining(b) = f[N]
  BY RemainingIsLast
<1>3. f[0] = Initiatives /\ \A n \in 1..N : f[n] = pass(f[n - 1])
  BY <1>2 DEF Passes
<1> HIDE DEF N
\* The members of R wait for members of R.
<1>4. \A n \in R : edges[n] \cap R # {}
  <2> SUFFICES ASSUME NEW n \in R PROVE edges[n] \cap R # {}
    OBVIOUS
  <2>1. PICK c \in OnCycle(edges) : c \in Before(edges, {n})
    OBVIOUS
  <2>2. c \in Before(edges, edges[n])
    BY <2>1, BeforeStep DEF OnCycle
  <2>3. PICK y \in edges[n] : c \in Before(edges, {y})
    BY <2>2, BeforeOne
  <2>4. y \in DOMAIN edges
    BY <2>1, <2>3, BeforeStep DEF OnCycle
  <2> QED BY <2>1, <2>3, <2>4
<1>5. \A n \in 0..N : R \subseteq f[n]
  <2> DEFINE Good == {n \in 0..N : R \subseteq f[n]}
  <2>1. 0 \in Good
    BY <1>1, <1>3
  <2>2. ASSUME NEW n \in 0..N, n \in Good, n < N PROVE n + 1 \in Good
    <3>1. n + 1 \in 1..N /\ n + 1 \in 0..N /\ n + 1 - 1 = n
      BY <1>1, <2>2
    <3>2. f[n + 1] = pass(f[n])
      BY <1>3, <3>1
    <3>3. R \subseteq f[n]
      BY <2>2
    <3> HIDE DEF R
    <3>4. R \subseteq pass(f[n])
      BY <1>4, <3>3
    <3> QED BY <3>1, <3>2, <3>4
  <2> HIDE DEF Good
  <2>3. \A n \in 0..N : n \in Good
    <3>1. \A n \in 0..N : n \in Good /\ n < N => n + 1 \in Good
      BY <2>2, Zenon
    <3> QED BY <1>1, <2>1, <3>1, UpTo, Zenon
  <2> QED BY <2>3 DEF Good
\* A pass takes away at least one, or the passes after it take away none.
<1>6. pass(f[N]) = f[N]
  <2> DEFINE Good == {n \in 0..N : pass(f[n]) = f[n] \/ Cardinality(f[n]) <= N - n}
  <2>1. 0 \in Good
    BY <1>1, <1>3 DEF N
  <2>2. ASSUME NEW n \in 0..N, n \in Good, n < N PROVE n + 1 \in Good
    <3>1. n + 1 \in 1..N /\ n + 1 \in 0..N /\ n + 1 - 1 = n
      BY <1>1, <2>2
    <3>2. f[n + 1] = pass(f[n])
      BY <1>3, <3>1
    <3> HIDE DEF pass
    <3>3. CASE pass(f[n]) = f[n]
      BY <3>1, <3>2, <3>3
    <3>4. CASE pass(f[n]) # f[n]
      <4>1. IsFiniteSet(f[n]) /\ pass(f[n]) \subseteq f[n]
        BY <1>1, FS_Subset DEF pass
      <4>2. Cardinality(pass(f[n])) \in Nat /\ Cardinality(f[n]) \in Nat /\ Cardinality(pass(f[n])) < Cardinality(f[n])
        BY <3>4, <4>1, FS_Subset, FS_CardinalityType
      <4>3. Cardinality(f[n]) <= N - n
        BY <2>2, <3>4
      <4>4. Cardinality(f[n + 1]) <= N - (n + 1)
        BY <1>1, <3>2, <4>2, <4>3
      <4> QED BY <3>1, <4>4
    <3> QED BY <3>3, <3>4
  <2> HIDE DEF Good
  <2>3. \A n \in 0..N : n \in Good
    <3>1. \A n \in 0..N : n \in Good /\ n < N => n + 1 \in Good
      BY <2>2, Zenon
    <3> QED BY <1>1, <2>1, <3>1, UpTo, Zenon
  <2>4. N \in 0..N /\ N - N = 0
    BY <1>1
  <2>5. pass(f[N]) = f[N] \/ Cardinality(f[N]) <= 0
    BY <2>3, <2>4 DEF Good
  <2>6. IsFiniteSet(f[N]) /\ Cardinality(f[N]) \in Nat
    BY <1>1, <2>4, FS_Subset, FS_CardinalityType
  <2>7. CASE Cardinality(f[N]) <= 0
    <3>1. f[N] = {}
      BY <2>6, <2>7, FS_EmptySet
    <3> QED BY <3>1
  <2> QED BY <2>5, <2>7
<1>7. f[N] \subseteq R
  <2>1. f[N] \subseteq Initiatives /\ IsFiniteSet(f[N])
    BY <1>1, FS_Subset
  <2>2. \A x \in f[N] : edges[x] \cap f[N] # {}
    BY <1>6
  <2>3. ASSUME NEW n \in f[N] PROVE Before(edges, {n}) \cap OnCycle(edges) # {}
    <3> DEFINE L == f[N]
    <3>1. IsFiniteSet(L) /\ L \subseteq DOMAIN edges /\ (\A x \in L : edges[x] \cap L # {}) /\ n \in L
      BY <2>1, <2>2, <2>3
    <3> HIDE DEF L, edges
    <3> QED BY <3>1, WaitingHasCycle
  <2> QED BY <2>1, <2>3
<1>8. R \subseteq f[N]
  BY <1>1, <1>5
<1> QED BY <1>2, <1>7, <1>8

\* What is known after each identifier.
Turns(f, set, visit, start) ==
  f[0] = start /\ \A i \in 1..Len(IdOrder) : f[i] = IF IdOrder[i] \in set THEN visit[IdOrder[i]][f[i - 1]] ELSE f[i - 1]

\* InTurn is what is known after the last identifier.
LEMMA InTurnIsLast ==
  ASSUME NEW set, NEW visit \in [ItemIds -> [Searches -> Searches]], NEW start \in Searches
  PROVE  \E f \in [0..Len(IdOrder) -> Searches] :
           Turns(f, set, visit, start) /\ InTurn(set, visit, start) = f[Len(IdOrder)]
<1> DEFINE N == Len(IdOrder)
           one(i, st) == IF IdOrder[i] \in set THEN visit[IdOrder[i]][st] ELSE st
           step == [i \in 1..N |-> [st \in Searches |-> one(i, st)]]
           Is(f) == f = [i \in 0..N |-> IF i = 0 THEN start ELSE one(i, f[i - 1])]
           g == CHOOSE f : Is(f)
<1>1. N \in Nat /\ \A i \in 1..N : IdOrder[i] \in ItemIds
  BY BacklogAssumption DEF ItemIds, Range
<1>2. InTurn(set, visit, start) = g[N]
  BY DEF InTurn
<1> HIDE DEF N
<1>3. \A i \in 1..N, st \in Searches : one(i, st) \in Searches
  BY <1>1
<1> HIDE DEF one
<1>4. step \in [1..N -> [Searches -> Searches]]
  BY <1>3
<1>5. PICK f \in [0..N -> Searches] : Follows(f, start, N, step)
  <2> HIDE DEF step
  <2>1. \E f \in [0..N -> Searches] : Follows(f, start, N, step)
    BY <1>1, <1>4, RecursionExists
  <2> QED BY <2>1
<1>6. ASSUME NEW i \in 1..N PROVE f[i] = one(i, f[i - 1])
  <2>1. i - 1 \in 0..N
    BY <1>1
  <2>2. f[i - 1] \in Searches
    BY <2>1
  <2>3. step[i] = [st \in Searches |-> one(i, st)]
    BY Zenon
  <2>4. f[i] = step[i][f[i - 1]]
    BY <1>5, Zenon DEF Follows
  <2> HIDE DEF step
  <2> QED BY <2>2, <2>3, <2>4, Zenon
<1> HIDE DEF step
<1>7. Is(f)
  <2>1. ASSUME NEW i \in 0..N PROVE f[i] = IF i = 0 THEN start ELSE one(i, f[i - 1])
    <3>1. i # 0 => i \in 1..N
      BY <1>1
    <3>2. f[0] = start
      BY <1>5 DEF Follows
    <3> QED BY <1>6, <3>1, <3>2, Zenon
  <2> QED BY <2>1, Zenon
<1>8. Is(g)
  <2> HIDE DEF Is
  <2> QED BY <1>7, Zenon
<1>9. DOMAIN g = 0..N /\ \A i \in 0..N : g[i] = IF i = 0 THEN start ELSE one(i, g[i - 1])
  <2> HIDE DEF g
  <2> QED BY <1>8, Zenon
<1>10. g = [i \in 0..N |-> g[i]]
  <2> HIDE DEF g
  <2>1. g = [i \in 0..N |-> IF i = 0 THEN start ELSE one(i, g[i - 1])]
    BY <1>8, Zenon
  <2> QED BY <2>1, Zenon
<1> HIDE DEF g, Is
<1>11. g[0] = start /\ \A i \in 1..N : g[i] = one(i, g[i - 1])
  <2>1. 0 \in 0..N /\ \A i \in 1..N : i \in 0..N /\ i # 0
    BY <1>1
  <2> QED BY <1>9, <2>1, Zenon
<1>12. \A i \in 0..N : g[i] \in Searches
  <2> DEFINE Good == {i \in 0..N : g[i] \in Searches}
  <2>1. 0 \in Good
    BY <1>1, <1>11
  <2>2. ASSUME NEW i \in 0..N, i \in Good, i < N PROVE i + 1 \in Good
    <3>1. i + 1 \in 1..N /\ i + 1 \in 0..N /\ i + 1 - 1 = i
      BY <1>1, <2>2
    <3>2. g[i + 1] = one(i + 1, g[i])
      BY <1>11, <3>1
    <3>3. g[i + 1] \in Searches
      BY <1>3, <2>2, <3>1, <3>2
    <3> QED BY <3>1, <3>3
  <2> HIDE DEF Good
  <2>3. \A i \in 0..N : i \in Good
    <3>1. \A i \in 0..N : i \in Good /\ i < N => i + 1 \in Good
      BY <2>2, Zenon
    <3> QED BY <1>1, <2>1, <3>1, UpTo, Zenon
  <2> QED BY <2>3 DEF Good
<1>13. g \in [0..N -> Searches]
  BY <1>10, <1>12, Zenon
<1>14. Turns(g, set, visit, start)
  BY <1>11, Zenon DEF Turns, one, N
<1>15. \E h \in [0..N -> Searches] : Turns(h, set, visit, start) /\ InTurn(set, visit, start) = h[N]
  BY <1>2, <1>13, <1>14, Zenon
<1> QED BY <1>15 DEF N

\* What visit does with an item, by what it does one item deeper.
Visited(b, n, deeper, id, st) ==
  IF id \in st.active THEN [st EXCEPT !.found = TRUE]
  ELSE IF id \in st.done \/ id \notin DOMAIN b.item \/ n = 0 THEN st
  ELSE LET end == InTurn(b.deps[id], deeper, [st EXCEPT !.active = @ \cup {id}])
       IN  [end EXCEPT !.active = @ \ {id}, !.done = @ \cup {id}]

\* A visit leads from searches to searches.
LEMMA VisitedType ==
  ASSUME NEW b, NEW n \in Nat, NEW deeper \in [ItemIds -> [Searches -> Searches]], NEW id \in ItemIds, NEW st \in Searches
  PROVE  Visited(b, n, deeper, id, st) \in Searches
<1> DEFINE start == [st EXCEPT !.active = @ \cup {id}]
           end == InTurn(b.deps[id], deeper, start)
<1>1. start \in Searches
  BY DEF Searches
<1>2. end \in Searches
  <2> HIDE DEF start
  <2>1. PICK f \in [0..Len(IdOrder) -> Searches] : end = f[Len(IdOrder)]
    BY <1>1, InTurnIsLast
  <2>2. Len(IdOrder) \in 0..Len(IdOrder)
    BY BacklogAssumption
  <2> QED BY <2>1, <2>2
<1>3. [end EXCEPT !.active = @ \ {id}, !.done = @ \cup {id}] \in Searches
  <2> HIDE DEF end
  <2> QED BY <1>2 DEF Searches
<1>4. [st EXCEPT !.found = TRUE] \in Searches
  BY DEF Searches
<1> HIDE DEF end, start
<1> QED BY <1>3, <1>4 DEF Visited, end, start

\* visit, depth by depth.
Deepens(f, b) ==
  \A n \in 0..Cardinality(DOMAIN b.item), id \in ItemIds, st \in Searches :
    f[n][id][st] = Visited(b, n, f[n - 1], id, st)

\* There are finitely many identifiers.
LEMMA ItemIdsFinite == IsFiniteSet(ItemIds)
<1> DEFINE places == 1..Len(IdOrder)
<1>1. IsFiniteSet(places) /\ DOMAIN IdOrder = places /\ IdOrder \in Seq(STRING)
  BY BacklogAssumption, FS_Interval
<1>2. IdOrder \in Surjection(places, ItemIds)
  BY <1>1 DEF Surjection, ItemIds, Range
<1> QED BY <1>1, <1>2, FS_Surjection

\* Visits is visit at the greatest depth.
LEMMA VisitsIsDeepest ==
  ASSUME NEW b, DOMAIN b.item \subseteq ItemIds
  PROVE  \E f \in [0..Cardinality(DOMAIN b.item) -> [ItemIds -> [Searches -> Searches]]] :
           Deepens(f, b) /\ Visits(b) = f[Cardinality(DOMAIN b.item)]
<1> DEFINE N == Cardinality(DOMAIN b.item)
           V == [ItemIds -> [Searches -> Searches]]
           row(n, v) == [id \in ItemIds |-> [st \in Searches |-> Visited(b, n, v, id, st)]]
           first == row(0, 0)
           step == [n \in 1..N |-> [v \in V |-> row(n, v)]]
           Is(f) == f = [n \in 0..N |-> row(n, f[n - 1])]
           g == CHOOSE f : Is(f)
<1>1. N \in Nat
  <2>3. IsFiniteSet(ItemIds)
    BY ItemIdsFinite
  <2> QED BY <2>3, FS_Subset, FS_CardinalityType
<1>2. Visits(b) = g[N]
  BY Zenon DEF Visits, Visited
<1> HIDE DEF N
<1>3. ASSUME NEW v PROVE row(0, v) = first
  BY Zenon DEF Visited
<1>4. ASSUME NEW n \in Nat, NEW v \in V PROVE row(n, v) \in V
  BY <1>4, VisitedType
<1>5. first \in V
  <2>1. PICK v : v \in V
    <3>1. [id \in ItemIds |-> [st \in Searches |-> st]] \in V
      OBVIOUS
    <3> HIDE DEF V
    <3> QED BY <3>1
  <2> HIDE DEF V, first, row
  <2> QED BY <1>3, <1>4, <2>1
<1> HIDE DEF row
<1>6. step \in [1..N -> [V -> V]]
  <2> HIDE DEF V
  <2> QED BY <1>1, <1>4
<1> HIDE DEF first
<1>7. PICK f \in [0..N -> V] : Follows(f, first, N, step)
  <2> HIDE DEF step, V
  <2>1. \E f \in [0..N -> V] : Follows(f, first, N, step)
    BY <1>1, <1>5, <1>6, RecursionExists
  <2> QED BY <2>1
<1> HIDE DEF V
<1>8. ASSUME NEW n \in 0..N PROVE f[n] = row(n, f[n - 1])
  <2>1. CASE n = 0
    <3>1. f[0] = first
      BY <1>7 DEF Follows
    <3>2. row(0, f[n - 1]) = first
      BY <1>3
    <3> QED BY <2>1, <3>1, <3>2, Zenon
  <2>2. CASE n # 0
    <3>1. n \in 1..N /\ n - 1 \in 0..N
      BY <1>1, <2>2
    <3>2. f[n - 1] \in V
      BY <3>1
    <3>3. step[n] = [v \in V |-> row(n, v)]
      BY <3>1, Zenon
    <3>4. f[n] = step[n][f[n - 1]]
      BY <1>7, <3>1, Zenon DEF Follows
    <3> HIDE DEF step
    <3> QED BY <3>2, <3>3, <3>4, Zenon
  <2> QED BY <2>1, <2>2
<1> HIDE DEF step
<1>9. Is(f)
  BY <1>8, Zenon
<1>10. Is(g)
  <2> HIDE DEF Is
  <2> QED BY <1>9, Zenon
<1>11. g = [n \in 0..N |-> row(n, g[n - 1])]
  <2> HIDE DEF g
  <2> QED BY <1>10, Zenon
<1> HIDE DEF g, Is
<1>12. \A n \in 0..N : g[n] = row(n, g[n - 1])
  BY <1>11, Zenon
<1>13. g = [n \in 0..N |-> g[n]]
  BY <1>11, <1>12, Zenon
<1>14. \A n \in 0..N : g[n] \in V
  <2> DEFINE Good == {n \in 0..N : g[n] \in V}
  <2>1. 0 \in Good
    <3>1. 0 \in 0..N
      BY <1>1
    <3>2. g[0] = first
      BY <1>3, <1>12, <3>1
    <3> QED BY <1>5, <3>1, <3>2
  <2>2. ASSUME NEW n \in 0..N, n \in Good, n < N PROVE n + 1 \in Good
    <3>1. n + 1 \in Nat /\ n + 1 \in 0..N /\ n + 1 - 1 = n
      BY <1>1, <2>2
    <3>2. g[n + 1] = row(n + 1, g[n])
      BY <1>12, <3>1
    <3>3. g[n + 1] \in V
      BY <1>4, <2>2, <3>1, <3>2
    <3> QED BY <3>1, <3>3
  <2> HIDE DEF Good
  <2>3. \A n \in 0..N : n \in Good
    <3>1. \A n \in 0..N : n \in Good /\ n < N => n + 1 \in Good
      BY <2>2, Zenon
    <3> QED BY <1>1, <2>1, <3>1, UpTo, Zenon
  <2> QED BY <2>3 DEF Good
<1>15. g \in [0..N -> V]
  BY <1>13, <1>14, Zenon
<1>16. ASSUME NEW n \in 0..N, NEW id \in ItemIds, NEW st \in Searches
       PROVE  g[n][id][st] = Visited(b, n, g[n - 1], id, st)
  <2>1. g[n] = [i \in ItemIds |-> [s \in Searches |-> Visited(b, n, g[n - 1], i, s)]]
    BY <1>12, Zenon DEF row
  <2>2. g[n][id] = [s \in Searches |-> Visited(b, n, g[n - 1], id, s)]
    BY <2>1, Zenon
  <2> QED BY <2>2, Zenon
<1>17. Deepens(g, b)
  BY <1>16, Zenon DEF Deepens, N
<1>18. \E h \in [0..N -> V] : Deepens(h, b) /\ Visits(b) = h[N]
  BY <1>2, <1>15, <1>17, Zenon
<1> QED BY <1>18 DEF N, V

\* The dependencies that are followed.
Edges(b) == [i \in DOMAIN b.item |-> b.deps[i] \cap DOMAIN b.item]

\* A cycle is found only where there is one, and what is done without one leads to
\* nothing else and lies on none.
Sound(b, st) ==
  /\ st.active \subseteq DOMAIN b.item /\ st.done \subseteq DOMAIN b.item /\ st.active \cap st.done = {}
  /\ st.found => OnCycle(Edges(b)) # {}
  /\ ~st.found => ClosedUnder(Edges(b), st.done) /\ st.done \cap OnCycle(Edges(b)) = {}

\* A search goes on from st to r, which has ids among what is done or a cycle.
Leads(b, st, ids, r) ==
  /\ r \in Searches /\ Sound(b, r)
  /\ r.active = st.active /\ st.done \subseteq r.done /\ (st.found => r.found)
  /\ ~r.found => ids \cap DOMAIN b.item \subseteq r.done

\* Visiting one after the other does for all what each visit does for one.
LEMMA InTurnLeads ==
  ASSUME NEW b, NEW set, NEW visit \in [ItemIds -> [Searches -> Searches]], NEW start \in Searches,
         DOMAIN b.item \subseteq ItemIds, Sound(b, start),
         \A id \in ItemIds \cap set, st \in Searches :
           Sound(b, st) /\ st.active = start.active => Leads(b, st, {id}, visit[id][st])
  PROVE  Leads(b, start, set, InTurn(set, visit, start))
<1> DEFINE N == Len(IdOrder)
           upTo(i) == set \cap {IdOrder[j] : j \in 1..i}
           r == InTurn(set, visit, start)
<1>1. N \in Nat /\ (\A i \in 1..N : IdOrder[i] \in ItemIds) /\ ItemIds = {IdOrder[j] : j \in 1..N}
  BY BacklogAssumption DEF ItemIds, Range
<1>2. PICK f \in [0..N -> Searches] : Turns(f, set, visit, start) /\ r = f[N]
  BY InTurnIsLast
<1>3. f[0] = start /\ \A i \in 1..N : f[i] = IF IdOrder[i] \in set THEN visit[IdOrder[i]][f[i - 1]] ELSE f[i - 1]
  BY <1>2 DEF Turns
<1> HIDE DEF N, r
<1> DEFINE Good == {i \in 0..N : Leads(b, start, upTo(i), f[i])}
<1>4. 0 \in Good
  <2>1. upTo(0) = {} /\ 0 \in 0..N
    BY <1>1
  <2> HIDE DEF upTo
  <2>2. Leads(b, start, upTo(0), f[0])
    BY <1>3, <2>1 DEF Leads
  <2> QED BY <2>1, <2>2
<1>5. ASSUME NEW i \in 0..N, i \in Good, i < N PROVE i + 1 \in Good
  <2>1. i + 1 \in 1..N /\ i + 1 \in 0..N /\ i + 1 - 1 = i
    BY <1>1, <1>5
  <2> DEFINE id == IdOrder[i + 1]
  <2>2. Leads(b, start, upTo(i), f[i]) /\ f[i] \in Searches
    BY <1>5
  <2>3. f[i + 1] = IF id \in set THEN visit[id][f[i]] ELSE f[i]
    BY <1>3, <2>1
  <2>4. upTo(i + 1) = IF id \in set THEN upTo(i) \cup {id} ELSE upTo(i)
    <3>1. \A j : j \in 1..(i + 1) <=> j \in 1..i \/ j = i + 1
      BY <1>1
    <3> QED BY <3>1
  <2>5. id \in ItemIds
    BY <1>1, <2>1
  <2> HIDE DEF upTo, id
  <2>6. Leads(b, start, upTo(i + 1), f[i + 1])
    <3>1. CASE id \notin set
      BY <2>2, <2>3, <2>4, <3>1
    <3>2. CASE id \in set
      <4>1. Sound(b, f[i]) /\ f[i].active = start.active
        BY <2>2 DEF Leads
      <4>2. Leads(b, f[i], {id}, f[i + 1])
        BY <2>2, <2>3, <2>5, <3>2, <4>1
      <4> QED BY <2>2, <2>4, <3>2, <4>2 DEF Leads
    <3> QED BY <3>1, <3>2
  <2> QED BY <2>1, <2>6
<1> HIDE DEF Good
<1>6. \A i \in 0..N : i \in Good
  <2>1. \A i \in 0..N : i \in Good /\ i < N => i + 1 \in Good
    BY <1>5, Zenon
  <2> QED BY <1>1, <1>4, <2>1, UpTo, Zenon
<1>7. Leads(b, start, upTo(N), f[N])
  <2>1. N \in 0..N
    BY <1>1
  <2> QED BY <1>6, <2>1 DEF Good
<1>8. set \cap DOMAIN b.item \subseteq upTo(N)
  BY <1>1
<1> HIDE DEF upTo
<1> QED BY <1>2, <1>7, <1>8 DEF Leads, r

\* Everything on the trail leads to the item.
OnTrail(b, id, st) == id \in DOMAIN b.item => \A a \in st.active : id \in Before(Edges(b), Edges(b)[a])

\* A visit that is deep enough finds the item done or a cycle.
LEMMA VisitLeads ==
  ASSUME NEW b, DOMAIN b.item \subseteq ItemIds, DOMAIN b.deps = DOMAIN b.item,
         NEW f \in [0..Cardinality(DOMAIN b.item) -> [ItemIds -> [Searches -> Searches]]], Deepens(f, b)
  PROVE  \A n \in 0..Cardinality(DOMAIN b.item), id \in ItemIds, st \in Searches :
           Sound(b, st) /\ Cardinality(DOMAIN b.item \ st.active) <= n /\ OnTrail(b, id, st)
             => Leads(b, st, {id}, f[n][id][st])
<1> DEFINE items == DOMAIN b.item
           N == Cardinality(items)
           Fits(n, id, st) == Sound(b, st) /\ Cardinality(items \ st.active) <= n /\ OnTrail(b, id, st)
           Good == {n \in 0..N : \A id \in ItemIds, st \in Searches : Fits(n, id, st) => Leads(b, st, {id}, f[n][id][st])}
<1>1. IsFiniteSet(items) /\ N \in Nat
  BY ItemIdsFinite, FS_Subset, FS_CardinalityType
<1>2. \A n \in 0..N, id \in ItemIds, st \in Searches : f[n][id][st] = Visited(b, n, f[n - 1], id, st)
  BY DEF Deepens
<1> HIDE DEF N
\* Without another visit.
<1>3. ASSUME NEW n \in Nat, NEW id \in ItemIds, NEW st \in Searches, NEW deeper, Fits(n, id, st),
             id \in st.active \/ id \in st.done \/ id \notin items
      PROVE  Leads(b, st, {id}, Visited(b, n, deeper, id, st))
  <2>1. CASE id \in st.active
    <3> DEFINE r == [st EXCEPT !.found = TRUE]
    <3>1. Visited(b, n, deeper, id, st) = r
      BY <2>1 DEF Visited
    <3>2. r \in Searches /\ r.active = st.active /\ r.done = st.done /\ r.found
      BY DEF Searches
    <3> HIDE DEF r
    <3>3. id \in OnCycle(Edges(b))
      BY <1>3, <2>1 DEF OnTrail, Sound, OnCycle, Edges
    <3>4. Sound(b, r)
      BY <1>3, <3>2, <3>3 DEF Sound
    <3> QED BY <3>1, <3>2, <3>4 DEF Leads
  <2>2. CASE id \notin st.active
    <3>1. Visited(b, n, deeper, id, st) = st
      BY <1>3, <2>2 DEF Visited
    <3> QED BY <1>3, <2>2, <3>1 DEF Leads
  <2> QED BY <2>1, <2>2
\* With visits to what the item depends on.
<1>4. ASSUME NEW n \in 1..N, NEW id \in ItemIds, NEW st \in Searches, Fits(n, id, st), n - 1 \in Good,
             id \notin st.active, id \notin st.done, id \in items
      PROVE  Leads(b, st, {id}, f[n][id][st])
  <2> DEFINE start == [st EXCEPT !.active = @ \cup {id}]
             end == InTurn(b.deps[id], f[n - 1], start)
             r == [end EXCEPT !.active = @ \ {id}, !.done = @ \cup {id}]
             K == Edges(b)
  <2>0. n - 1 \in 0..N /\ n \in 0..N /\ n # 0
    BY <1>1, <1>4
  <2>1. f[n][id][st] = r
    <3>1. f[n][id][st] = Visited(b, n, f[n - 1], id, st)
      BY <1>2, <2>0
    <3>2. id \notin st.active /\ ~(id \in st.done \/ id \notin DOMAIN b.item \/ n = 0)
      BY <1>4, <2>0
    <3>3. Visited(b, n, f[n - 1], id, st) = r
      BY <3>2, Zenon DEF Visited
    <3> QED BY <3>1, <3>3, Zenon
  <2>2. start \in Searches /\ start.active = st.active \cup {id} /\ start.done = st.done /\ start.found = st.found
    BY DEF Searches
  <2> HIDE DEF start
  <2>3. Sound(b, start)
    BY <1>4, <2>2 DEF Sound
  <2>4. Cardinality(items \ start.active) <= n - 1
    <3> DEFINE more == items \ st.active
               less == items \ start.active
    <3>1. IsFiniteSet(more) /\ less = more \ {id} /\ id \in more
      BY <1>1, <1>4, <2>2, FS_Subset
    <3> HIDE DEF more, less
    <3>2. Cardinality(less) = Cardinality(more) - 1 /\ Cardinality(more) \in Nat
      BY <3>1, FS_RemoveElement, FS_CardinalityType
    <3>3. Cardinality(more) <= n
      BY <1>4 DEF more
    <3> QED BY <1>1, <3>2, <3>3 DEF less
  <2>5. \A d \in ItemIds \cap b.deps[id], s \in Searches :
          Sound(b, s) /\ s.active = start.active => Leads(b, s, {d}, f[n - 1][d][s])
    <3> SUFFICES ASSUME NEW d \in ItemIds \cap b.deps[id], NEW s \in Searches, Sound(b, s), s.active = start.active
                 PROVE  Leads(b, s, {d}, f[n - 1][d][s])
      OBVIOUS
    <3>1. OnTrail(b, d, s)
      <4> SUFFICES ASSUME d \in items, NEW a \in s.active PROVE d \in Before(K, K[a])
        BY DEF OnTrail
      <4>1. d \in K[id] /\ id \in DOMAIN K
        BY <1>4 DEF Edges
      <4>2. CASE a = id
        BY <4>1, <4>2, BeforeIs
      <4>3. CASE a # id
        <5>1. id \in Before(K, K[a])
          BY <1>4, <2>2, <4>3 DEF OnTrail
        <5>2. ClosedUnder(K, Before(K, K[a]))
          BY BeforeIs
        <5> QED BY <4>1, <5>1, <5>2 DEF ClosedUnder
      <4> QED BY <4>2, <4>3
    <3>2. Fits(n - 1, d, s)
      BY <2>4, <3>1
    <3> HIDE DEF Fits
    <3> QED BY <1>4, <3>2
  <2>6. Leads(b, start, b.deps[id], end)
    <3>1. f[n - 1] \in [ItemIds -> [Searches -> Searches]]
      BY <2>0 DEF N
    <3> HIDE DEF Good
    <3> QED BY <2>2, <2>3, <2>5, <3>1, InTurnLeads
  <2> HIDE DEF end
  <2>7. end \in Searches /\ end.active = st.active \cup {id} /\ st.done \subseteq end.done /\ (st.found => end.found)
    BY <2>2, <2>6 DEF Leads
  <2>8. /\ r \in Searches /\ r.active = end.active \ {id} /\ r.done = end.done \cup {id} /\ r.found = end.found
    BY <2>7 DEF Searches
  <2> HIDE DEF r
  <2>9. Sound(b, r)
    <3>1. /\ end.active \subseteq items /\ end.done \subseteq items /\ end.active \cap end.done = {}
          /\ (end.found => OnCycle(K) # {})
          /\ (~end.found => ClosedUnder(K, end.done) /\ end.done \cap OnCycle(K) = {} /\ K[id] \subseteq end.done)
      BY <1>4, <2>6 DEF Leads, Sound, Edges
    <3>2. ASSUME ~end.found PROVE ClosedUnder(K, r.done) /\ r.done \cap OnCycle(K) = {}
      <4>1. id \notin end.done
        BY <2>7, <3>1
      <4>2. Before(K, K[id]) \subseteq end.done
        BY <3>1, <3>2, BeforeIs
      <4>3. id \notin OnCycle(K)
        BY <4>1, <4>2 DEF OnCycle
      <4> HIDE DEF K
      <4> QED BY <2>8, <3>1, <3>2, <4>3 DEF ClosedUnder
    <3> QED BY <1>4, <2>7, <2>8, <3>1, <3>2 DEF Sound
  <2>10. r.active = st.active
    BY <1>4, <2>7, <2>8
  <2> QED BY <2>1, <2>7, <2>8, <2>9, <2>10 DEF Leads
<1>5. 0 \in Good
  <2>1. ASSUME NEW id \in ItemIds, NEW st \in Searches, Fits(0, id, st) PROVE Leads(b, st, {id}, f[0][id][st])
    <3>1. 0 \in 0..N /\ f[0][id][st] = Visited(b, 0, f[0 - 1], id, st)
      BY <1>1, <1>2
    <3>2. items \ st.active = {}
      <4> DEFINE rest == items \ st.active
      <4>1. IsFiniteSet(rest)
        BY <1>1, FS_Subset
      <4>2. Cardinality(rest) <= 0
        BY <2>1
      <4> HIDE DEF rest
      <4>3. Cardinality(rest) = 0
        BY <4>1, <4>2, FS_CardinalityType
      <4>4. rest = {}
        BY <4>1, <4>3, FS_EmptySet
      <4> QED BY <4>4 DEF rest
    <3> HIDE DEF Fits
    <3> QED BY <1>3, <2>1, <3>1, <3>2
  <2>2. 0 \in 0..N
    BY <1>1
  <2> HIDE DEF Fits
  <2> QED BY <2>1, <2>2
<1>6. ASSUME NEW n \in 0..N, n \in Good, n < N PROVE n + 1 \in Good
  <2>1. n + 1 \in 1..N /\ n + 1 \in 0..N /\ n + 1 - 1 = n /\ n + 1 \in Nat
    BY <1>1, <1>6
  <2>2. ASSUME NEW id \in ItemIds, NEW st \in Searches, Fits(n + 1, id, st) PROVE Leads(b, st, {id}, f[n + 1][id][st])
    <3>1. CASE id \in st.active \/ id \in st.done \/ id \notin items
      <4>1. f[n + 1][id][st] = Visited(b, n + 1, f[n + 1 - 1], id, st)
        BY <1>2, <2>1
      <4> HIDE DEF Fits, Good
      <4> QED BY <1>3, <2>1, <2>2, <3>1, <4>1
    <3>2. CASE ~(id \in st.active \/ id \in st.done \/ id \notin items)
      <4> HIDE DEF Fits, Good
      <4>1. n + 1 - 1 \in Good
        BY <1>6, <2>1
      <4>2. id \notin st.active /\ id \notin st.done /\ id \in items
        BY <3>2
      <4>3. \A m \in 1..N, i \in ItemIds, s \in Searches :
              Fits(m, i, s) /\ m - 1 \in Good /\ i \notin s.active /\ i \notin s.done /\ i \in items
                => Leads(b, s, {i}, f[m][i][s])
        BY <1>4, Zenon
      <4>4. Fits(n + 1, id, st)
        BY <2>2, Zenon
      <4> HIDE DEF items
      <4> DEFINE m == n + 1
      <4>5. m \in 1..N
        BY <2>1
      <4>7. m - 1 \in Good
        BY <4>1
      <4>8. Fits(m, id, st)
        BY <4>4
      <4> HIDE DEF m
      <4>6. Leads(b, st, {id}, f[m][id][st])
        BY <4>2, <4>3, <4>5, <4>7, <4>8, Zenon
      <4> QED BY <4>6, Zenon DEF m
    <3> QED BY <3>1, <3>2
  <2> HIDE DEF Fits
  <2> QED BY <2>1, <2>2
<1>7. \A n \in 0..N : n \in Good
  <2> HIDE DEF Good
  <2>1. \A n \in 0..N : n \in Good /\ n < N => n + 1 \in Good
    BY <1>6, Zenon
  <2> QED BY <1>1, <1>5, <2>1, UpTo, Zenon
<1> QED BY <1>7 DEF N

\* The depth-first search finds a cycle exactly when some item is before itself.
LEMMA DependencyCyclesIs ==
  ASSUME NEW b, DOMAIN b.item \subseteq ItemIds, DOMAIN b.deps = DOMAIN b.item
  PROVE  DependencyCycles(b) <=> OnCycle(Edges(b)) # {}
<1> DEFINE items == DOMAIN b.item
           N == Cardinality(items)
           start == [active |-> {}, done |-> {}, found |-> FALSE]
           r == InTurn(items, Visits(b), start)
<1>1. IsFiniteSet(items) /\ N \in Nat /\ N \in 0..N
  BY ItemIdsFinite, FS_Subset, FS_CardinalityType
<1>2. PICK f \in [0..N -> [ItemIds -> [Searches -> Searches]]] : Deepens(f, b) /\ Visits(b) = f[N]
  BY VisitsIsDeepest
<1>3. Visits(b) \in [ItemIds -> [Searches -> Searches]]
  BY <1>1, <1>2
<1>4. start \in Searches /\ Sound(b, start) /\ start.active = {} /\ start.done = {} /\ ~start.found
  BY DEF Searches, Sound, ClosedUnder
<1> HIDE DEF start
<1>5. \A id \in ItemIds \cap items, st \in Searches :
        Sound(b, st) /\ st.active = start.active => Leads(b, st, {id}, Visits(b)[id][st])
  <2> SUFFICES ASSUME NEW id \in ItemIds, NEW st \in Searches, Sound(b, st), st.active = {}
               PROVE  Leads(b, st, {id}, Visits(b)[id][st])
    BY <1>4
  <2>1. Cardinality(items \ st.active) <= N /\ OnTrail(b, id, st)
    <3>1. items \ st.active = items
      OBVIOUS
    <3> QED BY <1>1, <3>1 DEF OnTrail
  <2> QED BY <1>1, <1>2, <2>1, VisitLeads
<1>6. Leads(b, start, items, r)
  BY <1>3, <1>4, <1>5, InTurnLeads
<1>7. DependencyCycles(b) = r.found
  BY DEF DependencyCycles, start
<1> HIDE DEF r
<1>8. r \in Searches /\ (r.found => OnCycle(Edges(b)) # {}) /\ (~r.found => items \cap OnCycle(Edges(b)) = {})
  BY <1>6 DEF Leads, Sound
<1>9. OnCycle(Edges(b)) \subseteq items
  BY DEF OnCycle, Edges
<1> QED BY <1>7, <1>8, <1>9

\* A change of an item is a change of its status, pull request and what goes with
\* them, and makes a board.
LEMMA MovedIs ==
  ASSUME NEW b, IsBoard(b), NEW i \in DOMAIN b.item, NEW status \in ITEM_STATUSES \cup Used, NEW pr \in ItemIds \cup {NoPr, Shared},
         NEW fault \in Faults, NEW m, m = Moved(b, i, status, pr, fault)
  PROVE  /\ IsBoard(m) /\ DOMAIN m.item = DOMAIN b.item
         /\ m.deps = b.deps /\ m.after = b.after /\ m.lists = b.lists
         /\ \A j \in DOMAIN b.item \ {i} : m.item[j] = b.item[j]
         /\ m.item[i].type = b.item[i].type /\ m.item[i].initiative = b.item[i].initiative
         /\ m.item[i].status = status /\ m.item[i].pr = pr /\ m.item[i].fault = fault
         /\ (fault # "forgotten" => /\ m.item[i].blocked <=> status = "blocked"
                                    /\ m.item[i].completion <=> status = "done")
<1> DEFINE forgets == fault = "forgotten"
           with == (status = "blocked") # forgets
           ends == (status = "done") # forgets
           one == [b.item[i] EXCEPT !.status = status, !.pr = pr, !.blocked = with, !.completion = ends, !.fault = fault]
           all == [b.item EXCEPT ![i] = one]
<1>1. m = [b EXCEPT !.item = all]
  BY Zenon DEF Moved
<1>2. with \in BOOLEAN /\ ends \in BOOLEAN
  OBVIOUS
<1>3. fault # "forgotten" => (with <=> status = "blocked") /\ (ends <=> status = "done")
  BY Zenon
<1> HIDE DEF with, ends, forgets
<1>4. b.item[i] \in Items /\ b.item \in [DOMAIN b.item -> Items]
  BY DEF IsBoard
<1>5. /\ one \in Items /\ one.type = b.item[i].type /\ one.initiative = b.item[i].initiative
      /\ one.status = status /\ one.pr = pr /\ one.fault = fault /\ one.blocked = with /\ one.completion = ends
  BY <1>2, <1>4 DEF Items
<1> HIDE DEF one
<1>6. all \in [DOMAIN b.item -> Items] /\ all[i] = one /\ (\A j \in DOMAIN b.item \ {i} : all[j] = b.item[j])
  BY <1>4, <1>5
<1> HIDE DEF all
<1>7. m.item = all /\ m.deps = b.deps /\ m.after = b.after /\ m.lists = b.lists /\ DOMAIN m = DOMAIN b
  BY <1>1 DEF IsBoard
<1>8. DOMAIN all = DOMAIN b.item
  BY <1>6
<1>9. IsBoard(m)
  BY <1>6, <1>7, <1>8 DEF IsBoard
<1>10. /\ DOMAIN m.item = DOMAIN b.item /\ (\A j \in DOMAIN b.item \ {i} : m.item[j] = b.item[j]) /\ m.item[i] = one
  BY <1>6, <1>7, <1>8
<1> QED BY <1>3, <1>5, <1>7, <1>9, <1>10

\* What is true of the items one by one, of references and of cycles is still true
\* when an item takes its next step.
LEMMA StepKeepsRecords ==
  ASSUME NEW b, IsBoard(b), Valid(b), NEW i \in Open(b), NEW s \in {"accepted", "ready", "in-progress", "review", "done"}
  PROVE  LET m == Moved(b, i, s, i, "none")
         IN  /\ \A j \in DOMAIN m.item : ItemOk(m.item[j]) /\ FieldsOk(m.item[j])
             /\ ReferencesOk(m) /\ ~DependencyCycles(m) /\ Remaining(m) = {}
<1> DEFINE items == DOMAIN b.item
           m == Moved(b, i, s, i, "none")
<1>1. i \in items /\ items \subseteq ItemIds /\ i # NoPr /\ b.deps \in [items -> SUBSET ItemIds] /\ DOMAIN b.after = Initiatives
  BY BacklogAssumption DEF Open, IsBoard
<1>2. /\ IsBoard(m) /\ DOMAIN m.item = items
      /\ m.deps = b.deps /\ m.after = b.after /\ m.lists = b.lists
      /\ \A j \in items \ {i} : m.item[j] = b.item[j]
      /\ m.item[i].initiative = b.item[i].initiative
      /\ m.item[i].status = s /\ m.item[i].pr = i /\ m.item[i].fault = "none"
      /\ (m.item[i].blocked <=> s = "blocked") /\ (m.item[i].completion <=> s = "done")
  <2>1. i \in ItemIds \cup {NoPr, Shared} /\ s \in ITEM_STATUSES \cup Used /\ "none" \in Faults /\ "none" # "forgotten"
    BY <1>1 DEF ITEM_STATUSES, Faults
  <2> QED BY <1>1, <2>1, MovedIs
<1> HIDE DEF m
<1>3. ASSUME NEW j \in DOMAIN m.item PROVE ItemOk(m.item[j]) /\ FieldsOk(m.item[j])
  <2>1. CASE j = i
    BY <1>1, <1>2, <2>1 DEF ItemOk, FieldsOk, ITEM_STATUSES
  <2>2. CASE j # i
    <3>1. m.item[j] = b.item[j] /\ j \in items
      BY <1>2, <2>2
    <3> QED BY <3>1 DEF Valid
  <2> QED BY <2>1, <2>2
<1>4. \A j \in items : m.item[j].initiative = b.item[j].initiative
  BY <1>2
<1>5. ReferencesOk(m)
  BY <1>2, <1>4 DEF Valid, ReferencesOk
<1>6. Edges(m) = Edges(b)
  BY <1>2 DEF Edges
<1>7. ~DependencyCycles(m)
  <2>1. DependencyCycles(b) <=> OnCycle(Edges(b)) # {}
    BY <1>1, DependencyCyclesIs
  <2>2. DependencyCycles(m) <=> OnCycle(Edges(m)) # {}
    BY <1>1, <1>2, DependencyCyclesIs
  <2> QED BY <1>6, <2>1, <2>2 DEF Valid
<1>8. Remaining(m) = Remaining(b)
  <2>1. DOMAIN m.after = Initiatives
    BY <1>1, <1>2
  <2>2. Remaining(m) = {n \in Initiatives : Before(m.after, {n}) \cap OnCycle(m.after) # {}}
    BY <2>1, RemainingIs
  <2>3. Remaining(b) = {n \in Initiatives : Before(b.after, {n}) \cap OnCycle(b.after) # {}}
    BY <1>1, RemainingIs
  <2> QED BY <1>2, <2>2, <2>3
<1> QED BY <1>3, <1>5, <1>7, <1>8 DEF Valid, m

\* The pull requests in progress of a class.
Requests(b, class) ==
  {IF b.item[i].pr = NoPr THEN i ELSE b.item[i].pr : i \in {j \in InProgress(b) : workClass(b.item[j]) = class}}

\* An item that takes its next step exceeds no limit when it is not taken into
\* progress, or is the only one in progress.
LEMMA StepKeepsLimits ==
  ASSUME NEW b, IsBoard(b), Valid(b), NEW i \in Open(b), NEW s \in {"accepted", "ready", "in-progress", "review", "done"},
         s = "in-progress" => InProgress(b) = {}
  PROVE  WithinWip(Moved(b, i, s, i, "none"))
<1> DEFINE items == DOMAIN b.item
           m == Moved(b, i, s, i, "none")
           InOne(c, n) == {j \in InProgress(c) : c.item[j].initiative = n}
<1>1. i \in items /\ items \subseteq ItemIds /\ i # NoPr
  BY BacklogAssumption DEF Open, IsBoard
<1>2. /\ DOMAIN m.item = items
      /\ \A j \in items \ {i} : m.item[j] = b.item[j]
      /\ m.item[i].status = s /\ m.item[i].pr = i
  <2>1. i \in ItemIds \cup {NoPr, Shared} /\ s \in ITEM_STATUSES \cup Used /\ "none" \in Faults /\ "none" # "forgotten"
    BY <1>1 DEF ITEM_STATUSES, Faults
  <2> QED BY <1>1, <2>1, MovedIs
<1> HIDE DEF m
<1>3. WithinWip(b)
  BY DEF Valid
<1>4. DOMAIN WIP_LIMITS = {"runtime", "governance", "release"} /\ \A class \in DOMAIN WIP_LIMITS : WIP_LIMITS[class] \in Nat /\ 1 <= WIP_LIMITS[class]
  BY DEF WIP_LIMITS
<1>5. \A class \in DOMAIN WIP_LIMITS : Cardinality(Requests(b, class)) <= WIP_LIMITS[class]
  BY <1>3, Zenon DEF WithinWip, Requests
<1>6. \A n \in Initiatives : Cardinality(InOne(b, n)) <= 1
  BY <1>3, Zenon DEF WithinWip
<1>7. IsFiniteSet(items)
  BY <1>1, ItemIdsFinite, FS_Subset
<1>8. ASSUME NEW set, NEW k \in Nat, Cardinality(set) <= k, IsFiniteSet(set), NEW part, part \subseteq set
      PROVE  Cardinality(part) <= k
  <2>1. IsFiniteSet(part) /\ Cardinality(part) <= Cardinality(set)
    BY <1>8, FS_Subset
  <2> QED BY <1>8, <2>1, FS_CardinalityType
<1>9. IsFiniteSet({i}) /\ Cardinality({i}) = 1
  BY FS_Singleton
<1>10. ASSUME NEW class \in DOMAIN WIP_LIMITS PROVE Cardinality(Requests(m, class)) <= WIP_LIMITS[class]
  <2>1. CASE s = "in-progress"
    <3>1. InProgress(m) \subseteq {i}
      BY <1>2, <2>1 DEF InProgress
    <3>2. Requests(m, class) \subseteq {i}
      BY <1>2, <3>1 DEF Requests
    <3> QED BY <1>4, <1>8, <1>9, <3>2
  <2>2. CASE s # "in-progress"
    <3>1. InProgress(m) \subseteq InProgress(b) \ {i} /\ InProgress(b) \subseteq items
      BY <1>2, <2>2 DEF InProgress
    <3>2. \A j \in InProgress(m) : m.item[j] = b.item[j]
      BY <1>2, <3>1
    <3>3. Requests(m, class) \subseteq Requests(b, class)
      <4> SUFFICES ASSUME NEW j \in InProgress(m), workClass(m.item[j]) = class
                   PROVE  (IF m.item[j].pr = NoPr THEN j ELSE m.item[j].pr) \in Requests(b, class)
        BY DEF Requests
      <4>1. m.item[j] = b.item[j] /\ j \in {k \in InProgress(b) : workClass(b.item[k]) = class}
        BY <3>1, <3>2
      <4> QED BY <4>1 DEF Requests
    <3>4. IsFiniteSet(Requests(b, class))
      <4> DEFINE chosen == {j \in InProgress(b) : workClass(b.item[j]) = class}
                 of(j) == IF b.item[j].pr = NoPr THEN j ELSE b.item[j].pr
      <4>1. IsFiniteSet(chosen)
        BY <1>7, <3>1, FS_Subset
      <4> HIDE DEF chosen
      <4> DEFINE as == [j \in chosen |-> of(j)]
                 image == {of(j) : j \in chosen}
      <4>2. as \in Surjection(chosen, image)
        BY DEF Surjection
      <4>3. IsFiniteSet(image)
        BY <4>1, <4>2, FS_Surjection
      <4> QED BY <4>3, Zenon DEF Requests, chosen
    <3> QED BY <1>4, <1>5, <1>8, <3>3, <3>4
  <2> QED BY <2>1, <2>2
<1>11. ASSUME NEW n \in Initiatives PROVE Cardinality(InOne(m, n)) <= 1
  <2>1. CASE s = "in-progress"
    <3>1. InOne(m, n) \subseteq {i}
      BY <1>2, <2>1 DEF InProgress
    <3> HIDE DEF InOne
    <3> QED BY <1>8, <1>9, <3>1
  <2>2. CASE s # "in-progress"
    <3>1. InOne(m, n) \subseteq InOne(b, n) /\ InOne(b, n) \subseteq items
      BY <1>2, <2>2 DEF InProgress
    <3>2. IsFiniteSet(InOne(b, n)) /\ Cardinality(InOne(b, n)) <= 1
      BY <1>6, <1>7, <3>1, FS_Subset
    <3> HIDE DEF InOne
    <3> QED BY <1>8, <3>1, <3>2
  <2> QED BY <2>1, <2>2
<1> QED BY <1>10, <1>11, Zenon DEF WithinWip, Requests, m

\* The board is still accepted when an item takes its next step, if what it depends
\* on is done whenever the step needs that.
LEMMA StepIsValid ==
  ASSUME NEW b, IsBoard(b), Valid(b), NEW i \in Open(b), NEW s \in {"accepted", "ready", "in-progress", "review", "done"},
         s = "in-progress" => InProgress(b) = {}, s # "accepted" => b.deps[i] \cap Open(b) = {}
  PROVE  Valid(Moved(b, i, s, i, "none"))
<1> DEFINE items == DOMAIN b.item
           m == Moved(b, i, s, i, "none")
<1>1. i \in items /\ items \subseteq ItemIds
  BY DEF Open, IsBoard
<1>2. /\ DOMAIN m.item = items /\ m.deps = b.deps
      /\ \A j \in items \ {i} : m.item[j] = b.item[j]
      /\ m.item[i].status = s
  <2>1. i \in ItemIds \cup {NoPr, Shared} /\ s \in ITEM_STATUSES \cup Used /\ "none" \in Faults /\ "none" # "forgotten"
    BY <1>1 DEF ITEM_STATUSES, Faults
  <2> QED BY <1>1, <2>1, MovedIs
<1>3. /\ \A j \in DOMAIN m.item : ItemOk(m.item[j]) /\ FieldsOk(m.item[j])
      /\ ReferencesOk(m) /\ ~DependencyCycles(m) /\ Remaining(m) = {}
  BY StepKeepsRecords
<1>4. WithinWip(m)
  BY StepKeepsLimits
<1> HIDE DEF m
<1>5. ReadinessErrors(m) = {}
  <2> SUFFICES ASSUME NEW j \in items, m.item[j].status \in {"ready", "in-progress", "review", "done"},
                      NEW d \in b.deps[j] \cap items, m.item[d].status # "done"
               PROVE  FALSE
    BY <1>2 DEF ReadinessErrors
  <2>1. b.item[d].status # "done"
    BY <1>2 DEF Open
  <2>2. CASE j = i
    BY <1>2, <2>1, <2>2 DEF Open
  <2>3. CASE j # i
    BY <1>2, <2>1, <2>3 DEF Valid, ReadinessErrors
  <2> QED BY <2>2, <2>3
<1> QED BY <1>3, <1>4, <1>5 DEF Valid, m

\* What has begun depends on nothing that is open.
LEMMA BegunRestsOnDone ==
  ASSUME NEW b, IsBoard(b), Valid(b), NEW i \in DOMAIN b.item,
         b.item[i].status \in {"ready", "in-progress", "review", "done"}
  PROVE  b.deps[i] \cap Open(b) = {}
BY DEF Valid, ReadinessErrors, Open

\* What is done rests on what is done.
LEMMA DoneRestsOnDone ==
  ASSUME NEW b, IsBoard(b), Valid(b), NEW i \in DOMAIN b.item, b.item[i].status = "done"
  PROVE  Before(b.deps, {i}) \cap Open(b) = {}
<1> DEFINE ends == {j \in DOMAIN b.item : b.item[j].status = "done"}
<1>1. DOMAIN b.deps = DOMAIN b.item
  BY DEF IsBoard
<1>2. ClosedUnder(b.deps, ends)
  <2> SUFFICES ASSUME NEW x \in ends, NEW d \in b.deps[x] PROVE d \in ends
    BY DEF ClosedUnder
  <2>1. d \in DOMAIN b.item
    BY DEF Valid, ReferencesOk
  <2>2. d \notin Open(b)
    BY BegunRestsOnDone
  <2> QED BY <2>1, <2>2 DEF Open
<1>3. Before(b.deps, {i}) \subseteq ends
  <2>1. {i} \subseteq ends
    OBVIOUS
  <2> HIDE DEF ends
  <2> QED BY <1>2, <2>1, BeforeIs
<1> QED BY <1>3 DEF Open

\* When all that is open is accepted only, something open depends on nothing open.
LEMMA SomeWaitsForNone ==
  ASSUME NEW b, IsBoard(b), Valid(b), Open(b) # {}
  PROVE  \E i \in Open(b) : b.deps[i] \cap Open(b) = {}
<1> SUFFICES ASSUME \A i \in Open(b) : b.deps[i] \cap Open(b) # {} PROVE FALSE
  OBVIOUS
<1> DEFINE K == Edges(b)
           R == Open(b)
<1>1. DOMAIN b.item \subseteq ItemIds /\ DOMAIN b.deps = DOMAIN b.item /\ R \subseteq DOMAIN b.item
  BY DEF IsBoard, Open
<1>2. IsFiniteSet(R)
  BY <1>1, ItemIdsFinite, FS_Subset
<1>3. R \subseteq DOMAIN K /\ \A x \in R : K[x] \cap R # {}
  BY <1>1 DEF Edges
<1>4. PICK n \in R : TRUE
  OBVIOUS
<1>5. OnCycle(K) # {}
  <2> HIDE DEF K, R
  <2>1. Before(K, {n}) \cap OnCycle(K) # {}
    BY <1>2, <1>3, WaitingHasCycle
  <2> QED BY <2>1
<1> QED BY <1>1, <1>5, DependencyCyclesIs DEF Valid

\* As long as nothing is given up some open item can take its next step.
LEMMA SomeCanProceed ==
  ASSUME NEW b, IsBoard(b), Valid(b), Open(b) # {}, \A i \in Open(b) : b.item[i].status \notin {"deferred", "rejected"}
  PROVE  \E i \in Open(b) : Valid(Moved(b, i, Ahead(b.item[i].status), i, "none"))
<1> DEFINE In(status) == \E i \in Open(b) : b.item[i].status = status
<1>0. \A i \in Open(b) : i \in DOMAIN b.item /\ b.item[i].status # "done" /\ b.item[i].status \in ITEM_STATUSES
  BY DEF Open, Valid, ItemOk
<1>1. CASE In("in-progress")
  <2>1. PICK i \in Open(b) : b.item[i].status = "in-progress"
    BY <1>1
  <2>2. Ahead(b.item[i].status) = "review"
    BY <2>1 DEF Ahead
  <2>3. Valid(Moved(b, i, "review", i, "none"))
    BY <1>0, <2>1, BegunRestsOnDone, StepIsValid
  <2> QED BY <2>2, <2>3
<1>2. CASE In("review")
  <2>1. PICK i \in Open(b) : b.item[i].status = "review"
    BY <1>2
  <2>2. Ahead(b.item[i].status) = "done"
    BY <2>1 DEF Ahead
  <2>3. Valid(Moved(b, i, "done", i, "none"))
    BY <1>0, <2>1, BegunRestsOnDone, StepIsValid
  <2> QED BY <2>2, <2>3
<1>3. CASE In("proposed") \/ In("blocked")
  <2>1. PICK i \in Open(b) : b.item[i].status \in {"proposed", "blocked"}
    BY <1>3
  <2>2. Ahead(b.item[i].status) = "accepted"
    BY <2>1 DEF Ahead
  <2>3. Valid(Moved(b, i, "accepted", i, "none"))
    BY StepIsValid
  <2> QED BY <2>2, <2>3
<1>4. CASE In("ready") /\ ~In("in-progress")
  <2>1. PICK i \in Open(b) : b.item[i].status = "ready"
    BY <1>4
  <2>2. Ahead(b.item[i].status) = "in-progress"
    BY <2>1 DEF Ahead
  <2>3. InProgress(b) = {}
    BY <1>4 DEF InProgress, Open
  <2>4. Valid(Moved(b, i, "in-progress", i, "none"))
    BY <1>0, <2>1, <2>3, BegunRestsOnDone, StepIsValid
  <2> QED BY <2>2, <2>4
<1>5. CASE \A i \in Open(b) : b.item[i].status = "accepted"
  <2>1. PICK i \in Open(b) : b.deps[i] \cap Open(b) = {}
    BY SomeWaitsForNone
  <2>2. Ahead(b.item[i].status) = "ready"
    BY <1>5 DEF Ahead
  <2>3. Valid(Moved(b, i, "ready", i, "none"))
    BY <2>1, StepIsValid
  <2> QED BY <2>2, <2>3
<1> QED BY <1>0, <1>1, <1>2, <1>3, <1>4, <1>5 DEF ITEM_STATUSES

\* Every change makes a board, and boards are what the gate judges.
LEMMA BoardsOnly == BlSpec => []IsBoard(board)
<1>1. BlInit => IsBoard(board)
  BY BacklogAssumption DEF BlInit
<1>2. ASSUME IsBoard(board), [BlNext]_blVars PROVE IsBoard(board)'
  <2>1. CASE BlNext
    <3>1. PICK i \in DOMAIN board.item : Change(i)
      BY <2>1 DEF BlNext
    <3>2. board.item[i] \in Items /\ i \in ItemIds
      BY <1>2 DEF IsBoard
    <3>3. PICK status \in Used :
            \E pr \in IF status = "in-progress" THEN {NoPr, i, Shared} ELSE {board.item[i].pr},
               fault \in IF status = "done" THEN Faults ELSE {"none"} :
              board' = board \/ board' = Moved(board, i, status, pr, fault)
      BY <3>1 DEF Change
    <3>4. PICK pr \in IF status = "in-progress" THEN {NoPr, i, Shared} ELSE {board.item[i].pr},
               fault \in IF status = "done" THEN Faults ELSE {"none"} :
            board' = board \/ board' = Moved(board, i, status, pr, fault)
      BY <3>3
    <3>5. status \in ITEM_STATUSES \cup Used /\ pr \in ItemIds \cup {NoPr, Shared} /\ fault \in Faults
      <4>1. status \in ITEM_STATUSES \cup Used /\ fault \in Faults
        BY DEF Faults
      <4>2. board.item[i].pr \in ItemIds \cup {NoPr, Shared}
        BY <3>2 DEF Items
      <4> QED BY <3>2, <4>1, <4>2
    <3>6. IsBoard(Moved(board, i, status, pr, fault))
      <4>1. IsBoard(board) /\ i \in DOMAIN board.item
        BY <1>2
      <4> HIDE <1>2
      <4>2. ASSUME NEW b, IsBoard(b), NEW j \in DOMAIN b.item, NEW s \in ITEM_STATUSES \cup Used,
                   NEW p \in ItemIds \cup {NoPr, Shared}, NEW e \in Faults
            PROVE  IsBoard(Moved(b, j, s, p, e))
        BY <4>2, MovedIs
      <4>3. \A b : IsBoard(b) => \A j \in DOMAIN b.item, s \in ITEM_STATUSES \cup Used,
              p \in ItemIds \cup {NoPr, Shared}, e \in Faults : IsBoard(Moved(b, j, s, p, e))
        BY <4>2, Zenon
      <4> QED BY <3>5, <4>1, <4>3, Zenon
    <3>7. IsBoard(board')
      BY <1>2, <3>4, <3>6
    <3> QED BY <3>7
  <2>2. CASE UNCHANGED blVars
    BY <1>2, <2>2 DEF blVars
  <2> QED BY <1>2, <2>1, <2>2
<1> QED BY <1>1, <1>2, PTL DEF BlSpec

\* A board that the gate accepts: both searches are right about cycles, what is done
\* rests on what is done, and the work can go on.
LEMMA BoardCanProceed ==
  ASSUME IsBoard(board)
  PROVE  AcceptedCanProceed
<1>1. DOMAIN board.item \subseteq ItemIds /\ DOMAIN board.deps = DOMAIN board.item /\ DOMAIN board.after = Initiatives
  BY DEF IsBoard
<1>2. CyclesFound
  BY <1>1, DependencyCyclesIs, RemainingIs DEF CyclesFound, Edges
<1>3. ASSUME Valid(board), NEW i \in DOMAIN board.item, board.item[i].status = "done"
      PROVE  Before(board.deps, {i}) \cap Open(board) = {}
  BY <1>3, DoneRestsOnDone
<1>4. ASSUME Valid(board), Open(board) # {}, \A i \in Open(board) : board.item[i].status \notin {"deferred", "rejected"}
      PROVE  \E i \in Open(board) : Valid(Moved(board, i, Ahead(board.item[i].status), i, "none"))
  BY <1>4, SomeCanProceed
<1> QED BY <1>2, <1>3, <1>4 DEF AcceptedCanProceed

\* AcceptedCanProceed holds of every behaviour.
THEOREM BacklogCanProceed == BlSpec => []AcceptedCanProceed
<1>1. IsBoard(board) => AcceptedCanProceed
  BY BoardCanProceed
<1> QED BY <1>1, BoardsOnly, PTL
=============================================================================
