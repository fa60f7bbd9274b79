---------------------------- MODULE Tools_proofs ----------------------------
(***************************************************************************)
(* The tools of a model: proofs that BatchTool and ReduceTool, the streams  *)
(* of ExecTool, WebFetchTool, split_message, the body of a recording, the   *)
(* file tools and the includes of a screen document are right, for every    *)
(* value of their constants.                                               *)
(***************************************************************************)
EXTENDS BatchTool, ReduceTool, ShellStream, ScreenIncludes, WebFetch, SplitMessage, VoiceBody,
        FileTools, SequencesExt, FiniteSetTheorems, SequenceTheorems, WellFoundedInduction, TLAPS

-----------------------------------------------------------------------------
(* Sequences                                                                 *)

\* A set of numbers that is not empty has a least one.
LEMMA LeastNumber ==
  ASSUME NEW S \in SUBSET Nat, S # {}
  PROVE  \E x \in S : \A y \in S : x <= y
<1> DEFINE R == OpToRel(<, Nat)
<1>1. IsWellFoundedOn(R, Nat)
  BY NatLessThanWellFounded
<1>2. \A x, y \in Nat : x < y => <<x, y>> \in R
  BY DEF OpToRel
<1> HIDE DEF R
<1>3. PICK x \in S : \A y \in S : ~(<<y, x>> \in R)
  BY <1>1, WFMin
<1>4. \A y \in S : x <= y
  <2> SUFFICES ASSUME NEW y \in S PROVE x <= y
    OBVIOUS
  <2>1. x \in Nat /\ y \in Nat
    OBVIOUS
  <2>2. ~(y < x)
    BY <1>2, <1>3, <2>1, Zenon
  <2> QED BY <2>1, <2>2
<1> QED BY <1>4

\* What holds at 0 and goes on holds up to the end: else there were a least number
\* at which it fails.
LEMMA GoesOn ==
  ASSUME NEW L \in Nat, NEW S \in SUBSET (0..L), 0 \in S,
         \A n \in 0..L : n \in S /\ n + 1 \in 0..L => n + 1 \in S
  PROVE  S = 0..L
<1> SUFFICES ASSUME (0..L) \ S # {} PROVE FALSE
  OBVIOUS
<1>1. (0..L) \ S \in SUBSET Nat
  OBVIOUS
<1>2. PICK x \in (0..L) \ S : \A y \in (0..L) \ S : x <= y
  BY <1>1, LeastNumber
<1>3. x # 0 /\ x \in 0..L /\ x \notin S
  BY <1>2
<1>4. x - 1 \in 0..L /\ ~(x <= x - 1) /\ (x - 1) + 1 = x
  BY <1>3
<1>5. x - 1 \in S
  BY <1>2, <1>4
<1> QED BY <1>3, <1>4, <1>5

\* f runs through the values that step makes one after the other.
LoopRuns(L, V, first, step, f) ==
  /\ f \in [0..L -> V] /\ f[0] = first
  /\ \A i \in 1..L : f[i] = step[i][f[i - 1]]

\* There are such values: what a loop over a sequence computes.
LEMMA RunExists ==
  ASSUME NEW L \in Nat, NEW V, NEW first \in V, NEW step \in [1..L -> [V -> V]]
  PROVE  \E f : LoopRuns(L, V, first, step, f)
<1> DEFINE S == {n \in 0..L : \E f \in [0..n -> V] :
                    f[0] = first /\ \A i \in 1..n : f[i] = step[i][f[i - 1]]}
<1>1. 0 \in S
  <2> DEFINE f == [i \in 0..0 |-> first]
  <2>1. f \in [0..0 -> V] /\ f[0] = first /\ \A i \in 1..0 : f[i] = step[i][f[i - 1]]
    OBVIOUS
  <2> HIDE DEF f
  <2> QED BY <2>1
<1>2. ASSUME NEW n \in 0..L, n \in S, n + 1 \in 0..L PROVE n + 1 \in S
  <2>1. PICK f \in [0..n -> V] : f[0] = first /\ \A i \in 1..n : f[i] = step[i][f[i - 1]]
    BY <1>2
  <2>2. n \in Nat /\ n \in 0..n /\ 0 \in 0..n /\ n + 1 \in 1..L
    BY <1>2
  <2>3. f[n] \in V
    BY <2>2
  <2>4. step[n + 1] \in [V -> V]
    BY <2>2
  <2> DEFINE v == step[n + 1][f[n]]
  <2>5. v \in V
    BY <2>3, <2>4
  <2> HIDE DEF v
  <2> DEFINE g == [i \in 0..(n + 1) |-> IF i = n + 1 THEN v ELSE f[i]]
  <2>6. \A i \in 0..n : g[i] = f[i]
    BY <2>2
  <2>7. g[n + 1] = v
    BY <2>2
  <2>8. g \in [0..(n + 1) -> V]
    <3>1. \A i \in 0..(n + 1) : (IF i = n + 1 THEN v ELSE f[i]) \in V
      <4> SUFFICES ASSUME NEW i \in 0..(n + 1), i # n + 1 PROVE f[i] \in V
        BY <2>5
      <4>1. i \in 0..n
        BY <2>2
      <4> QED BY <4>1
    <3> QED BY <3>1
  <2> HIDE DEF g
  <2>9. g[0] = first
    BY <2>1, <2>2, <2>6
  <2>10. ASSUME NEW i \in 1..(n + 1) PROVE g[i] = step[i][g[i - 1]]
    <3>1. CASE i = n + 1
      <4>1. i - 1 = n
        BY <2>2, <3>1
      <4>2. g[n] = f[n]
        BY <2>2, <2>6
      <4> QED BY <2>7, <3>1, <4>1, <4>2 DEF v
    <3>2. CASE i # n + 1
      <4>1. i \in 1..n /\ i \in 0..n /\ i - 1 \in 0..n
        BY <2>2, <3>2
      <4> QED BY <2>1, <2>6, <4>1
    <3> QED BY <3>1, <3>2
  <2> QED BY <1>2, <2>8, <2>9, <2>10
<1> HIDE DEF S
<1>3. S \in SUBSET (0..L)
  BY DEF S
<1>4. S = 0..L
  BY <1>1, <1>2, <1>3, GoesOn
<1>5. L \in S
  BY <1>4
<1>6. PICK f \in [0..L -> V] : f[0] = first /\ \A i \in 1..L : f[i] = step[i][f[i - 1]]
  BY <1>5 DEF S
<1> QED BY <1>6 DEF LoopRuns

\* Two runs with the same steps up to n agree there.
LEMMA RunsAgree ==
  ASSUME NEW L, NEW M, NEW V, NEW first, NEW step, NEW other, NEW f, NEW g,
         NEW n \in Nat, L \in Nat, M \in Nat, n <= L, n <= M,
         LoopRuns(L, V, first, step, f), LoopRuns(M, V, first, other, g),
         \A i \in 1..n : \A v \in V : step[i][v] = other[i][v]
  PROVE  \A k \in 0..n : f[k] = g[k]
<1> DEFINE S == {k \in 0..n : f[k] = g[k]}
<1>1. /\ f \in [0..L -> V] /\ f[0] = first /\ \A i \in 1..L : f[i] = step[i][f[i - 1]]
      /\ g \in [0..M -> V] /\ g[0] = first /\ \A i \in 1..M : g[i] = other[i][g[i - 1]]
  BY DEF LoopRuns
<1>2. 0 \in S
  BY <1>1
<1>3. ASSUME NEW k \in 0..n, k \in S, k + 1 \in 0..n PROVE k + 1 \in S
  <2>1. f[k] = g[k] /\ k + 1 \in 1..L /\ k + 1 \in 1..M /\ k + 1 \in 1..n /\ k \in 0..L /\ (k + 1) - 1 = k
    BY <1>3
  <2>2. f[k] \in V
    BY <1>1, <2>1
  <2>3. f[k + 1] = step[k + 1][f[k]] /\ g[k + 1] = other[k + 1][g[k]]
    BY <1>1, <2>1
  <2>4. step[k + 1][f[k]] = other[k + 1][f[k]]
    BY <2>1, <2>2
  <2>5. f[k + 1] = g[k + 1]
    BY <2>1, <2>3, <2>4
  <2> QED BY <1>3, <2>5
<1> HIDE DEF S
<1>4. S \in SUBSET (0..n)
  BY DEF S
<1>5. S = 0..n
  BY <1>2, <1>3, <1>4, GoesOn
<1> QED BY <1>5 DEF S

\* f runs through the concatenations of the first sequences.
Joins(seqs, S, f) ==
  /\ f \in [0..Len(seqs) -> Seq(S)] /\ f[0] = <<>>
  /\ \A i \in 1..Len(seqs) : f[i] = f[i - 1] \o seqs[i]

Concats(d, a, b) == d = a \o b

\* Concatenation does not mind how it is grouped.
LEMMA ConcatGrouped ==
  ASSUME NEW S, NEW a \in Seq(S), NEW b \in Seq(S), NEW c \in Seq(S),
         NEW d, NEW e, NEW u, NEW v,
         Concats(d, a, b), Concats(e, b, c), Concats(u, d, c), Concats(v, a, e)
  PROVE  u = v
<1>0. d = a \o b /\ e = b \o c /\ u = d \o c /\ v = a \o e
  BY DEF Concats
<1>1. /\ Len(d) = Len(a) + Len(b) /\ d \in Seq(S)
      /\ \A i \in 1..(Len(a) + Len(b)) : d[i] = IF i <= Len(a) THEN a[i] ELSE b[i - Len(a)]
  BY <1>0, ConcatProperties
<1>2. /\ Len(e) = Len(b) + Len(c) /\ e \in Seq(S)
      /\ \A i \in 1..(Len(b) + Len(c)) : e[i] = IF i <= Len(b) THEN b[i] ELSE c[i - Len(b)]
  BY <1>0, ConcatProperties
<1>3. /\ u \in Seq(S) /\ Len(u) = Len(d) + Len(c)
      /\ \A i \in 1..(Len(d) + Len(c)) : u[i] = IF i <= Len(d) THEN d[i] ELSE c[i - Len(d)]
  BY <1>0, <1>1, ConcatProperties
<1>4. /\ v \in Seq(S) /\ Len(v) = Len(a) + Len(e)
      /\ \A i \in 1..(Len(a) + Len(e)) : v[i] = IF i <= Len(a) THEN a[i] ELSE e[i - Len(a)]
  BY <1>0, <1>2, ConcatProperties
<1>5. Len(a) \in Nat /\ Len(b) \in Nat /\ Len(c) \in Nat
  OBVIOUS
<1>6. Len(u) = Len(v)
  BY <1>1, <1>2, <1>3, <1>4, <1>5
<1>7. ASSUME NEW i \in 1..Len(u) PROVE u[i] = v[i]
  <2>1. i \in 1..(Len(d) + Len(c)) /\ i \in 1..(Len(a) + Len(e)) /\ i \in Int
    BY <1>1, <1>2, <1>3, <1>5
  <2>2. CASE i <= Len(a)
    <3>1. i <= Len(d) /\ i \in 1..(Len(a) + Len(b))
      BY <1>1, <1>5, <2>1, <2>2
    <3> QED BY <1>1, <1>3, <1>4, <2>1, <2>2, <3>1
  <2>3. CASE ~(i <= Len(a)) /\ i <= Len(d)
    <3>1. i \in 1..(Len(a) + Len(b)) /\ i - Len(a) \in 1..(Len(b) + Len(c)) /\ i - Len(a) <= Len(b)
      BY <1>1, <1>5, <2>1, <2>3
    <3> QED BY <1>1, <1>2, <1>3, <1>4, <2>1, <2>3, <3>1
  <2>4. CASE ~(i <= Len(d))
    <3>1. /\ ~(i <= Len(a)) /\ i - Len(a) \in 1..(Len(b) + Len(c)) /\ ~(i - Len(a) <= Len(b))
          /\ (i - Len(a)) - Len(b) = i - Len(d)
      BY <1>1, <1>2, <1>5, <2>1, <2>4
    <3> QED BY <1>1, <1>2, <1>3, <1>4, <2>1, <2>4, <3>1
  <2> QED BY <2>2, <2>3, <2>4
<1> QED BY <1>3, <1>4, <1>6, <1>7, SeqEqual

\* FlattenSeq is their last.
LEMMA FlattenJoins ==
  ASSUME NEW S, NEW seqs \in Seq(Seq(S))
  PROVE  \E f : Joins(seqs, S, f) /\ FlattenSeq(seqs) = f[Len(seqs)]
<1> DEFINE L == Len(seqs)
           V == Seq(S)
<1>1. L \in Nat /\ <<>> \in V /\ \A i \in 1..L : seqs[i] \in V
  OBVIOUS
<1> DEFINE step == [i \in 1..L |-> [v \in V |-> v \o seqs[i]]]
<1>2. step \in [1..L -> [V -> V]]
  <2>1. \A i \in 1..L : [v \in V |-> v \o seqs[i]] \in [V -> V]
    <3> SUFFICES ASSUME NEW i \in 1..L, NEW v \in V PROVE v \o seqs[i] \in V
      OBVIOUS
    <3> QED BY <1>1, ConcatProperties
  <2> QED BY <2>1
<1>3. \A i \in 1..L, v \in V : step[i][v] = v \o seqs[i]
  OBVIOUS
<1> HIDE DEF step
<1>4. PICK f : LoopRuns(L, V, <<>>, step, f)
  <2> HIDE DEF L, V
  <2> QED BY <1>1, <1>2, RunExists
<1>5. f \in [0..L -> V] /\ f[0] = <<>> /\ \A i \in 1..L : f[i] = step[i][f[i - 1]]
  BY <1>4 DEF LoopRuns
<1>6. \A i \in 1..L : f[i] = f[i - 1] \o seqs[i]
  <2> SUFFICES ASSUME NEW i \in 1..L PROVE f[i] = f[i - 1] \o seqs[i]
    OBVIOUS
  <2>1. i - 1 \in 0..L
    BY <1>1
  <2>2. f[i - 1] \in V
    BY <1>5, <2>1
  <2> QED BY <1>3, <1>5, <2>2
<1>7. Joins(seqs, S, f)
  BY <1>5, <1>6 DEF Joins
<1>8. CASE L = 0
  <2>1. seqs = <<>>
    BY <1>8
  <2> QED BY <1>5, <1>7, <1>8, <2>1 DEF FlattenSeq
<1>9. CASE L # 0
  <2> DEFINE Is(g) == g = [i \in 1..L |-> IF i = 1 THEN seqs[i] ELSE g[i - 1] \o seqs[i]]
             flatten == CHOOSE g : Is(g)
             h == [i \in 1..L |-> f[i]]
  <2>1. FlattenSeq(seqs) = flatten[L]
    BY <1>9 DEF FlattenSeq
  <2>2. Is(h)
    <3> SUFFICES ASSUME NEW i \in 1..L PROVE f[i] = IF i = 1 THEN seqs[i] ELSE h[i - 1] \o seqs[i]
      OBVIOUS
    <3>1. CASE i = 1
      <4>1. i - 1 = 0 /\ seqs[i] \in Seq(S)
        BY <1>1, <3>1
      <4>2. f[i] = f[i - 1] \o seqs[i]
        BY <1>6
      <4>3. f[i] = <<>> \o seqs[i]
        BY <1>5, <4>1, <4>2
      <4>4. f[i] = seqs[i]
        BY <4>1, <4>3, ConcatEmptySeq
      <4> QED BY <3>1, <4>4
    <3>2. CASE i # 1
      <4>1. i - 1 \in 1..L
        BY <1>1, <3>2
      <4> QED BY <1>6, <3>2, <4>1
    <3> QED BY <3>1, <3>2
  <2>3. Is(flatten)
    <3> HIDE DEF Is, h
    <3> QED BY <2>2
  <2> HIDE DEF flatten
  <2> DEFINE T == {n \in 0..L : n = 0 \/ flatten[n] = f[n]}
  <2>4. 0 \in T
    BY <1>1
  <2>5. ASSUME NEW n \in 0..L, n \in T, n + 1 \in 0..L PROVE n + 1 \in T
    <3>1. n + 1 \in 1..L /\ (n + 1) - 1 = n
      BY <1>1, <2>5
    <3>2. flatten[n + 1] = IF n + 1 = 1 THEN seqs[n + 1] ELSE flatten[(n + 1) - 1] \o seqs[n + 1]
      BY <2>3, <3>1
    <3>3. f[n + 1] = f[n] \o seqs[n + 1]
      BY <1>6, <3>1
    <3>4. CASE n = 0
      <4>1. seqs[n + 1] \in Seq(S) /\ f[n] = <<>>
        BY <1>1, <1>5, <3>1, <3>4
      <4>2. f[n + 1] = seqs[n + 1]
        BY <3>3, <4>1, ConcatEmptySeq
      <4>3. n + 1 = 1
        BY <3>4
      <4> QED BY <2>5, <3>2, <4>2, <4>3
    <3>5. CASE n # 0
      <4>1. flatten[n] = f[n] /\ n + 1 # 1
        BY <2>5, <3>5
      <4> QED BY <2>5, <3>1, <3>2, <3>3, <4>1
    <3> QED BY <3>4, <3>5
  <2> HIDE DEF T
  <2>6. T \in SUBSET (0..L)
    BY DEF T
  <2>7. T = 0..L
    BY <1>1, <2>4, <2>5, <2>6, GoesOn
  <2>8. L \in T
    BY <1>1, <2>7
  <2>9. flatten[L] = f[L]
    BY <1>9, <2>8 DEF T
  <2> QED BY <1>7, <2>1, <2>9
<1> QED BY <1>8, <1>9

\* Joined alike, as far as the sequences are the same.
LEMMA JoinsAgree ==
  ASSUME NEW S, NEW s \in Seq(Seq(S)), NEW t \in Seq(Seq(S)), NEW f, NEW g,
         Joins(s, S, f), Joins(t, S, g), NEW n \in 0..Len(s), n <= Len(t),
         \A i \in 1..n : s[i] = t[i]
  PROVE  f[n] = g[n]
<1> DEFINE T == {k \in 0..n : f[k] = g[k]}
<1>0. n \in Nat /\ Len(s) \in Nat /\ Len(t) \in Nat /\ n <= Len(s)
  OBVIOUS
<1>1. /\ f[0] = <<>> /\ \A i \in 1..Len(s) : f[i] = f[i - 1] \o s[i]
      /\ g[0] = <<>> /\ \A i \in 1..Len(t) : g[i] = g[i - 1] \o t[i]
  BY DEF Joins
<1>2. 0 \in T
  BY <1>0, <1>1
<1>3. ASSUME NEW k \in 0..n, k \in T, k + 1 \in 0..n PROVE k + 1 \in T
  <2>1. f[k] = g[k] /\ k + 1 \in 1..Len(s) /\ k + 1 \in 1..Len(t) /\ k + 1 \in 1..n /\ (k + 1) - 1 = k
    BY <1>0, <1>3
  <2>2. f[k + 1] = f[k] \o s[k + 1] /\ g[k + 1] = g[k] \o t[k + 1] /\ s[k + 1] = t[k + 1]
    BY <1>1, <2>1
  <2> QED BY <1>3, <2>1, <2>2
<1> HIDE DEF T
<1>4. T \in SUBSET (0..n)
  BY DEF T
<1>5. T = 0..n
  BY <1>0, <1>2, <1>3, <1>4, GoesOn
<1>6. n \in T
  BY <1>0, <1>5
<1> QED BY <1>6 DEF T

\* What is joined lies in the whole, one sequence after the other.
LEMMA JoinsLie ==
  ASSUME NEW S, NEW seqs \in Seq(Seq(S)), NEW f, Joins(seqs, S, f)
  PROVE  /\ \A k \in 0..Len(seqs) : Len(f[k]) <= Len(f[Len(seqs)])
         /\ \A k \in 1..Len(seqs) :
               SubSeq(f[Len(seqs)], Len(f[k - 1]) + 1, Len(f[k])) = seqs[k]
<1> DEFINE L == Len(seqs)
           Starts(a, b) == Len(a) <= Len(b) /\ \A i \in 1..Len(a) : b[i] = a[i]
           T == {n \in 0..L : \A k \in 0..n : Starts(f[k], f[n])}
<1>1. L \in Nat /\ \A i \in 1..L : seqs[i] \in Seq(S)
  OBVIOUS
<1>2. f \in [0..L -> Seq(S)] /\ f[0] = <<>> /\ \A i \in 1..L : f[i] = f[i - 1] \o seqs[i]
  BY DEF Joins
<1> HIDE DEF L
<1>3. \A a \in Seq(S), b \in Seq(S) : Starts(a, a \o b)
  <2> SUFFICES ASSUME NEW a \in Seq(S), NEW b \in Seq(S) PROVE Starts(a, a \o b)
    OBVIOUS
  <2> QED BY ConcatProperties
<1>4. \A a, b, c \in Seq(S) : Starts(a, b) /\ Starts(b, c) => Starts(a, c)
  OBVIOUS
<1>5. \A a \in Seq(S) : Starts(a, a)
  OBVIOUS
<1>6. 0 \in T
  BY <1>1, <1>2, <1>5
<1>7. ASSUME NEW n \in 0..L, n \in T, n + 1 \in 0..L PROVE n + 1 \in T
  <2>1. n + 1 \in 1..L /\ (n + 1) - 1 = n /\ n \in Nat
    BY <1>1, <1>7
  <2>2. f[n] \in Seq(S) /\ f[n + 1] \in Seq(S) /\ seqs[n + 1] \in Seq(S) /\ f[n + 1] = f[n] \o seqs[n + 1]
    BY <1>1, <1>2, <1>7, <2>1
  <2>3. Starts(f[n], f[n + 1])
    <3> HIDE DEF Starts
    <3> QED BY <1>3, <2>2
  <2>4. \A k \in 0..n : Starts(f[k], f[n]) /\ f[k] \in Seq(S)
    BY <1>1, <1>2, <1>7
  <2> HIDE DEF Starts
  <2>5. \A k \in 0..n : Starts(f[k], f[n + 1])
    BY <1>4, <2>2, <2>3, <2>4
  <2>6. \A k \in 0..(n + 1) : k \in 0..n \/ k = n + 1
    BY <2>1
  <2> QED BY <1>5, <1>7, <2>2, <2>5, <2>6
<1>8. T \in SUBSET (0..L)
  OBVIOUS
<1> HIDE DEF T
<1>9. L \in T
  BY <1>1, <1>6, <1>7, <1>8, GoesOn
<1>10. \A k \in 0..L : Starts(f[k], f[L])
  BY <1>9 DEF T
<1>11. ASSUME NEW k \in 1..L PROVE SubSeq(f[L], Len(f[k - 1]) + 1, Len(f[k])) = seqs[k]
  <2>1. k - 1 \in 0..L /\ k \in 0..L /\ L \in 0..L
    BY <1>1
  <2>2. PICK a \in Seq(S) : a = f[k - 1]
    BY <1>2, <2>1
  <2>3. PICK b \in Seq(S) : b = f[L]
    BY <1>2, <2>1
  <2>4. PICK c \in Seq(S) : c = seqs[k]
    BY <1>1
  <2>5. PICK d \in Seq(S) : d = f[k]
    BY <1>2, <2>1
  <2>6. d = a \o c
    BY <1>2, <2>2, <2>4, <2>5
  <2>7. Starts(d, b)
    BY <1>10, <2>1, <2>3, <2>5
  <2>8. /\ Len(d) = Len(a) + Len(c) /\ Len(a) \in Nat /\ Len(c) \in Nat
        /\ \A i \in 1..Len(c) : d[Len(a) + i] = c[i] /\ Len(a) + i \in 1..Len(d)
    BY <2>6, ConcatProperties
  <2>9. Len(d) <= Len(b) /\ \A i \in 1..Len(d) : b[i] = d[i]
    BY <2>7
  <2>10. /\ SubSeq(b, Len(a) + 1, Len(d)) \in Seq(S)
         /\ Len(SubSeq(b, Len(a) + 1, Len(d))) = Len(c)
         /\ \A i \in 1..Len(c) : SubSeq(b, Len(a) + 1, Len(d))[i] = b[Len(a) + i]
    BY <2>8, <2>9
  <2>11. \A i \in 1..Len(c) : SubSeq(b, Len(a) + 1, Len(d))[i] = c[i]
    BY <2>8, <2>9, <2>10
  <2>12. SubSeq(b, Len(a) + 1, Len(d)) = c
    BY <2>10, <2>11, SeqEqual
  <2> QED BY <2>2, <2>3, <2>4, <2>5, <2>12
<1> QED BY <1>10, <1>11 DEF L

\* Its type, its value on nothing, ...
LEMMA FlattenType ==
  ASSUME NEW S, NEW seqs \in Seq(Seq(S))
  PROVE  FlattenSeq(seqs) \in Seq(S)
<1>1. PICK f : Joins(seqs, S, f) /\ FlattenSeq(seqs) = f[Len(seqs)]
  BY FlattenJoins
<1>2. Len(seqs) \in 0..Len(seqs)
  OBVIOUS
<1> QED BY <1>1, <1>2 DEF Joins

\* The concatenation of nothing is nothing, ...
LEMMA FlattenNothing == FlattenSeq(<<>>) = <<>>
BY DEF FlattenSeq

\* ... with one sequence more, ...
LEMMA FlattenAppend ==
  ASSUME NEW S, NEW s \in Seq(Seq(S)), NEW x \in Seq(S)
  PROVE  FlattenSeq(Append(s, x)) = FlattenSeq(s) \o x
<1>1. PICK t \in Seq(Seq(S)) : t = Append(s, x)
  <2>1. Append(s, x) \in Seq(Seq(S))
    BY AppendProperties
  <2> QED BY <2>1
<1>2. /\ Len(s) \in Nat /\ Len(t) = Len(s) + 1 /\ t[Len(s) + 1] = x
      /\ \A i \in 1..Len(s) : t[i] = s[i]
  BY <1>1
<1>3. PICK f : Joins(s, S, f) /\ FlattenSeq(s) = f[Len(s)]
  BY FlattenJoins
<1>4. PICK g : Joins(t, S, g) /\ FlattenSeq(t) = g[Len(t)]
  BY FlattenJoins
<1>5. Len(s) \in 0..Len(s) /\ Len(s) <= Len(t)
  BY <1>2
<1>6. f[Len(s)] = g[Len(s)]
  <2>1. PICK n \in 0..Len(s) : n = Len(s)
    BY <1>5
  <2>2. n <= Len(t) /\ \A i \in 1..n : s[i] = t[i]
    BY <1>2, <1>5, <2>1
  <2>3. f[n] = g[n]
    BY <1>3, <1>4, <2>2, JoinsAgree
  <2> QED BY <2>1, <2>3
<1>7. g[Len(t)] = g[Len(s)] \o x
  <2>1. Len(t) \in 1..Len(t) /\ Len(t) - 1 = Len(s)
    BY <1>2
  <2>2. g[Len(t)] = g[Len(t) - 1] \o t[Len(t)]
    BY <1>4, <2>1 DEF Joins
  <2> QED BY <1>2, <2>1, <2>2
<1> QED BY <1>1, <1>3, <1>4, <1>6, <1>7

\* ... and of two lists of sequences, one after the other.
LEMMA FlattenConcat ==
  ASSUME NEW S, NEW s \in Seq(Seq(S)), NEW t \in Seq(Seq(S))
  PROVE  FlattenSeq(s \o t) = FlattenSeq(s) \o FlattenSeq(t)
<1> DEFINE At(n) == SubSeq(t, 1, n)
           T == {n \in 0..Len(t) : FlattenSeq(s \o At(n)) = FlattenSeq(s) \o FlattenSeq(At(n))}
<1>0. Len(t) \in Nat /\ At(0) = <<>> /\ At(Len(t)) = t
  OBVIOUS
<1>1. 0 \in T
  <2>1. FlattenSeq(s) \in Seq(S)
    BY FlattenType
  <2>2. s \o <<>> = s /\ FlattenSeq(s) \o <<>> = FlattenSeq(s)
    BY <2>1, ConcatEmptySeq
  <2>3. FlattenSeq(s \o At(0)) = FlattenSeq(s) \o FlattenSeq(At(0))
    <3> HIDE DEF At
    <3> QED BY <1>0, <2>2, FlattenNothing
  <2>4. 0 \in 0..Len(t)
    BY <1>0
  <2> HIDE DEF At
  <2> QED BY <2>3, <2>4
<1>2. ASSUME NEW n \in 0..Len(t), n \in T, n + 1 \in 0..Len(t) PROVE n + 1 \in T
  <2>1. n + 1 \in 1..Len(t) /\ t[n + 1] \in Seq(S)
    BY <1>0, <1>2
  <2>2. At(n) \in Seq(Seq(S)) /\ At(n + 1) = Append(At(n), t[n + 1])
    BY <1>0, <1>2, <2>1
  <2>3. s \o At(n) \in Seq(Seq(S))
    BY <2>2
  <2>4. s \o At(n + 1) = Append(s \o At(n), t[n + 1])
    <3> HIDE DEF At
    <3>1. \A u \in Seq(Seq(S)) : \A e \in Seq(S) : s \o Append(u, e) = Append(s \o u, e)
      OBVIOUS
    <3> QED BY <2>1, <2>2, <3>1
  <2>5. FlattenSeq(s \o At(n)) = FlattenSeq(s) \o FlattenSeq(At(n))
    BY <1>2
  <2> HIDE DEF At
  <2>6. FlattenSeq(s \o At(n + 1)) = (FlattenSeq(s) \o FlattenSeq(At(n))) \o t[n + 1]
    <3>1. PICK x \in Seq(S) : x = t[n + 1]
      BY <2>1
    <3>2. PICK u \in Seq(Seq(S)) : u = s \o At(n)
      BY <2>3
    <3>3. FlattenSeq(Append(u, x)) = FlattenSeq(u) \o x
      BY FlattenAppend
    <3> QED BY <2>4, <2>5, <3>1, <3>2, <3>3
  <2>7. FlattenSeq(At(n + 1)) = FlattenSeq(At(n)) \o t[n + 1]
    <3>1. PICK x \in Seq(S) : x = t[n + 1]
      BY <2>1
    <3>2. PICK u \in Seq(Seq(S)) : u = At(n)
      BY <2>2
    <3>3. FlattenSeq(Append(u, x)) = FlattenSeq(u) \o x
      BY FlattenAppend
    <3> QED BY <2>2, <3>1, <3>2, <3>3
  <2>8. FlattenSeq(s) \in Seq(S) /\ FlattenSeq(At(n)) \in Seq(S)
    BY <2>2, FlattenType
  <2>9. (FlattenSeq(s) \o FlattenSeq(At(n))) \o t[n + 1] = FlattenSeq(s) \o (FlattenSeq(At(n)) \o t[n + 1])
    <3>1. PICK a \in Seq(S), b \in Seq(S), c \in Seq(S) :
            a = FlattenSeq(s) /\ b = FlattenSeq(At(n)) /\ c = t[n + 1]
      BY <2>1, <2>8
    <3>2. PICK d : Concats(d, a, b)
      BY DEF Concats
    <3>3. PICK e : Concats(e, b, c)
      BY DEF Concats
    <3>4. PICK u : Concats(u, d, c)
      BY DEF Concats
    <3>5. PICK v : Concats(v, a, e)
      BY DEF Concats
    <3>6. u = v
      BY <3>2, <3>3, <3>4, <3>5, ConcatGrouped
    <3>7. /\ u = (FlattenSeq(s) \o FlattenSeq(At(n))) \o t[n + 1]
          /\ v = FlattenSeq(s) \o (FlattenSeq(At(n)) \o t[n + 1])
      BY <3>1, <3>2, <3>3, <3>4, <3>5 DEF Concats
    <3> QED BY <3>6, <3>7
  <2> QED BY <1>2, <2>6, <2>7, <2>9
<1> HIDE DEF T
<1>3. T \in SUBSET (0..Len(t))
  BY DEF T
<1>4. T = 0..Len(t)
  BY <1>0, <1>1, <1>2, <1>3, GoesOn
<1>5. Len(t) \in T
  BY <1>0, <1>4
<1> QED BY <1>0, <1>5 DEF T

-----------------------------------------------------------------------------
(* The batch tool                                                            *)

\* Every call stands as far as its state says: nothing ran before it was resolved,
\* every item is answered when the file is written.
FanKinds == [at : {"new", "open", "closed", "refused"}, registry : Dispatches \cup {NoLoop},
             item : [Items -> ItemState]]
ItemCalls == [registry : Dispatches \cup {NoLoop}, context : Dispatches \cup {NoLoop}]
ResultFiles == [results : Seq(Answered), usage : 0..ItemCount]

ItemsOf(d, f) == {i \in Items : f.item[i] = "running"}
FanTrue(d, f, e, w) ==
  /\ Cardinality(ItemsOf(d, f)) <= Concurrency
  /\ f.at \in {"new", "refused"} => \A i \in Items : f.item[i] = "waiting"
  /\ f.at = "closed" => \A i \in Items : f.item[i] \in Answered /\ w.results[i] = f.item[i]
  /\ d \notin Direct =>
        /\ f.at # "new" => f.registry = d
        /\ f.at = "refused" => d \notin HasTool
        /\ \A i \in Items : f.item[i] # "waiting" => e[i] = [registry |-> d, context |-> d]

BatchInv ==
  /\ fallback \in Dispatches \cup {NoLoop}
  /\ fan \in [Dispatches -> FanKinds]
  /\ executed \in [Dispatches -> [Items -> ItemCalls]]
  /\ written \in [Dispatches -> ResultFiles]
  /\ \A d \in Dispatches : FanTrue(d, fan[d], executed[d], written[d])

\* What the assumption says of the constants, part by part.
LEMMA BatchConstants ==
  /\ IsFiniteSet(Dispatches) /\ NoLoop \notin Dispatches
  /\ Direct \subseteq Dispatches /\ HasTool \subseteq Dispatches
  /\ ItemCount \in Nat /\ Concurrency \in Nat /\ Concurrency > 0
BY BatchToolAssumption

\* The items of a call are finitely many.
LEMMA ItemsCount ==
  ASSUME NEW S \in SUBSET Items
  PROVE  IsFiniteSet(S) /\ Cardinality(S) \in 0..ItemCount
<1>1. IsFiniteSet(Items) /\ Cardinality(Items) = ItemCount
  <2>1. ItemCount \in Nat
    BY BatchConstants
  <2>2. IsFiniteSet(1..ItemCount) /\ Cardinality(1..ItemCount) = IF 1 > ItemCount THEN 0 ELSE ItemCount - 1 + 1
    BY <2>1, FS_Interval
  <2> QED BY <2>1, <2>2 DEF Items
<1>2. IsFiniteSet(S) /\ Cardinality(S) <= Cardinality(Items) /\ Cardinality(S) \in Nat
  BY <1>1, FS_Subset, FS_CardinalityType
<1> QED BY <1>1, <1>2, BatchConstants

\* It holds at the start.
LEMMA BatchStarts == BatchToolInit => BatchInv
<1> SUFFICES ASSUME BatchToolInit PROVE BatchInv
  OBVIOUS
<1> DEFINE f == [at |-> "new", registry |-> NoLoop, item |-> [i \in Items |-> "waiting"]]
<1>1. f \in FanKinds /\ f.at = "new" /\ \A i \in Items : f.item[i] = "waiting"
  BY DEF FanKinds, ItemState
<1>2. ItemsOf(NoLoop, f) = {} /\ \A d : ItemsOf(d, f) = {}
  BY <1>1 DEF ItemsOf
<1>3. fan = [d \in Dispatches |-> f]
  BY DEF BatchToolInit
<1> HIDE DEF f
<1>4. NoFile \in ResultFiles
  BY BatchConstants DEF NoFile, ResultFiles
<1>5. \A d \in Dispatches : FanTrue(d, fan[d], executed[d], written[d])
  <2> SUFFICES ASSUME NEW d \in Dispatches PROVE FanTrue(d, f, executed[d], written[d])
    BY <1>3
  <2>1. Cardinality(ItemsOf(d, f)) = 0
    BY <1>2, FS_EmptySet
  <2> QED BY <1>1, <2>1, BatchConstants DEF FanTrue
<1>6. executed \in [Dispatches -> [Items -> ItemCalls]]
  BY DEF BatchToolInit, ItemCalls
<1>7. fan \in [Dispatches -> FanKinds] /\ written \in [Dispatches -> ResultFiles]
  BY <1>1, <1>3, <1>4 DEF BatchToolInit
<1> QED BY <1>5, <1>6, <1>7 DEF BatchInv, BatchToolInit

\* One call changes, with what its items ran with and its file.
LEMMA BatchMoves ==
  ASSUME BatchInv, NEW d \in Dispatches, NEW f \in FanKinds, NEW e \in [Items -> ItemCalls],
         NEW w \in ResultFiles, FanTrue(d, f, e, w), fallback' \in Dispatches \cup {NoLoop},
         fan' = [fan EXCEPT ![d] = f], executed' = [executed EXCEPT ![d] = e],
         written' = [written EXCEPT ![d] = w]
  PROVE  BatchInv'
<1>1. /\ fan \in [Dispatches -> FanKinds] /\ executed \in [Dispatches -> [Items -> ItemCalls]]
      /\ written \in [Dispatches -> ResultFiles]
      /\ \A c \in Dispatches : FanTrue(c, fan[c], executed[c], written[c])
  BY DEF BatchInv
<1>2. /\ fan' \in [Dispatches -> FanKinds] /\ executed' \in [Dispatches -> [Items -> ItemCalls]]
      /\ written' \in [Dispatches -> ResultFiles]
  BY <1>1
<1>3. \A c \in Dispatches : /\ fan'[c] = IF c = d THEN f ELSE fan[c]
                            /\ executed'[c] = IF c = d THEN e ELSE executed[c]
                            /\ written'[c] = IF c = d THEN w ELSE written[c]
  BY <1>1
<1>4. \A c \in Dispatches : FanTrue(c, fan'[c], executed'[c], written'[c])
  BY <1>1, <1>3
<1>5. (\A c \in Dispatches : FanTrue(c, fan[c], executed[c], written[c]))'
  BY <1>4
<1> QED BY <1>2, <1>5 DEF BatchInv

\* It is kept by every step.
LEMMA BatchSteps == BatchInv /\ [BatchToolNext]_batchToolVars => BatchInv'
<1> SUFFICES ASSUME BatchInv, [BatchToolNext]_batchToolVars PROVE BatchInv'
  OBVIOUS
<1>0. /\ fallback \in Dispatches \cup {NoLoop} /\ fan \in [Dispatches -> FanKinds]
      /\ executed \in [Dispatches -> [Items -> ItemCalls]] /\ written \in [Dispatches -> ResultFiles]
      /\ \A d \in Dispatches : FanTrue(d, fan[d], executed[d], written[d])
  BY DEF BatchInv
<1>a. ASSUME NEW d \in Dispatches
      PROVE  /\ fan[d] \in FanKinds /\ executed[d] \in [Items -> ItemCalls] /\ written[d] \in ResultFiles
             /\ FanTrue(d, fan[d], executed[d], written[d])
             /\ fan[d].item \in [Items -> ItemState]
  BY <1>0 DEF FanKinds
<1>b. ASSUME NEW d \in Dispatches PROVE executed = [executed EXCEPT ![d] = executed[d]]
  BY <1>0
<1>c. ASSUME NEW d \in Dispatches PROVE written = [written EXCEPT ![d] = written[d]]
  BY <1>0
<1>1. CASE UNCHANGED batchToolVars
  <2>1. UNCHANGED <<fallback, fan, executed, written>>
    BY <1>1 DEF batchToolVars
  <2> QED BY <2>1 DEF BatchInv
<1>2. ASSUME NEW d \in Dispatches, SetRegistry(d) PROVE BatchInv'
  <2>1. fallback' = d /\ UNCHANGED <<fan, executed, written>>
    BY <1>2 DEF SetRegistry
  <2> QED BY <2>1 DEF BatchInv
<1>3. ASSUME NEW d \in Dispatches, Dispatch(d) PROVE BatchInv'
  <2>1. PICK r : r = Resolved(d)
    OBVIOUS
  <2>2. r \in Dispatches \cup {NoLoop} /\ (d \notin Direct => r = d)
    BY <1>0, <2>1, BatchConstants DEF Resolved, Current
  <2>3. PICK a \in {"open", "refused"} : a = IF r \in HasTool THEN "open" ELSE "refused"
    OBVIOUS
  <2>4. PICK f : f = [fan[d] EXCEPT !.at = a, !.registry = r]
    OBVIOUS
  <2>5. fan' = [fan EXCEPT ![d] = f]
    BY <1>0, <1>3, <2>1, <2>3, <2>4 DEF Dispatch
  <2>6. f \in FanKinds /\ f.at = a /\ f.registry = r /\ f.item = fan[d].item
    BY <1>a, <2>2, <2>4 DEF FanKinds
  <2>7. fan[d].at = "new" /\ UNCHANGED <<fallback, executed, written>>
    BY <1>3 DEF Dispatch
  <2>8. \A i \in Items : f.item[i] = "waiting"
    <3>1. \A i \in Items : fan[d].item[i] = "waiting"
      <4>1. FanTrue(d, fan[d], executed[d], written[d])
        BY <1>a
      <4> QED BY <2>7, <4>1 DEF FanTrue
    <3> QED BY <2>6, <3>1
  <2>9. ItemsOf(d, f) = ItemsOf(d, fan[d])
    BY <2>6 DEF ItemsOf
  <2>10. FanTrue(d, f, executed[d], written[d])
    BY <1>a, <2>2, <2>3, <2>6, <2>8, <2>9 DEF FanTrue
  <2>11. /\ executed' = [executed EXCEPT ![d] = executed[d]]
        /\ written' = [written EXCEPT ![d] = written[d]]
        /\ fallback' \in Dispatches \cup {NoLoop}
        /\ executed[d] \in [Items -> ItemCalls] /\ written[d] \in ResultFiles
    BY <1>0, <1>a, <1>b, <1>c, <2>7
  <2> QED BY <2>5, <2>6, <2>10, <2>11, BatchMoves
<1>4. ASSUME NEW d \in Dispatches, WriteBatch(d) PROVE BatchInv'
  <2>1. PICK f : f = [fan[d] EXCEPT !.at = "closed"]
    OBVIOUS
  <2>2. fan' = [fan EXCEPT ![d] = f] /\ UNCHANGED <<fallback, executed>>
    BY <1>4, <2>1 DEF WriteBatch
  <2>3. f \in FanKinds /\ f.at = "closed" /\ f.registry = fan[d].registry /\ f.item = fan[d].item
    BY <1>a, <2>1 DEF FanKinds
  <2>4. PICK rs : rs = [i \in Items |-> fan[d].item[i]]
    OBVIOUS
  <2>5. PICK u : u = Cardinality({i \in Items : fan[d].item[i] = "priced"})
    OBVIOUS
  <2>6. u \in 0..ItemCount
    <3>1. {i \in Items : fan[d].item[i] = "priced"} \in SUBSET Items
      OBVIOUS
    <3> QED BY <2>5, <3>1, ItemsCount
  <2>7. fan[d].at = "open" /\ \A i \in Items : fan[d].item[i] \in Answered
    BY <1>4 DEF WriteBatch
  <2>8. rs \in Seq(Answered)
    <3>1. ItemCount \in Nat
      BY BatchConstants
    <3> QED BY <2>4, <2>7, <3>1 DEF Items
  <2>9. PICK w : w = [results |-> rs, usage |-> u]
    OBVIOUS
  <2>10. w \in ResultFiles /\ w.results = rs
    BY <2>6, <2>8, <2>9 DEF ResultFiles
  <2>11. written' = [written EXCEPT ![d] = w]
    BY <1>4, <2>4, <2>5, <2>9 DEF WriteBatch
  <2>12. ItemsOf(d, f) = ItemsOf(d, fan[d])
    BY <2>3 DEF ItemsOf
  <2>13. \A i \in Items : w.results[i] = f.item[i] /\ f.item[i] \in Answered
    BY <2>3, <2>4, <2>7, <2>10
  <2>14. FanTrue(d, f, executed[d], w)
    BY <1>a, <2>3, <2>7, <2>12, <2>13 DEF FanTrue
  <2>15. executed' = [executed EXCEPT ![d] = executed[d]] /\ fallback' \in Dispatches \cup {NoLoop}
    BY <1>0, <1>b, <2>2
  <2> QED BY <1>a, <2>2, <2>3, <2>10, <2>11, <2>14, <2>15, BatchMoves
<1>5. ASSUME NEW d \in Dispatches, NEW i \in Items, StartItem(d, i) PROVE BatchInv'
  <2>1. PICK g : g = [fan[d].item EXCEPT ![i] = "running"]
    OBVIOUS
  <2>2. PICK f : f = [fan[d] EXCEPT !.item = g]
    OBVIOUS
  <2>3. PICK x : x = [registry |-> fan[d].registry, context |-> Current(d)]
    OBVIOUS
  <2>4. PICK e : e = [executed[d] EXCEPT ![i] = x]
    OBVIOUS
  <2>5. /\ fan' = [fan EXCEPT ![d].item[i] = "running"]
        /\ executed' = [executed EXCEPT ![d][i] = [registry |-> fan[d].registry, context |-> Current(d)]]
        /\ fan[d].at = "open" /\ fan[d].item[i] = "waiting"
        /\ Cardinality(Running(d)) < Concurrency /\ UNCHANGED <<fallback, written>>
    BY <1>5 DEF StartItem
  <2>6. fan' = [fan EXCEPT ![d] = f]
    BY <1>0, <2>1, <2>2, <2>5
  <2>7. executed' = [executed EXCEPT ![d] = e]
    BY <1>0, <2>3, <2>4, <2>5
  <2>8. g \in [Items -> ItemState] /\ \A j \in Items : g[j] = IF j = i THEN "running" ELSE fan[d].item[j]
    BY <1>a, <2>1 DEF ItemState
  <2>9. f \in FanKinds /\ f.at = "open" /\ f.registry = fan[d].registry /\ f.item = g
    BY <1>a, <2>2, <2>5, <2>8 DEF FanKinds
  <2>10. x \in ItemCalls /\ (d \notin Direct => x = [registry |-> d, context |-> d])
    <3>1. fan[d].registry \in Dispatches \cup {NoLoop} /\ Current(d) \in Dispatches \cup {NoLoop}
      BY <1>a DEF FanKinds, Current
    <3>2. d \notin Direct => fan[d].registry = d /\ Current(d) = d
      BY <1>a, <2>5 DEF FanTrue, Current
    <3> QED BY <2>3, <3>1, <3>2 DEF ItemCalls
  <2>11. e \in [Items -> ItemCalls] /\ \A j \in Items : e[j] = IF j = i THEN x ELSE executed[d][j]
    BY <1>a, <2>4, <2>10
  <2>12. Cardinality(ItemsOf(d, f)) <= Concurrency
    <3>1. ItemsOf(d, f) = Running(d) \cup {i} /\ i \notin Running(d)
      BY <2>5, <2>8, <2>9 DEF ItemsOf, Running
    <3>2. Running(d) \in SUBSET Items
      BY DEF Running
    <3>3. IsFiniteSet(Running(d)) /\ Cardinality(Running(d)) \in Nat
      BY <3>2, ItemsCount
    <3>4. Cardinality(Running(d) \cup {i}) = Cardinality(Running(d)) + 1
      BY <3>1, <3>3, FS_AddElement
    <3> QED BY <2>5, <3>1, <3>3, <3>4, BatchConstants
  <2>13. \A j \in Items : d \notin Direct /\ f.item[j] # "waiting" => e[j] = [registry |-> d, context |-> d]
    BY <1>a, <2>8, <2>9, <2>10, <2>11 DEF FanTrue
  <2>14. FanTrue(d, f, e, written[d])
    BY <1>a, <2>5, <2>9, <2>12, <2>13 DEF FanTrue
  <2>15. /\ written' = [written EXCEPT ![d] = written[d]] /\ written[d] \in ResultFiles
         /\ fallback' \in Dispatches \cup {NoLoop}
    BY <1>0, <1>a, <1>c, <2>5
  <2> QED BY <2>6, <2>7, <2>9, <2>11, <2>14, <2>15, BatchMoves
<1>6. ASSUME NEW d \in Dispatches, NEW i \in Items, EndItem(d, i) PROVE BatchInv'
  <2>1. PICK a \in Answered : fan' = [fan EXCEPT ![d].item[i] = a]
    BY <1>6 DEF EndItem
  <2>2. PICK g : g = [fan[d].item EXCEPT ![i] = a]
    OBVIOUS
  <2>3. PICK f : f = [fan[d] EXCEPT !.item = g]
    OBVIOUS
  <2>4. fan[d].item[i] = "running" /\ UNCHANGED <<fallback, executed, written>>
    BY <1>6 DEF EndItem
  <2>5. fan' = [fan EXCEPT ![d] = f]
    BY <1>0, <2>1, <2>2, <2>3
  <2>6. g \in [Items -> ItemState] /\ \A j \in Items : g[j] = IF j = i THEN a ELSE fan[d].item[j]
    BY <1>a, <2>2 DEF ItemState, Answered
  <2>7. f \in FanKinds /\ f.at = fan[d].at /\ f.registry = fan[d].registry /\ f.item = g
    BY <1>a, <2>3, <2>6 DEF FanKinds
  <2>8. a # "running" /\ a # "waiting"
    BY DEF Answered
  <2>9. fan[d].at = "open"
    <3>1. fan[d].at \in {"new", "open", "closed", "refused"}
      BY <1>a DEF FanKinds
    <3> QED BY <1>a, <2>4, <3>1 DEF FanTrue, Answered
  <2>10. Cardinality(ItemsOf(d, f)) <= Concurrency
    <3>1. ItemsOf(d, f) \subseteq ItemsOf(d, fan[d]) /\ ItemsOf(d, fan[d]) \in SUBSET Items
      BY <2>6, <2>7, <2>8 DEF ItemsOf
    <3>2. IsFiniteSet(ItemsOf(d, fan[d])) /\ Cardinality(ItemsOf(d, fan[d])) \in Nat
      BY <3>1, ItemsCount
    <3>3. Cardinality(ItemsOf(d, f)) <= Cardinality(ItemsOf(d, fan[d]))
          /\ Cardinality(ItemsOf(d, f)) \in Nat
      BY <3>1, <3>2, FS_Subset, FS_CardinalityType
    <3>4. Cardinality(ItemsOf(d, fan[d])) <= Concurrency
      BY <1>a DEF FanTrue
    <3> QED BY <3>2, <3>3, <3>4, BatchConstants
  <2>11. \A j \in Items : d \notin Direct /\ f.item[j] # "waiting" =>
            executed[d][j] = [registry |-> d, context |-> d]
    BY <1>a, <2>4, <2>6, <2>7 DEF FanTrue
  <2>12. FanTrue(d, f, executed[d], written[d])
    BY <1>a, <2>7, <2>9, <2>10, <2>11 DEF FanTrue
  <2>13. /\ executed' = [executed EXCEPT ![d] = executed[d]]
        /\ written' = [written EXCEPT ![d] = written[d]]
        /\ fallback' \in Dispatches \cup {NoLoop}
        /\ executed[d] \in [Items -> ItemCalls] /\ written[d] \in ResultFiles
    BY <1>0, <1>a, <1>b, <1>c, <2>4
  <2> QED BY <2>5, <2>7, <2>12, <2>13, BatchMoves
<1> QED BY <1>1, <1>2, <1>3, <1>4, <1>5, <1>6 DEF BatchToolNext

\* It implies what BatchTool promises.
LEMMA BatchImplies == BatchInv => BatchToolTypeOK /\ BatchRight
<1> SUFFICES ASSUME BatchInv PROVE BatchToolTypeOK /\ BatchRight
  OBVIOUS
<1>1. /\ fallback \in Dispatches \cup {NoLoop} /\ fan \in [Dispatches -> FanKinds]
      /\ executed \in [Dispatches -> [Items -> ItemCalls]] /\ written \in [Dispatches -> ResultFiles]
      /\ \A d \in Dispatches : FanTrue(d, fan[d], executed[d], written[d])
  BY DEF BatchInv
<1>2. \A d \in Dispatches : written[d].results \in Seq(Answered) /\ written[d].usage \in 0..ItemCount
  BY <1>1 DEF ResultFiles
<1>3. \A d \in Dispatches : Cardinality({i \in Items : fan[d].item[i] = "running"}) <= Concurrency
  BY <1>1 DEF FanTrue, ItemsOf
<1>4. BatchToolTypeOK
  BY <1>1, <1>2, <1>3 DEF BatchToolTypeOK, FanKinds, ItemCalls
<1>5. BatchRight
  BY <1>1 DEF BatchRight, FanTrue
<1> QED BY <1>4, <1>5

\* A batch runs its items with the loop that called it, whoever else dispatches, and
\* writes each result at its item's place, for all loops, items and limits.
THEOREM BatchHolds == BatchToolInit /\ [][BatchToolNext]_batchToolVars => [](BatchToolTypeOK /\ BatchRight)
<1> QED BY BatchStarts, BatchSteps, BatchImplies, PTL

-----------------------------------------------------------------------------
(* ExecTool's streams                                                        *)

QueueKinds == [origin : Origins, piece : Nat]
ConsumerStages == {"reads", "puts", "eof", "done"}
ShellTypes ==
  /\ script \in Scripts /\ wrote \in 0..Len(script)
  /\ child \in {"running", "exited", "killed"}
  /\ pipe \in [Origins -> Seq(Nat)] /\ \A o \in Origins : Len(pipe[o]) <= PipeSize
  /\ task \in [Origins -> ConsumerStages] /\ inHand \in [Origins -> Nat]
  /\ queue \in Seq(QueueKinds) /\ Len(queue) <= QueueSize
  /\ endsSeen \subseteq Origins /\ yielded \in Seq(Nat) /\ expired \in BOOLEAN
  /\ generator \in {"drains", "waits", "cleans", "over"}
  /\ outcome \in {"", "done", "timeout", "closed"}

\* The pieces of an origin are in order: those yielded, those in the queue, the one
\* in hand, those in the pipe.
PieceOf(s, w, n, o) == n \in 1..w /\ s[n] = o
AllBehind(s, y, q, o, n) ==
  /\ \A i \in 1..Len(y) : s[y[i]] = o => y[i] < n
  /\ \A k \in 1..Len(q) : q[k].origin = o => q[k].piece < n
YieldedInv ==
  /\ \A i \in 1..Len(yielded) : yielded[i] \in 1..wrote
  /\ \A i, j \in 1..Len(yielded) :
        i < j /\ script[yielded[i]] = script[yielded[j]] => yielded[i] < yielded[j]
QueueInv ==
  /\ \A k \in 1..Len(queue) : queue[k].piece # 0 => PieceOf(script, wrote, queue[k].piece, queue[k].origin)
  /\ \A k, l \in 1..Len(queue) :
        k < l /\ queue[k].origin = queue[l].origin /\ queue[l].piece # 0
          => queue[k].piece < queue[l].piece
  /\ \A i \in 1..Len(yielded), k \in 1..Len(queue) :
        queue[k].piece # 0 /\ script[yielded[i]] = queue[k].origin => yielded[i] < queue[k].piece
ConsumerInv ==
  \A o \in Origins : task[o] = "puts" =>
     PieceOf(script, wrote, inHand[o], o) /\ AllBehind(script, yielded, queue, o, inHand[o]) /\ \A m \in 1..Len(pipe[o]) : inHand[o] < pipe[o][m]
PipeInv ==
  \A o \in Origins : \A m \in 1..Len(pipe[o]) :
     /\ PieceOf(script, wrote, pipe[o][m], o) /\ AllBehind(script, yielded, queue, o, pipe[o][m])
     /\ \A l \in 1..Len(pipe[o]) : l < m => pipe[o][l] < pipe[o][m]

\* As long as nothing is cancelled, what was written is somewhere on the way.
OnItsWay(n) ==
  \/ \E i \in 1..Len(yielded) : yielded[i] = n
  \/ \E k \in 1..Len(queue) : queue[k].piece = n
  \/ \E o \in Origins : task[o] = "puts" /\ inHand[o] = n
  \/ \E o \in Origins : \E m \in 1..Len(pipe[o]) : pipe[o][m] = n
PlacesInv == generator \in {"drains", "waits"} => \A n \in 1..wrote : OnItsWay(n)

\* The end of an origin is the last of it, and sent by a task that is done.
EndsInv ==
  /\ \A k \in 1..Len(queue) : queue[k].piece = 0 =>
        task[queue[k].origin] = "done"
        /\ \A l \in 1..Len(queue) : k < l => queue[l].origin # queue[k].origin
  /\ \A o \in endsSeen : task[o] = "done" /\ \A k \in 1..Len(queue) : queue[k].origin # o

\* How far the child and the generator are.
StageInv ==
  /\ child = "exited" => wrote = Len(script)
  /\ generator \in {"cleans", "over"} => child # "running"
  /\ child = "killed" => generator \in {"cleans", "over"}
  /\ generator = "over" => \A o \in Origins : task[o] = "done"
  /\ generator = "cleans" => outcome = "closed" \/ \A o \in Origins : task[o] = "done"
  /\ outcome = "" <=> generator \in {"drains", "waits"}
  /\ generator = "waits" => endsSeen = Origins
  /\ \A o \in Origins : task[o] \in {"eof", "done"} /\ generator \in {"drains", "waits"} /\ ~expired
        => pipe[o] = <<>> /\ child # "running"
  /\ outcome = "done" /\ ~expired => Len(yielded) = Len(script)

ShellInv ==
  /\ ShellTypes /\ YieldedInv /\ QueueInv /\ ConsumerInv /\ PipeInv /\ PlacesInv /\ EndsInv /\ StageInv

\* The two pipes and their sizes, and a script of them.
LEMMA ShellConstants ==
  PipeSize \in Nat /\ PipeSize > 0 /\ QueueSize \in Nat /\ QueueSize > 0
BY ShellAssumption

\* What a script is.
LEMMA ScriptKind ==
  ASSUME NEW s \in Scripts
  PROVE  s \in Seq(Origins) /\ Len(s) \in Nat /\ \A n \in 1..Len(s) : s[n] \in Origins
<1>1. s \in Seq(Origins)
  BY ShellAssumption DEF Origins
<1>2. Len(s) \in Nat
  BY <1>1
<1>3. \A n \in 1..Len(s) : s[n] \in Origins
  BY <1>1
<1> QED BY <1>1, <1>2, <1>3

\* The origins in the queue.
LEMMA QueueKind ==
  ASSUME ShellTypes
  PROVE  Len(queue) \in Nat /\ \A k \in 1..Len(queue) : queue[k].origin \in Origins /\ queue[k].piece \in Nat
<1>1. queue \in Seq(QueueKinds)
  BY DEF ShellTypes
<1>2. Len(queue) \in Nat /\ \A k \in 1..Len(queue) : queue[k] \in QueueKinds
  BY <1>1
<1> QED BY <1>2 DEF QueueKinds

\* What the queue and the caller hold.
LEMMA HeldKind ==
  ASSUME ShellTypes
  PROVE  /\ queue \in Seq(QueueKinds) /\ Len(queue) <= QueueSize
         /\ yielded \in Seq(Nat) /\ Len(yielded) \in Nat /\ DOMAIN yielded = 1..Len(yielded)
<1>1. queue \in Seq(QueueKinds) /\ Len(queue) <= QueueSize /\ yielded \in Seq(Nat)
  BY DEF ShellTypes
<1>2. Len(yielded) \in Nat /\ DOMAIN yielded = 1..Len(yielded)
  BY <1>1
<1> QED BY <1>1, <1>2

\* It holds at the start.
LEMMA ShellStarts == ShellInit => ShellInv
<1> SUFFICES ASSUME ShellInit PROVE ShellInv
  OBVIOUS
<1>1. /\ script \in Scripts /\ wrote = 0 /\ child = "running"
      /\ pipe = [o \in Origins |-> <<>>] /\ task = [o \in Origins |-> "reads"]
      /\ inHand = [o \in Origins |-> 0] /\ queue = <<>> /\ endsSeen = {} /\ yielded = <<>>
      /\ expired = FALSE /\ generator = "drains" /\ outcome = ""
  BY DEF ShellInit
<1>0. wrote = 0 /\ script \in Scripts
  BY <1>1
<1>2. /\ Len(queue) = 0 /\ Len(yielded) = 0
      /\ \A o \in Origins : pipe[o] = <<>> /\ Len(pipe[o]) = 0 /\ task[o] = "reads"
  BY <1>1
<1>3. ShellTypes
  <2>1. Len(script) \in Nat
    BY <1>0, ScriptKind
  <2>2. <<>> \in Seq(Nat) /\ <<>> \in Seq(QueueKinds) /\ "reads" \in ConsumerStages
    BY DEF ConsumerStages
  <2>3. /\ pipe \in [Origins -> Seq(Nat)] /\ task \in [Origins -> ConsumerStages]
        /\ inHand \in [Origins -> Nat] /\ queue \in Seq(QueueKinds) /\ yielded \in Seq(Nat)
    BY <1>1, <2>2
  <2>4. \A o \in Origins : Len(pipe[o]) <= PipeSize
    BY <1>2, ShellConstants
  <2>5. wrote \in 0..Len(script)
    BY <1>0, <2>1
  <2>6. /\ script \in Scripts /\ child \in {"running", "exited", "killed"}
        /\ endsSeen \subseteq Origins /\ expired \in BOOLEAN
        /\ generator \in {"drains", "waits", "cleans", "over"}
        /\ outcome \in {"", "done", "timeout", "closed"}
    BY <1>1
  <2>7. Len(queue) <= QueueSize
    BY <1>2, ShellConstants
  <2> QED BY <2>3, <2>4, <2>5, <2>6, <2>7 DEF ShellTypes
<1>4. YieldedInv /\ QueueInv
  BY <1>2 DEF YieldedInv, QueueInv
<1>5. ConsumerInv /\ PipeInv
  BY <1>2 DEF ConsumerInv, PipeInv
<1>6. PlacesInv
  <2>1. 1..wrote = {}
    BY <1>0
  <2> QED BY <2>1 DEF PlacesInv
<1>7. EndsInv
  <2>1. 1..Len(queue) = {}
    BY <1>2
  <2> QED BY <1>1, <2>1 DEF EndsInv
<1>8. StageInv
  BY <1>1, <1>2 DEF StageInv
<1> QED BY <1>3, <1>4, <1>5, <1>6, <1>7, <1>8 DEF ShellInv

\* A piece the child writes comes after all others.
LEMMA WritesKeeps == ASSUME ShellInv, Writes PROVE ShellInv'
<1>1. PICK o : o = script[wrote + 1]
  OBVIOUS
<1>2. /\ child = "running" /\ wrote < Len(script) /\ Len(pipe[o]) < PipeSize
      /\ pipe' = [pipe EXCEPT ![o] = Append(pipe[o], wrote + 1)] /\ wrote' = wrote + 1
      /\ UNCHANGED <<script, child, hangs, task, inHand, queue, endsSeen, yielded, expired,
                     generator, outcome>>
  BY <1>1 DEF Writes
<1>3. ShellTypes
  BY DEF ShellInv
<1>4. script \in Seq(Origins) /\ wrote \in Nat /\ wrote + 1 \in 1..Len(script) /\ o \in Origins
  <2>1. script \in Scripts /\ wrote \in 0..Len(script)
    BY <1>3 DEF ShellTypes
  <2>2. script \in Seq(Origins) /\ Len(script) \in Nat /\ \A n \in 1..Len(script) : script[n] \in Origins
    BY <2>1, ScriptKind
  <2>3. wrote < Len(script)
    BY <1>2
  <2>4. wrote + 1 \in 1..Len(script)
    BY <2>1, <2>2, <2>3
  <2> QED BY <1>1, <2>1, <2>2, <2>4
<1>5. PICK p \in Seq(Nat) : p = pipe[o]
  BY <1>3, <1>4 DEF ShellTypes
<1>6. PICK q : q = Append(p, wrote + 1)
  OBVIOUS
<1>7. /\ q \in Seq(Nat) /\ Len(p) \in Nat /\ Len(q) = Len(p) + 1 /\ q[Len(p) + 1] = wrote + 1
      /\ \A m \in 1..Len(p) : q[m] = p[m]
  BY <1>4, <1>6
<1>8. /\ pipe' = [pipe EXCEPT ![o] = q] /\ pipe \in [Origins -> Seq(Nat)]
      /\ \A c \in Origins : pipe'[c] = IF c = o THEN q ELSE pipe[c]
  BY <1>2, <1>3, <1>5, <1>6 DEF ShellTypes
<1>9. ShellTypes'
  <2>1. wrote' \in 0..Len(script')
    BY <1>2, <1>4
  <2>2. pipe' \in [Origins -> Seq(Nat)] /\ \A c \in Origins : Len(pipe'[c]) <= PipeSize
    <3>1. \A c \in Origins : pipe[c] \in Seq(Nat) /\ Len(pipe[c]) <= PipeSize
      BY <1>3 DEF ShellTypes
    <3>2. Len(q) <= PipeSize
      BY <1>2, <1>5, <1>7, ShellConstants
    <3>3. pipe' \in [Origins -> Seq(Nat)]
      BY <1>7, <1>8
    <3>4. \A c \in Origins : Len(pipe'[c]) <= PipeSize
      BY <1>8, <3>1, <3>2
    <3> QED BY <3>3, <3>4
  <2> QED BY <1>2, <1>3, <2>1, <2>2 DEF ShellTypes
<1>10. \A n, c : PieceOf(script, wrote, n, c) => PieceOf(script, wrote', n, c) /\ n < wrote'
  BY <1>2, <1>4 DEF PieceOf
<1>11. UNCHANGED <<script, yielded, queue>>
  BY <1>2
<1>12. YieldedInv' /\ QueueInv'
  <2>1. \A i \in 1..Len(yielded) : yielded[i] \in 1..wrote'
    BY <1>2, <1>4 DEF ShellInv, YieldedInv
  <2> QED BY <1>2, <1>10, <2>1 DEF ShellInv, YieldedInv, QueueInv
<1>13. PieceOf(script, wrote', wrote + 1, o) /\ AllBehind(script, yielded, queue, o, wrote + 1)
  <2>1. \A i \in 1..Len(yielded) : yielded[i] < wrote + 1
    BY <1>4 DEF ShellInv, YieldedInv
  <2>2. \A k \in 1..Len(queue) : queue[k].piece < wrote + 1
    <3> SUFFICES ASSUME NEW k \in 1..Len(queue) PROVE queue[k].piece < wrote + 1
      OBVIOUS
    <3>1. queue[k].piece = 0 \/ queue[k].piece \in 1..wrote
      BY DEF ShellInv, QueueInv, PieceOf
    <3> QED BY <1>4, <3>1
  <2> QED BY <1>1, <1>2, <1>4, <2>1, <2>2 DEF PieceOf, AllBehind
<1>14. ConsumerInv'
  <2> SUFFICES ASSUME NEW c \in Origins, task[c] = "puts"
               PROVE  /\ PieceOf(script, wrote', inHand[c], c) /\ AllBehind(script, yielded, queue, c, inHand[c])
                      /\ \A m \in 1..Len(pipe'[c]) : inHand[c] < pipe'[c][m]
    BY <1>2, <1>11 DEF ConsumerInv
  <2>1. /\ PieceOf(script, wrote, inHand[c], c) /\ AllBehind(script, yielded, queue, c, inHand[c])
        /\ \A m \in 1..Len(pipe[c]) : inHand[c] < pipe[c][m]
    BY DEF ShellInv, ConsumerInv
  <2>2. PieceOf(script, wrote', inHand[c], c) /\ inHand[c] < wrote + 1
    BY <1>2, <1>10, <2>1 DEF PieceOf
  <2>3. \A m \in 1..Len(pipe'[c]) : inHand[c] < pipe'[c][m]
    <3>1. CASE c = o
      <4>1. \A m \in 1..Len(q) : m \in 1..Len(p) \/ m = Len(p) + 1
        BY <1>7
      <4> QED BY <1>5, <1>7, <1>8, <2>1, <2>2, <3>1, <4>1
    <3>2. CASE c # o
      BY <1>8, <2>1, <3>2
    <3> QED BY <3>1, <3>2
  <2> QED BY <2>1, <2>2, <2>3
<1>15. PipeInv'
  <2> SUFFICES ASSUME NEW c \in Origins, NEW m \in 1..Len(pipe'[c])
               PROVE  /\ PieceOf(script, wrote', pipe'[c][m], c) /\ AllBehind(script, yielded, queue, c, pipe'[c][m])
                      /\ \A l \in 1..Len(pipe'[c]) : l < m => pipe'[c][l] < pipe'[c][m]
    BY <1>11 DEF PipeInv
  <2>1. \A k \in 1..Len(pipe[c]) :
           /\ PieceOf(script, wrote, pipe[c][k], c) /\ AllBehind(script, yielded, queue, c, pipe[c][k])
           /\ \A l \in 1..Len(pipe[c]) : l < k => pipe[c][l] < pipe[c][k]
    BY DEF ShellInv, PipeInv
  <2>2. CASE c # o
    BY <1>8, <1>10, <2>1, <2>2
  <2>3. CASE c = o /\ m \in 1..Len(p)
    <3>1. pipe'[c] = q /\ pipe[c] = p /\ q[m] = p[m]
      BY <1>5, <1>7, <1>8, <2>3
    <3>2. \A l \in 1..Len(q) : l < m => l \in 1..Len(p) /\ q[l] = p[l]
      <4>1. Len(p) \in Nat /\ Len(q) = Len(p) + 1 /\ m \in 1..Len(p)
        BY <1>7, <2>3
      <4>2. \A l \in 1..Len(q) : l < m => l \in 1..Len(p)
        BY <4>1
      <4> QED BY <1>7, <4>2
    <3> QED BY <1>10, <2>1, <2>3, <3>1, <3>2
  <2>4. CASE c = o /\ m \notin 1..Len(p)
    <3>1. pipe'[c] = q /\ pipe[c] = p /\ m = Len(p) + 1 /\ q[m] = wrote + 1
      BY <1>5, <1>7, <1>8, <2>4
    <3>2. \A l \in 1..Len(q) : l < m => l \in 1..Len(p) /\ q[l] = p[l]
      <4>1. Len(p) \in Nat /\ Len(q) = Len(p) + 1 /\ m = Len(p) + 1
        BY <1>7, <3>1
      <4>2. \A l \in 1..Len(q) : l < m => l \in 1..Len(p)
        BY <4>1
      <4> QED BY <1>7, <4>2
    <3>3. \A l \in 1..Len(p) : p[l] < wrote + 1
      BY <1>4, <2>1, <3>1 DEF PieceOf
    <3> QED BY <1>13, <2>4, <3>1, <3>2, <3>3
  <2> QED BY <2>2, <2>3, <2>4
<1>16. PlacesInv'
  <2> SUFFICES ASSUME generator \in {"drains", "waits"}, NEW n \in 1..wrote' PROVE OnItsWay(n)'
    BY <1>2 DEF PlacesInv
  <2>1. CASE n = wrote + 1
    <3>1. pipe'[o][Len(p) + 1] = n /\ Len(p) + 1 \in 1..Len(pipe'[o])
      BY <1>4, <1>7, <1>8, <2>1
    <3> QED BY <1>4, <3>1 DEF OnItsWay
  <2>2. CASE n # wrote + 1
    <3>1. OnItsWay(n)
      BY <1>2, <1>4, <2>2 DEF ShellInv, PlacesInv
    <3>2. CASE \E c \in Origins : \E m \in 1..Len(pipe[c]) : pipe[c][m] = n
      <4>0. PICK c \in Origins : \E m \in 1..Len(pipe[c]) : pipe[c][m] = n
        BY <3>2
      <4>1. PICK m \in 1..Len(pipe[c]) : pipe[c][m] = n
        BY <4>0
      <4>2. m \in 1..Len(pipe'[c]) /\ pipe'[c][m] = n
        BY <1>5, <1>7, <1>8, <4>1
      <4> QED BY <4>2 DEF OnItsWay
    <3> QED BY <1>2, <3>1, <3>2 DEF OnItsWay
  <2> QED BY <2>1, <2>2
<1>17. EndsInv'
  BY <1>2 DEF ShellInv, EndsInv
<1>18. StageInv'
  BY <1>2, <1>8 DEF ShellInv, StageInv
<1> QED BY <1>9, <1>12, <1>14, <1>15, <1>16, <1>17, <1>18 DEF ShellInv

\* It exits when all is written; the time may be up.
LEMMA ChildKeeps == ASSUME ShellInv, Exits \/ Expires PROVE ShellInv'
<1>1. /\ UNCHANGED <<script, wrote, pipe, task, inHand, queue, endsSeen, yielded, generator, outcome>>
      /\ \/ child = "running" /\ wrote = Len(script) /\ child' = "exited" /\ expired' = expired
         \/ child' = child /\ expired' = TRUE
  BY DEF Exits, Expires
<1>2. ShellTypes'
  BY <1>1 DEF ShellInv, ShellTypes
<1>3. \A n : OnItsWay(n)' <=> OnItsWay(n)
  BY <1>1 DEF OnItsWay
<1>4. YieldedInv' /\ QueueInv' /\ ConsumerInv' /\ PipeInv' /\ PlacesInv' /\ EndsInv'
  BY <1>1, <1>3 DEF ShellInv, YieldedInv, QueueInv, ConsumerInv, PipeInv, PlacesInv, EndsInv
<1>5. StageInv'
  <2>1. CASE child = "running" /\ wrote = Len(script) /\ child' = "exited" /\ expired' = expired
    BY <1>1, <2>1 DEF ShellInv, StageInv
  <2>2. CASE child' = child /\ expired' = TRUE
    BY <1>1, <2>2 DEF ShellInv, StageInv
  <2> QED BY <1>1, <2>1, <2>2
<1> QED BY <1>2, <1>4, <1>5 DEF ShellInv

\* What the head of a sequence and its tail are.
LEMMA HeadAndTail ==
  ASSUME NEW S, NEW p \in Seq(S), p # <<>>
  PROVE  /\ Len(p) \in Nat \ {0} /\ Head(p) = p[1] /\ p[1] \in S /\ Tail(p) \in Seq(S)
         /\ Len(Tail(p)) = Len(p) - 1 /\ \A m \in 1..Len(p) - 1 : Tail(p)[m] = p[m + 1]
BY HeadTailProperties, EmptySeq

\* A consumer takes a piece, or learns that there are no more.
LEMMA ReadsKeeps == ASSUME ShellInv, NEW o \in Origins, ReadsPipe(o) PROVE ShellInv'
<1>1. /\ task[o] = "reads"
      /\ UNCHANGED <<script, wrote, child, hangs, queue, endsSeen, yielded, expired, generator, outcome>>
  BY DEF ReadsPipe
<1>2. ShellTypes
  BY DEF ShellInv
<1>3. YieldedInv' /\ QueueInv'
  BY <1>1 DEF ShellInv, YieldedInv, QueueInv
<1>4. CASE /\ expired \/ (pipe[o] = <<>> /\ child # "running")
           /\ task' = [task EXCEPT ![o] = "eof"] /\ UNCHANGED <<inHand, pipe>>
  <2>1. /\ task' \in [Origins -> ConsumerStages] /\ \A c \in Origins : task'[c] = IF c = o THEN "eof" ELSE task[c]
    BY <1>2, <1>4 DEF ShellTypes, ConsumerStages
  <2>2. ShellTypes'
    BY <1>1, <1>2, <1>4, <2>1 DEF ShellTypes
  <2>3. ConsumerInv' /\ PipeInv'
    BY <1>1, <1>4, <2>1 DEF ShellInv, ConsumerInv, PipeInv
  <2>4. \A n : OnItsWay(n) => OnItsWay(n)'
    BY <1>1, <1>4, <2>1 DEF OnItsWay
  <2>5. PlacesInv'
    BY <1>1, <2>4 DEF ShellInv, PlacesInv
  <2>6. EndsInv'
    <3>1. \A k \in 1..Len(queue) : queue[k].origin \in Origins
      BY <1>2, QueueKind
    <3>2. \A c \in Origins : task[c] = "done" => task'[c] = "done"
      BY <1>1, <2>1
    <3> QED BY <1>1, <1>2, <3>1, <3>2 DEF ShellInv, EndsInv, ShellTypes
  <2>7. StageInv'
    <3>1. \A c \in Origins : task'[c] = "done" <=> task[c] = "done"
      BY <1>1, <2>1
    <3>2. \A c \in Origins : task'[c] \in {"eof", "done"} /\ generator \in {"drains", "waits"} /\ ~expired
             => pipe[c] = <<>> /\ child # "running"
      BY <1>4, <2>1 DEF ShellInv, StageInv
    <3> QED BY <1>1, <1>4, <3>1, <3>2 DEF ShellInv, StageInv
  <2> QED BY <1>3, <2>2, <2>3, <2>5, <2>6, <2>7 DEF ShellInv
<1>5. CASE ~expired /\ pipe[o] # <<>> /\ inHand' = [inHand EXCEPT ![o] = Head(pipe[o])]
           /\ pipe' = [pipe EXCEPT ![o] = Tail(@)] /\ task' = [task EXCEPT ![o] = "puts"]
  <2>1. PICK p \in Seq(Nat) : p = pipe[o]
    BY <1>2 DEF ShellTypes
  <2>2. PICK h, t : h = Head(p) /\ t = Tail(p)
    OBVIOUS
  <2>3. /\ Len(p) \in Nat \ {0} /\ h = p[1] /\ h \in Nat /\ t \in Seq(Nat)
        /\ Len(t) = Len(p) - 1 /\ \A m \in 1..Len(p) - 1 : t[m] = p[m + 1]
    BY <1>5, <2>1, <2>2, HeadAndTail
  <2>4. /\ inHand' = [inHand EXCEPT ![o] = h] /\ pipe' = [pipe EXCEPT ![o] = t]
    BY <1>5, <2>1, <2>2
  <2>5. /\ task' \in [Origins -> ConsumerStages] /\ inHand' \in [Origins -> Nat] /\ pipe' \in [Origins -> Seq(Nat)]
        /\ \A c \in Origins : /\ task'[c] = IF c = o THEN "puts" ELSE task[c]
                              /\ inHand'[c] = IF c = o THEN h ELSE inHand[c]
                              /\ pipe'[c] = IF c = o THEN t ELSE pipe[c]
    <3>1. "puts" \in ConsumerStages /\ task' = [task EXCEPT ![o] = "puts"]
      BY <1>5 DEF ConsumerStages
    <3>2. task' \in [Origins -> ConsumerStages] /\ \A c \in Origins : task'[c] = IF c = o THEN "puts" ELSE task[c]
      BY <1>2, <3>1 DEF ShellTypes
    <3>3. inHand' \in [Origins -> Nat] /\ \A c \in Origins : inHand'[c] = IF c = o THEN h ELSE inHand[c]
      BY <1>2, <2>3, <2>4 DEF ShellTypes
    <3>4. pipe' \in [Origins -> Seq(Nat)] /\ \A c \in Origins : pipe'[c] = IF c = o THEN t ELSE pipe[c]
      BY <1>2, <2>3, <2>4 DEF ShellTypes
    <3> QED BY <3>2, <3>3, <3>4
  <2>6. ShellTypes'
    <3>1. \A c \in Origins : Len(pipe'[c]) <= PipeSize
      <4>1. Len(p) <= PipeSize
        BY <1>2, <2>1 DEF ShellTypes
      <4>2. Len(t) <= PipeSize
        BY <2>3, <4>1, ShellConstants
      <4> QED BY <1>2, <2>5, <4>2 DEF ShellTypes
    <3> QED BY <1>1, <1>2, <2>5, <3>1 DEF ShellTypes
  <2>7. \A m \in 1..Len(p) :
           /\ PieceOf(script, wrote, p[m], o) /\ AllBehind(script, yielded, queue, o, p[m])
           /\ \A l \in 1..Len(p) : l < m => p[l] < p[m]
    BY <2>1 DEF ShellInv, PipeInv
  <2>8. 1 \in 1..Len(p) /\ \A m \in 1..Len(t) : m + 1 \in 1..Len(p) /\ t[m] = p[m + 1] /\ 1 < m + 1
    BY <2>3
  <2>9. ConsumerInv'
    <3>1. /\ PieceOf(script, wrote, h, o) /\ AllBehind(script, yielded, queue, o, h)
          /\ \A m \in 1..Len(t) : h < t[m]
      BY <2>3, <2>7, <2>8
    <3>2. \A c \in Origins : c # o /\ task'[c] = "puts" =>
             /\ PieceOf(script, wrote, inHand'[c], c) /\ AllBehind(script, yielded, queue, c, inHand'[c])
             /\ \A m \in 1..Len(pipe'[c]) : inHand'[c] < pipe'[c][m]
      BY <2>5 DEF ShellInv, ConsumerInv
    <3>3. \A c \in Origins : task'[c] = "puts" =>
             /\ PieceOf(script, wrote, inHand'[c], c) /\ AllBehind(script, yielded, queue, c, inHand'[c])
             /\ \A m \in 1..Len(pipe'[c]) : inHand'[c] < pipe'[c][m]
      BY <2>5, <3>1, <3>2
    <3> QED BY <1>1, <3>3 DEF ConsumerInv
  <2>10. PipeInv'
    <3>1. \A m \in 1..Len(t) :
             /\ PieceOf(script, wrote, t[m], o) /\ AllBehind(script, yielded, queue, o, t[m])
             /\ \A l \in 1..Len(t) : l < m => t[l] < t[m]
      <4> SUFFICES ASSUME NEW m \in 1..Len(t)
                   PROVE  /\ PieceOf(script, wrote, t[m], o) /\ AllBehind(script, yielded, queue, o, t[m])
                          /\ \A l \in 1..Len(t) : l < m => t[l] < t[m]
        OBVIOUS
      <4>1. m + 1 \in 1..Len(p) /\ t[m] = p[m + 1]
        BY <2>8
      <4>2. \A l \in 1..Len(t) : l < m => l + 1 \in 1..Len(p) /\ t[l] = p[l + 1] /\ l + 1 < m + 1
        BY <2>3, <2>8
      <4> QED BY <2>7, <4>1, <4>2
    <3>2. \A c \in Origins : \A m \in 1..Len(pipe'[c]) :
             /\ PieceOf(script, wrote, pipe'[c][m], c) /\ AllBehind(script, yielded, queue, c, pipe'[c][m])
             /\ \A l \in 1..Len(pipe'[c]) : l < m => pipe'[c][l] < pipe'[c][m]
      BY <2>5, <3>1 DEF ShellInv, PipeInv
    <3> QED BY <1>1, <3>2 DEF PipeInv
  <2>11. PlacesInv'
    <3> SUFFICES ASSUME generator \in {"drains", "waits"}, NEW n \in 1..wrote PROVE OnItsWay(n)'
      BY <1>1 DEF PlacesInv
    <3>1. OnItsWay(n)
      BY DEF ShellInv, PlacesInv
    <3>2. CASE \E c \in Origins : task[c] = "puts" /\ inHand[c] = n
      BY <1>1, <2>5, <3>2 DEF OnItsWay
    <3>3. CASE \E c \in Origins : \E m \in 1..Len(pipe[c]) : pipe[c][m] = n
      <4>0. PICK c \in Origins : \E m \in 1..Len(pipe[c]) : pipe[c][m] = n
        BY <3>3
      <4>1. PICK m \in 1..Len(pipe[c]) : pipe[c][m] = n
        BY <4>0
      <4>2. CASE c # o
        <5>1. pipe'[c] = pipe[c]
          BY <2>5, <4>2
        <5> QED BY <4>1, <5>1 DEF OnItsWay
      <4>3. CASE c = o /\ m = 1
        <5>1. task'[o] = "puts" /\ inHand'[o] = n
          BY <2>1, <2>3, <2>5, <4>1, <4>3
        <5> QED BY <5>1 DEF OnItsWay
      <4>4. CASE c = o /\ m # 1
        <5>1. m - 1 \in 1..Len(p) - 1 /\ m - 1 + 1 = m
          BY <2>1, <2>3, <4>4
        <5>2. m - 1 \in 1..Len(pipe'[o]) /\ pipe'[o][m - 1] = n
          BY <2>1, <2>3, <2>5, <4>1, <4>4, <5>1
        <5> QED BY <5>2 DEF OnItsWay
      <4> QED BY <4>2, <4>3, <4>4
    <3> QED BY <1>1, <3>1, <3>2, <3>3 DEF OnItsWay
  <2>12. EndsInv'
    <3>1. \A k \in 1..Len(queue) : queue[k].origin \in Origins
      BY <1>2, QueueKind
    <3>2. \A c \in Origins : task[c] = "done" => task'[c] = "done"
      BY <1>1, <2>5
    <3> QED BY <1>1, <1>2, <3>1, <3>2 DEF ShellInv, EndsInv, ShellTypes
  <2>13. StageInv'
    <3>1. \A c \in Origins : task'[c] \in {"eof", "done"} => c # o /\ task[c] \in {"eof", "done"} /\ pipe'[c] = pipe[c]
      BY <2>5
    <3>2. \A c \in Origins : task'[c] = "done" <=> task[c] = "done"
      BY <1>1, <2>5
    <3> QED BY <1>1, <3>1, <3>2 DEF ShellInv, StageInv
  <2> QED BY <1>3, <2>6, <2>9, <2>10, <2>11, <2>12, <2>13 DEF ShellInv
<1> QED BY <1>4, <1>5 DEF ReadsPipe

\* A consumer's piece, or its end, goes to the queue behind what is there.
LEMMA PutsKeeps == ASSUME ShellInv, NEW o \in Origins, Puts(o) PROVE ShellInv'
<1>1. /\ task[o] \in {"puts", "eof"} /\ Len(queue) < QueueSize
      /\ UNCHANGED <<script, wrote, child, hangs, pipe, endsSeen, yielded, expired, generator, outcome>>
  BY DEF Puts
<1>2. ShellTypes
  BY DEF ShellInv
<1>3. PICK n : n = IF task[o] = "puts" THEN inHand[o] ELSE 0
  OBVIOUS
<1>4. PICK e : e = [origin |-> o, piece |-> n]
  OBVIOUS
<1>5. PICK s : s = Append(queue, e)
  OBVIOUS
<1>6. /\ queue' = s /\ inHand' = [inHand EXCEPT ![o] = 0]
      /\ task' = [task EXCEPT ![o] = IF task[o] = "puts" THEN "reads" ELSE "done"]
  BY <1>3, <1>4, <1>5 DEF Puts
<1>7. /\ n # 0 => PieceOf(script, wrote, n, o) /\ AllBehind(script, yielded, queue, o, n)
      /\ n \in Nat /\ \A m \in 1..Len(pipe[o]) : n < pipe[o][m]
      /\ n = 0 <=> task[o] = "eof"
  <2>1. CASE task[o] = "puts"
    <3>1. n = inHand[o] /\ n \in Nat
      BY <1>2, <1>3, <2>1 DEF ShellTypes
    <3>2. PieceOf(script, wrote, n, o)
      BY <2>1, <3>1 DEF ShellInv, ConsumerInv
    <3>3. n # 0
      BY <3>1, <3>2 DEF PieceOf
    <3> QED BY <2>1, <3>1, <3>2, <3>3 DEF ShellInv, ConsumerInv
  <2>2. CASE task[o] = "eof"
    <3>1. n = 0
      BY <1>3, <2>2
    <3>2. \A m \in 1..Len(pipe[o]) : 0 < pipe[o][m]
      BY DEF ShellInv, PipeInv, PieceOf
    <3> QED BY <2>2, <3>1, <3>2
  <2> QED BY <1>1, <2>1, <2>2
<1>8. e \in QueueKinds /\ e.origin = o /\ e.piece = n
  BY <1>4, <1>7 DEF QueueKinds
<1>9. /\ s \in Seq(QueueKinds) /\ Len(queue) \in Nat /\ Len(s) = Len(queue) + 1
      /\ s[Len(queue) + 1] = e /\ \A k \in 1..Len(queue) : s[k] = queue[k]
  <2>1. queue \in Seq(QueueKinds)
    BY <1>2 DEF ShellTypes
  <2> QED BY <1>5, <1>8, <2>1, AppendProperties
<1>10. \A k \in 1..Len(s) : (k \in 1..Len(queue) /\ s[k] = queue[k]) \/ (k = Len(queue) + 1 /\ s[k] = e)
  <2>1. \A k \in 1..Len(s) : k \in 1..Len(queue) \/ k = Len(queue) + 1
    BY <1>9
  <2> QED BY <1>9, <2>1
<1>11. /\ task' \in [Origins -> ConsumerStages] /\ task'[o] \in {"reads", "done"} /\ (task'[o] = "done" <=> n = 0)
       /\ \A c \in Origins : c # o => task'[c] = task[c]
  <2>1. (IF task[o] = "puts" THEN "reads" ELSE "done") \in ConsumerStages /\ task \in [Origins -> ConsumerStages]
    BY <1>2 DEF ConsumerStages, ShellTypes
  <2>2. /\ task' \in [Origins -> ConsumerStages] /\ task'[o] = IF task[o] = "puts" THEN "reads" ELSE "done"
        /\ \A c \in Origins : c # o => task'[c] = task[c]
    BY <1>6, <2>1
  <2> QED BY <1>1, <1>7, <2>2
<1>12. inHand' \in [Origins -> Nat] /\ \A c \in Origins : c # o => inHand'[c] = inHand[c]
  BY <1>2, <1>6 DEF ShellTypes
<1>13. \A c \in Origins : task[c] = "done" => c # o /\ task'[c] = "done"
  BY <1>1, <1>11
<1>14. ShellTypes'
  <2>1. Len(s) <= QueueSize
    BY <1>1, <1>9, ShellConstants
  <2> QED BY <1>1, <1>2, <1>6, <1>9, <1>11, <1>12, <2>1 DEF ShellTypes
<1>15. YieldedInv'
  BY <1>1 DEF ShellInv, YieldedInv
<1>16. QueueInv'
  <2>1. \A k \in 1..Len(s) : s[k].piece # 0 => PieceOf(script, wrote, s[k].piece, s[k].origin)
    BY <1>7, <1>8, <1>10 DEF ShellInv, QueueInv
  <2>2. \A k, l \in 1..Len(s) :
           k < l /\ s[k].origin = s[l].origin /\ s[l].piece # 0 => s[k].piece < s[l].piece
    <3> SUFFICES ASSUME NEW k \in 1..Len(s), NEW l \in 1..Len(s), k < l, s[k].origin = s[l].origin, s[l].piece # 0
                 PROVE  s[k].piece < s[l].piece
      OBVIOUS
    <3>1. k \in 1..Len(queue) /\ s[k] = queue[k]
      <4>1. k # Len(queue) + 1
        BY <1>9
      <4> QED BY <1>10, <4>1
    <3>2. CASE l \in 1..Len(queue) /\ s[l] = queue[l]
      BY <3>1, <3>2 DEF ShellInv, QueueInv
    <3>3. CASE s[l] = e
      BY <1>7, <1>8, <3>1, <3>3 DEF AllBehind
    <3> QED BY <1>10, <3>2, <3>3
  <2>3. \A i \in 1..Len(yielded), k \in 1..Len(s) :
           s[k].piece # 0 /\ script[yielded[i]] = s[k].origin => yielded[i] < s[k].piece
    BY <1>7, <1>8, <1>10 DEF ShellInv, QueueInv, AllBehind
  <2> QED BY <1>1, <1>6, <2>1, <2>2, <2>3 DEF QueueInv
<1>17. \A c \in Origins : \A m : AllBehind(script, yielded, queue, c, m) /\ (c = o => n < m)
                                => AllBehind(script, yielded, s, c, m)
  BY <1>8, <1>10 DEF AllBehind
<1>18. ConsumerInv'
  <2>1. \A c \in Origins : task'[c] = "puts" =>
           /\ PieceOf(script, wrote, inHand'[c], c) /\ AllBehind(script, yielded, s, c, inHand'[c])
           /\ \A m \in 1..Len(pipe[c]) : inHand'[c] < pipe[c][m]
    <3> SUFFICES ASSUME NEW c \in Origins, task'[c] = "puts"
                 PROVE  /\ PieceOf(script, wrote, inHand'[c], c) /\ AllBehind(script, yielded, s, c, inHand'[c])
                        /\ \A m \in 1..Len(pipe[c]) : inHand'[c] < pipe[c][m]
      OBVIOUS
    <3>1. c # o
      BY <1>11
    <3>2. task[c] = "puts" /\ inHand'[c] = inHand[c]
      BY <1>11, <1>12, <3>1
    <3> QED BY <1>17, <3>1, <3>2 DEF ShellInv, ConsumerInv
  <2> QED BY <1>1, <1>6, <2>1 DEF ConsumerInv
<1>19. PipeInv'
  <2>1. \A c \in Origins : \A m \in 1..Len(pipe[c]) : AllBehind(script, yielded, s, c, pipe[c][m])
    BY <1>7, <1>17 DEF ShellInv, PipeInv
  <2> QED BY <1>1, <1>6, <2>1 DEF ShellInv, PipeInv
<1>20. PlacesInv'
  <2> SUFFICES ASSUME generator \in {"drains", "waits"}, NEW i \in 1..wrote PROVE OnItsWay(i)'
    BY <1>1 DEF PlacesInv
  <2>1. OnItsWay(i)
    BY DEF ShellInv, PlacesInv
  <2>2. CASE \E k \in 1..Len(queue) : queue[k].piece = i
    <3>1. PICK k \in 1..Len(queue) : queue[k].piece = i
      BY <2>2
    <3>2. k \in 1..Len(s) /\ s[k].piece = i
      BY <1>9, <3>1
    <3> QED BY <1>6, <3>2 DEF OnItsWay
  <2>3. CASE \E c \in Origins : task[c] = "puts" /\ inHand[c] = i
    <3>1. PICK c \in Origins : task[c] = "puts" /\ inHand[c] = i
      BY <2>3
    <3>2. CASE c = o
      <4>1. n = i /\ Len(queue) + 1 \in 1..Len(s) /\ s[Len(queue) + 1].piece = n
        BY <1>3, <1>8, <1>9, <3>1, <3>2
      <4> QED BY <1>6, <4>1 DEF OnItsWay
    <3>3. CASE c # o
      <4>1. task'[c] = "puts" /\ inHand'[c] = i
        BY <1>11, <1>12, <3>1, <3>3
      <4> QED BY <4>1 DEF OnItsWay
    <3> QED BY <3>2, <3>3
  <2> QED BY <1>1, <2>1, <2>2, <2>3 DEF OnItsWay
<1>21. EndsInv'
  <2>1. /\ \A k \in 1..Len(queue) : queue[k].piece = 0 =>
              task[queue[k].origin] = "done" /\ queue[k].origin \in Origins
              /\ \A l \in 1..Len(queue) : k < l => queue[l].origin # queue[k].origin
        /\ \A c \in endsSeen : c \in Origins /\ task[c] = "done" /\ \A k \in 1..Len(queue) : queue[k].origin # c
    BY <1>2, QueueKind DEF ShellInv, EndsInv, ShellTypes
  <2>2. \A k \in 1..Len(s) : s[k].piece = 0 =>
           task'[s[k].origin] = "done" /\ \A l \in 1..Len(s) : k < l => s[l].origin # s[k].origin
    <3> SUFFICES ASSUME NEW k \in 1..Len(s), s[k].piece = 0
                 PROVE  task'[s[k].origin] = "done" /\ \A l \in 1..Len(s) : k < l => s[l].origin # s[k].origin
      OBVIOUS
    <3>1. CASE k \in 1..Len(queue) /\ s[k] = queue[k]
      BY <1>8, <1>10, <1>13, <2>1, <3>1
    <3>2. CASE k = Len(queue) + 1 /\ s[k] = e
      <4>1. \A l \in 1..Len(s) : ~(k < l)
        BY <1>9, <3>2
      <4> QED BY <1>8, <1>11, <3>2, <4>1
    <3> QED BY <1>10, <3>1, <3>2
  <2>3. \A c \in endsSeen : task'[c] = "done" /\ \A k \in 1..Len(s) : s[k].origin # c
    BY <1>8, <1>10, <1>13, <2>1
  <2> QED BY <1>1, <1>6, <2>2, <2>3 DEF EndsInv
<1>22. StageInv'
  <2>1. \A c \in Origins : task'[c] \in {"eof", "done"} => task[c] \in {"eof", "done"}
    BY <1>1, <1>7, <1>11
  <2> QED BY <1>1, <1>13, <2>1 DEF ShellInv, StageInv
<1> QED BY <1>14, <1>15, <1>16, <1>18, <1>19, <1>20, <1>21, <1>22 DEF ShellInv

\* The generator hands out the first of the queue.
LEMMA YieldsKeeps == ASSUME ShellInv, Yields PROVE ShellInv'
<1>1. PICK s : s = Tail(queue)
  OBVIOUS
<1>2. PICK e : e = Head(queue)
  OBVIOUS
<1>3. /\ generator = "drains" /\ queue # <<>> /\ queue' = s
      /\ endsSeen' = IF e.piece = 0 THEN endsSeen \cup {e.origin} ELSE endsSeen
      /\ yielded' = IF e.piece = 0 THEN yielded ELSE Append(yielded, e.piece)
      /\ generator' = IF endsSeen' = Origins THEN "waits" ELSE "drains"
      /\ UNCHANGED <<script, wrote, child, hangs, pipe, task, inHand, expired, outcome>>
  BY <1>1, <1>2 DEF Yields
<1>4. ShellTypes
  BY DEF ShellInv
<1>5. /\ Len(queue) \in Nat \ {0} /\ e = queue[1] /\ e \in QueueKinds /\ s \in Seq(QueueKinds)
      /\ Len(s) = Len(queue) - 1 /\ \A k \in 1..Len(queue) - 1 : s[k] = queue[k + 1]
  <2>1. queue \in Seq(QueueKinds) /\ queue # <<>>
    BY <1>3, <1>4, HeldKind
  <2> QED BY <1>1, <1>2, <2>1, HeadAndTail
<1>6. e.origin \in Origins /\ e.piece \in Nat
  BY <1>5 DEF QueueKinds
<1>7. 1 \in 1..Len(queue) /\ \A k \in 1..Len(s) : k + 1 \in 1..Len(queue) /\ s[k] = queue[k + 1] /\ 1 < k + 1
  BY <1>5
<1>8. PICK y : y = yielded'
  OBVIOUS
<1>9. /\ y \in Seq(Nat) /\ Len(yielded) \in Nat /\ Len(y) = Len(yielded) + (IF e.piece = 0 THEN 0 ELSE 1)
      /\ \A i \in 1..Len(yielded) : i \in 1..Len(y) /\ y[i] = yielded[i]
      /\ e.piece # 0 => y[Len(yielded) + 1] = e.piece
  <2>1. yielded \in Seq(Nat) /\ Len(yielded) \in Nat
    BY <1>4, HeldKind
  <2>2. CASE e.piece = 0
    BY <1>3, <1>8, <2>1, <2>2
  <2>3. CASE e.piece # 0
    <3>1. y = Append(yielded, e.piece)
      BY <1>3, <1>8, <2>3
    <3>2. /\ y \in Seq(Nat) /\ Len(y) = Len(yielded) + 1 /\ y[Len(yielded) + 1] = e.piece
          /\ \A i \in 1..Len(yielded) : y[i] = yielded[i]
      BY <1>6, <2>1, <3>1, AppendProperties
    <3> QED BY <2>1, <2>3, <3>2
  <2> QED BY <2>2, <2>3
<1>10. \A i \in 1..Len(y) : \/ i \in 1..Len(yielded) /\ y[i] = yielded[i]
                            \/ i = Len(yielded) + 1 /\ e.piece # 0 /\ y[i] = e.piece
  <2>1. \A i \in 1..Len(y) : i \in 1..Len(yielded) \/ (i = Len(yielded) + 1 /\ e.piece # 0)
    BY <1>9
  <2> QED BY <1>9, <2>1
<1>11. /\ \A k \in 1..Len(queue) : queue[k].piece # 0 => PieceOf(script, wrote, queue[k].piece, queue[k].origin)
       /\ \A k, l \in 1..Len(queue) :
             k < l /\ queue[k].origin = queue[l].origin /\ queue[l].piece # 0
               => queue[k].piece < queue[l].piece
       /\ \A i \in 1..Len(yielded), k \in 1..Len(queue) :
             queue[k].piece # 0 /\ script[yielded[i]] = queue[k].origin => yielded[i] < queue[k].piece
  BY DEF ShellInv, QueueInv
<1>12. e.piece # 0 => PieceOf(script, wrote, e.piece, e.origin)
  BY <1>5, <1>7, <1>11
<1>13. ShellTypes'
  <2>1. endsSeen' \subseteq Origins
    BY <1>3, <1>4, <1>6 DEF ShellTypes
  <2>2. Len(s) <= QueueSize
    <3>1. Len(queue) <= QueueSize
      BY <1>4, HeldKind
    <3> QED BY <1>5, <3>1, ShellConstants
  <2>3. generator' \in {"drains", "waits", "cleans", "over"}
    BY <1>3
  <2> QED BY <1>3, <1>4, <1>5, <1>8, <1>9, <2>1, <2>2, <2>3 DEF ShellTypes
<1>14. YieldedInv'
  <2>1. \A i \in 1..Len(y) : y[i] \in 1..wrote
    BY <1>10, <1>12 DEF ShellInv, YieldedInv, PieceOf
  <2>2. \A i, j \in 1..Len(y) : i < j /\ script[y[i]] = script[y[j]] => y[i] < y[j]
    <3> SUFFICES ASSUME NEW i \in 1..Len(y), NEW j \in 1..Len(y), i < j, script[y[i]] = script[y[j]] PROVE y[i] < y[j]
      OBVIOUS
    <3>1. i \in 1..Len(yielded) /\ y[i] = yielded[i]
      <4>1. ~(i = Len(yielded) + 1 /\ e.piece # 0)
        BY <1>9
      <4> QED BY <1>10, <4>1
    <3>2. CASE j \in 1..Len(yielded) /\ y[j] = yielded[j]
      BY <3>1, <3>2 DEF ShellInv, YieldedInv
    <3>3. CASE e.piece # 0 /\ y[j] = e.piece
      <4>1. script[y[i]] = e.origin
        BY <1>12, <3>3 DEF PieceOf
      <4> QED BY <1>5, <1>7, <1>11, <3>1, <3>3, <4>1
    <3> QED BY <1>10, <3>2, <3>3
  <2> QED BY <1>3, <1>8, <2>1, <2>2 DEF YieldedInv
<1>15. QueueInv'
  <2>1. \A k \in 1..Len(s) : s[k].piece # 0 => PieceOf(script, wrote, s[k].piece, s[k].origin)
    BY <1>7, <1>11
  <2>2. \A k, l \in 1..Len(s) :
           k < l /\ s[k].origin = s[l].origin /\ s[l].piece # 0 => s[k].piece < s[l].piece
    <3> SUFFICES ASSUME NEW k \in 1..Len(s), NEW l \in 1..Len(s), k < l, s[k].origin = s[l].origin, s[l].piece # 0
                 PROVE  s[k].piece < s[l].piece
      OBVIOUS
    <3>1. k + 1 < l + 1
      BY <1>5
    <3> QED BY <1>7, <1>11, <3>1
  <2>3. \A i \in 1..Len(y), k \in 1..Len(s) :
           s[k].piece # 0 /\ script[y[i]] = s[k].origin => y[i] < s[k].piece
    <3> SUFFICES ASSUME NEW i \in 1..Len(y), NEW k \in 1..Len(s), s[k].piece # 0, script[y[i]] = s[k].origin
                 PROVE  y[i] < s[k].piece
      OBVIOUS
    <3>1. CASE i \in 1..Len(yielded) /\ y[i] = yielded[i]
      BY <1>7, <1>11, <3>1
    <3>2. CASE e.piece # 0 /\ y[i] = e.piece
      <4>1. script[y[i]] = e.origin
        BY <1>12, <3>2 DEF PieceOf
      <4> QED BY <1>5, <1>7, <1>11, <3>2, <4>1
    <3> QED BY <1>10, <3>1, <3>2
  <2> QED BY <1>3, <1>8, <2>1, <2>2, <2>3 DEF QueueInv
<1>16. \A c \in Origins : \A m : AllBehind(script, yielded, queue, c, m) => AllBehind(script, y, s, c, m)
  <2> SUFFICES ASSUME NEW c \in Origins, NEW m, AllBehind(script, yielded, queue, c, m)
               PROVE  AllBehind(script, y, s, c, m)
    OBVIOUS
  <2>1. /\ \A i \in 1..Len(yielded) : script[yielded[i]] = c => yielded[i] < m
        /\ \A k \in 1..Len(queue) : queue[k].origin = c => queue[k].piece < m
    BY DEF AllBehind
  <2>2. \A i \in 1..Len(y) : script[y[i]] = c => y[i] < m
    <3> SUFFICES ASSUME NEW i \in 1..Len(y), script[y[i]] = c PROVE y[i] < m
      OBVIOUS
    <3>1. CASE i \in 1..Len(yielded) /\ y[i] = yielded[i]
      BY <2>1, <3>1
    <3>2. CASE e.piece # 0 /\ y[i] = e.piece
      <4>1. script[y[i]] = e.origin
        BY <1>12, <3>2 DEF PieceOf
      <4> QED BY <1>5, <1>7, <2>1, <3>2, <4>1
    <3> QED BY <1>10, <3>1, <3>2
  <2>3. \A k \in 1..Len(s) : s[k].origin = c => s[k].piece < m
    BY <1>7, <2>1
  <2> QED BY <2>2, <2>3 DEF AllBehind
<1>17. ConsumerInv'
  BY <1>3, <1>8, <1>16 DEF ShellInv, ConsumerInv
<1>18. PipeInv'
  BY <1>3, <1>8, <1>16 DEF ShellInv, PipeInv
<1>19. PlacesInv'
  <2> SUFFICES ASSUME NEW n \in 1..wrote PROVE OnItsWay(n)'
    BY <1>3 DEF PlacesInv
  <2>1. OnItsWay(n) /\ n # 0
    BY <1>3 DEF ShellInv, PlacesInv
  <2>2. CASE \E i \in 1..Len(yielded) : yielded[i] = n
    <3>1. \E i \in 1..Len(y) : y[i] = n
      BY <1>9, <2>2
    <3> QED BY <1>8, <3>1 DEF OnItsWay
  <2>3. CASE \E k \in 1..Len(queue) : queue[k].piece = n
    <3>1. PICK k \in 1..Len(queue) : queue[k].piece = n
      BY <2>3
    <3>2. CASE k = 1
      <4>1. e.piece = n
        BY <1>5, <3>1, <3>2
      <4>2. Len(yielded) + 1 \in 1..Len(y) /\ y[Len(yielded) + 1] = n
        BY <1>9, <2>1, <4>1
      <4> QED BY <1>8, <4>2 DEF OnItsWay
    <3>3. CASE k # 1
      <4>1. k - 1 \in 1..Len(queue) - 1 /\ k - 1 + 1 = k
        BY <1>5, <3>3
      <4>2. k - 1 \in 1..Len(s) /\ s[k - 1].piece = n
        BY <1>5, <3>1, <4>1
      <4> QED BY <1>3, <4>2 DEF OnItsWay
    <3> QED BY <3>2, <3>3
  <2> QED BY <1>3, <2>1, <2>2, <2>3 DEF OnItsWay
<1>20. EndsInv'
  <2>1. /\ \A k \in 1..Len(queue) : queue[k].piece = 0 =>
              task[queue[k].origin] = "done"
              /\ \A l \in 1..Len(queue) : k < l => queue[l].origin # queue[k].origin
        /\ \A c \in endsSeen : task[c] = "done" /\ \A k \in 1..Len(queue) : queue[k].origin # c
    BY DEF ShellInv, EndsInv
  <2>2. \A k \in 1..Len(s) : s[k].piece = 0 =>
           task[s[k].origin] = "done" /\ \A l \in 1..Len(s) : k < l => s[l].origin # s[k].origin
    <3> SUFFICES ASSUME NEW k \in 1..Len(s), s[k].piece = 0
                 PROVE  task[s[k].origin] = "done" /\ \A l \in 1..Len(s) : k < l => s[l].origin # s[k].origin
      OBVIOUS
    <3>1. k + 1 \in 1..Len(queue) /\ s[k] = queue[k + 1]
      BY <1>7
    <3>2. \A l \in 1..Len(s) : k < l => k + 1 < l + 1
      BY <1>5
    <3>3. task[s[k].origin] = "done" /\ \A l \in 1..Len(queue) : k + 1 < l => queue[l].origin # s[k].origin
      BY <2>1, <3>1
    <3>4. \A l \in 1..Len(s) : k < l => s[l].origin # s[k].origin
      BY <1>7, <3>2, <3>3
    <3> QED BY <3>3, <3>4
  <2>3. \A c \in endsSeen' : task[c] = "done" /\ \A k \in 1..Len(s) : s[k].origin # c
    <3> SUFFICES ASSUME NEW c \in endsSeen' PROVE task[c] = "done" /\ \A k \in 1..Len(s) : s[k].origin # c
      OBVIOUS
    <3>1. CASE c \in endsSeen
      BY <1>7, <2>1, <3>1
    <3>2. CASE e.piece = 0 /\ c = e.origin
      BY <1>5, <1>7, <2>1, <3>2
    <3> QED BY <1>3, <3>1, <3>2
  <2> QED BY <1>3, <2>2, <2>3 DEF EndsInv
<1>21. StageInv'
  <2>1. generator' \in {"drains", "waits"} /\ (generator' = "waits" => endsSeen' = Origins) /\ outcome' = ""
    BY <1>3 DEF ShellInv, StageInv
  <2> QED BY <1>3, <2>1 DEF ShellInv, StageInv
<1> QED BY <1>13, <1>14, <1>15, <1>17, <1>18, <1>19, <1>20, <1>21 DEF ShellInv

\* Once the ends of both pipes are seen, all that was written is handed out.
LEMMA AllHandedOut ==
  ASSUME ShellInv, generator = "waits", ~expired
  PROVE  Len(yielded) = wrote
<1>1. ShellTypes
  BY DEF ShellInv
<1>2. \A o \in Origins : task[o] = "done" /\ pipe[o] = <<>> /\ \A k \in 1..Len(queue) : queue[k].origin # o
  BY DEF ShellInv, StageInv, EndsInv
<1>3. 1..Len(queue) = {}
  BY <1>1, <1>2, QueueKind
<1>4. \A o \in Origins : Len(pipe[o]) = 0
  BY <1>2
<1>5. \A n \in 1..wrote : \E i \in 1..Len(yielded) : yielded[i] = n
  BY <1>2, <1>3, <1>4 DEF ShellInv, PlacesInv, OnItsWay
<1>6. \A i \in 1..Len(yielded) : yielded[i] \in 1..wrote
  BY DEF ShellInv, YieldedInv
<1>7. \A i, j \in 1..Len(yielded) : i # j => yielded[i] # yielded[j]
  <2>1. \A i, j \in 1..Len(yielded) : i < j => yielded[i] # yielded[j]
    BY <1>6 DEF ShellInv, YieldedInv
  <2>2. \A i, j \in 1..Len(yielded) : i # j => i < j \/ j < i
    OBVIOUS
  <2> QED BY <2>1, <2>2
<1>8. PICK a, w \in Nat : a = Len(yielded) /\ w = wrote
  <2>1. wrote \in Nat /\ Len(yielded) \in Nat
    <3>1. Len(script) \in Nat /\ wrote \in 0..Len(script) /\ yielded \in Seq(Nat)
      BY <1>1, ScriptKind DEF ShellTypes
    <3> QED BY <3>1
  <2> QED BY <2>1
<1>9. PICK f : f = [i \in 1..a |-> yielded[i]]
  OBVIOUS
<1>10. f \in Bijection(1..a, 1..w)
  <2>1. f \in [1..a -> 1..w] /\ \A i \in 1..a : f[i] = yielded[i]
    BY <1>6, <1>8, <1>9
  <2>2. f \in Injection(1..a, 1..w)
    BY <1>7, <1>8, <2>1 DEF Injection, IsInjective
  <2>3. f \in Surjection(1..a, 1..w)
    BY <1>5, <1>8, <2>1 DEF Surjection
  <2> QED BY <2>2, <2>3 DEF Bijection
<1>11. IsFiniteSet(1..a) /\ Cardinality(1..a) = a /\ IsFiniteSet(1..w) /\ Cardinality(1..w) = w
  <2>1. \A n \in Nat : IsFiniteSet(1..n) /\ Cardinality(1..n) = n
    <3> SUFFICES ASSUME NEW n \in Nat PROVE IsFiniteSet(1..n) /\ Cardinality(1..n) = n
      OBVIOUS
    <3>1. IsFiniteSet(1..n) /\ Cardinality(1..n) = IF 1 > n THEN 0 ELSE n - 1 + 1
      BY FS_Interval
    <3> QED BY <3>1
  <2> QED BY <1>8, <2>1
<1>12. ExistsBijection(1..a, 1..w)
  BY <1>10 DEF ExistsBijection
<1>13. Cardinality(1..a) = Cardinality(1..w)
  BY <1>11, <1>12, FS_Bijection
<1> QED BY <1>8, <1>11, <1>13

\* The tasks are cancelled when the generator is done, or its caller gone.
LEMMA CancelsKeeps == ASSUME ShellInv, Concludes \/ CallerLeaves PROVE ShellInv'
<1>1. /\ child' = IF child = "running" THEN "killed" ELSE child
      /\ task' = Cancelled /\ generator' = "cleans" /\ generator \in {"drains", "waits"}
      /\ \/ outcome' = "closed"
         \/ generator = "waits" /\ child = "exited" /\ outcome' = "done"
         \/ generator = "waits" /\ expired /\ outcome' = "timeout"
      /\ UNCHANGED <<script, wrote, hangs, pipe, inHand, queue, endsSeen, yielded, expired>>
  BY DEF Concludes, CallerLeaves
<1>2. ShellTypes
  BY DEF ShellInv
<1>3. /\ task' \in [Origins -> ConsumerStages] /\ \A o \in Origins : task'[o] # "puts"
      /\ \A o \in Origins : task[o] = "done" => task'[o] = "done"
  BY <1>1 DEF Cancelled, ConsumerStages
<1>4. child' \in {"exited", "killed"} /\ (child' = "exited" => child = "exited")
  BY <1>1, <1>2 DEF ShellTypes
<1>5. ShellTypes'
  <2>1. outcome' \in {"", "done", "timeout", "closed"}
    BY <1>1
  <2> QED BY <1>1, <1>2, <1>3, <1>4, <2>1 DEF ShellTypes
<1>6. YieldedInv' /\ QueueInv' /\ PipeInv'
  BY <1>1 DEF ShellInv, YieldedInv, QueueInv, PipeInv
<1>7. ConsumerInv' /\ PlacesInv'
  BY <1>1, <1>3 DEF ConsumerInv, PlacesInv
<1>8. EndsInv'
  <2>1. \A k \in 1..Len(queue) : queue[k].origin \in Origins
    BY <1>2, QueueKind
  <2> QED BY <1>1, <1>2, <1>3, <2>1 DEF ShellInv, EndsInv, ShellTypes
<1>9. StageInv'
  <2>1. generator = "waits" => \A o \in Origins : task'[o] = "done"
    BY <1>3 DEF ShellInv, StageInv, EndsInv
  <2>2. child = "exited" => wrote = Len(script)
    BY DEF ShellInv, StageInv
  <2>3. outcome' = "done" /\ ~expired => Len(yielded) = Len(script)
    BY <1>1, <2>2, AllHandedOut
  <2>4. outcome' = "closed" \/ \A o \in Origins : task'[o] = "done"
    BY <1>1, <2>1
  <2>5. outcome' # ""
    BY <1>1
  <2> QED BY <1>1, <1>4, <2>2, <2>3, <2>4, <2>5 DEF StageInv
<1> QED BY <1>5, <1>6, <1>7, <1>8, <1>9 DEF ShellInv

\* The gather ends it.
LEMMA GathersKeeps == ASSUME ShellInv, Gathers PROVE ShellInv'
<1>1. /\ generator = "cleans" /\ generator' = "over" /\ \A o \in Origins : task[o] = "done"
      /\ UNCHANGED <<script, wrote, child, hangs, pipe, task, inHand, queue, endsSeen,
                     yielded, expired, outcome>>
  BY DEF Gathers
<1>2. ShellTypes'
  BY <1>1 DEF ShellInv, ShellTypes
<1>3. YieldedInv' /\ QueueInv' /\ ConsumerInv' /\ PipeInv' /\ PlacesInv' /\ EndsInv'
  BY <1>1 DEF ShellInv, YieldedInv, QueueInv, ConsumerInv, PipeInv, PlacesInv, EndsInv
<1>4. StageInv'
  BY <1>1 DEF ShellInv, StageInv
<1> QED BY <1>2, <1>3, <1>4 DEF ShellInv

\* Every step keeps it.
LEMMA ShellSteps == ASSUME ShellInv, [ShellNext]_shellVars PROVE ShellInv'
<1>1. CASE UNCHANGED shellVars
  <2>1. /\ UNCHANGED <<script, wrote, child, pipe, task, inHand, queue>>
        /\ UNCHANGED <<endsSeen, yielded, expired, generator, outcome>>
    BY <1>1 DEF shellVars
  <2>2. ShellTypes' /\ YieldedInv' /\ QueueInv' /\ ConsumerInv' /\ PipeInv'
    BY <2>1 DEF ShellInv, ShellTypes, YieldedInv, QueueInv, ConsumerInv, PipeInv
  <2>3. PlacesInv'
    BY <2>1 DEF ShellInv, PlacesInv, OnItsWay
  <2>4. EndsInv' /\ StageInv'
    BY <2>1 DEF ShellInv, EndsInv, StageInv
  <2> QED BY <2>2, <2>3, <2>4 DEF ShellInv
<1>2. CASE Writes
  BY <1>2, WritesKeeps
<1>3. CASE Exits \/ Expires
  BY <1>3, ChildKeeps
<1>4. CASE \E o \in Origins : ReadsPipe(o) \/ Puts(o)
  BY <1>4, ReadsKeeps, PutsKeeps
<1>5. CASE Yields
  BY <1>5, YieldsKeeps
<1>6. CASE Concludes \/ CallerLeaves
  BY <1>6, CancelsKeeps
<1>7. CASE Gathers
  BY <1>7, GathersKeeps
<1> QED BY <1>1, <1>2, <1>3, <1>4, <1>5, <1>6, <1>7 DEF ShellNext

\* What the run checks follows from it.
LEMMA ShellImplies == ShellInv => ShellTypeOK /\ ShellRight
<1> SUFFICES ASSUME ShellInv PROVE ShellTypeOK /\ ShellRight
  OBVIOUS
<1>1. ShellTypes /\ StageInv
  BY DEF ShellInv
<1>2. ShellTypeOK
  BY <1>1 DEF ShellTypeOK, ShellTypes, ConsumerStages
<1>3. NoStandstill
  <2> SUFFICES ASSUME generator = "drains", ~expired, child = "running", wrote < Len(script),
                      \A o \in Origins : task[o] \notin {"puts", "eof"}
               PROVE  task[script[wrote + 1]] = "reads" /\ MayRead(script[wrote + 1])
    BY DEF NoStandstill
  <2>1. Len(script) \in Nat /\ wrote \in 0..Len(script) /\ \A n \in 1..Len(script) : script[n] \in Origins
    BY <1>1, ScriptKind DEF ShellTypes
  <2>2. wrote + 1 \in 1..Len(script)
    BY <2>1
  <2>3. PICK o \in Origins : o = script[wrote + 1]
    BY <2>1, <2>2
  <2>4. task[o] \in {"reads", "puts", "eof", "done"} /\ task[o] # "done"
    BY <1>1 DEF ShellTypes, ConsumerStages, StageInv
  <2> QED BY <2>3, <2>4 DEF MayRead
<1>4. OutputIsRight
  <2>1. DOMAIN yielded = 1..Len(yielded)
    BY <1>1, HeldKind
  <2> QED BY <1>1, <2>1 DEF OutputIsRight, StageInv, ShellInv, YieldedInv
<1>5. NothingIsLeft
  <2>1. (\A o \in Origins : task[o] = "done") =>
           Len(queue) + Cardinality({o \in Origins : task[o] # "done"}) <= QueueSize
    <3> SUFFICES ASSUME \A o \in Origins : task[o] = "done"
                 PROVE  Len(queue) + Cardinality({o \in Origins : task[o] # "done"}) <= QueueSize
      OBVIOUS
    <3>1. {o \in Origins : task[o] # "done"} = {}
      OBVIOUS
    <3>2. Cardinality({o \in Origins : task[o] # "done"}) = 0
      BY <3>1, FS_EmptySet
    <3>3. Len(queue) \in Nat /\ Len(queue) <= QueueSize
      BY <1>1, QueueKind DEF ShellTypes
    <3> QED BY <3>2, <3>3, ShellConstants
  <2> QED BY <1>1, <2>1 DEF NothingIsLeft, StageInv
<1> QED BY <1>2, <1>3, <1>4, <1>5 DEF ShellRight

\* ExecTool.execute_streaming: a child is never left waiting for room in a pipe that
\* nobody reads; the output of a command that ended by itself in time is complete,
\* and any other keeps each stream's order; and nothing outlives the generator, which
\* only a caller that left can keep from its end.
THEOREM ShellHolds ==
  ShellInit /\ [][ShellNext]_shellVars => [](ShellTypeOK /\ ShellRight)
<1>1. ShellInit => ShellInv
  BY ShellStarts
<1>2. ShellInv /\ [ShellNext]_shellVars => ShellInv'
  BY ShellSteps
<1>3. ShellInv => ShellTypeOK /\ ShellRight
  BY ShellImplies
<1> QED BY <1>1, <1>2, <1>3, PTL

-----------------------------------------------------------------------------
(* The includes of a screen document                                         *)

\* The files being painted: each has visited those below the screen down to itself.
Painted == {Screen} \cup Snippets
Levels == [file : Painted, visited : SUBSET Painted, left : Seq(Painted)]
Nested(p) ==
  /\ p \in Seq(Levels)
  /\ p # <<>> => p[1].file = Screen
  /\ \A k \in 1..Len(p) : p[k].visited = {p[i].file : i \in 2..k}
  /\ \A i, j \in 2..Len(p) : i < j => p[i].file # p[j].file

IncludesInv ==
  /\ contents \in Contents /\ readable \subseteq Painted
  /\ Nested(painting) /\ CyclesAreReal

\* It holds at the start.
LEMMA IncludesStarts == IncludesInit => IncludesInv
<1> SUFFICES ASSUME IncludesInit PROVE IncludesInv
  OBVIOUS
<1>1. contents \in Contents /\ contents \in [Painted -> Seq(Painted)] /\ readable \subseteq Painted
  BY IncludesAssumption DEF IncludesInit, Painted
<1>2. PICK l : l = Level(Screen, {}, contents[Screen])
  OBVIOUS
<1>3. l \in Levels /\ l.file = Screen /\ l.visited = {}
  BY <1>1, <1>2 DEF Level, Levels, Painted
<1>4. painting = <<l>>
  BY <1>2 DEF IncludesInit
<1>5. painting \in Seq(Levels) /\ Len(painting) = 1 /\ painting[1] = l
  BY <1>3, <1>4
<1>6. \A k \in 1..1 : k = 1 /\ {painting[i].file : i \in 2..k} = {}
  OBVIOUS
<1>7. Nested(painting)
  BY <1>3, <1>5, <1>6 DEF Nested
<1>8. CyclesAreReal
  BY DEF IncludesInit, CyclesAreReal
<1> QED BY <1>1, <1>7, <1>8 DEF IncludesInv

\* A file less.
LEMMA NestedFront ==
  ASSUME NEW p, Nested(p), p # <<>>
  PROVE  Nested(Front(p)) /\ Len(Front(p)) = Len(p) - 1
         /\ \A k \in 1..(Len(p) - 1) : Front(p)[k] = p[k]
<1>1. p \in Seq(Levels) /\ Len(p) \in Nat /\ Len(p) > 0
  BY DEF Nested
<1>2. /\ Front(p) \in Seq(Levels) /\ Len(Front(p)) = Len(p) - 1
      /\ \A k \in 1..(Len(p) - 1) : Front(p)[k] = p[k]
  <2>1. \A i \in 1..(Len(p) - 1) : p[i] \in Levels /\ 1 + i - 1 = i
    BY <1>1
  <2>2. 1 \in Int /\ Len(p) - 1 \in Int /\ (Len(p) - 1) - 1 + 1 = Len(p) - 1
        /\ Front(p) = SubSeq(p, 1, Len(p) - 1)
    BY <1>1 DEF Front
  <2>3. /\ SubSeq(p, 1, Len(p) - 1) \in Seq(Levels)
        /\ Len(SubSeq(p, 1, Len(p) - 1)) = IF 1 <= Len(p) - 1 THEN (Len(p) - 1) - 1 + 1 ELSE 0
        /\ \A i \in 1..((Len(p) - 1) - 1 + 1) : SubSeq(p, 1, Len(p) - 1)[i] = p[1 + i - 1]
    BY <2>1, <2>2, SubSeqProperties
  <2>4. Len(SubSeq(p, 1, Len(p) - 1)) = Len(p) - 1
    <3>1. PICK L, n : L = Len(p) /\ n = Len(SubSeq(p, 1, Len(p) - 1))
      OBVIOUS
    <3>2. L \in Nat /\ L > 0 /\ n = IF 1 <= L - 1 THEN (L - 1) - 1 + 1 ELSE 0
      BY <1>1, <2>3, <3>1
    <3>3. n = L - 1
      BY <3>2
    <3> QED BY <3>1, <3>3
  <2> QED BY <2>1, <2>2, <2>3, <2>4
<1> DEFINE q == Front(p)
<1> HIDE DEF q
<1>3. q # <<>> => q[1].file = Screen
  BY <1>1, <1>2 DEF Nested, q
<1>4. ASSUME NEW k \in 1..Len(q) PROVE q[k].visited = {q[i].file : i \in 2..k}
  <2>1. k \in 1..Len(p) /\ q[k] = p[k] /\ \A i \in 2..k : q[i] = p[i]
    BY <1>1, <1>2, <1>4 DEF q
  <2>2. p[k].visited = {p[i].file : i \in 2..k}
    BY <2>1 DEF Nested
  <2> QED BY <2>1, <2>2
<1>5. \A i, j \in 2..Len(q) : i < j => q[i].file # q[j].file
  <2>1. \A i \in 2..Len(q) : i \in 2..Len(p) /\ q[i] = p[i]
    BY <1>1, <1>2 DEF q
  <2> QED BY <2>1 DEF Nested
<1> QED BY <1>2, <1>3, <1>4, <1>5 DEF Nested, q

\* Of the file being painted, an include less is left.
LEMMA NestedRest ==
  ASSUME Nested(painting), painting # <<>>, TopLevel.left # <<>>
  PROVE  /\ Nested(RestToPaint) /\ Len(RestToPaint) = Len(painting)
         /\ RestToPaint \in Seq(Levels) /\ RestToPaint # <<>>
         /\ Head(TopLevel.left) \in Painted
         /\ TopLevel.visited = {painting[i].file : i \in 2..Len(painting)}
         /\ \A k \in 1..Len(painting) : RestToPaint[k].file = painting[k].file
                                        /\ RestToPaint[k].visited = painting[k].visited
<1> DEFINE L == Len(painting)
<1>1. painting \in Seq(Levels) /\ L \in Nat /\ L > 0 /\ L \in 1..L
  BY DEF Nested
<1>2. TopLevel \in Levels /\ TopLevel = painting[L]
  BY <1>1 DEF TopLevel, Last
<1>3. TopLevel.visited = {painting[i].file : i \in 2..L}
  BY <1>1, <1>2 DEF Nested
<1>4. TopLevel.left \in Seq(Painted) /\ Tail(TopLevel.left) \in Seq(Painted) /\ Head(TopLevel.left) \in Painted
  BY <1>2 DEF Levels
<1>5. Left \in Levels /\ Left.file = TopLevel.file /\ Left.visited = TopLevel.visited
  BY <1>2, <1>4 DEF Left, Levels
<1>6. PICK q \in Seq(Levels) : q = Front(painting)
  BY <1>1, NestedFront DEF Nested
<1>7. Len(q) = L - 1 /\ \A k \in 1..(L - 1) : q[k] = painting[k]
  BY <1>6, NestedFront
<1>8. PICK l \in Levels : l = Left
  BY <1>5
<1>9. PICK r : r = Append(q, l)
  OBVIOUS
<1>10. r = RestToPaint
  BY <1>6, <1>8, <1>9 DEF RestToPaint
<1>11. /\ r \in Seq(Levels) /\ Len(r) = L
       /\ \A k \in 1..L : r[k] = IF k = L THEN l ELSE painting[k]
  <2>1. r \in Seq(Levels) /\ Len(r) = L /\ r[L] = l /\ \A k \in 1..(L - 1) : r[k] = q[k]
    BY <1>1, <1>7, <1>9
  <2>2. \A k \in 1..L : k # L => k \in 1..(L - 1)
    BY <1>1
  <2> QED BY <1>7, <2>1, <2>2
<1>12. \A k \in 1..L : r[k].file = painting[k].file /\ r[k].visited = painting[k].visited
  BY <1>2, <1>5, <1>8, <1>11
<1>13. Nested(r)
  <2>1. r[1].file = Screen
    <3>1. 1 \in 1..L /\ painting # <<>>
      BY <1>1
    <3> QED BY <1>12, <3>1 DEF Nested
  <2>2. ASSUME NEW k \in 1..Len(r) PROVE r[k].visited = {r[i].file : i \in 2..k}
    <3>1. k \in 1..L /\ \A i \in 2..k : i \in 1..L
      BY <1>1, <1>11
    <3>2. painting[k].visited = {painting[i].file : i \in 2..k}
      BY <3>1 DEF Nested
    <3>3. \A i \in 2..k : r[i].file = painting[i].file
      BY <1>12, <3>1
    <3>4. r[k].visited = painting[k].visited
      BY <1>12, <3>1
    <3> HIDE DEF L
    <3> QED BY <3>2, <3>3, <3>4
  <2>3. \A i, j \in 2..Len(r) : i < j => r[i].file # r[j].file
    <3>1. \A i \in 2..Len(r) : i \in 1..L /\ i \in 2..L
      BY <1>1, <1>11
    <3> QED BY <1>12, <3>1 DEF Nested
  <2> QED BY <1>11, <2>1, <2>2, <2>3 DEF Nested
<1>14. r # <<>>
  BY <1>1, <1>11
<1> QED BY <1>3, <1>4, <1>10, <1>11, <1>12, <1>13, <1>14

\* A file more, that is not among the visited.
LEMMA NestedMore ==
  ASSUME NEW p, Nested(p), p # <<>>, NEW l \in Levels, l.file \notin p[Len(p)].visited,
         l.visited = p[Len(p)].visited \cup {l.file}
  PROVE  Nested(Append(p, l))
<1> DEFINE L == Len(p)
<1>1. p \in Seq(Levels) /\ L \in Nat /\ L > 0 /\ L \in 1..L
  BY DEF Nested
<1>2. PICK q : q = Append(p, l)
  OBVIOUS
<1>3. q \in Seq(Levels) /\ Len(q) = L + 1 /\ q[L + 1] = l /\ \A k \in 1..L : q[k] = p[k]
  BY <1>1, <1>2
<1>4. p[L].visited = {p[i].file : i \in 2..L}
  BY <1>1 DEF Nested
<1>5. q[1].file = Screen
  BY <1>1, <1>3 DEF Nested
<1>6. ASSUME NEW k \in 1..Len(q) PROVE q[k].visited = {q[i].file : i \in 2..k}
  <2>1. CASE k = L + 1
    <3>1. \A i \in 2..k : i \in 2..L \/ i = k
      BY <1>1, <2>1
    <3>2. k \in 2..k /\ \A i \in 2..L : i \in 2..k /\ i \in 1..L
      BY <1>1, <2>1
    <3>3. {q[i].file : i \in 2..k} = {p[i].file : i \in 2..L} \cup {l.file}
      BY <1>3, <2>1, <3>1, <3>2
    <3> QED BY <1>3, <1>4, <2>1, <3>3
  <2>2. CASE k # L + 1
    <3>1. k \in 1..L /\ \A i \in 2..k : i \in 1..L
      BY <1>1, <1>3, <2>2
    <3>2. p[k].visited = {p[i].file : i \in 2..k}
      BY <3>1 DEF Nested
    <3> QED BY <1>3, <3>1, <3>2
  <2> QED BY <2>1, <2>2
<1>7. ASSUME NEW i \in 2..Len(q), NEW j \in 2..Len(q), i < j PROVE q[i].file # q[j].file
  <2>1. i \in 2..L /\ i \in 1..L
    BY <1>1, <1>3, <1>7
  <2>2. CASE j = L + 1
    <3>1. p[i].file \in p[L].visited
      BY <1>4, <2>1
    <3> QED BY <1>3, <2>1, <2>2, <3>1
  <2>3. CASE j # L + 1
    <3>1. j \in 2..L /\ j \in 1..L
      BY <1>1, <1>3, <2>3
    <3> QED BY <1>3, <1>7, <2>1, <3>1 DEF Nested
  <2> QED BY <2>2, <2>3
<1>8. Nested(q)
  BY <1>3, <1>5, <1>6, <1>7 DEF Nested
<1> QED BY <1>2, <1>8

\* What is being painted below the screen is the rest of the path.
LEMMA VisitedIsPath ==
  ASSUME Nested(painting), painting # <<>>
  PROVE  ToSet(Tail(Path)) = {painting[i].file : i \in 2..Len(painting)}
<1>1. painting \in Seq(Levels) /\ Len(painting) \in Nat /\ Len(painting) > 0
  BY DEF Nested
<1>2. \A k \in 1..Len(painting) : painting[k].file \in Painted
  <2>1. \A k \in 1..Len(painting) : painting[k] \in Levels
    BY <1>1
  <2> QED BY <2>1 DEF Levels
<1>3. PICK p \in Seq(Painted) : p = Path
  <2>1. Path \in Seq(Painted)
    BY <1>1, <1>2 DEF Path
  <2> QED BY <2>1
<1>4. Len(p) = Len(painting) /\ \A k \in 1..Len(painting) : p[k] = painting[k].file
  BY <1>1, <1>3 DEF Path
<1>5. p # <<>>
  BY <1>1, <1>4
<1>6. /\ Tail(p) \in Seq(Painted) /\ Len(Tail(p)) = Len(p) - 1
      /\ \A i \in 1..(Len(p) - 1) : Tail(p)[i] = p[i + 1]
  BY <1>5, HeadTailProperties
<1>7. ToSet(Tail(p)) = {Tail(p)[i] : i \in 1..(Len(p) - 1)}
  <2>1. DOMAIN Tail(p) = 1..(Len(p) - 1)
    BY <1>6, LenProperties
  <2> QED BY <2>1 DEF ToSet
<1>8. \A i \in 1..(Len(p) - 1) : i + 1 \in 2..Len(p) /\ i + 1 \in 1..Len(p)
  BY <1>1, <1>4
<1>9. \A i \in 2..Len(p) : i - 1 \in 1..(Len(p) - 1) /\ (i - 1) + 1 = i /\ i \in 1..Len(p)
  BY <1>1, <1>4
<1>10. ToSet(Tail(p)) = {p[i] : i \in 2..Len(p)}
  <2>1. ASSUME NEW x \in ToSet(Tail(p)) PROVE x \in {p[i] : i \in 2..Len(p)}
    <3>1. PICK i \in 1..(Len(p) - 1) : x = Tail(p)[i]
      BY <1>7, <2>1
    <3>2. x = p[i + 1] /\ i + 1 \in 2..Len(p)
      BY <1>6, <1>8, <3>1
    <3> QED BY <3>2
  <2>2. ASSUME NEW i \in 2..Len(p) PROVE p[i] \in ToSet(Tail(p))
    <3>1. PICK j \in 1..(Len(p) - 1) : j + 1 = i
      BY <1>9
    <3>2. Tail(p)[j] = p[i]
      BY <1>6, <3>1
    <3> QED BY <1>7, <3>2
  <2> QED BY <2>1, <2>2
<1> QED BY <1>3, <1>4, <1>9, <1>10

\* It is kept by every step.
LEMMA IncludesSteps == IncludesInv /\ [IncludesNext]_includesVars => IncludesInv'
<1> SUFFICES ASSUME IncludesInv, [IncludesNext]_includesVars PROVE IncludesInv'
  OBVIOUS
<1>0. contents \in Contents /\ readable \subseteq Painted /\ Nested(painting) /\ CyclesAreReal
  BY DEF IncludesInv
<1>1. CASE UNCHANGED includesVars
  BY <1>1 DEF includesVars, IncludesInv, CyclesAreReal
<1>2. CASE Finished
  <2>1. painting # <<>> /\ painting' = Front(painting) /\ UNCHANGED <<contents, readable, painted>>
    BY <1>2 DEF Finished
  <2>2. Nested(painting')
    BY <1>0, <2>1, NestedFront
  <2> QED BY <1>0, <2>1, <2>2 DEF IncludesInv, CyclesAreReal
<1>3. CASE Include
  <2>1. painting # <<>> /\ TopLevel.left # <<>> /\ UNCHANGED <<contents, readable>>
    BY <1>3 DEF Include
  <2>2. PICK file : file = Head(TopLevel.left)
    OBVIOUS
  <2>3. PICK r : r = RestToPaint
    OBVIOUS
  <2>4. /\ Nested(r) /\ Len(r) = Len(painting) /\ r \in Seq(Levels) /\ r # <<>>
        /\ file \in Painted
        /\ TopLevel.visited = {painting[i].file : i \in 2..Len(painting)}
        /\ \A k \in 1..Len(painting) : r[k].file = painting[k].file
                                       /\ r[k].visited = painting[k].visited
    BY <1>0, <2>1, <2>2, <2>3, NestedRest
  <2>5. PICK how : /\ painted' = painted \cup {[path |-> Path, file |-> file, outcome |-> how]}
                   /\ how = "cycle" => file \in TopLevel.visited
                   /\ \/ painting' = r
                      \/ /\ file \notin TopLevel.visited
                         /\ painting' = Append(r, Level(file, VisitedBelow(file), contents[file]))
    <3> DEFINE noted(o) == {[path |-> Path, file |-> file, outcome |-> o]}
               more == Append(r, Level(file, VisitedBelow(file), contents[file]))
    <3>1. \/ file \in TopLevel.visited /\ painted' = painted \cup noted("cycle") /\ painting' = r
          \/ /\ file \notin TopLevel.visited /\ painted' = painted \cup noted("missing")
             /\ painting' = r
          \/ /\ file \notin TopLevel.visited /\ painted' = painted \cup noted("drawn")
             /\ painting' = more
      BY <1>3, <2>2, <2>3 DEF Include, Noted
    <3>2. "missing" # "cycle" /\ "drawn" # "cycle"
      OBVIOUS
    <3> HIDE DEF noted, more
    <3>3. \E o : /\ painted' = painted \cup noted(o)
                 /\ o = "cycle" => file \in TopLevel.visited
                 /\ painting' = r \/ (file \notin TopLevel.visited /\ painting' = more)
      BY <3>1, <3>2
    <3> QED BY <3>3 DEF noted, more
  <2>6. Nested(painting')
    <3>1. CASE painting' = r
      BY <2>4, <3>1
    <3>2. CASE /\ file \notin TopLevel.visited
               /\ painting' = Append(r, Level(file, VisitedBelow(file), contents[file]))
      <4>1. PICK l : l = Level(file, VisitedBelow(file), contents[file])
        OBVIOUS
      <4>2. Len(painting) \in 1..Len(painting) /\ TopLevel = painting[Len(painting)]
            /\ painting[Len(painting)] \in Levels
        BY <1>0, <2>1 DEF Nested, TopLevel, Last
      <4>3. r[Len(r)].visited = TopLevel.visited /\ TopLevel.visited \subseteq Painted
        BY <2>4, <4>2 DEF Levels
      <4>4. contents \in [Painted -> Seq(Painted)]
        BY <1>0, IncludesAssumption DEF Painted
      <4>5. l \in Levels /\ l.file = file /\ l.visited = TopLevel.visited \cup {file}
        BY <2>4, <4>1, <4>3, <4>4 DEF Level, Levels, VisitedBelow
      <4>6. Nested(Append(r, l))
        BY <2>4, <3>2, <4>3, <4>5, NestedMore
      <4> QED BY <3>2, <4>1, <4>6
    <3> QED BY <2>5, <3>1, <3>2
  <2>7. CyclesAreReal'
    <3> SUFFICES ASSUME NEW q \in painted', q.outcome = "cycle" PROVE q.file \in ToSet(Tail(q.path))
      BY DEF CyclesAreReal
    <3>1. CASE q \in painted
      BY <1>0, <3>1 DEF CyclesAreReal
    <3>2. CASE q = [path |-> Path, file |-> file, outcome |-> how]
      <4>1. q.path = Path /\ q.file = file /\ file \in TopLevel.visited
        BY <2>5, <3>2
      <4>2. ToSet(Tail(Path)) = TopLevel.visited
        BY <1>0, <2>1, <2>4, VisitedIsPath
      <4> QED BY <4>1, <4>2
    <3> QED BY <2>5, <3>1, <3>2
  <2> QED BY <1>0, <2>1, <2>6, <2>7 DEF IncludesInv
<1>4. CASE AllPainted
  BY <1>1, <1>4 DEF AllPainted
<1> QED BY <1>1, <1>2, <1>3, <1>4 DEF IncludesNext

\* It implies what the renderer promises.
LEMMA IncludesImplies == IncludesInv => IncludesTypeOK /\ IncludesRight
<1> SUFFICES ASSUME IncludesInv PROVE IncludesTypeOK /\ IncludesRight
  OBVIOUS
<1>1. contents \in Contents /\ readable \subseteq Painted /\ Nested(painting) /\ CyclesAreReal
  BY DEF IncludesInv
<1>2. painting \in Seq(Levels) /\ DOMAIN painting = 1..Len(painting) /\ Len(painting) \in Nat
  BY <1>1 DEF Nested
<1>3. IncludesTypeOK
  <2>1. \A k \in 1..Len(painting) : painting[k].visited \subseteq Painted
    <3>1. \A k \in 1..Len(painting) : painting[k] \in Levels
      BY <1>2
    <3> QED BY <3>1 DEF Levels
  <2> QED BY <1>1, <1>2, <2>1 DEF IncludesTypeOK, Painted
<1>4. NoEndlessNesting
  <2> SUFFICES ASSUME NEW i \in 1..Len(painting), NEW j \in 1..Len(painting), i < j,
                      painting[i].file = painting[j].file
               PROVE  i = 1 /\ painting[i].file = Screen
    BY <1>2 DEF NoEndlessNesting
  <2>1. ~(i \in 2..Len(painting) /\ j \in 2..Len(painting))
    BY <1>1 DEF Nested
  <2>2. i = 1 /\ painting # <<>>
    BY <1>2, <2>1
  <2> QED BY <1>1, <2>2 DEF Nested
<1> QED BY <1>1, <1>3, <1>4 DEF IncludesRight

\* Includes never nest without end, and a cycle is one, for all files and contents.
THEOREM IncludesHolds ==
  IncludesInit /\ [][IncludesNext]_includesVars => [](IncludesTypeOK /\ IncludesRight)
<1> QED BY IncludesStarts, IncludesSteps, IncludesImplies, PTL

-----------------------------------------------------------------------------
(* The places of a concatenation                                             *)

\* b and o tell in which of seqs, and where in it, each element of whole stands.
Places(seqs, whole, b, o) ==
  /\ b \in [1..Len(whole) -> 1..Len(seqs)] /\ o \in [1..Len(whole) -> Nat]
  /\ \A i \in 1..Len(whole) : o[i] \in 1..Len(seqs[b[i]]) /\ whole[i] = seqs[b[i]][o[i]]
  /\ \A i, j \in 1..Len(whole) : i < j => b[i] < b[j] \/ (b[i] = b[j] /\ o[i] < o[j])
  /\ \A k \in 1..Len(seqs) : \A l \in 1..Len(seqs[k]) :
        \E i \in 1..Len(whole) : b[i] = k /\ o[i] = l

\* The lengths add up as the sequences are joined.
LEMMA LengthsGrow ==
  ASSUME NEW S, NEW seqs \in Seq(Seq(S)), NEW f, Joins(seqs, S, f)
  PROVE  /\ \A k \in 0..Len(seqs) : Len(f[k]) \in Nat
         /\ \A k \in 1..Len(seqs) : Len(f[k]) = Len(f[k - 1]) + Len(seqs[k])
         /\ \A j, k \in 0..Len(seqs) : j <= k => Len(f[j]) <= Len(f[k])
<1> DEFINE L == Len(seqs)
           T(j) == {d \in 0..(L - j) : Len(f[j]) <= Len(f[j + d])}
<1>1. /\ f \in [0..L -> Seq(S)] /\ L \in Nat /\ \A i \in 1..L : f[i] = f[i - 1] \o seqs[i]
      /\ \A i \in 1..L : seqs[i] \in Seq(S)
  <2>1. \A i \in 1..L : seqs[i] \in Seq(S)
    BY ElementOfSeq
  <2> QED BY <2>1 DEF Joins
<1>2. \A k \in 0..L : Len(f[k]) \in Nat
  BY <1>1
<1>3. ASSUME NEW k \in 1..L PROVE Len(f[k]) = Len(f[k - 1]) + Len(seqs[k])
  <2>0. k - 1 \in 0..L
    BY <1>1
  <2>1. f[k - 1] \in Seq(S) /\ seqs[k] \in Seq(S)
    BY <1>1, <2>0
  <2>2. f[k] = f[k - 1] \o seqs[k]
    BY <1>1
  <2> QED BY <2>1, <2>2, ConcatProperties
<1>4. ASSUME NEW j \in 0..L PROVE T(j) = 0..(L - j)
  <2>1. L - j \in Nat /\ T(j) \in SUBSET (0..(L - j)) /\ j + 0 = j
    BY <1>1
  <2>2. 0 \in T(j)
    BY <1>2, <2>1
  <2>3. ASSUME NEW d \in 0..(L - j), d \in T(j), d + 1 \in 0..(L - j) PROVE d + 1 \in T(j)
    <3>1. (j + d) + 1 \in 1..L /\ ((j + d) + 1) - 1 = j + d /\ j + (d + 1) = (j + d) + 1
          /\ j + d \in 0..L
      BY <1>1, <2>3
    <3>2. Len(f[j + (d + 1)]) = Len(f[j + d]) + Len(seqs[(j + d) + 1])
      BY <1>3, <3>1
    <3>3. /\ Len(f[j]) <= Len(f[j + d]) /\ Len(seqs[(j + d) + 1]) \in Nat
          /\ Len(f[j]) \in Nat /\ Len(f[j + d]) \in Nat
      <4>1. seqs[(j + d) + 1] \in Seq(S)
        BY <1>1, <3>1
      <4> QED BY <1>2, <2>3, <3>1, <4>1
    <3>4. Len(f[j]) <= Len(f[j + (d + 1)])
      <4>1. PICK x \in Nat, y \in Nat, z \in Nat :
              x = Len(f[j]) /\ y = Len(f[j + d]) /\ z = Len(seqs[(j + d) + 1])
        BY <3>3
      <4>2. x <= y
        BY <3>3, <4>1
      <4>3. x <= y + z
        BY <4>2
      <4>4. Len(f[j + (d + 1)]) = y + z
        BY <3>2, <4>1
      <4> QED BY <4>1, <4>3, <4>4
    <3> QED BY <2>3, <3>4
  <2> HIDE DEF T, L
  <2> QED BY <2>1, <2>2, <2>3, GoesOn
<1>5. ASSUME NEW j \in 0..L, NEW k \in 0..L, j <= k PROVE Len(f[j]) <= Len(f[k])
  <2>1. k - j \in 0..(L - j) /\ j + (k - j) = k
    BY <1>1, <1>5
  <2>2. k - j \in T(j)
    <3> HIDE DEF T
    <3> QED BY <1>4, <2>1
  <2> QED BY <2>1, <2>2
<1> QED BY <1>2, <1>3, <1>5

\* Every element of a concatenation has its place, in order.
LEMMA FlattenPlaces ==
  ASSUME NEW S, NEW seqs \in Seq(Seq(S))
  PROVE  \E b, o : Places(seqs, FlattenSeq(seqs), b, o)
<1>1. PICK f : Joins(seqs, S, f) /\ FlattenSeq(seqs) = f[Len(seqs)]
  BY FlattenJoins
<1> DEFINE L == Len(seqs)
           end(k) == Len(f[k])
           whole == FlattenSeq(seqs)
<1>2. /\ \A k \in 0..L : end(k) \in Nat
      /\ \A k \in 1..L : end(k) = end(k - 1) + Len(seqs[k])
      /\ \A j, k \in 0..L : j <= k => end(j) <= end(k)
      /\ \A k \in 1..L : SubSeq(whole, end(k - 1) + 1, end(k)) = seqs[k]
      /\ end(0) = 0 /\ end(L) = Len(whole) /\ L \in Nat
      /\ \A k \in 1..L : seqs[k] \in Seq(S)
  <2>1. \A k \in 1..L : SubSeq(whole, end(k - 1) + 1, end(k)) = seqs[k]
    BY <1>1, JoinsLie
  <2>2. f[0] = <<>>
    BY <1>1 DEF Joins
  <2>3. \A k \in 1..L : seqs[k] \in Seq(S)
    BY ElementOfSeq
  <2>4. end(0) = 0 /\ end(L) = Len(whole) /\ L \in Nat
    BY <1>1, <2>2
  <2>5. /\ \A k \in 0..L : end(k) \in Nat
        /\ \A k \in 1..L : end(k) = end(k - 1) + Len(seqs[k])
        /\ \A j, k \in 0..L : j <= k => end(j) <= end(k)
    BY <1>1, LengthsGrow
  <2> HIDE DEF end, whole, L
  <2> QED BY <2>1, <2>3, <2>4, <2>5
<1>3. whole \in Seq(S)
  BY FlattenType
<1> HIDE DEF whole, end, L
<1>20. /\ \A k \in 1..L : Len(seqs[k]) \in Nat
       /\ Len(whole) \in Nat
  BY <1>2, <1>3, LenProperties
<1> DEFINE In(i, k) == end(k - 1) < i /\ i <= end(k)
           b == [i \in 1..Len(whole) |-> CHOOSE k \in 1..L : In(i, k)]
           o == [i \in 1..Len(whole) |-> i - end(b[i] - 1)]
<1>4. ASSUME NEW i \in 1..Len(whole) PROVE \E k \in 1..L : In(i, k)
  <2> DEFINE D == {k \in 0..L : i <= end(k)}
  <2>1. i \in Nat /\ i > 0 /\ L \in D /\ D \in SUBSET Nat
    BY <1>2, <1>3
  <2>2. PICK k \in D : \A j \in D : k <= j
    <3> HIDE DEF D
    <3> QED BY <2>1, LeastNumber
  <2>3. k # 0
    BY <1>2, <2>1
  <2>4. k \in 1..L /\ k - 1 \in 0..L /\ ~(k <= k - 1)
    BY <1>2, <2>3
  <2>5. ~(i <= end(k - 1))
    BY <2>2, <2>4
  <2>6. end(k - 1) < i
    BY <1>2, <2>1, <2>4, <2>5
  <2> QED BY <2>4, <2>6
<1>5. \A i \in 1..Len(whole) : b[i] \in 1..L /\ In(i, b[i])
  <2> SUFFICES ASSUME NEW i \in 1..Len(whole) PROVE b[i] \in 1..L /\ In(i, b[i])
    OBVIOUS
  <2> HIDE DEF In
  <2> QED BY <1>4
<1>6. \A i \in 1..Len(whole) : o[i] = i - end(b[i] - 1)
  OBVIOUS
<1>7. b \in [1..Len(whole) -> 1..L]
  <2> HIDE DEF In
  <2> QED BY <1>5
<1> HIDE DEF b, o
<1>8. ASSUME NEW k \in 1..L, NEW l \in 1..Len(seqs[k])
      PROVE  /\ end(k - 1) + l \in 1..Len(whole) /\ end(k - 1) + l <= end(k)
             /\ whole[end(k - 1) + l] = seqs[k][l]
  <2>1. /\ end(k - 1) \in Nat /\ end(k) \in Nat /\ end(k) = end(k - 1) + Len(seqs[k])
        /\ end(k) <= Len(whole) /\ Len(whole) \in Nat /\ Len(seqs[k]) \in Nat /\ l \in Nat /\ l > 0
    <3>1. k - 1 \in 0..L /\ k \in 0..L /\ L \in 0..L /\ k <= L
      BY <1>2
    <3> QED BY <1>2, <1>20, <3>1
  <2>2. end(k - 1) + l \in 1..Len(whole) /\ end(k - 1) + l <= end(k) /\ l <= Len(seqs[k])
    BY <2>1
  <2>3. PICK a \in Nat, c \in Nat : a = end(k - 1) + 1 /\ c = end(k)
    BY <2>1
  <2>4. a \in 1..(Len(whole) + 1) /\ c \in 0..Len(whole) /\ l \in 1..(c - a + 1) /\ a + l - 1 = end(k - 1) + l
    <3>1. PICK e \in Nat, w \in Nat, t \in Nat : e = end(k - 1) /\ w = Len(whole) /\ t = Len(seqs[k])
      BY <2>1
    <3>2. a = e + 1 /\ c = e + t /\ c <= w /\ l \in 1..t
      BY <2>1, <2>3, <3>1
    <3>3. a \in 1..(w + 1) /\ c \in 0..w /\ l \in 1..(c - a + 1) /\ a + l - 1 = e + l
      BY <3>2
    <3> QED BY <3>1, <3>3
  <2>5. SubSeq(whole, a, c)[l] = whole[a + l - 1]
    <3>1. PICK w \in Seq(S) : w = whole
      BY <1>3
    <3>2. a \in 1..(Len(w) + 1) /\ c \in (a - 1)..Len(w) /\ l \in 1..(c - a + 1)
      BY <2>4, <3>1
    <3>3. SubSeq(w, a, c)[l] = w[a + l - 1]
      BY <3>2, SubSeqProperties
    <3> QED BY <3>1, <3>3
  <2>6. SubSeq(whole, a, c) = seqs[k]
    BY <1>2, <2>3
  <2> QED BY <2>2, <2>4, <2>5, <2>6
<1>9. ASSUME NEW i \in 1..Len(whole)
      PROVE  o[i] \in 1..Len(seqs[b[i]]) /\ o[i] \in Nat /\ whole[i] = seqs[b[i]][o[i]]
  <2>1. PICK k \in 1..L : k = b[i] /\ end(k - 1) < i /\ i <= end(k)
    BY <1>5
  <2>2. k - 1 \in 0..L /\ end(k - 1) \in Nat /\ end(k) = end(k - 1) + Len(seqs[k])
    BY <1>2
  <2>3. Len(seqs[k]) \in Nat /\ i \in Nat
    BY <1>20
  <2>4. o[i] = i - end(k - 1)
    BY <1>6, <2>1
  <2>5. o[i] \in 1..Len(seqs[k]) /\ end(k - 1) + o[i] = i /\ o[i] \in Nat
    <3>1. PICK e \in Nat, t \in Nat, x \in Nat : e = end(k - 1) /\ t = Len(seqs[k]) /\ x = i
      BY <2>2, <2>3
    <3>2. e < x /\ x <= e + t
      BY <2>1, <2>2, <3>1
    <3>3. x - e \in 1..t /\ e + (x - e) = x /\ x - e \in Nat
      BY <3>2
    <3> QED BY <2>4, <3>1, <3>3
  <2> QED BY <1>8, <2>1, <2>5
<1>10. ASSUME NEW i \in 1..Len(whole), NEW j \in 1..Len(whole), i < j
       PROVE  b[i] < b[j] \/ (b[i] = b[j] /\ o[i] < o[j])
  <2>1. PICK k \in 1..L : k = b[i] /\ end(k - 1) < i /\ i <= end(k)
    BY <1>5
  <2>2. PICK m \in 1..L : m = b[j] /\ end(m - 1) < j /\ j <= end(m)
    BY <1>5
  <2>3. k \in Nat /\ m \in Nat /\ i \in Nat /\ j \in Nat
    BY <1>2, <1>3
  <2>4. CASE m < k
    <3>1. m \in 0..L /\ k - 1 \in 0..L /\ m <= k - 1
      BY <1>2, <2>4
    <3>2. end(m) <= end(k - 1) /\ end(m) \in Nat /\ end(k - 1) \in Nat
      BY <1>2, <3>1
    <3> QED BY <1>10, <2>1, <2>2, <2>3, <3>2
  <2>5. CASE m = k
    <3>1. end(k - 1) \in Nat
      BY <1>2
    <3>2. o[i] = i - end(k - 1) /\ o[j] = j - end(k - 1)
      BY <1>6, <2>1, <2>2, <2>5
    <3> QED BY <1>10, <2>1, <2>2, <2>3, <2>5, <3>1, <3>2
  <2>6. CASE k < m
    BY <2>1, <2>2, <2>6
  <2> QED BY <2>3, <2>4, <2>5, <2>6
<1>11. ASSUME NEW k \in 1..L, NEW l \in 1..Len(seqs[k])
       PROVE  \E i \in 1..Len(whole) : b[i] = k /\ o[i] = l
  <2>1. PICK i \in 1..Len(whole) : i = end(k - 1) + l /\ i <= end(k)
    BY <1>8
  <2>2. PICK m \in 1..L : m = b[i] /\ end(m - 1) < i /\ i <= end(m)
    BY <1>5
  <2>3. k - 1 \in 0..L /\ end(k - 1) \in Nat /\ Len(seqs[k]) \in Nat /\ l \in Nat /\ l > 0
        /\ k \in Nat /\ m \in Nat /\ i \in Nat
    <3>1. k - 1 \in 0..L /\ k \in Nat /\ m \in Nat
      BY <1>2
    <3>2. Len(seqs[k]) \in Nat /\ i \in Nat
      BY <1>20
    <3> QED BY <1>2, <3>1, <3>2
  <2>4. ~(m < k)
    <3> SUFFICES ASSUME m < k PROVE FALSE
      OBVIOUS
    <3>1. m \in 0..L /\ m <= k - 1
      BY <1>2, <2>3
    <3>2. end(m) <= end(k - 1) /\ end(m) \in Nat
      BY <1>2, <2>3, <3>1
    <3> QED BY <2>1, <2>2, <2>3, <3>2
  <2>5. ~(k < m)
    <3> SUFFICES ASSUME k < m PROVE FALSE
      OBVIOUS
    <3>1. k \in 0..L /\ m - 1 \in 0..L /\ k <= m - 1
      BY <1>2, <2>3
    <3>2. end(k) <= end(m - 1) /\ end(k) \in Nat /\ end(m - 1) \in Nat
      BY <1>2, <3>1
    <3> QED BY <2>1, <2>2, <2>3, <3>2
  <2>6. m = k
    BY <2>3, <2>4, <2>5
  <2>7. o[i] = i - end(k - 1)
    BY <1>6, <2>2, <2>6
  <2>8. o[i] = l
    BY <2>1, <2>3, <2>7
  <2> QED BY <2>2, <2>6, <2>8
<1>12. o \in [1..Len(whole) -> Nat]
  <2>1. o = [i \in 1..Len(whole) |-> o[i]]
    BY DEF o
  <2> QED BY <1>9, <2>1
<1>13. Places(seqs, whole, b, o)
  BY <1>7, <1>9, <1>10, <1>11, <1>12 DEF Places, L
<1> QED BY <1>13 DEF whole

-----------------------------------------------------------------------------
(* WebFetchTool                                                              *)

\* What the sink may hold, and what it means that one text begins another.
SinkStates == [text : Seq(FetchLetters), raised : BOOLEAN]
FetchBegins(a, b) == Len(a) <= Len(b) /\ \A i \in 1..Len(a) : b[i] = a[i]

\* The sink's beginnings are prefixes.
LEMMA BeginsPrefix ==
  ASSUME NEW S, NEW a \in Seq(S), NEW b \in Seq(S), FetchBegins(a, b)
  PROVE  IsPrefix(a, b)
<1>1. Len(a) \in Nat /\ Len(b) \in Nat /\ Len(a) <= Len(b)
  BY DEF FetchBegins
<1>2. SubSeq(b, 1, Len(a)) = SubSeq(a, 1, Len(a))
  BY <1>1 DEF FetchBegins
<1> QED BY <1>1, <1>2 DEF IsPrefix

\* What is joined begins with its first part.
LEMMA BeginsJoined ==
  ASSUME NEW S, NEW a \in Seq(S), NEW b \in Seq(S), NEW c, Concats(c, a, b)
  PROVE  c \in Seq(S) /\ Len(c) = Len(a) + Len(b) /\ FetchBegins(a, c) /\ (b = <<>> => c = a)
<1>1. /\ c \in Seq(S) /\ Len(c) = Len(a) + Len(b)
      /\ \A i \in 1..(Len(a) + Len(b)) : c[i] = IF i <= Len(a) THEN a[i] ELSE b[i - Len(a)]
  BY ConcatProperties DEF Concats
<1>2. Len(a) \in Nat /\ Len(b) \in Nat
  OBVIOUS
<1>3. FetchBegins(a, c)
  BY <1>1, <1>2 DEF FetchBegins
<1>4. b = <<>> => c = a
  BY ConcatEmptySeq DEF Concats
<1> QED BY <1>1, <1>3, <1>4

\* What begins a beginning begins the whole, and of two beginnings of one text the shorter
\* begins the longer.
LEMMA BeginsOn ==
  ASSUME NEW S, NEW a \in Seq(S), NEW b \in Seq(S), NEW c \in Seq(S), FetchBegins(b, c)
  PROVE  /\ FetchBegins(a, b) => FetchBegins(a, c)
         /\ FetchBegins(a, c) /\ Len(a) <= Len(b) => FetchBegins(a, b)
         /\ FetchBegins(a, c) /\ Len(a) = Len(b) => a = b
<1>1. Len(a) \in Nat /\ Len(b) \in Nat /\ Len(c) \in Nat
  OBVIOUS
<1>2. FetchBegins(a, b) => FetchBegins(a, c)
  <2> SUFFICES ASSUME FetchBegins(a, b), NEW i \in 1..Len(a) PROVE Len(a) <= Len(c) /\ c[i] = a[i]
    BY <1>1 DEF FetchBegins
  <2>1. i \in 1..Len(b)
    BY <1>1 DEF FetchBegins
  <2> QED BY <1>1, <2>1 DEF FetchBegins
<1>3. FetchBegins(a, c) /\ Len(a) <= Len(b) => FetchBegins(a, b)
  <2> SUFFICES ASSUME FetchBegins(a, c), Len(a) <= Len(b), NEW i \in 1..Len(a) PROVE b[i] = a[i]
    BY DEF FetchBegins
  <2>1. i \in 1..Len(b)
    BY <1>1
  <2> QED BY <2>1 DEF FetchBegins
<1>4. FetchBegins(a, c) /\ Len(a) = Len(b) => a = b
  <2> SUFFICES ASSUME FetchBegins(a, c), Len(a) = Len(b) PROVE a = b
    OBVIOUS
  <2>1. \A i \in 1..Len(a) : a[i] = b[i]
    BY <1>1 DEF FetchBegins
  <2> QED BY <2>1, SeqEqual
<1> QED BY <1>2, <1>3, <1>4

\* One call of the sink: it takes what fits.
LEMMA SinkTakes ==
  ASSUME NEW s \in SinkStates, ~s.raised, cap \in Nat, Len(s.text) <= cap,
         NEW fragment \in FetchFragments, NEW all, Concats(all, s.text, fragment)
  PROVE  /\ Sunk(s, fragment) \in SinkStates
         /\ Sunk(s, fragment).raised =>
              /\ Len(Sunk(s, fragment).text) = cap /\ Len(all) > cap
              /\ FetchBegins(Sunk(s, fragment).text, all)
         /\ ~Sunk(s, fragment).raised =>
              Sunk(s, fragment).text = all /\ Len(all) <= cap
<1>1. /\ s.text \in Seq(FetchLetters) /\ fragment \in Seq(FetchLetters) /\ fragment # <<>>
      /\ s = [text |-> s.text, raised |-> FALSE]
  BY DEF SinkStates, FetchFragments
<1>2. PICK t \in Seq(FetchLetters) : t = s.text
  BY <1>1
<1>3. /\ all \in Seq(FetchLetters) /\ Len(all) = Len(t) + Len(fragment) /\ FetchBegins(t, all)
      /\ \A i \in 1..(Len(t) + Len(fragment)) :
            all[i] = IF i <= Len(t) THEN t[i] ELSE fragment[i - Len(t)]
  <2>1. Concats(all, t, fragment) /\ all = t \o fragment
    BY <1>2 DEF Concats
  <2>2. all \in Seq(FetchLetters) /\ Len(all) = Len(t) + Len(fragment) /\ FetchBegins(t, all)
    BY <1>1, <2>1, BeginsJoined
  <2> QED BY <1>1, <2>1, <2>2, ConcatProperties
<1>4. Len(t) \in Nat /\ Len(fragment) \in Nat /\ Len(fragment) > 0
  BY <1>1
<1> DEFINE room == cap - Len(t)
<1>5. CASE room <= 0
  <2>1. Sunk(s, fragment) = [text |-> t, raised |-> TRUE]
    BY <1>1, <1>2, <1>5 DEF Sunk
  <2>2. Len(t) = cap
    BY <1>2, <1>4, <1>5
  <2> QED BY <1>3, <1>4, <2>1, <2>2 DEF SinkStates
<1>6. CASE room > 0 /\ Len(fragment) > room
  <2> DEFINE part == SubSeq(fragment, 1, room)
  <2>1. Sunk(s, fragment) = [text |-> t \o part, raised |-> TRUE]
    <3>1. Fitting(fragment, room) = part
      BY <1>6 DEF Fitting
    <3>2. Sunk(s, fragment) = [text |-> t \o Fitting(fragment, room), raised |-> TRUE]
      <4> HIDE DEF part
      <4>1. ~(cap - Len(s.text) <= 0) /\ Len(fragment) > cap - Len(s.text)
        BY <1>2, <1>4, <1>6
      <4> QED BY <1>2, <4>1 DEF Sunk
    <3> QED BY <3>1, <3>2
  <2>2. /\ part \in Seq(FetchLetters) /\ Len(part) = room
        /\ \A i \in 1..room : part[i] = fragment[i]
    BY <1>1, <1>4, <1>6
  <2>3. PICK u : u = t \o part
    OBVIOUS
  <2>4. /\ u \in Seq(FetchLetters) /\ Len(u) = Len(t) + Len(part)
        /\ \A i \in 1..(Len(t) + Len(part)) :
              u[i] = IF i <= Len(t) THEN t[i] ELSE part[i - Len(t)]
    <3> HIDE DEF part
    <3> QED BY <2>2, <2>3, ConcatProperties
  <2> HIDE DEF part
  <2>5. Len(u) = cap /\ Len(all) > cap
    BY <1>2, <1>3, <1>4, <1>6, <2>2, <2>4
  <2>6. \A i \in 1..Len(u) : all[i] = u[i]
    <3> SUFFICES ASSUME NEW i \in 1..Len(u) PROVE all[i] = u[i]
      OBVIOUS
    <3>1. i \in 1..(Len(t) + Len(part)) /\ i \in 1..(Len(t) + Len(fragment)) /\ i \in Nat
      BY <1>2, <1>3, <1>4, <2>4, <2>5
    <3>2. CASE i <= Len(t)
      BY <1>3, <2>4, <3>1, <3>2
    <3>3. CASE ~(i <= Len(t))
      <4>1. i - Len(t) \in 1..room
        BY <1>2, <1>4, <2>5, <3>3, <3>1
      <4> QED BY <1>3, <2>2, <2>4, <3>1, <3>3, <4>1
    <3> QED BY <3>2, <3>3
  <2>7. Sunk(s, fragment) = [text |-> u, raised |-> TRUE]
    BY <2>1, <2>3
  <2>8. FetchBegins(u, all)
    BY <1>3, <2>4, <2>5, <2>6, <1>4 DEF FetchBegins
  <2> QED BY <2>4, <2>5, <2>7, <2>8 DEF SinkStates
<1>7. CASE room > 0 /\ ~(Len(fragment) > room)
  <2>1. SubSeq(fragment, 1, Len(fragment)) = fragment
    BY <1>1
  <2>2. Sunk(s, fragment) = [text |-> t \o fragment, raised |-> FALSE]
    <3>1. Fitting(fragment, room) = fragment
      BY <1>7, <2>1 DEF Fitting
    <3>2. Sunk(s, fragment) = [text |-> t \o Fitting(fragment, room), raised |-> FALSE]
      <4>1. ~(cap - Len(s.text) <= 0) /\ (Len(fragment) > cap - Len(s.text)) = FALSE
        BY <1>2, <1>4, <1>7
      <4> QED BY <1>2, <4>1 DEF Sunk
    <3> QED BY <3>1, <3>2
  <2>3. all = t \o fragment
    BY <1>2 DEF Concats
  <2>4. Len(all) <= cap
    BY <1>2, <1>3, <1>4, <1>7
  <2>5. Sunk(s, fragment) = [text |-> all, raised |-> FALSE]
    BY <2>2, <2>3
  <2> QED BY <1>3, <2>4, <2>5 DEF SinkStates
<1>8. room \in Int
  BY <1>2, <1>4
<1> QED BY <1>5, <1>6, <1>7, <1>8

\* The calls of one feed, one after the other.
LEMMA EmittedRuns ==
  ASSUME NEW fragments \in Seq(FetchFragments), sink \in SinkStates, cap \in Nat,
         Len(sink.text) <= cap
  PROVE  \E f \in [0..Len(fragments) -> SinkStates] :
           /\ f[0] = [text |-> sink.text, raised |-> FALSE]
           /\ \A i \in 1..Len(fragments) :
                 f[i] = IF f[i - 1].raised THEN f[i - 1] ELSE Sunk(f[i - 1], fragments[i])
           /\ \A i \in 0..Len(fragments) : Len(f[i].text) <= cap
           /\ Emitted(fragments) = f[Len(fragments)]
<1> DEFINE L == Len(fragments)
           V == {s \in SinkStates : Len(s.text) <= cap}
           start == [text |-> sink.text, raised |-> FALSE]
           Next1(s, i) == IF s.raised THEN s ELSE Sunk(s, fragments[i])
           step == [i \in 1..L |-> [s \in V |-> Next1(s, i)]]
<1>1. L \in Nat /\ start \in V
  <2>1. sink = [text |-> sink.text, raised |-> sink.raised] /\ sink.text \in Seq(FetchLetters)
    BY DEF SinkStates
  <2>2. start \in SinkStates /\ start.text = sink.text
    BY <2>1 DEF SinkStates
  <2> QED BY <2>2
<1>2. ASSUME NEW i \in 1..L, NEW s \in V PROVE Next1(s, i) \in V
  <2>1. fragments[i] \in FetchFragments /\ s \in SinkStates /\ Len(s.text) <= cap
    OBVIOUS
  <2>2. CASE s.raised
    BY <2>2
  <2>3. CASE ~s.raised
    <3>1. PICK all : Concats(all, s.text, fragments[i])
      BY DEF Concats
    <3>2. PICK u \in SinkStates : u = Sunk(s, fragments[i]) /\ Len(u.text) <= cap
      <4>1. s.text \in Seq(FetchLetters)
        BY <2>1 DEF SinkStates
      <4>2. fragments[i] \in Seq(FetchLetters)
        BY <2>1 DEF FetchFragments
      <4>3. Len(all) \in Nat
        BY <3>1, <4>1, <4>2, BeginsJoined
      <4>4. Sunk(s, fragments[i]) \in SinkStates /\ Len(Sunk(s, fragments[i]).text) <= cap
        BY <2>1, <2>3, <3>1, <4>3, SinkTakes
      <4> QED BY <4>4
    <3> QED BY <2>3, <3>2
  <2> QED BY <2>2, <2>3
<1>3. step \in [1..L -> [V -> V]]
  <2>1. \A i \in 1..L : [s \in V |-> Next1(s, i)] \in [V -> V]
    <3> SUFFICES ASSUME NEW i \in 1..L, NEW s \in V PROVE Next1(s, i) \in V
      OBVIOUS
    <3> HIDE DEF V, Next1, L
    <3> QED BY <1>2
  <2> HIDE DEF V, Next1, L
  <2> QED BY <2>1
<1>4. \A i \in 1..L, s \in V : step[i][s] = Next1(s, i)
  OBVIOUS
<1> HIDE DEF step
<1>5. PICK f : LoopRuns(L, V, start, step, f)
  <2> HIDE DEF L, V, start
  <2> QED BY <1>1, <1>3, RunExists
<1>6. f \in [0..L -> V] /\ f[0] = start /\ \A i \in 1..L : f[i] = step[i][f[i - 1]]
  BY <1>5 DEF LoopRuns
<1>7. \A i \in 1..L : f[i] = Next1(f[i - 1], i)
  <2> SUFFICES ASSUME NEW i \in 1..L PROVE f[i] = Next1(f[i - 1], i)
    OBVIOUS
  <2>1. i - 1 \in 0..L
    BY <1>1
  <2>2. f[i - 1] \in V
    BY <1>6, <2>1
  <2> HIDE DEF V, Next1, L
  <2> QED BY <1>4, <1>6, <2>2
<1> DEFINE Is(g) == g = [n \in 0..Len(fragments) |->
                           IF n = 0 THEN [text |-> sink.text, raised |-> FALSE]
                           ELSE IF g[n - 1].raised THEN g[n - 1]
                                ELSE Sunk(g[n - 1], fragments[n])]
           after == CHOOSE g : Is(g)
<1>8. Is(f)
  <2> DEFINE at(n) == IF n = 0 THEN [text |-> sink.text, raised |-> FALSE] ELSE Next1(f[n - 1], n)
  <2>1. \A n \in 0..L : f[n] = at(n)
    <3> SUFFICES ASSUME NEW n \in 0..L PROVE f[n] = at(n)
      OBVIOUS
    <3>1. CASE n = 0
      BY <1>1, <1>6, <3>1
    <3>2. CASE n # 0
      <4>1. n \in 1..L
        BY <1>1, <3>2
      <4> HIDE DEF Next1, L
      <4> QED BY <1>7, <3>2, <4>1
    <3> QED BY <3>1, <3>2
  <2>2. f = [n \in 0..L |-> f[n]]
    BY <1>6
  <2>3. f = [n \in 0..L |-> at(n)]
    <3> HIDE DEF at, L
    <3> QED BY <2>1, <2>2
  <2> QED BY <2>3
<1>9. Emitted(fragments) = after[L]
  BY DEF Emitted
<1>10. Is(after)
  <2> HIDE DEF Is
  <2> QED BY <1>8
<1> DEFINE T == {n \in 0..L : after[n] = f[n]}
<1>11. \A n \in 0..L : after[n] = IF n = 0 THEN start ELSE Next1(after[n - 1], n)
  <2> HIDE DEF after
  <2> QED BY <1>1, <1>10
<1>12. \A n \in 0..L : n \in T /\ n + 1 \in 0..L => n + 1 \in T
  <2> SUFFICES ASSUME NEW n \in 0..L, n \in T, n + 1 \in 0..L PROVE after[n + 1] = f[n + 1]
    OBVIOUS
  <2>1. n + 1 \in 1..L /\ (n + 1) - 1 = n /\ n + 1 # 0 /\ n \in 0..L
    BY <1>1
  <2>2. after[n] = f[n]
    OBVIOUS
  <2> HIDE DEF after, Next1, L, start, T
  <2>3. after[n + 1] = Next1(after[n], n + 1)
    BY <1>11, <2>1
  <2>4. f[n + 1] = Next1(f[n], n + 1)
    BY <1>7, <2>1
  <2> QED BY <2>2, <2>3, <2>4
<1>13. 0 \in T
  <2> HIDE DEF after, Next1, start, L
  <2>1. 0 \in 0..L
    BY <1>1
  <2> QED BY <1>6, <1>11, <2>1
<1>14. T \in SUBSET (0..L)
  OBVIOUS
<1> HIDE DEF T
<1>15. L \in T
  <2>1. T = 0..L
    <3> HIDE DEF L
    <3> QED BY <1>1, <1>12, <1>13, <1>14, GoesOn
  <2> QED BY <1>1, <2>1
<1>16. Emitted(fragments) = f[L]
  <2> HIDE DEF after
  <2> QED BY <1>9, <1>15 DEF T
<1> HIDE DEF after, Is
<1>17. f \in [0..L -> SinkStates] /\ \A i \in 0..L : Len(f[i].text) <= cap
  BY <1>6
<1> QED BY <1>6, <1>7, <1>16, <1>17

\* What the sink holds after a feed: all of it, or as much as fits.
LEMMA EmittedIs ==
  ASSUME NEW fragments \in Seq(FetchFragments), sink \in SinkStates, cap \in Nat,
         Len(sink.text) <= cap, NEW all, Concats(all, sink.text, FlattenSeq(fragments))
  PROVE  /\ Emitted(fragments) \in SinkStates
         /\ FetchBegins(sink.text, Emitted(fragments).text)
         /\ Emitted(fragments).raised =>
              /\ Len(Emitted(fragments).text) = cap /\ Len(all) > cap
              /\ FetchBegins(Emitted(fragments).text, all)
         /\ ~Emitted(fragments).raised =>
              Emitted(fragments).text = all /\ Len(all) <= cap
<1> DEFINE L == Len(fragments)
           b == sink.text
<1>1. L \in Nat /\ b \in Seq(FetchLetters)
      /\ \A i \in 1..L : fragments[i] \in FetchFragments
  BY DEF SinkStates
<1>2. fragments \in Seq(Seq(FetchLetters))
  BY <1>1 DEF FetchFragments
<1>3. PICK f \in [0..L -> SinkStates] :
        /\ f[0] = [text |-> b, raised |-> FALSE]
        /\ \A i \in 1..L : f[i] = IF f[i - 1].raised THEN f[i - 1] ELSE Sunk(f[i - 1], fragments[i])
        /\ \A i \in 0..L : Len(f[i].text) <= cap
        /\ Emitted(fragments) = f[L]
  BY EmittedRuns
<1>4. PICK g : Joins(fragments, FetchLetters, g) /\ FlattenSeq(fragments) = g[L]
  BY <1>2, FlattenJoins
<1>5. /\ g \in [0..L -> Seq(FetchLetters)] /\ g[0] = <<>>
      /\ \A i \in 1..L : g[i] = g[i - 1] \o fragments[i]
  BY <1>4 DEF Joins
<1> HIDE DEF L, b
<1> DEFINE Holds(n, w) ==
             /\ f[n].raised => Len(f[n].text) = cap /\ Len(w) > cap /\ FetchBegins(f[n].text, w)
             /\ ~f[n].raised => f[n].text = w /\ Len(w) <= cap
           T == {n \in 0..L : /\ FetchBegins(b, f[n].text)
                               /\ \A w : Concats(w, b, g[n]) => Holds(n, w)}
<1>6. 0 \in T
  <2>1. 0 \in 0..L /\ f[0].text = b /\ ~f[0].raised
    BY <1>1, <1>3
  <2>2. FetchBegins(b, b)
    BY <1>1 DEF FetchBegins
  <2>3. ASSUME NEW w, Concats(w, b, g[0]) PROVE Holds(0, w)
    <3>1. w = b /\ Len(b) <= cap
      BY <1>1, <1>5, <2>3, BeginsJoined DEF b
    <3> QED BY <2>1, <3>1
  <2> QED BY <2>1, <2>2, <2>3
<1>7. ASSUME NEW n \in 0..L, n \in T, n + 1 \in 0..L PROVE n + 1 \in T
  <2>1. n + 1 \in 1..L /\ (n + 1) - 1 = n
    BY <1>1, <1>7
  <2>2. PICK x \in FetchFragments : x = fragments[n + 1]
    BY <1>1, <2>1
  <2>3. PICK s \in SinkStates : s = f[n]
    OBVIOUS
  <2>4. PICK h \in Seq(FetchLetters) : h = g[n]
    BY <1>5
  <2>5. x \in Seq(FetchLetters) /\ s.text \in Seq(FetchLetters)
    BY DEF FetchFragments, SinkStates
  <2>6. PICK wn : Concats(wn, b, h)
    BY DEF Concats
  <2>7. /\ FetchBegins(b, s.text)
        /\ s.raised => Len(s.text) = cap /\ Len(wn) > cap /\ FetchBegins(s.text, wn)
        /\ ~s.raised => s.text = wn /\ Len(wn) <= cap
    BY <1>7, <2>3, <2>4, <2>6
  <2>8. f[n + 1] = IF s.raised THEN s ELSE Sunk(s, x)
    BY <1>3, <2>1, <2>2, <2>3
  <2>9. Concats(g[n + 1], h, x)
    BY <1>5, <2>1, <2>2, <2>4 DEF Concats
  <2>10. ASSUME NEW w, Concats(w, b, g[n + 1]) PROVE Concats(w, wn, x)
    <3>1. PICK v : Concats(v, wn, x)
      BY DEF Concats
    <3>2. v = w
      BY <1>1, <2>4, <2>5, <2>6, <2>9, <2>10, <3>1, ConcatGrouped
    <3> QED BY <3>1, <3>2
  <2>11. PICK w : Concats(w, b, g[n + 1])
    BY DEF Concats
  <2>12. Concats(w, wn, x) /\ \A u : Concats(u, b, g[n + 1]) => u = w
    BY <2>10, <2>11 DEF Concats
  <2>13. wn \in Seq(FetchLetters) /\ w \in Seq(FetchLetters) /\ Len(w) = Len(wn) + Len(x)
         /\ FetchBegins(wn, w) /\ Len(wn) \in Nat /\ Len(x) \in Nat
    BY <1>1, <2>4, <2>5, <2>6, <2>12, BeginsJoined
  <2>14. FetchBegins(b, f[n + 1].text) /\ Holds(n + 1, w)
    <3>1. CASE s.raised
      <4>1. f[n + 1] = s
        BY <2>8, <3>1
      <4>2. Len(w) > cap /\ FetchBegins(s.text, w)
        BY <2>5, <2>7, <2>13, <3>1, BeginsOn
      <4> QED BY <2>7, <3>1, <4>1, <4>2
    <3>2. CASE ~s.raised
      <4>1. PICK y : y = Sunk(s, x)
        OBVIOUS
      <4>2. s.text = wn /\ Len(s.text) <= cap /\ Concats(w, s.text, x)
        BY <2>7, <2>12, <3>2
      <4>3. /\ y \in SinkStates
            /\ y.raised => Len(y.text) = cap /\ Len(w) > cap /\ FetchBegins(y.text, w)
            /\ ~y.raised => y.text = w /\ Len(w) <= cap
        BY <3>2, <4>1, <4>2, SinkTakes
      <4>4. f[n + 1] = y
        BY <2>8, <3>2, <4>1
      <4>5. y.text \in Seq(FetchLetters) /\ Len(y.text) \in Nat
        BY <4>3 DEF SinkStates
      <4>6. FetchBegins(wn, y.text)
        <5>1. Len(wn) <= Len(y.text)
          BY <4>2, <4>3, <2>13
        <5>2. FetchBegins(y.text, w)
          <6>1. ~y.raised => FetchBegins(y.text, w)
            BY <2>13, <4>3 DEF FetchBegins
          <6> QED BY <4>3, <6>1
        <5> QED BY <2>13, <4>5, <5>1, <5>2, BeginsOn
      <4>7. FetchBegins(b, y.text)
        BY <1>1, <2>7, <2>13, <4>2, <4>5, <4>6, BeginsOn
      <4> QED BY <4>3, <4>4, <4>7
    <3> QED BY <3>1, <3>2
  <2>15. \A u : Concats(u, b, g[n + 1]) => Holds(n + 1, u)
    <3> HIDE DEF Holds
    <3> QED BY <2>12, <2>14
  <2> HIDE DEF Holds
  <2> QED BY <2>14, <2>15, <1>7
<1>8. T \in SUBSET (0..L)
  OBVIOUS
<1> HIDE DEF T
<1>9. L \in T
  <2>1. T = 0..L
    BY <1>1, <1>6, <1>7, <1>8, GoesOn
  <2> QED BY <1>1, <2>1
<1>10. FetchBegins(b, f[L].text) /\ Holds(L, all)
  <2> HIDE DEF Holds
  <2> QED BY <1>4, <1>9 DEF T, b
<1>11. f[L] \in SinkStates
  BY <1>1, <1>3
<1> QED BY <1>3, <1>10, <1>11 DEF b

\* What the lines up to the n-th have handed over.
FetchHanded(n) == FlattenSeq(FlattenSeq(SubSeq(site.lines, 1, n)))

\* What one more line hands over comes behind it.
LEMMA HandedOn ==
  ASSUME site.lines \in Seq(Seq(FetchFragments)), NEW n \in Nat, n < Len(site.lines)
  PROVE  /\ FetchHanded(n) \in Seq(FetchLetters) /\ FetchHanded(n + 1) \in Seq(FetchLetters)
         /\ Concats(FetchHanded(n + 1), FetchHanded(n), FlattenSeq(site.lines[n + 1]))
<1> DEFINE s == SubSeq(site.lines, 1, n)
           x == site.lines[n + 1]
           F == Seq(FetchLetters)
<1>0. n + 1 \in 1..Len(site.lines) /\ 1..n \subseteq 1..Len(site.lines)
  OBVIOUS
<1>1. s \in Seq(Seq(FetchFragments)) /\ x \in Seq(FetchFragments)
  BY <1>0
<1>2. FetchFragments \subseteq F
  BY DEF FetchFragments
<1>3. s \in Seq(Seq(F)) /\ x \in Seq(F)
  <2> HIDE DEF s, x, F
  <2>1. Seq(FetchFragments) \subseteq Seq(F)
    BY <1>2
  <2> QED BY <1>1, <1>2, <2>1
<1>4. SubSeq(site.lines, 1, n + 1) = Append(s, x)
  BY <1>0
<1> HIDE DEF s, x
<1>5. FlattenSeq(Append(s, x)) = FlattenSeq(s) \o x
  BY <1>3, FlattenAppend
<1>6. FlattenSeq(s) \in Seq(F)
  BY <1>3, FlattenType
<1>7. FlattenSeq(FlattenSeq(s) \o x) = FlattenSeq(FlattenSeq(s)) \o FlattenSeq(x)
  BY <1>3, <1>6, FlattenConcat
<1>8. FlattenSeq(FlattenSeq(s)) \in Seq(FetchLetters) /\ FlattenSeq(x) \in Seq(FetchLetters)
  BY <1>3, <1>6, FlattenType
<1>9. FetchHanded(n) = FlattenSeq(FlattenSeq(s)) /\ FetchHanded(n + 1) = FlattenSeq(FlattenSeq(Append(s, x)))
  BY <1>4 DEF FetchHanded, s
<1>10. Concats(FetchHanded(n + 1), FetchHanded(n), FlattenSeq(x))
  BY <1>5, <1>7, <1>9 DEF Concats
<1> QED BY <1>8, <1>9, <1>10, BeginsJoined DEF x

\* What was handed over begins the page, and at the end only the rest is missing.
LEMMA HandedBegins ==
  ASSUME site.lines \in Seq(Seq(FetchFragments)), site.rest \in Seq(FetchFragments),
         NEW n \in 0..Len(site.lines)
  PROVE  /\ FetchHanded(n) \in Seq(FetchLetters) /\ WholePage \in Seq(FetchLetters)
         /\ FetchBegins(FetchHanded(n), WholePage)
         /\ Concats(WholePage, FetchHanded(Len(site.lines)), FlattenSeq(site.rest))
<1> DEFINE L == Len(site.lines)
           F == Seq(FetchLetters)
           T == {k \in 0..(L - n) : /\ FetchHanded(n + k) \in Seq(FetchLetters)
                                    /\ FetchBegins(FetchHanded(n), FetchHanded(n + k))}
<1>1. L \in Nat /\ L - n \in Nat /\ n \in Nat
  OBVIOUS
<1>2. FetchFragments \subseteq F
  BY DEF FetchFragments
<1>3. site.lines \in Seq(Seq(F)) /\ site.rest \in Seq(F) /\ SubSeq(site.lines, 1, L) = site.lines
  <2> HIDE DEF F
  <2>1. Seq(FetchFragments) \subseteq Seq(F)
    BY <1>2
  <2> QED BY <1>2, <2>1
<1>4. FlattenSeq(site.lines) \in Seq(F)
  BY <1>3, FlattenType
<1>5. Concats(WholePage, FetchHanded(L), FlattenSeq(site.rest))
  <2>1. FetchHanded(L) = FlattenSeq(FlattenSeq(site.lines))
    BY <1>3 DEF FetchHanded
  <2>2. FlattenSeq(FlattenSeq(site.lines) \o site.rest)
          = FlattenSeq(FlattenSeq(site.lines)) \o FlattenSeq(site.rest)
    BY <1>3, <1>4, FlattenConcat
  <2> QED BY <2>1, <2>2 DEF Concats, WholePage
<1>6. FetchHanded(L) \in Seq(FetchLetters) /\ FlattenSeq(site.rest) \in Seq(FetchLetters)
  BY <1>3, <1>4, FlattenType DEF FetchHanded
<1>7. WholePage \in Seq(FetchLetters) /\ FetchBegins(FetchHanded(L), WholePage)
  BY <1>5, <1>6, BeginsJoined
<1>8. FetchHanded(n) \in Seq(FetchLetters)
  <2>1. CASE n = L
    BY <1>6, <2>1
  <2>2. CASE n # L
    BY <1>1, <2>2, HandedOn
  <2> QED BY <2>1, <2>2
<1>9. 0 \in T
  BY <1>1, <1>8 DEF FetchBegins
<1>10. ASSUME NEW k \in 0..(L - n), k \in T, k + 1 \in 0..(L - n) PROVE k + 1 \in T
  <2>1. n + k \in Nat /\ n + k < L /\ (n + k) + 1 = n + (k + 1)
    BY <1>1, <1>10
  <2>2. PICK m \in Nat : m = n + k
    BY <2>1
  <2>3. /\ FetchHanded(m) \in Seq(FetchLetters) /\ FetchHanded(m + 1) \in Seq(FetchLetters)
        /\ Concats(FetchHanded(m + 1), FetchHanded(m), FlattenSeq(site.lines[m + 1]))
    BY <2>1, <2>2, HandedOn
  <2>4. site.lines[m + 1] \in Seq(F)
    BY <1>3, <2>1, <2>2
  <2>5. FlattenSeq(site.lines[m + 1]) \in Seq(FetchLetters)
    BY <2>4, FlattenType
  <2>6. FetchBegins(FetchHanded(m), FetchHanded(m + 1))
    BY <2>3, <2>5, BeginsJoined
  <2>7. FetchBegins(FetchHanded(n), FetchHanded(m))
    BY <1>10, <2>2
  <2>8. FetchBegins(FetchHanded(n), FetchHanded(m + 1))
    BY <1>8, <2>3, <2>6, <2>7, BeginsOn
  <2> QED BY <1>10, <2>1, <2>2, <2>3, <2>8
<1>11. T \in SUBSET (0..(L - n))
  OBVIOUS
<1> HIDE DEF T
<1>12. L - n \in T
  <2>1. T = 0..(L - n)
    <3> HIDE DEF L
    <3> QED BY <1>1, <1>9, <1>10, <1>11, GoesOn
  <2> QED BY <1>1, <2>1
<1>13. FetchBegins(FetchHanded(n), FetchHanded(L))
  <2>1. n + (L - n) = L
    BY <1>1
  <2> QED BY <1>12, <2>1 DEF T
<1> QED BY <1>5, <1>6, <1>7, <1>8, <1>13, BeginsOn

\* What is there is all there could be under the cap.
CutShort ==
  Len(sink.text) = cap /\ Len(WholePage) > cap /\ FetchBegins(sink.text, WholePage)

\* While lines are fed the sink holds what was handed over, until the cap is reached; a
\* file's download never touches it.
FetchInv ==
  /\ cap \in Nat /\ site.lines \in Seq(Seq(FetchFragments)) /\ site.rest \in Seq(FetchFragments)
  /\ linesFed \in 0..Len(site.lines) /\ capped \in BOOLEAN
  /\ sink \in SinkStates /\ Len(sink.text) <= cap /\ FetchBegins(sink.text, WholePage)
  /\ fetchAt \in {"ask", "lines", "close", "body", "write", "done"}
  /\ fetchAt \in {"ask", "body", "write"} => sink.text = <<>> /\ ~capped /\ linesFed = 0
  /\ fetchAt \in {"lines", "close"} /\ ~capped => sink.text = FetchHanded(linesFed)
  /\ fetchAt = "lines" => ~capped
  /\ fetchAt = "close" => IF capped THEN CutShort ELSE linesFed = Len(site.lines)
  /\ fetchAt # "done" => fetched = "none"
  /\ fetched = "text" => sink.text = WholePage
  /\ fetched = "cut" => CutShort
  /\ target # "old" => fetchAt = "done" /\ (target = "new" <=> fetched = "saved")
  /\ target \in {"old", "part", "new"}

\* Before the first line nothing is handed on.
LEMMA HandedNothing ==
  ASSUME site.lines \in Seq(Seq(FetchFragments))
  PROVE  FetchHanded(0) = <<>>
<1>1. SubSeq(site.lines, 1, 0) = <<>>
  OBVIOUS
<1> QED BY <1>1, FlattenNothing DEF FetchHanded

\* Nothing is asked for yet.
LEMMA FetchStarts == FetchInit => FetchInv
<1> SUFFICES ASSUME FetchInit PROVE FetchInv
  OBVIOUS
<1>1. /\ cap \in Nat /\ site.lines \in Seq(Seq(FetchFragments)) /\ site.rest \in Seq(FetchFragments)
  BY FetchAssumption DEF FetchInit
<1>2. /\ fetchAt = "ask" /\ linesFed = 0 /\ sink = [text |-> <<>>, raised |-> FALSE]
      /\ capped = FALSE /\ fetched = "none" /\ target = "old"
  BY DEF FetchInit
<1>3. sink \in SinkStates /\ sink.text = <<>> /\ Len(sink.text) = 0
  BY <1>2 DEF SinkStates
<1>4. FetchBegins(sink.text, WholePage)
  <2>1. 0 \in 0..Len(site.lines)
    BY <1>1
  <2>2. WholePage \in Seq(FetchLetters)
    BY <1>1, <2>1, HandedBegins
  <2> QED BY <1>3, <2>2 DEF FetchBegins
<1>5. /\ fetchAt = "ask" /\ linesFed \in 0..Len(site.lines) /\ linesFed = 0 /\ ~capped
      /\ capped \in BOOLEAN /\ fetched = "none" /\ target = "old" /\ Len(sink.text) <= cap
  <2>1. Len(sink.text) <= cap
    BY <1>1, <1>3
  <2>2. Len(site.lines) \in Nat
    BY <1>1
  <2>3. linesFed \in 0..Len(site.lines)
    BY <1>2, <2>2
  <2>4. ~capped /\ capped \in BOOLEAN
    BY <1>2
  <2> QED BY <1>2, <2>1, <2>3, <2>4
<1> QED BY <1>1, <1>3, <1>4, <1>5 DEF FetchInv

\* A line that is fed.
LEMMA FeedKeeps ==
  ASSUME FetchInv, FeedLine
  PROVE  FetchInv'
<1> DEFINE line == site.lines[linesFed + 1]
           e == Emitted(line)
<1>1. /\ fetchAt = "lines" /\ linesFed < Len(site.lines) /\ linesFed' = linesFed + 1
      /\ sink' = e /\ capped' = e.raised /\ fetchAt' = IF e.raised THEN "close" ELSE "lines"
      /\ UNCHANGED <<site, cap, saving, fetched, target>>
  BY DEF FeedLine
<1>2. /\ cap \in Nat /\ site.lines \in Seq(Seq(FetchFragments)) /\ site.rest \in Seq(FetchFragments)
      /\ linesFed \in Nat /\ linesFed + 1 \in 1..Len(site.lines)
      /\ sink \in SinkStates /\ Len(sink.text) <= cap /\ sink.text = FetchHanded(linesFed)
  BY <1>1 DEF FetchInv
<1>3. line \in Seq(FetchFragments)
  BY <1>2
<1>4. Concats(FetchHanded(linesFed + 1), sink.text, FlattenSeq(line))
  BY <1>1, <1>2, HandedOn
<1>5. /\ e \in SinkStates
      /\ e.raised => Len(e.text) = cap /\ Len(FetchHanded(linesFed + 1)) > cap
                        /\ FetchBegins(e.text, FetchHanded(linesFed + 1))
      /\ ~e.raised => e.text = FetchHanded(linesFed + 1) /\ Len(FetchHanded(linesFed + 1)) <= cap
  <2> HIDE DEF line
  <2> QED BY <1>2, <1>3, <1>4, EmittedIs
<1>6. linesFed + 1 \in 0..Len(site.lines)
  BY <1>2
<1>7. /\ FetchHanded(linesFed + 1) \in Seq(FetchLetters) /\ WholePage \in Seq(FetchLetters)
      /\ FetchBegins(FetchHanded(linesFed + 1), WholePage)
  BY <1>2, <1>6, HandedBegins
<1> HIDE DEF e
<1>8. PICK h \in Seq(FetchLetters) : h = FetchHanded(linesFed + 1)
  BY <1>7
<1>9. PICK w \in Seq(FetchLetters) : w = WholePage
  BY <1>7
<1>10. e.text \in Seq(FetchLetters)
  BY <1>5 DEF SinkStates
<1>11. FetchBegins(e.text, w) /\ Len(e.text) <= cap /\ (e.raised => Len(w) > cap)
  <2>1. FetchBegins(h, w) /\ Len(h) <= Len(w) /\ Len(h) \in Nat /\ Len(w) \in Nat
    BY <1>7, <1>8, <1>9 DEF FetchBegins
  <2>2. CASE e.raised
    <3>1. FetchBegins(e.text, h) /\ Len(e.text) = cap /\ Len(h) > cap
      BY <1>5, <1>8, <2>2
    <3>2. FetchBegins(e.text, w)
      BY <1>10, <2>1, <3>1, BeginsOn
    <3> QED BY <1>2, <2>1, <3>1, <3>2
  <2>3. CASE ~e.raised
    <3>1. e.text = h /\ Len(h) <= cap
      BY <1>5, <1>8, <2>3
    <3> QED BY <2>1, <2>3, <3>1
  <2> QED BY <2>2, <2>3
<1>12. w = WholePage' /\ FetchHanded(linesFed + 1) = FetchHanded(linesFed)'
  BY <1>1, <1>9 DEF WholePage, FetchHanded
<1>13. e.raised \in BOOLEAN
  BY <1>5 DEF SinkStates
<1>14. fetched' = "none" /\ target' = "old"
  BY <1>1 DEF FetchInv
<1>15. CutShort' <=> Len(e.text) = cap /\ Len(w) > cap /\ FetchBegins(e.text, w)
  BY <1>1, <1>12 DEF CutShort
<1>16. CASE e.raised
  <2>1. fetchAt' = "close" /\ capped' = TRUE /\ CutShort'
    BY <1>1, <1>5, <1>11, <1>15, <1>16
  <2> QED BY <1>1, <1>2, <1>5, <1>6, <1>11, <1>12, <1>14, <2>1 DEF FetchInv
<1>17. CASE ~e.raised
  <2>1. fetchAt' = "lines" /\ capped' = FALSE /\ sink'.text = FetchHanded(linesFed)'
    BY <1>1, <1>5, <1>12, <1>13, <1>17
  <2> QED BY <1>1, <1>2, <1>5, <1>6, <1>11, <1>12, <1>14, <2>1 DEF FetchInv
<1> QED BY <1>16, <1>17

\* The end: the rest, and the result.
LEMMA DrainKeeps ==
  ASSUME FetchInv, DrainConverter
  PROVE  FetchInv'
<1> DEFINE e == Emitted(site.rest)
<1>1. /\ fetchAt = "close" /\ fetchAt' = "done" /\ sink' = e
      /\ UNCHANGED <<site, cap, saving, linesFed, target>>
      /\ capped' = (capped \/ e.raised)
      /\ fetched' = CASE e.text = <<>> -> "error" [] capped' -> "cut" [] OTHER -> "text"
  BY DEF DrainConverter
<1>2. /\ cap \in Nat /\ site.lines \in Seq(Seq(FetchFragments)) /\ site.rest \in Seq(FetchFragments)
      /\ linesFed \in 0..Len(site.lines) /\ capped \in BOOLEAN /\ target = "old"
      /\ sink \in SinkStates /\ Len(sink.text) <= cap /\ FetchBegins(sink.text, WholePage)
      /\ IF capped THEN CutShort ELSE sink.text = FetchHanded(Len(site.lines))
  BY <1>1 DEF FetchInv
<1>3. Len(site.lines) \in 0..Len(site.lines)
  BY <1>2
<1>4. PICK w \in Seq(FetchLetters) : w = WholePage
  BY <1>2, <1>3, HandedBegins
<1>5. Concats(w, FetchHanded(Len(site.lines)), FlattenSeq(site.rest))
  BY <1>2, <1>3, <1>4, HandedBegins
<1>6. PICK all : Concats(all, sink.text, FlattenSeq(site.rest))
  BY DEF Concats
<1>7. /\ e \in SinkStates /\ FetchBegins(sink.text, e.text)
      /\ e.raised => Len(e.text) = cap /\ Len(all) > cap /\ FetchBegins(e.text, all)
      /\ ~e.raised => e.text = all /\ Len(all) <= cap
  BY <1>2, <1>6, EmittedIs
<1> HIDE DEF e
<1>8. e.text \in Seq(FetchLetters) /\ sink.text \in Seq(FetchLetters) /\ e.raised \in BOOLEAN
  BY <1>2, <1>7 DEF SinkStates
<1>9. w = WholePage'
  BY <1>1, <1>4 DEF WholePage
<1>10. CutShort' <=> Len(e.text) = cap /\ Len(w) > cap /\ FetchBegins(e.text, w)
  BY <1>1, <1>9 DEF CutShort
<1>11. CASE capped
  <2>1. Len(sink.text) = cap /\ Len(w) > cap /\ FetchBegins(sink.text, w)
    BY <1>2, <1>4, <1>11 DEF CutShort
  <2>2. Len(e.text) <= cap
    BY <1>2, <1>7, <1>8
  <2>3. Len(e.text) = Len(sink.text)
    BY <1>2, <1>7, <1>8, <2>1, <2>2 DEF FetchBegins
  <2>4. FetchBegins(e.text, e.text)
    BY <1>8 DEF FetchBegins
  <2>5. sink.text = e.text
    BY <1>7, <1>8, <2>3, <2>4, BeginsOn
  <2>6. CutShort'
    BY <1>10, <2>1, <2>5
  <2>7. capped' = TRUE /\ fetched' \in {"error", "cut"}
    BY <1>1, <1>11
  <2> QED BY <1>1, <1>2, <1>7, <1>9, <2>2, <2>1, <2>5, <2>6, <2>7 DEF FetchInv
<1>12. CASE ~capped
  <2>1. all = w
    BY <1>2, <1>5, <1>6, <1>12 DEF Concats
  <2>2. capped' = e.raised
    BY <1>1, <1>8, <1>12
  <2>3. CASE e.raised
    <3>1. CutShort' /\ FetchBegins(e.text, w)
      BY <1>7, <1>10, <2>1, <2>3
    <3>2. fetched' \in {"error", "cut"}
      BY <1>1, <2>2, <2>3
    <3>3. Len(e.text) <= cap
      BY <1>2, <1>7, <2>3
    <3> QED BY <1>1, <1>2, <1>7, <1>8, <1>9, <2>2, <3>1, <3>2, <3>3 DEF FetchInv
  <2>4. CASE ~e.raised
    <3>1. e.text = w /\ Len(w) <= cap
      BY <1>7, <2>1, <2>4
    <3>2. fetched' \in {"error", "text"}
      BY <1>1, <2>2, <2>4
    <3>3. FetchBegins(e.text, w)
      BY <1>8, <3>1 DEF FetchBegins
    <3> QED BY <1>1, <1>2, <1>7, <1>8, <1>9, <2>2, <3>1, <3>2, <3>3 DEF FetchInv
  <2> QED BY <2>3, <2>4
<1> QED BY <1>2, <1>11, <1>12

\* Every step keeps it.
LEMMA FetchSteps ==
  ASSUME FetchInv, [FetchNext]_fetchVars
  PROVE  FetchInv'
<1>1. ASSUME site' = site, cap' = cap, sink' = sink, linesFed' = linesFed, capped' = capped
      PROVE  /\ WholePage' = WholePage /\ FetchHanded(linesFed)' = FetchHanded(linesFed)
             /\ FetchBegins(sink.text, WholePage)' = FetchBegins(sink.text, WholePage)
             /\ CutShort' = CutShort
  BY <1>1 DEF WholePage, FetchHanded, CutShort, FetchBegins
<1>2. CASE AskFails
  BY <1>1, <1>2 DEF FetchInv, AskFails
<1>3. CASE Responds
  <2>1. FetchHanded(0) = <<>>
    BY HandedNothing DEF FetchInv
  <2> QED BY <1>1, <1>3, <2>1 DEF FetchInv, Responds
<1>4. CASE FeedLine
  BY <1>4, FeedKeeps
<1>5. CASE LinesEnd
  BY <1>1, <1>5 DEF FetchInv, LinesEnd
<1>6. CASE BreaksOff
  BY <1>1, <1>6 DEF FetchInv, BreaksOff
<1>7. CASE DrainConverter
  BY <1>7, DrainKeeps
<1>8. CASE BodyRead
  BY <1>1, <1>8 DEF FetchInv, BodyRead
<1>9. CASE Write
  BY <1>1, <1>9 DEF FetchInv, Write
<1>10. CASE UNCHANGED fetchVars
  BY <1>1, <1>10 DEF FetchInv, fetchVars
<1> QED BY <1>2, <1>3, <1>4, <1>5, <1>6, <1>7, <1>8, <1>9, <1>10 DEF FetchNext

\* The invariant gives the property.
LEMMA FetchImplies ==
  ASSUME FetchInv
  PROVE  FetchRight
<1>1. PICK w \in Seq(FetchLetters) : w = WholePage
  <2>1. linesFed \in 0..Len(site.lines)
    BY DEF FetchInv
  <2> QED BY <2>1, HandedBegins DEF FetchInv
<1>2. sink.text \in Seq(FetchLetters) /\ FetchBegins(sink.text, w)
  BY <1>1 DEF FetchInv, SinkStates
<1>3. IsPrefix(sink.text, w)
  BY <1>2, BeginsPrefix
<1>4. fetched = "cut" => Len(sink.text) = cap /\ sink.text # w
  BY <1>1 DEF FetchInv, CutShort
<1> QED BY <1>1, <1>3, <1>4 DEF FetchInv, FetchRight

\* web_fetch: what is returned begins the page's Markdown, it is all of it or as much as
\* the cap allows, and a download that fails leaves the old file.
THEOREM FetchHolds == FetchSpec => []FetchRight
<1> QED BY FetchStarts, FetchSteps, FetchImplies, PTL DEF FetchSpec

-----------------------------------------------------------------------------
(* split_message                                                             *)

\* A text, from its first character to its last.
SplitTexts ==
  /\ Len(longText) \in Nat /\ longText \in [1..Len(longText) -> {"n", "x"}]
  /\ maxLen \in Nat /\ maxLen > 0 /\ restAt \in 0..Len(longText)

\* Where rfind finds newlines, there are some, and none behind.
LEMMA LastNewlinesIs ==
  ASSUME SplitTexts, NEW k \in {1, 2}
  PROVE  /\ LastNewlines(k) \in Int
         /\ \/ LastNewlines(k) = -1
            \/ /\ LastNewlines(k) \in 0..(maxLen - k)
               /\ \A i \in 1..k : longText[restAt + LastNewlines(k) + i] = "n"
         /\ \A p \in 0..(maxLen - k) :
               (\A i \in 1..k : longText[restAt + p + i] = "n") => p <= LastNewlines(k)
<1> DEFINE P == {p \in 0..(maxLen - k) : \A i \in 1..k : longText[restAt + p + i] = "n"}
           S == {-1} \cup P
           D == {d \in 0..(maxLen + 1) : maxLen - d \in S}
<1>1. maxLen \in Nat
  BY DEF SplitTexts
<1>2. maxLen - (maxLen + 1) = -1 /\ maxLen + 1 \in 0..(maxLen + 1)
  BY <1>1
<1>3. D \in SUBSET Nat /\ maxLen + 1 \in D
  BY <1>1, <1>2
<1>4. P \subseteq 0..(maxLen - k)
  OBVIOUS
<1> HIDE DEF P
<1>5. PICK d \in D : \A e \in D : d <= e
  <2> HIDE DEF D
  <2> QED BY <1>3, LeastNumber
<1>6. \A x \in S : maxLen - x \in D /\ x \in Int
  <2> SUFFICES ASSUME NEW x \in S PROVE maxLen - x \in D /\ x \in Int
    OBVIOUS
  <2>1. x = -1 \/ x \in 0..(maxLen - k)
    BY <1>4
  <2>2. maxLen - x \in 0..(maxLen + 1) /\ maxLen - (maxLen - x) = x
    BY <1>1, <2>1
  <2> QED BY <2>1, <2>2
<1>7. maxLen - d \in S /\ \A x \in S : maxLen - d >= x
  <2> SUFFICES ASSUME NEW x \in S PROVE maxLen - d \in S /\ maxLen - d >= x
    OBVIOUS
  <2>1. maxLen - x \in D /\ x \in Int
    BY <1>6
  <2>2. d <= maxLen - x /\ d \in Nat
    BY <1>5, <2>1, <1>3
  <2> QED BY <1>1, <2>1, <2>2
<1>8. PICK r \in S : (\A x \in S : r >= x) /\ r = Max(S)
  <2>1. \E x \in S : \A y \in S : x >= y
    BY <1>7
  <2> HIDE DEF S
  <2> QED BY <2>1 DEF Max
<1>9. LastNewlines(k) = r
  BY <1>8 DEF LastNewlines, P
<1>10. r = -1 \/ r \in P
  OBVIOUS
<1>11. \A p \in P : p <= r
  <2> SUFFICES ASSUME NEW p \in P PROVE p <= r
    OBVIOUS
  <2>1. p \in S
    OBVIOUS
  <2>2. p \in Int /\ r \in Int /\ r >= p
    BY <1>6, <1>8, <2>1
  <2> QED BY <2>2
<1>12. r \in Int
  BY <1>6
<1> QED BY <1>9, <1>10, <1>11, <1>12 DEF P

\* A cut is within the message, behind something, and tears a line only where no
\* newline is past the first quarter.
LEMMA CutIs ==
  ASSUME SplitTexts
  PROVE  /\ CutLength \in 0..maxLen
         /\ longText[restAt + 1] # "n" => CutLength > 0
         /\ CutLength = maxLen =>
              \A p \in (maxLen \div 4)..(maxLen - 1) : longText[restAt + p + 1] # "n"
<1> DEFINE b == LastNewlines(2)
           l == LastNewlines(1)
<1>0. maxLen \in Nat /\ maxLen > 0 /\ restAt \in Nat
  BY DEF SplitTexts
<1>1. b \in Int /\ (b = -1 \/ (b \in 0..(maxLen - 2) /\ longText[restAt + b + 1] = "n"))
  <2>1. 2 \in {1, 2} /\ 1 \in 1..2
    OBVIOUS
  <2> QED BY <2>1, LastNewlinesIs
<1>2. /\ l \in Int /\ (l = -1 \/ (l \in 0..(maxLen - 1) /\ longText[restAt + l + 1] = "n"))
      /\ \A p \in 0..(maxLen - 1) : longText[restAt + p + 1] = "n" => p <= l
  <2>1. 1 \in {1, 2} /\ 1 \in 1..1 /\ \A i \in 1..1 : i = 1
    OBVIOUS
  <2>2. \A p : (\A i \in 1..1 : longText[restAt + p + i] = "n") <=> longText[restAt + p + 1] = "n"
    BY <2>1
  <2> QED BY <2>1, <2>2, LastNewlinesIs
<1>3. maxLen \div 2 \in Nat /\ maxLen \div 4 \in Nat
  BY <1>0
<1>4. CutLength = IF b >= maxLen \div 2 THEN b
                  ELSE IF b < maxLen \div 2 /\ l >= maxLen \div 4 THEN l ELSE maxLen
  BY <1>1, <1>3 DEF CutLength, LastBlankLine, LastLine
<1> HIDE DEF b, l
<1>5. CASE b >= maxLen \div 2
  <2>1. CutLength = b /\ b \in 0..(maxLen - 2)
    BY <1>1, <1>3, <1>4, <1>5
  <2>2. b = 0 => restAt + b + 1 = restAt + 1
    BY <1>0
  <2> QED BY <1>0, <1>1, <2>1, <2>2
<1>6. CASE ~(b >= maxLen \div 2) /\ l >= maxLen \div 4
  <2>1. CutLength = l /\ l \in 0..(maxLen - 1)
    BY <1>1, <1>2, <1>3, <1>4, <1>6
  <2>2. l = 0 => restAt + l + 1 = restAt + 1
    BY <1>0
  <2> QED BY <1>0, <1>2, <2>1, <2>2
<1>7. CASE ~(b >= maxLen \div 2) /\ ~(l >= maxLen \div 4)
  <2>1. CutLength = maxLen
    BY <1>4, <1>7
  <2>2. ASSUME NEW p \in (maxLen \div 4)..(maxLen - 1) PROVE longText[restAt + p + 1] # "n"
    <3>1. p \in 0..(maxLen - 1) /\ ~(p <= l)
      BY <1>0, <1>2, <1>3, <1>7
    <3> QED BY <1>2, <3>1
  <2> QED BY <1>0, <2>1, <2>2
<1> QED BY <1>5, <1>6, <1>7

\* lstrip goes to the next character that is no newline, and over nothing else.
LEMMA UnlinedIs ==
  ASSUME SplitTexts, NEW p \in 0..Len(longText)
  PROVE  /\ Unlined(p) \in p..Len(longText)
         /\ Unlined(p) < Len(longText) => longText[Unlined(p) + 1] # "n"
         /\ \A q \in (p + 1)..Unlined(p) : longText[q] = "n"
<1> DEFINE S == {q \in p..Len(longText) : q < Len(longText) => longText[q + 1] # "n"}
<1>1. Len(longText) \in Nat /\ longText \in [1..Len(longText) -> {"n", "x"}] /\ p \in Nat
  BY DEF SplitTexts
<1>2. S \in SUBSET Nat /\ Len(longText) \in S
  BY <1>1
<1>3. PICK u \in S : (\A x \in S : u <= x) /\ u = Min(S)
  <2> HIDE DEF S
  <2>1. \E x \in S : \A y \in S : x <= y
    BY <1>2, LeastNumber
  <2> QED BY <2>1 DEF Min
<1>4. Unlined(p) = u
  BY <1>3 DEF Unlined
<1>5. u \in p..Len(longText) /\ (u < Len(longText) => longText[u + 1] # "n")
  OBVIOUS
<1>6. ASSUME NEW q \in (p + 1)..u PROVE longText[q] = "n"
  <2>1. q - 1 \in p..Len(longText) /\ q - 1 < Len(longText) /\ (q - 1) + 1 = q /\ ~(u <= q - 1)
    BY <1>1, <1>5
  <2> QED BY <1>3, <2>1
<1> QED BY <1>4, <1>5, <1>6

\* What is known of the message at i.
MessageOK(m, i, end, whole, limit) ==
  /\ m.from \in 0..end /\ m.to \in m.from..end
  /\ m.to - m.from <= limit
  /\ i > 1 => m.from < m.to /\ whole[m.from + 1] # "n"
  /\ m.to - m.from = limit /\ m.to < Len(whole) =>
       \A p \in (limit \div 4)..(limit - 1) : whole[m.from + p + 1] # "n"

\* The messages so far are right, and what remains behind one begins with no newline.
SplitInv ==
  /\ SplitTexts /\ busSet \in BOOLEAN /\ letIn \subseteq Senders
  /\ chunks \in Seq([from : Nat, to : Nat])
  /\ \A i \in 1..Len(chunks) : MessageOK(chunks[i], i, restAt, longText, maxLen)
  /\ \A i, j \in 1..Len(chunks) : i < j => chunks[i].to <= chunks[j].from
  /\ \A p \in 1..restAt :
        longText[p] = "n" \/ \E i \in 1..Len(chunks) : chunks[i].from < p /\ p <= chunks[i].to
  /\ Len(chunks) > 0 /\ restAt < Len(longText) => longText[restAt + 1] # "n"
  /\ "stranger" \in letIn => allowFrom \cap {"stranger", "*"} # {}

\* At first all of the text is left.
LEMMA SplitStarts == SplitInit => SplitInv
<1> SUFFICES ASSUME SplitInit PROVE SplitInv
  OBVIOUS
<1>1. /\ Len(longText) \in Nat /\ longText \in [1..Len(longText) -> {"n", "x"}]
      /\ maxLen \in Nat /\ maxLen > 0
  <2>1. longText \in [1..Len(longText) -> {"n", "x"}] /\ Len(longText) \in Nat /\ maxLen \in Nat \ {0}
    BY SplitAssumption DEF SplitInit
  <2> QED BY <2>1
<1>2. chunks = <<>> /\ restAt = 0 /\ busSet = FALSE /\ letIn = {}
  BY DEF SplitInit
<1>3. /\ chunks \in Seq([from : Nat, to : Nat]) /\ Len(chunks) = 0 /\ 1..Len(chunks) = {} /\ 1..restAt = {}
      /\ SplitTexts
  BY <1>1, <1>2 DEF SplitTexts
<1>4. /\ \A i \in 1..Len(chunks) : MessageOK(chunks[i], i, restAt, longText, maxLen)
      /\ \A i, j \in 1..Len(chunks) : i < j => chunks[i].to <= chunks[j].from
      /\ \A p \in 1..restAt :
            longText[p] = "n" \/ \E i \in 1..Len(chunks) : chunks[i].from < p /\ p <= chunks[i].to
  BY <1>3, Zenon
<1>5. busSet \in BOOLEAN /\ letIn \subseteq Senders /\ "stranger" \notin letIn
  BY <1>2
<1>6. ~(Len(chunks) > 0)
  BY <1>3
<1> QED BY <1>3, <1>4, <1>5, <1>6, Zenon DEF SplitInv

\* A message split off.
LEMMA ChunkComes ==
  ASSUME SplitInv, restAt < Len(longText), NEW cut \in 0..(Len(longText) - restAt), cut <= maxLen,
         NEW rest \in (restAt + cut)..Len(longText),
         \A q \in (restAt + cut + 1)..rest : longText[q] = "n",
         rest < Len(longText) => longText[rest + 1] # "n",
         longText[restAt + 1] # "n" => cut > 0,
         cut = maxLen /\ restAt + cut < Len(longText) =>
           \A p \in (maxLen \div 4)..(maxLen - 1) : longText[restAt + p + 1] # "n",
         chunks' = Append(chunks, [from |-> restAt, to |-> restAt + cut]), restAt' = rest,
         UNCHANGED <<longText, maxLen, allowFrom, busSet, letIn>>
  PROVE  SplitInv'
<1> DEFINE new == [from |-> restAt, to |-> restAt + cut]
           n == Len(chunks)
<1>1. /\ SplitTexts /\ busSet \in BOOLEAN /\ letIn \subseteq Senders
      /\ chunks \in Seq([from : Nat, to : Nat]) /\ n \in Nat
      /\ "stranger" \in letIn => allowFrom \cap {"stranger", "*"} # {}
  BY DEF SplitInv
<1>13. \A i \in 1..n : MessageOK(chunks[i], i, restAt, longText, maxLen) /\ chunks[i] \in [from : Nat, to : Nat]
  <2>1. \A i \in 1..n : MessageOK(chunks[i], i, restAt, longText, maxLen)
    BY DEF SplitInv
  <2>2. \A i \in 1..n : chunks[i] \in [from : Nat, to : Nat]
    BY <1>1, ElementOfSeq
  <2> QED BY <2>1, <2>2
<1>14. \A i, j \in 1..n : i < j => chunks[i].to <= chunks[j].from
  BY DEF SplitInv
<1>15. \A p \in 1..restAt :
         longText[p] = "n" \/ \E i \in 1..n : chunks[i].from < p /\ p <= chunks[i].to
  BY DEF SplitInv
<1>16. n > 0 => longText[restAt + 1] # "n"
  BY DEF SplitInv
<1>2. Len(longText) \in Nat /\ maxLen \in Nat /\ maxLen > 0 /\ restAt \in Nat /\ rest \in Nat /\ cut \in Nat
  BY <1>1 DEF SplitTexts
<1>3. SplitTexts'
  BY <1>1, <1>2 DEF SplitTexts
<1>4. /\ new \in [from : Nat, to : Nat] /\ new.from = restAt /\ new.to = restAt + cut
      /\ chunks' \in Seq([from : Nat, to : Nat]) /\ Len(chunks') = n + 1
      /\ \A i \in 1..n : chunks'[i] = chunks[i]
      /\ chunks'[n + 1] = new
  <2>1. new \in [from : Nat, to : Nat] /\ new.from = restAt /\ new.to = restAt + cut
    BY <1>2
  <2> HIDE DEF new
  <2>2. chunks' = Append(chunks, new)
    BY DEF new
  <2> QED BY <1>1, <2>1, <2>2, AppendProperties
<1> HIDE DEF new, n
<1>5. \A i \in 1..(n + 1) : i \in 1..n \/ i = n + 1
  BY <1>1
<1>6. restAt <= rest /\ restAt + cut <= rest /\ new.from \in 0..rest /\ new.to \in new.from..rest
  BY <1>2, <1>4
<1>7. ASSUME NEW i \in 1..n PROVE MessageOK(chunks'[i], i, rest, longText, maxLen)
  <2>1. chunks'[i] = chunks[i] /\ MessageOK(chunks[i], i, restAt, longText, maxLen) /\ chunks[i] \in [from : Nat, to : Nat]
    BY <1>4, <1>13
  <2>2. PICK c \in [from : Nat, to : Nat] : c = chunks[i]
    BY <2>1
  <2>3. c.from \in Nat /\ c.to \in Nat
    OBVIOUS
  <2>4. c.from \in 0..rest /\ c.to \in c.from..rest
    <3>1. c.from \in 0..restAt /\ c.to \in c.from..restAt
      BY <2>1, <2>2 DEF MessageOK
    <3> QED BY <1>2, <1>6, <2>3, <3>1
  <2> QED BY <2>1, <2>2, <2>4 DEF MessageOK
<1>8. MessageOK(chunks'[n + 1], n + 1, rest, longText, maxLen)
  <2>1. n + 1 > 1 => new.from < new.to /\ longText[new.from + 1] # "n"
    <3> SUFFICES ASSUME n + 1 > 1 PROVE new.from < new.to /\ longText[new.from + 1] # "n"
      OBVIOUS
    <3>1. longText[restAt + 1] # "n"
      BY <1>1, <1>16
    <3> QED BY <1>2, <1>4, <3>1
  <2>2. new.to - new.from = cut
    BY <1>2, <1>4
  <2>3. new.to - new.from = maxLen /\ new.to < Len(longText) =>
          \A p \in (maxLen \div 4)..(maxLen - 1) : longText[new.from + p + 1] # "n"
    BY <1>2, <1>4, <2>2
  <2>4. MessageOK(new, n + 1, rest, longText, maxLen)
    BY <1>6, <2>1, <2>2, <2>3 DEF MessageOK
  <2> QED BY <1>4, <2>4
<1>9. \A i, j \in 1..(n + 1) : i < j => chunks'[i].to <= chunks'[j].from
  <2> SUFFICES ASSUME NEW i \in 1..(n + 1), NEW j \in 1..(n + 1), i < j
               PROVE  chunks'[i].to <= chunks'[j].from
    OBVIOUS
  <2>1. i \in 1..n
    BY <1>1
  <2>2. CASE j \in 1..n
    BY <1>4, <1>14, <2>1, <2>2
  <2>3. CASE j = n + 1
    <3>1. MessageOK(chunks[i], i, restAt, longText, maxLen) /\ chunks[i].to \in Nat
      BY <1>13, <2>1
    <3>2. chunks[i].to <= restAt
      BY <1>2, <3>1 DEF MessageOK
    <3> QED BY <1>4, <2>1, <2>3, <3>2
  <2> QED BY <1>5, <2>2, <2>3
<1>10. ASSUME NEW p \in 1..rest
       PROVE  longText[p] = "n" \/ \E i \in 1..(n + 1) : chunks'[i].from < p /\ p <= chunks'[i].to
  <2>1. CASE p <= restAt
    <3>1. longText[p] = "n" \/ \E i \in 1..n : chunks[i].from < p /\ p <= chunks[i].to
      <4>1. p \in 1..restAt
        BY <1>2, <2>1
      <4> QED BY <1>15, <4>1
    <3>2. CASE longText[p] = "n"
      BY <3>2
    <3>3. ASSUME NEW i \in 1..n, chunks[i].from < p, p <= chunks[i].to
          PROVE  \E k \in 1..(n + 1) : chunks'[k].from < p /\ p <= chunks'[k].to
      <4>1. i \in 1..(n + 1) /\ chunks'[i] = chunks[i]
        BY <1>1, <1>4
      <4> QED BY <3>3, <4>1
    <3> QED BY <3>1, <3>2, <3>3
  <2>2. CASE restAt < p /\ p <= restAt + cut
    <3>1. n + 1 \in 1..(n + 1)
      BY <1>1
    <3> QED BY <1>4, <2>2, <3>1
  <2>3. CASE restAt + cut < p
    <3>1. p \in (restAt + cut + 1)..rest
      BY <1>2, <2>3
    <3> QED BY <3>1
  <2>4. p <= restAt \/ (restAt < p /\ p <= restAt + cut) \/ restAt + cut < p
    <3>1. p \in Nat
      BY <1>2
    <3> QED BY <1>2, <3>1
  <2> QED BY <2>1, <2>2, <2>3, <2>4, Zenon
<1>11. \A i \in 1..(n + 1) : MessageOK(chunks'[i], i, rest, longText, maxLen)
  BY <1>5, <1>7, <1>8
<1>17. longText' = longText /\ maxLen' = maxLen /\ restAt' = rest /\ UNCHANGED <<allowFrom, busSet, letIn>>
  OBVIOUS
<1>12. \A i \in 1..Len(chunks') : MessageOK(chunks'[i], i, restAt', longText', maxLen')
  BY <1>4, <1>11, <1>17
<1>18. Len(chunks') > 0 /\ rest < Len(longText) => longText[rest + 1] # "n"
  OBVIOUS
<1>19. /\ chunks' \in Seq([from : Nat, to : Nat]) /\ Len(chunks') = n + 1
       /\ busSet' \in BOOLEAN /\ letIn' \subseteq Senders
       /\ "stranger" \in letIn' => allowFrom' \cap {"stranger", "*"} # {}
  BY <1>1, <1>4, <1>17
<1> QED BY <1>3, <1>9, <1>10, <1>12, <1>17, <1>18, <1>19 DEF SplitInv

\* Every step keeps it.
LEMMA SplitSteps ==
  ASSUME SplitInv, [SplitNext]_splitVars
  PROVE  SplitInv'
<1>1. SplitTexts /\ Len(longText) \in Nat /\ maxLen \in Nat /\ maxLen > 0 /\ restAt \in 0..Len(longText)
  BY DEF SplitInv, SplitTexts
<1>2. CASE SplitOff
  <2>1. /\ Len(longText) - restAt > maxLen
        /\ chunks' = Append(chunks, [from |-> restAt, to |-> restAt + CutLength])
        /\ restAt' = Unlined(restAt + CutLength)
        /\ UNCHANGED <<longText, maxLen, allowFrom, busSet, letIn>>
    BY <1>2 DEF SplitOff
  <2>2. PICK cut \in 0..maxLen :
          /\ cut = CutLength
          /\ longText[restAt + 1] # "n" => cut > 0
          /\ cut = maxLen => \A p \in (maxLen \div 4)..(maxLen - 1) : longText[restAt + p + 1] # "n"
    BY <1>1, CutIs
  <2>3. restAt < Len(longText) /\ cut \in 0..(Len(longText) - restAt) /\ cut <= maxLen
        /\ restAt + cut \in 0..Len(longText)
    BY <1>1, <2>1
  <2>4. PICK rest \in (restAt + cut)..Len(longText) :
          /\ rest = Unlined(restAt + cut)
          /\ rest < Len(longText) => longText[rest + 1] # "n"
          /\ \A q \in (restAt + cut + 1)..rest : longText[q] = "n"
    BY <1>1, <2>3, UnlinedIs
  <2>5. /\ chunks' = Append(chunks, [from |-> restAt, to |-> restAt + cut]) /\ restAt' = rest
    BY <2>1, <2>2, <2>4
  <2> QED BY <2>1, <2>2, <2>3, <2>4, <2>5, ChunkComes
<1>3. CASE SplitEnds
  <2>1. /\ restAt < Len(longText) /\ Len(longText) - restAt <= maxLen
        /\ chunks' = Append(chunks, [from |-> restAt, to |-> Len(longText)])
        /\ restAt' = Len(longText)
        /\ UNCHANGED <<longText, maxLen, allowFrom, busSet, letIn>>
    BY <1>3 DEF SplitEnds
  <2>2. PICK cut \in Nat : cut = Len(longText) - restAt
    <3>1. Len(longText) - restAt \in Nat
      BY <1>1
    <3> QED BY <3>1
  <2>3. cut \in 0..(Len(longText) - restAt) /\ cut <= maxLen /\ cut > 0 /\ restAt + cut = Len(longText)
    BY <1>1, <2>1, <2>2
  <2>4. Len(longText) \in (restAt + cut)..Len(longText)
        /\ \A q \in (restAt + cut + 1)..Len(longText) : longText[q] = "n"
    BY <1>1, <2>3
  <2>5. chunks' = Append(chunks, [from |-> restAt, to |-> restAt + cut])
    BY <2>1, <2>3
  <2>6. ~(restAt + cut < Len(longText)) /\ ~(Len(longText) < Len(longText))
    BY <1>1, <2>3
  <2> QED BY <2>1, <2>3, <2>4, <2>5, <2>6, ChunkComes
<1>4. ASSUME UNCHANGED <<longText, maxLen, chunks, restAt, allowFrom>>, busSet' \in BOOLEAN,
             letIn' \subseteq Senders,
             "stranger" \in letIn' => allowFrom \cap {"stranger", "*"} # {}
      PROVE  SplitInv'
  BY <1>4 DEF SplitInv, SplitTexts, MessageOK
<1>5. CASE HandleMessage
  <2>1. PICK sender \in Senders :
          letIn' = IF Allowed(sender) /\ busSet THEN letIn \cup {sender} ELSE letIn
    BY <1>5 DEF HandleMessage
  <2>2. letIn' \subseteq Senders
    BY <2>1 DEF SplitInv
  <2>3. "stranger" \in letIn' => allowFrom \cap {"stranger", "*"} # {}
    BY <2>1 DEF SplitInv, Allowed
  <2>4. UNCHANGED <<longText, maxLen, chunks, restAt, allowFrom, busSet>>
    BY <1>5 DEF HandleMessage
  <2>5. busSet' \in BOOLEAN
    BY <2>4 DEF SplitInv
  <2> QED BY <1>4, <2>2, <2>3, <2>4, <2>5
<1>6. CASE ChannelStarts
  <2>1. /\ UNCHANGED <<longText, maxLen, chunks, restAt, allowFrom>> /\ busSet' = TRUE /\ letIn' = letIn
    BY <1>6 DEF ChannelStarts
  <2>2. letIn' \subseteq Senders /\ ("stranger" \in letIn' => allowFrom \cap {"stranger", "*"} # {})
    BY <2>1 DEF SplitInv
  <2> QED BY <1>4, <2>1, <2>2
<1>7. CASE UNCHANGED splitVars
  <2>1. UNCHANGED <<longText, maxLen, chunks, restAt, allowFrom, busSet, letIn>>
    BY <1>7 DEF splitVars
  <2> QED BY <1>4, <2>1 DEF SplitInv
<1> QED BY <1>2, <1>3, <1>5, <1>6, <1>7 DEF SplitNext

\* The invariant gives the properties.
LEMMA SplitImplies ==
  ASSUME SplitInv
  PROVE  SplitTypeOK /\ SplitRight
<1>1. SplitTypeOK
  BY DEF SplitInv, SplitTypeOK, SplitTexts, MessageOK
<1>2. SplitRight
  BY DEF SplitInv, SplitRight, MessageOK
<1> QED BY <1>1, <1>2

\* split_message: the messages follow one another, lose only newlines, are not too long
\* and tear no line that could be cut at its end; strangers are not let in.
THEOREM SplitHolds == SplitSpec => [](SplitTypeOK /\ SplitRight)
<1> QED BY SplitStarts, SplitSteps, SplitImplies, PTL DEF SplitSpec

-----------------------------------------------------------------------------
(* The body of a recording                                                   *)

\* The bits of a byte, by their weights, in the parts that digits take of it.
LEMMA ByteBits ==
  ASSUME NEW b \in 0..255
  PROVE  /\ 32 * ((b \div 128) % 2) + 16 * ((b \div 64) % 2) + 8 * ((b \div 32) % 2)
              + 4 * ((b \div 16) % 2) + 2 * ((b \div 8) % 2) + ((b \div 4) % 2) = b \div 4
         /\ 2 * ((b \div 2) % 2) + ((b \div 1) % 2) = b % 4
         /\ 8 * ((b \div 128) % 2) + 4 * ((b \div 64) % 2) + 2 * ((b \div 32) % 2)
              + ((b \div 16) % 2) = b \div 16
         /\ 8 * ((b \div 8) % 2) + 4 * ((b \div 4) % 2) + 2 * ((b \div 2) % 2) + ((b \div 1) % 2) = b % 16
         /\ 2 * ((b \div 128) % 2) + ((b \div 64) % 2) = b \div 64
         /\ 32 * ((b \div 32) % 2) + 16 * ((b \div 16) % 2) + 8 * ((b \div 8) % 2)
              + 4 * ((b \div 4) % 2) + 2 * ((b \div 2) % 2) + ((b \div 1) % 2) = b % 64
<1>1. PICK q1 \in Nat : q1 = b \div 2 /\ b = 2 * q1 + (b % 2)
  OBVIOUS
<1>2. PICK q2 \in Nat : q2 = b \div 4 /\ q1 = 2 * q2 + (q1 % 2)
  BY <1>1
<1>3. PICK q3 \in Nat : q3 = b \div 8 /\ q2 = 2 * q3 + (q2 % 2)
  BY <1>2
<1>4. PICK q4 \in Nat : q4 = b \div 16 /\ q3 = 2 * q4 + (q3 % 2)
  BY <1>3
<1>5. PICK q5 \in Nat : q5 = b \div 32 /\ q4 = 2 * q5 + (q4 % 2)
  BY <1>4
<1>6. PICK q6 \in Nat : q6 = b \div 64 /\ q5 = 2 * q6 + (q5 % 2)
  BY <1>5
<1>7. PICK q7 \in Nat : q7 = b \div 128 /\ q6 = 2 * q7 + (q6 % 2)
  BY <1>6
<1>8. q7 % 2 = q7 /\ b \div 1 = b
  BY <1>7
<1>9. b % 4 = b - 4 * q2 /\ b % 16 = b - 16 * q4 /\ b % 64 = b - 64 * q6
  BY <1>2, <1>4, <1>6
<1>10. PICK b0 \in Int, b1 \in Int, b2 \in Int, b3 \in Int, b4 \in Int, b5 \in Int, b6 \in Int, b7 \in Int :
         /\ b0 = b % 2 /\ b1 = q1 % 2 /\ b2 = q2 % 2 /\ b3 = q3 % 2
         /\ b4 = q4 % 2 /\ b5 = q5 % 2 /\ b6 = q6 % 2 /\ b7 = q7 % 2
  OBVIOUS
<1>11. /\ b = 2 * q1 + b0 /\ q1 = 2 * q2 + b1 /\ q2 = 2 * q3 + b2 /\ q3 = 2 * q4 + b3
       /\ q4 = 2 * q5 + b4 /\ q5 = 2 * q6 + b5 /\ q6 = 2 * q7 + b6 /\ q7 = b7
  BY <1>1, <1>2, <1>3, <1>4, <1>5, <1>6, <1>7, <1>8, <1>10
<1>12. /\ 32 * b7 + 16 * b6 + 8 * b5 + 4 * b4 + 2 * b3 + b2 = q2
       /\ 2 * b1 + b0 = b - 4 * q2 /\ 8 * b7 + 4 * b6 + 2 * b5 + b4 = q4
       /\ 8 * b3 + 4 * b2 + 2 * b1 + b0 = b - 16 * q4 /\ 2 * b7 + b6 = q6
       /\ 32 * b5 + 16 * b4 + 8 * b3 + 4 * b2 + 2 * b1 + b0 = b - 64 * q6
  BY <1>11
<1> QED BY <1>1, <1>2, <1>3, <1>4, <1>5, <1>6, <1>7, <1>8, <1>9, <1>10, <1>12

\* The q-th byte of data, counted from 0, and zero behind the end.
ByteAt(data, q) == IF q < Len(data) THEN data[q + 1] ELSE 0

\* The bits from the n-th on are those of the byte v.
BitsAre(data, n, v) ==
  /\ Bit(data, n) = (v \div 128) % 2 /\ Bit(data, n + 1) = (v \div 64) % 2
  /\ Bit(data, n + 2) = (v \div 32) % 2 /\ Bit(data, n + 3) = (v \div 16) % 2
  /\ Bit(data, n + 4) = (v \div 8) % 2 /\ Bit(data, n + 5) = (v \div 4) % 2
  /\ Bit(data, n + 6) = (v \div 2) % 2 /\ Bit(data, n + 7) = (v \div 1) % 2

\* The k-th bit of the q-th byte.
LEMMA BitOfByte ==
  ASSUME NEW data \in Seq(0..255), NEW q \in Nat, NEW k \in 0..7
  PROVE  Bit(data, 8 * q + k) = (ByteAt(data, q) \div BitWeight[k + 1]) % 2
<1>1. Len(data) \in Nat
  BY LenProperties
<1>2. PICK i \in Nat : i = 8 * q + k
  OBVIOUS
<1>3. i \div 8 = q /\ i % 8 = k
  BY <1>2
<1>4. (i < 8 * Len(data)) <=> q < Len(data)
  BY <1>1, <1>2
<1>5. Bit(data, i) = IF i < 8 * Len(data) THEN (data[q + 1] \div BitWeight[k + 1]) % 2 ELSE 0
  BY <1>3 DEF Bit
<1>6. (0 \div BitWeight[k + 1]) % 2 = 0
  BY DEF BitWeight
<1> QED BY <1>1, <1>2, <1>4, <1>5, <1>6 DEF ByteAt

\* A byte of the data is a byte.
LEMMA ByteIsByte ==
  ASSUME NEW data \in Seq(0..255), NEW q \in Nat
  PROVE  ByteAt(data, q) \in 0..255
<1>1. CASE q < Len(data)
  <2>1. q + 1 \in 1..Len(data)
    BY <1>1, LenProperties
  <2>2. data[q + 1] \in 0..255
    BY <2>1, ElementOfSeq
  <2> QED BY <1>1, <2>2 DEF ByteAt
<1>2. CASE ~(q < Len(data))
  BY <1>2 DEF ByteAt
<1> QED BY <1>1, <1>2

\* All bits of the q-th byte.
LEMMA BitsOfByte ==
  ASSUME NEW data \in Seq(0..255), NEW q \in Nat, NEW n \in Nat, n = 8 * q
  PROVE  BitsAre(data, n, ByteAt(data, q))
<1> DEFINE v == ByteAt(data, q)
<1>1. \A k \in 0..7 : Bit(data, n + k) = (v \div BitWeight[k + 1]) % 2
  <2> SUFFICES ASSUME NEW k \in 0..7 PROVE Bit(data, n + k) = (v \div BitWeight[k + 1]) % 2
    OBVIOUS
  <2>1. Bit(data, 8 * q + k) = (ByteAt(data, q) \div BitWeight[k + 1]) % 2
    BY BitOfByte
  <2> QED BY <2>1
<1>2. /\ BitWeight[0 + 1] = 128 /\ BitWeight[1 + 1] = 64 /\ BitWeight[2 + 1] = 32
      /\ BitWeight[3 + 1] = 16 /\ BitWeight[4 + 1] = 8 /\ BitWeight[5 + 1] = 4
      /\ BitWeight[6 + 1] = 2 /\ BitWeight[7 + 1] = 1 /\ n + 0 = n
  BY DEF BitWeight
<1> HIDE DEF v
<1>3. Bit(data, n + 0) = (v \div 128) % 2
  <2>1. 0 \in 0..7
    OBVIOUS
  <2>2. Bit(data, n + 0) = (v \div BitWeight[0 + 1]) % 2
    BY <1>1, <2>1
  <2> QED BY <2>2, <1>2
<1>4. Bit(data, n + 1) = (v \div 64) % 2
  <2>1. 1 \in 0..7
    OBVIOUS
  <2>2. Bit(data, n + 1) = (v \div BitWeight[1 + 1]) % 2
    BY <1>1, <2>1
  <2> QED BY <2>2, <1>2
<1>5. Bit(data, n + 2) = (v \div 32) % 2
  <2>1. 2 \in 0..7
    OBVIOUS
  <2>2. Bit(data, n + 2) = (v \div BitWeight[2 + 1]) % 2
    BY <1>1, <2>1
  <2> QED BY <2>2, <1>2
<1>6. Bit(data, n + 3) = (v \div 16) % 2
  <2>1. 3 \in 0..7
    OBVIOUS
  <2>2. Bit(data, n + 3) = (v \div BitWeight[3 + 1]) % 2
    BY <1>1, <2>1
  <2> QED BY <2>2, <1>2
<1>7. Bit(data, n + 4) = (v \div 8) % 2
  <2>1. 4 \in 0..7
    OBVIOUS
  <2>2. Bit(data, n + 4) = (v \div BitWeight[4 + 1]) % 2
    BY <1>1, <2>1
  <2> QED BY <2>2, <1>2
<1>8. Bit(data, n + 5) = (v \div 4) % 2
  <2>1. 5 \in 0..7
    OBVIOUS
  <2>2. Bit(data, n + 5) = (v \div BitWeight[5 + 1]) % 2
    BY <1>1, <2>1
  <2> QED BY <2>2, <1>2
<1>9. Bit(data, n + 6) = (v \div 2) % 2
  <2>1. 6 \in 0..7
    OBVIOUS
  <2>2. Bit(data, n + 6) = (v \div BitWeight[6 + 1]) % 2
    BY <1>1, <2>1
  <2> QED BY <2>2, <1>2
<1>10. Bit(data, n + 7) = (v \div 1) % 2
  <2>1. 7 \in 0..7
    OBVIOUS
  <2>2. Bit(data, n + 7) = (v \div BitWeight[7 + 1]) % 2
    BY <1>1, <2>1
  <2> QED BY <2>2, <1>2
<1> QED
  <2>1. BitsAre(data, n, v)
    BY <1>2, <1>3, <1>4, <1>5, <1>6, <1>7, <1>8, <1>9, <1>10 DEF BitsAre
  <2> QED BY <2>1 DEF v

\* A digit of six bits.
LEMMA DigitOfBits ==
  ASSUME NEW data \in Seq(0..255), NEW d \in Nat, NEW n \in Nat, n = 6 * (d - 1)
  PROVE  Digit(data, d) = 32 * Bit(data, n) + 16 * Bit(data, n + 1) + 8 * Bit(data, n + 2)
                            + 4 * Bit(data, n + 3) + 2 * Bit(data, n + 4) + Bit(data, n + 5)
<1>1. /\ 6 * d - 6 = n /\ 6 * d - 5 = n + 1 /\ 6 * d - 4 = n + 2
      /\ 6 * d - 3 = n + 3 /\ 6 * d - 2 = n + 4 /\ 6 * d - 1 = n + 5
  OBVIOUS
<1> QED BY <1>1 DEF Digit

\* The digits of group m, counted from 0, are those of its three bytes.
LEMMA GroupDigits ==
  ASSUME NEW data \in Seq(0..255), NEW m \in Nat
  PROVE  <<Digit(data, 4 * m + 1), Digit(data, 4 * m + 2), Digit(data, 4 * m + 3),
           Digit(data, 4 * m + 4)>> =
           Encoded(ByteAt(data, 3 * m), ByteAt(data, 3 * m + 1), ByteAt(data, 3 * m + 2))
<1>1. PICK v0 \in 0..255, v1 \in 0..255, v2 \in 0..255 :
        v0 = ByteAt(data, 3 * m) /\ v1 = ByteAt(data, 3 * m + 1) /\ v2 = ByteAt(data, 3 * m + 2)
  <2>1. 3 * m \in Nat /\ 3 * m + 1 \in Nat /\ 3 * m + 2 \in Nat
    OBVIOUS
  <2> QED BY <2>1, ByteIsByte
<1>2. PICK n \in Nat : n = 24 * m
  OBVIOUS
<1>3. BitsAre(data, n, v0)
  <2>1. 3 * m \in Nat /\ n = 8 * (3 * m)
    BY <1>2
  <2> QED BY <2>1, <1>1, BitsOfByte
<1>4. BitsAre(data, n + 8, v1)
  <2>1. 3 * m + 1 \in Nat /\ n + 8 = 8 * (3 * m + 1) /\ n + 8 \in Nat
    BY <1>2
  <2> QED BY <2>1, <1>1, BitsOfByte
<1>5. BitsAre(data, n + 16, v2)
  <2>1. 3 * m + 2 \in Nat /\ n + 16 = 8 * (3 * m + 2) /\ n + 16 \in Nat
    BY <1>2
  <2> QED BY <2>1, <1>1, BitsOfByte
<1>6. /\ (n + 8) + 1 = n + 9 /\ (n + 8) + 2 = n + 10 /\ (n + 8) + 3 = n + 11
      /\ (n + 8) + 4 = n + 12 /\ (n + 8) + 5 = n + 13 /\ (n + 8) + 6 = n + 14
      /\ (n + 8) + 7 = n + 15
      /\ (n + 16) + 1 = n + 17 /\ (n + 16) + 2 = n + 18 /\ (n + 16) + 3 = n + 19
      /\ (n + 16) + 4 = n + 20 /\ (n + 16) + 5 = n + 21 /\ (n + 16) + 6 = n + 22
      /\ (n + 16) + 7 = n + 23
  OBVIOUS
<1>7. Digit(data, 4 * m + 1) = v0 \div 4
  <2>1. Digit(data, 4 * m + 1) =
          32 * Bit(data, n) + 16 * Bit(data, n + 1) + 8 * Bit(data, n + 2)
            + 4 * Bit(data, n + 3) + 2 * Bit(data, n + 4) + Bit(data, n + 5)
    <3>1. 4 * m + 1 \in Nat /\ n = 6 * ((4 * m + 1) - 1)
      BY <1>2
    <3> QED BY <3>1, DigitOfBits
  <2>2. Digit(data, 4 * m + 1) =
          32 * ((v0 \div 128) % 2) + 16 * ((v0 \div 64) % 2) + 8 * ((v0 \div 32) % 2)
            + 4 * ((v0 \div 16) % 2) + 2 * ((v0 \div 8) % 2) + ((v0 \div 4) % 2)
    BY <2>1, <1>3 DEF BitsAre
  <2> QED BY <2>2, ByteBits
<1>8. Digit(data, 4 * m + 2) = (v0 % 4) * 16 + v1 \div 16
  <2>1. Digit(data, 4 * m + 2) =
          32 * Bit(data, n + 6) + 16 * Bit(data, n + 7) + 8 * Bit(data, n + 8)
            + 4 * Bit(data, n + 9) + 2 * Bit(data, n + 10) + Bit(data, n + 11)
    <3>1. 4 * m + 2 \in Nat /\ n + 6 = 6 * ((4 * m + 2) - 1) /\ n + 6 \in Nat
          /\ (n + 6) + 1 = n + 7 /\ (n + 6) + 2 = n + 8 /\ (n + 6) + 3 = n + 9
          /\ (n + 6) + 4 = n + 10 /\ (n + 6) + 5 = n + 11
      BY <1>2
    <3>2. Digit(data, 4 * m + 2) =
            32 * Bit(data, n + 6) + 16 * Bit(data, (n + 6) + 1) + 8 * Bit(data, (n + 6) + 2)
              + 4 * Bit(data, (n + 6) + 3) + 2 * Bit(data, (n + 6) + 4) + Bit(data, (n + 6) + 5)
      BY <3>1, DigitOfBits
    <3> QED BY <3>1, <3>2
  <2>2. /\ Bit(data, n + 6) = (v0 \div 2) % 2 /\ Bit(data, n + 7) = (v0 \div 1) % 2
        /\ Bit(data, n + 8) = (v1 \div 128) % 2 /\ Bit(data, n + 9) = (v1 \div 64) % 2
        /\ Bit(data, n + 10) = (v1 \div 32) % 2 /\ Bit(data, n + 11) = (v1 \div 16) % 2
    BY <1>3, <1>4, <1>6 DEF BitsAre
  <2>3. Digit(data, 4 * m + 2) =
          32 * ((v0 \div 2) % 2) + 16 * ((v0 \div 1) % 2) + 8 * ((v1 \div 128) % 2)
            + 4 * ((v1 \div 64) % 2) + 2 * ((v1 \div 32) % 2) + ((v1 \div 16) % 2)
    BY <2>1, <2>2
  <2>4. 2 * ((v0 \div 2) % 2) + ((v0 \div 1) % 2) = v0 % 4
    BY ByteBits
  <2>5. 8 * ((v1 \div 128) % 2) + 4 * ((v1 \div 64) % 2) + 2 * ((v1 \div 32) % 2)
          + ((v1 \div 16) % 2) = v1 \div 16
    BY ByteBits
  <2> QED BY <2>3, <2>4, <2>5
<1>9. Digit(data, 4 * m + 3) = (v1 % 16) * 4 + v2 \div 64
  <2>1. Digit(data, 4 * m + 3) =
          32 * Bit(data, n + 12) + 16 * Bit(data, n + 13) + 8 * Bit(data, n + 14)
            + 4 * Bit(data, n + 15) + 2 * Bit(data, n + 16) + Bit(data, n + 17)
    <3>1. 4 * m + 3 \in Nat /\ n + 12 = 6 * ((4 * m + 3) - 1) /\ n + 12 \in Nat
          /\ (n + 12) + 1 = n + 13 /\ (n + 12) + 2 = n + 14 /\ (n + 12) + 3 = n + 15
          /\ (n + 12) + 4 = n + 16 /\ (n + 12) + 5 = n + 17
      BY <1>2
    <3>2. Digit(data, 4 * m + 3) =
            32 * Bit(data, n + 12) + 16 * Bit(data, (n + 12) + 1) + 8 * Bit(data, (n + 12) + 2)
              + 4 * Bit(data, (n + 12) + 3) + 2 * Bit(data, (n + 12) + 4)
              + Bit(data, (n + 12) + 5)
      BY <3>1, DigitOfBits
    <3> QED BY <3>1, <3>2
  <2>2. /\ Bit(data, n + 12) = (v1 \div 8) % 2 /\ Bit(data, n + 13) = (v1 \div 4) % 2
        /\ Bit(data, n + 14) = (v1 \div 2) % 2 /\ Bit(data, n + 15) = (v1 \div 1) % 2
        /\ Bit(data, n + 16) = (v2 \div 128) % 2 /\ Bit(data, n + 17) = (v2 \div 64) % 2
    BY <1>4, <1>5, <1>6 DEF BitsAre
  <2>3. Digit(data, 4 * m + 3) =
          32 * ((v1 \div 8) % 2) + 16 * ((v1 \div 4) % 2) + 8 * ((v1 \div 2) % 2)
            + 4 * ((v1 \div 1) % 2) + 2 * ((v2 \div 128) % 2) + ((v2 \div 64) % 2)
    BY <2>1, <2>2
  <2>4. 8 * ((v1 \div 8) % 2) + 4 * ((v1 \div 4) % 2) + 2 * ((v1 \div 2) % 2)
          + ((v1 \div 1) % 2) = v1 % 16
    BY ByteBits
  <2>5. 2 * ((v2 \div 128) % 2) + ((v2 \div 64) % 2) = v2 \div 64
    BY ByteBits
  <2>6. PICK x \in Int : x = 8 * ((v1 \div 8) % 2) + 4 * ((v1 \div 4) % 2)
                             + 2 * ((v1 \div 2) % 2) + ((v1 \div 1) % 2)
    OBVIOUS
  <2>7. Digit(data, 4 * m + 3) = 4 * x + (2 * ((v2 \div 128) % 2) + ((v2 \div 64) % 2))
    BY <2>3, <2>6
  <2>8. Digit(data, 4 * m + 3) = 4 * x + v2 \div 64 /\ x = v1 % 16
    BY <2>4, <2>5, <2>6, <2>7
  <2> QED BY <2>8
<1>10. Digit(data, 4 * m + 4) = v2 % 64
  <2>1. Digit(data, 4 * m + 4) =
          32 * Bit(data, n + 18) + 16 * Bit(data, n + 19) + 8 * Bit(data, n + 20)
            + 4 * Bit(data, n + 21) + 2 * Bit(data, n + 22) + Bit(data, n + 23)
    <3>1. 4 * m + 4 \in Nat /\ n + 18 = 6 * ((4 * m + 4) - 1) /\ n + 18 \in Nat
          /\ (n + 18) + 1 = n + 19 /\ (n + 18) + 2 = n + 20 /\ (n + 18) + 3 = n + 21
          /\ (n + 18) + 4 = n + 22 /\ (n + 18) + 5 = n + 23
      BY <1>2
    <3>2. Digit(data, 4 * m + 4) =
            32 * Bit(data, n + 18) + 16 * Bit(data, (n + 18) + 1) + 8 * Bit(data, (n + 18) + 2)
              + 4 * Bit(data, (n + 18) + 3) + 2 * Bit(data, (n + 18) + 4)
              + Bit(data, (n + 18) + 5)
      BY <3>1, DigitOfBits
    <3> QED BY <3>1, <3>2
  <2>2. /\ Bit(data, n + 18) = (v2 \div 32) % 2 /\ Bit(data, n + 19) = (v2 \div 16) % 2
        /\ Bit(data, n + 20) = (v2 \div 8) % 2 /\ Bit(data, n + 21) = (v2 \div 4) % 2
        /\ Bit(data, n + 22) = (v2 \div 2) % 2 /\ Bit(data, n + 23) = (v2 \div 1) % 2
    BY <1>5, <1>6 DEF BitsAre
  <2>3. Digit(data, 4 * m + 4) =
          32 * ((v2 \div 32) % 2) + 16 * ((v2 \div 16) % 2) + 8 * ((v2 \div 8) % 2)
            + 4 * ((v2 \div 4) % 2) + 2 * ((v2 \div 2) % 2) + ((v2 \div 1) % 2)
    BY <2>1, <2>2
  <2> QED BY <2>3, ByteBits
<1> QED BY <1>1, <1>7, <1>8, <1>9, <1>10 DEF Encoded


BodySymbols == Int \cup {"=", "head", "prefix", "tail"}

\* What lies behind the first a elements of s, up to the b-th.
Piece(s, a, b) == SubSeq(s, a + 1, b)
IsPiece(p, s, a, b) == Len(p) = b - a /\ \A i \in 1..(b - a) : p[i] = s[a + i]

\* A piece is made of the elements at its places.
LEMMA PieceIs ==
  ASSUME NEW S, NEW s \in Seq(S), NEW a \in Nat, NEW b \in Nat, a <= b, b <= Len(s)
  PROVE  Piece(s, a, b) \in Seq(S) /\ IsPiece(Piece(s, a, b), s, a, b)
<1>1. \A i \in (a + 1)..b : s[i] \in S
  <2> SUFFICES ASSUME NEW i \in (a + 1)..b PROVE s[i] \in S
    OBVIOUS
  <2>1. i \in 1..Len(s)
    BY LenProperties
  <2> QED BY <2>1, ElementOfSeq
<1>2. PICK p : p = SubSeq(s, a + 1, b)
  OBVIOUS
<1>3. /\ p \in Seq(S) /\ Len(p) = IF a + 1 <= b THEN b - (a + 1) + 1 ELSE 0
      /\ \A i \in 1..(b - (a + 1) + 1) : p[i] = s[(a + 1) + i - 1]
  <2>1. a + 1 \in Int /\ b \in Int
    OBVIOUS
  <2> QED BY <1>1, <1>2, <2>1, SubSeqProperties
<1>4. b - (a + 1) + 1 = b - a /\ \A i \in 1..(b - a) : (a + 1) + i - 1 = a + i
  OBVIOUS
<1>5. Len(p) = b - a
  BY <1>3
<1>6. \A i \in 1..(b - a) : p[i] = s[a + i]
  BY <1>3, <1>4
<1> QED BY <1>2, <1>3, <1>5, <1>6 DEF Piece, IsPiece

\* Adjacent pieces make one.
LEMMA PiecesJoin ==
  ASSUME NEW S, NEW s \in Seq(S), NEW a \in Nat, NEW b \in Nat, NEW c \in Nat,
         a <= b, b <= c, c <= Len(s)
  PROVE  Piece(s, a, b) \o Piece(s, b, c) = Piece(s, a, c)
<1>1. Len(s) \in Nat
  BY LenProperties
<1>2. a + 1 \in 1..Len(s) + 1 /\ b \in (a + 1) - 1..Len(s) /\ c \in b..Len(s)
  BY <1>1
<1> QED BY <1>2, ConcatAdjacentSubSeq DEF Piece

\* A digit is a number.
LEMMA DigitIsInt ==
  ASSUME NEW data \in Seq(0..255), NEW i \in Nat \ {0}
  PROVE  Digit(data, i) \in Int
<1>1. \A n \in Nat : Bit(data, n) \in Int
  <2> SUFFICES ASSUME NEW n \in Nat PROVE Bit(data, n) \in Int
    OBVIOUS
  <2>1. PICK q \in Nat, k \in 0..7 : n = 8 * q + k
    <3>1. n \div 8 \in Nat /\ n % 8 \in 0..7
      OBVIOUS
    <3>2. n = 8 * (n \div 8) + (n % 8)
      OBVIOUS
    <3> QED BY <3>1, <3>2
  <2>2. Bit(data, n) = (ByteAt(data, q) \div BitWeight[k + 1]) % 2
    BY <2>1, BitOfByte
  <2>3. PICK v \in Int : v = ByteAt(data, q)
    BY ByteIsByte
  <2>4. PICK t \in Nat \ {0} : t = BitWeight[k + 1]
    BY DEF BitWeight
  <2>5. (v \div t) % 2 \in Int
    OBVIOUS
  <2> QED BY <2>2, <2>3, <2>4, <2>5
<1>2. /\ Bit(data, 6 * i - 6) \in Int /\ Bit(data, 6 * i - 5) \in Int
      /\ Bit(data, 6 * i - 4) \in Int /\ Bit(data, 6 * i - 3) \in Int
      /\ Bit(data, 6 * i - 2) \in Int /\ Bit(data, 6 * i - 1) \in Int
  <2>1. /\ 6 * i - 6 \in Nat /\ 6 * i - 5 \in Nat /\ 6 * i - 4 \in Nat
        /\ 6 * i - 3 \in Nat /\ 6 * i - 2 \in Nat /\ 6 * i - 1 \in Nat
    OBVIOUS
  <2> QED BY <1>1, <2>1
<1>3. PICK b0 \in Int, b1 \in Int, b2 \in Int :
        b0 = Bit(data, 6 * i - 6) /\ b1 = Bit(data, 6 * i - 5) /\ b2 = Bit(data, 6 * i - 4)
  BY <1>2
<1>4. PICK b3 \in Int, b4 \in Int, b5 \in Int :
        b3 = Bit(data, 6 * i - 3) /\ b4 = Bit(data, 6 * i - 2) /\ b5 = Bit(data, 6 * i - 1)
  BY <1>2
<1>5. Digit(data, i) = 32 * b0 + 16 * b1 + 8 * b2 + 4 * b3 + 2 * b4 + b5
  BY <1>3, <1>4 DEF Digit
<1> QED BY <1>5

\* What the base64 of data is, of g groups and r bytes more.
IsBase64(w, data, g, r) ==
  /\ Digits(data) = IF r = 0 THEN 4 * g ELSE 4 * g + r + 1
  /\ Len(w) = IF r = 0 THEN 4 * g ELSE 4 * g + 4
  /\ \A i \in 1..Digits(data) : w[i] = Digit(data, i)
  /\ \A i \in Digits(data) + 1..Len(w) : w[i] = "="

\* The last bytes and their padding are the last digits.
LEMMA Base64Is ==
  ASSUME NEW data \in Seq(0..255), NEW g \in Nat, NEW r \in 0..2, Len(data) = 3 * g + r
  PROVE  Base64(data) \in Seq(BodySymbols) /\ IsBase64(Base64(data), data, g, r)
<1>1. PICK d \in Nat : d = IF r = 0 THEN 4 * g ELSE 4 * g + r + 1
  OBVIOUS
<1>2. Digits(data) = d
  <2>1. Digits(data) = (8 * (3 * g + r) + 5) \div 6
    BY DEF Digits
  <2>2. 8 * (3 * g + r) + 5 = 24 * g + 8 * r + 5
    OBVIOUS
  <2>3. CASE r = 0
    BY <2>1, <2>2, <2>3, <1>1
  <2>4. CASE r = 1
    BY <2>1, <2>2, <2>4, <1>1
  <2>5. CASE r = 2
    BY <2>1, <2>2, <2>5, <1>1
  <2> QED BY <2>3, <2>4, <2>5
<1>3. PICK e \in Nat : e = (4 - (d % 4)) % 4
  OBVIOUS
<1>4. e = IF r = 0 THEN 0 ELSE 3 - r
  <2>1. CASE r = 0
    BY <2>1, <1>1, <1>3
  <2>2. CASE r = 1
    BY <2>2, <1>1, <1>3
  <2>3. CASE r = 2
    BY <2>3, <1>1, <1>3
  <2> QED BY <2>1, <2>2, <2>3
<1>5. PICK x, y : x = [i \in 1..d |-> Digit(data, i)] /\ y = [i \in 1..e |-> "="]
  OBVIOUS
<1>6. Base64(data) = x \o y
  BY <1>2, <1>3, <1>5 DEF Base64
<1>7. \A i \in 1..d : Digit(data, i) \in Int
  BY DigitIsInt
<1>8. x \in Seq(BodySymbols) /\ Len(x) = d /\ \A i \in 1..d : x[i] = Digit(data, i)
  <2>1. \A i \in 1..d : Digit(data, i) \in BodySymbols
    BY <1>7 DEF BodySymbols
  <2> QED BY <1>5, <2>1
<1>9. y \in Seq(BodySymbols) /\ Len(y) = e /\ \A i \in 1..e : y[i] = "="
  BY <1>5 DEF BodySymbols
<1>10. /\ x \o y \in Seq(BodySymbols) /\ Len(x \o y) = d + e
       /\ \A i \in 1..d + e : (x \o y)[i] = IF i <= d THEN x[i] ELSE y[i - d]
  <2>1. x \in Seq(BodySymbols) /\ y \in Seq(BodySymbols) /\ Len(x) = d /\ Len(y) = e
    BY <1>8, <1>9
  <2>2. /\ x \o y \in Seq(BodySymbols) /\ Len(x \o y) = Len(x) + Len(y)
        /\ \A i \in 1..Len(x) + Len(y) : (x \o y)[i] = IF i <= Len(x) THEN x[i] ELSE y[i - Len(x)]
    BY <2>1, ConcatProperties
  <2> QED BY <2>1, <2>2
<1>11. \A i \in 1..d : (x \o y)[i] = Digit(data, i)
  BY <1>8, <1>10
<1>12. \A i \in d + 1..d + e : (x \o y)[i] = "="
  <2> SUFFICES ASSUME NEW i \in d + 1..d + e PROVE (x \o y)[i] = "="
    OBVIOUS
  <2>1. i \in 1..d + e /\ ~(i <= d) /\ i - d \in 1..e
    OBVIOUS
  <2> QED BY <2>1, <1>9, <1>10
<1>13. d + e = IF r = 0 THEN 4 * g ELSE 4 * g + 4
  BY <1>1, <1>4
<1> HIDE DEF BodySymbols
<1> QED BY <1>1, <1>2, <1>6, <1>10, <1>11, <1>12, <1>13 DEF IsBase64

\* Sequences of four, joined.
LEMMA FourEach ==
  ASSUME NEW S, NEW seqs \in Seq(Seq(S)), \A k \in 1..Len(seqs) : Len(seqs[k]) = 4
  PROVE  /\ FlattenSeq(seqs) \in Seq(S) /\ Len(FlattenSeq(seqs)) = 4 * Len(seqs)
         /\ \A k \in 1..Len(seqs) : \A j \in 1..4 :
               FlattenSeq(seqs)[4 * (k - 1) + j] = seqs[k][j]
<1> DEFINE L == Len(seqs)
<1>1. PICK f : Joins(seqs, S, f) /\ FlattenSeq(seqs) = f[L]
  BY FlattenJoins
<1>2. L \in Nat
  BY LenProperties
<1>3. /\ \A k \in 0..L : Len(f[k]) \in Nat
      /\ \A k \in 1..L : Len(f[k]) = Len(f[k - 1]) + Len(seqs[k])
  <2>1. Joins(seqs, S, f) /\ seqs \in Seq(Seq(S))
    BY <1>1
  <2> HIDE DEF L
  <2>2. /\ \A k \in 0..Len(seqs) : Len(f[k]) \in Nat
        /\ \A k \in 1..Len(seqs) : Len(f[k]) = Len(f[k - 1]) + Len(seqs[k])
        /\ \A j, k \in 0..Len(seqs) : j <= k => Len(f[j]) <= Len(f[k])
    BY <2>1, LengthsGrow
  <2> QED BY <2>2 DEF L
<1>4. PICK T : T = {k \in 0..L : Len(f[k]) = 4 * k}
  OBVIOUS
<1>5. T = 0..L
  <2>1. f[0] = <<>>
    BY <1>1 DEF Joins
  <2>2. 0 \in T
    BY <1>2, <1>4, <2>1
  <2>3. ASSUME NEW n \in 0..L, n \in T, n + 1 \in 0..L PROVE n + 1 \in T
    <3>1. n + 1 \in 1..L /\ (n + 1) - 1 = n
      BY <1>2, <2>3
    <3>2. Len(f[n + 1]) = Len(f[n]) + 4
      BY <1>3, <3>1
    <3>3. Len(f[n]) = 4 * n /\ n \in Nat
      BY <1>4, <2>3
    <3>4. Len(f[n + 1]) = 4 * (n + 1)
      BY <3>2, <3>3
    <3> QED BY <1>4, <2>3, <3>4
  <2>4. T \in SUBSET (0..L)
    BY <1>4
  <2> HIDE DEF L
  <2> QED BY <1>2, <2>2, <2>3, <2>4, GoesOn
<1>6. \A k \in 0..L : Len(f[k]) = 4 * k
  BY <1>4, <1>5
<1>7. PICK w : w = FlattenSeq(seqs)
  OBVIOUS
<1>8. w \in Seq(S) /\ Len(w) = 4 * L
  <2>1. w \in Seq(S)
    BY <1>7, FlattenType
  <2>2. L \in 0..L
    BY <1>2
  <2> QED BY <1>1, <1>6, <1>7, <2>1, <2>2
<1>9. ASSUME NEW k \in 1..L, NEW j \in 1..4 PROVE w[4 * (k - 1) + j] = seqs[k][j]
  <2>1. SubSeq(w, Len(f[k - 1]) + 1, Len(f[k])) = seqs[k]
    BY <1>1, <1>7, JoinsLie
  <2>2. PICK a \in Nat : a = 4 * (k - 1) /\ a + 4 <= 4 * L /\ 4 * k = a + 4
    BY <1>2
  <2>3. Len(f[k - 1]) = a /\ Len(f[k]) = a + 4
    <3>1. k - 1 \in 0..L /\ k \in 0..L
      BY <1>2
    <3> QED BY <1>6, <2>2, <3>1
  <2>4. Piece(w, a, a + 4) = seqs[k]
    BY <2>1, <2>3 DEF Piece
  <2>5. \A i \in 1..((a + 4) - a) : Piece(w, a, a + 4)[i] = w[a + i]
    <3>1. PICK b \in Nat : b = a + 4 /\ a <= b /\ b <= Len(w)
      BY <1>8, <2>2
    <3>2. w \in Seq(S)
      BY <1>8
    <3>3. IsPiece(Piece(w, a, b), w, a, b)
      BY <3>1, <3>2, PieceIs
    <3> QED BY <3>1, <3>3 DEF IsPiece
  <2>6. (a + 4) - a = 4
    OBVIOUS
  <2> QED BY <2>2, <2>4, <2>5, <2>6
<1> QED BY <1>7, <1>8, <1>9


\* Whole groups of bytes are encoded as the digits of their places.
LEMMA EncodeIs ==
  ASSUME NEW data \in Seq(0..255), NEW m \in Nat, NEW x \in Nat, 3 * (m + x) <= Len(data)
  PROVE  EncodeFull(Piece(data, 3 * m, 3 * (m + x))) = Piece(Base64(data), 4 * m, 4 * (m + x))
<1>1. PICK part : part = Piece(data, 3 * m, 3 * (m + x))
  OBVIOUS
<1>2. PICK a \in Nat, b \in Nat : a = 3 * m /\ b = 3 * (m + x) /\ a <= b /\ b <= Len(data)
                                     /\ b - a = 3 * x
  OBVIOUS
<1>3. part \in Seq(0..255) /\ IsPiece(part, data, a, b)
  BY <1>1, <1>2, PieceIs
<1>4. Len(part) = 3 * x /\ \A i \in 1..(3 * x) : part[i] = data[a + i]
  BY <1>2, <1>3 DEF IsPiece
<1>5. PICK groups : groups = [g \in 1..x |-> Encoded(part[3 * g - 2], part[3 * g - 1], part[3 * g])]
  OBVIOUS
<1>6. EncodeFull(part) = FlattenSeq(groups)
  <2>1. Len(part) \div 3 = x
    BY <1>4
  <2> QED BY <1>5, <2>1 DEF EncodeFull
<1>7. ASSUME NEW g \in 1..x
      PROVE  groups[g] = <<Digit(data, 4 * (m + g - 1) + 1), Digit(data, 4 * (m + g - 1) + 2),
                           Digit(data, 4 * (m + g - 1) + 3), Digit(data, 4 * (m + g - 1) + 4)>>
  <2>1. PICK n \in Nat : n = m + g - 1
    OBVIOUS
  <2>2. /\ a + (3 * g - 2) = 3 * n + 1 /\ a + (3 * g - 1) = (3 * n + 1) + 1
        /\ a + 3 * g = (3 * n + 2) + 1 /\ 3 * n + 2 < Len(data)
        /\ 3 * g - 2 \in 1..(3 * x) /\ 3 * g - 1 \in 1..(3 * x) /\ 3 * g \in 1..(3 * x)
    <3>1. Len(data) \in Nat
      BY LenProperties
    <3> QED BY <1>2, <2>1, <3>1
  <2>3. /\ part[3 * g - 2] = ByteAt(data, 3 * n) /\ part[3 * g - 1] = ByteAt(data, 3 * n + 1)
        /\ part[3 * g] = ByteAt(data, 3 * n + 2)
    <3>1. Len(data) \in Nat
      BY LenProperties
    <3>2. 3 * n < Len(data) /\ 3 * n + 1 < Len(data)
      BY <2>2, <3>1
    <3>3. /\ part[3 * g - 2] = data[3 * n + 1] /\ part[3 * g - 1] = data[(3 * n + 1) + 1]
          /\ part[3 * g] = data[(3 * n + 2) + 1]
      BY <1>4, <2>2
    <3> QED BY <2>2, <3>2, <3>3 DEF ByteAt
  <2>4. groups[g] = Encoded(ByteAt(data, 3 * n), ByteAt(data, 3 * n + 1), ByteAt(data, 3 * n + 2))
    BY <1>5, <2>3
  <2> QED BY <2>1, <2>4, GroupDigits
<1>9. groups \in Seq(Seq(BodySymbols)) /\ Len(groups) = x /\ \A g \in 1..x : Len(groups[g]) = 4
  <2>1. ASSUME NEW g \in 1..x PROVE groups[g] \in Seq(BodySymbols) /\ Len(groups[g]) = 4
    <3>1. PICK n \in Nat : n = m + g - 1
      OBVIOUS
    <3>2. /\ Digit(data, 4 * n + 1) \in Int /\ Digit(data, 4 * n + 2) \in Int
          /\ Digit(data, 4 * n + 3) \in Int /\ Digit(data, 4 * n + 4) \in Int
      BY DigitIsInt
    <3>3. groups[g] = <<Digit(data, 4 * n + 1), Digit(data, 4 * n + 2),
                        Digit(data, 4 * n + 3), Digit(data, 4 * n + 4)>>
      BY <1>7, <3>1
    <3> QED BY <3>2, <3>3 DEF BodySymbols
  <2> QED BY <1>5, <2>1
<1>10. PICK f : f = FlattenSeq(groups)
  OBVIOUS
<1>11. f \in Seq(BodySymbols) /\ Len(f) = 4 * x
       /\ \A g \in 1..x : \A j \in 1..4 : f[4 * (g - 1) + j] = groups[g][j]
  <2>1. \A g \in 1..Len(groups) : Len(groups[g]) = 4
    BY <1>9
  <2>2. /\ FlattenSeq(groups) \in Seq(BodySymbols) /\ Len(FlattenSeq(groups)) = 4 * Len(groups)
        /\ \A k \in 1..Len(groups) : \A j \in 1..4 :
               FlattenSeq(groups)[4 * (k - 1) + j] = groups[k][j]
    BY <1>9, <2>1, FourEach
  <2> QED BY <1>9, <1>10, <2>2
<1>12. ASSUME NEW i \in 1..(4 * x) PROVE f[i] = Digit(data, 4 * m + i)
  <2>1. PICK g \in 1..x, j \in 1..4 : i = 4 * (g - 1) + j
    <3>1. PICK q \in Nat, j \in 0..3 : i - 1 = 4 * q + j
      <4>1. i - 1 \in Nat /\ (i - 1) \div 4 \in Nat /\ (i - 1) % 4 \in 0..3
            /\ i - 1 = 4 * ((i - 1) \div 4) + ((i - 1) % 4)
        OBVIOUS
      <4> QED BY <4>1
    <3>2. q + 1 \in 1..x /\ j + 1 \in 1..4 /\ i = 4 * ((q + 1) - 1) + (j + 1)
      BY <3>1
    <3> QED BY <3>2
  <2>2. f[i] = groups[g][j]
    BY <1>11, <2>1
  <2>3. groups[g][j] = Digit(data, 4 * (m + g - 1) + j)
    <3>1. PICK n \in Nat : n = m + g - 1
      OBVIOUS
    <3>2. groups[g] = <<Digit(data, 4 * n + 1), Digit(data, 4 * n + 2),
                        Digit(data, 4 * n + 3), Digit(data, 4 * n + 4)>>
      BY <1>7, <3>1
    <3>3. groups[g][j] = Digit(data, 4 * n + j)
      <4>1. CASE j = 1
        BY <3>2, <4>1
      <4>2. CASE j = 2
        BY <3>2, <4>2
      <4>3. CASE j = 3
        BY <3>2, <4>3
      <4>4. CASE j = 4
        BY <3>2, <4>4
      <4> QED BY <4>1, <4>2, <4>3, <4>4
    <3> QED BY <3>1, <3>3
  <2>4. 4 * (m + g - 1) + j = 4 * m + i
    BY <2>1
  <2> QED BY <2>2, <2>3, <2>4
<1>13. PICK h \in Nat, r \in 0..2 : Len(data) = 3 * h + r
  <2>1. Len(data) \in Nat
    BY LenProperties
  <2>2. Len(data) \div 3 \in Nat /\ Len(data) % 3 \in 0..2
        /\ Len(data) = 3 * (Len(data) \div 3) + (Len(data) % 3)
    BY <2>1
  <2> QED BY <2>2
<1>14. PICK w : w = Base64(data)
  OBVIOUS
<1>15. /\ w \in Seq(BodySymbols) /\ Digits(data) = IF r = 0 THEN 4 * h ELSE 4 * h + r + 1
       /\ Len(w) = IF r = 0 THEN 4 * h ELSE 4 * h + 4
       /\ \A i \in 1..Digits(data) : w[i] = Digit(data, i)
  <2>1. w \in Seq(BodySymbols) /\ IsBase64(w, data, h, r)
    BY <1>13, <1>14, Base64Is
  <2> QED BY <2>1 DEF IsBase64
<1>16. m + x <= h
  BY <1>13
<1>17. PICK c \in Nat, d \in Nat : c = 4 * m /\ d = 4 * (m + x) /\ c <= d /\ d <= Len(w)
                                     /\ d - c = 4 * x /\ d <= Digits(data)
  BY <1>15, <1>16
<1>18. Piece(w, c, d) \in Seq(BodySymbols) /\ IsPiece(Piece(w, c, d), w, c, d)
  BY <1>15, <1>17, PieceIs
<1>19. Len(Piece(w, c, d)) = 4 * x /\ \A i \in 1..(4 * x) : Piece(w, c, d)[i] = w[c + i]
  BY <1>17, <1>18 DEF IsPiece
<1>20. \A i \in 1..(4 * x) : w[c + i] = Digit(data, c + i)
  <2> SUFFICES ASSUME NEW i \in 1..(4 * x) PROVE w[c + i] = Digit(data, c + i)
    OBVIOUS
  <2>1. Digits(data) \in Nat
    BY <1>15
  <2>2. c + i \in 1..Digits(data)
    BY <1>17, <2>1
  <2> QED BY <1>15, <2>2
<1>21. \A i \in 1..(4 * x) : f[i] = Piece(w, c, d)[i]
  BY <1>12, <1>17, <1>19, <1>20
<1>22. f = Piece(w, c, d)
  <2>1. PICK p : p = Piece(w, c, d)
    OBVIOUS
  <2>2. f \in Seq(BodySymbols) /\ p \in Seq(BodySymbols) /\ Len(f) = Len(p)
        /\ \A i \in 1..Len(f) : f[i] = p[i]
    BY <1>11, <1>18, <1>19, <1>21, <2>1
  <2>3. f = p
    BY <2>2, SeqEqual
  <2> QED BY <2>1, <2>3
<1> QED BY <1>1, <1>6, <1>10, <1>14, <1>17, <1>22

\* The flushed carry is the last group.
LEMMA FlushedIs ==
  ASSUME NEW data \in Seq(0..255), NEW g \in Nat, NEW r \in 1..2, Len(data) = 3 * g + r
  PROVE  /\ Flushed(Piece(data, 3 * g, Len(data))) = Piece(Base64(data), 4 * g, Len(Base64(data)))
         /\ 4 * g <= Len(Base64(data))
<1>1. PICK rest : rest = Piece(data, 3 * g, Len(data))
  OBVIOUS
<1>2. PICK a \in Nat, b \in Nat : a = 3 * g /\ b = Len(data) /\ a <= b /\ b <= Len(data) /\ b - a = r
  OBVIOUS
<1>3. rest \in Seq(0..255) /\ IsPiece(rest, data, a, b)
  BY <1>1, <1>2, PieceIs
<1>4. Len(rest) = r /\ \A i \in 1..r : rest[i] = data[a + i]
  BY <1>2, <1>3 DEF IsPiece
<1>5. rest[1] = ByteAt(data, 3 * g) /\ rest[1] \in 0..255
  <2>1. 3 * g < Len(data) /\ 3 * g + 1 = a + 1 /\ 1 \in 1..r /\ 3 * g \in Nat
    BY <1>2
  <2>2. rest[1] = ByteAt(data, 3 * g)
    BY <1>4, <2>1 DEF ByteAt
  <2> QED BY <2>1, <2>2, ByteIsByte
<1>6. IF r = 2 THEN rest[2] = ByteAt(data, 3 * g + 1) ELSE ByteAt(data, 3 * g + 1) = 0
  <2>1. CASE r = 2
    <3>1. 3 * g + 1 < Len(data) /\ (3 * g + 1) + 1 = a + 2 /\ 2 \in 1..r
      BY <1>2, <2>1
    <3> QED BY <1>4, <2>1, <3>1 DEF ByteAt
  <2>2. CASE r = 1
    <3>1. ~(3 * g + 1 < Len(data))
      BY <2>2
    <3> QED BY <2>2, <3>1 DEF ByteAt
  <2> QED BY <2>1, <2>2
<1>7. ByteAt(data, 3 * g + 1) \in 0..255 /\ ByteAt(data, 3 * g + 2) = 0
  <2>1. ~(3 * g + 2 < Len(data)) /\ 3 * g + 1 \in Nat
    OBVIOUS
  <2> QED BY <2>1, ByteIsByte DEF ByteAt
<1>8. PICK b0 \in 0..255, b1 \in 0..255 : b0 = rest[1] /\ b1 = ByteAt(data, 3 * g + 1)
  BY <1>5, <1>7
<1>9. /\ Digit(data, 4 * g + 1) = b0 \div 4 /\ Digit(data, 4 * g + 2) = (b0 % 4) * 16 + b1 \div 16
      /\ Digit(data, 4 * g + 3) = (b1 % 16) * 4
  <2>1. <<Digit(data, 4 * g + 1), Digit(data, 4 * g + 2), Digit(data, 4 * g + 3),
          Digit(data, 4 * g + 4)>> = Encoded(b0, b1, 0)
    BY <1>5, <1>7, <1>8, GroupDigits
  <2>2. /\ Digit(data, 4 * g + 1) = b0 \div 4
        /\ Digit(data, 4 * g + 2) = (b0 % 4) * 16 + b1 \div 16
        /\ Digit(data, 4 * g + 3) = (b1 % 16) * 4 + 0 \div 64
    BY <2>1 DEF Encoded
  <2>3. 0 \div 64 = 0 /\ (b1 % 16) * 4 \in Int
    OBVIOUS
  <2>4. (b1 % 16) * 4 + 0 \div 64 = (b1 % 16) * 4
    BY <2>3
  <2> QED BY <2>2, <2>4
<1>10. PICK w : w = Base64(data)
  OBVIOUS
<1>11. /\ w \in Seq(BodySymbols) /\ Digits(data) = 4 * g + r + 1 /\ Len(w) = 4 * g + 4
       /\ \A i \in 1..Digits(data) : w[i] = Digit(data, i)
       /\ \A i \in Digits(data) + 1..Len(w) : w[i] = "="
  <2>1. r \in 0..2 /\ r # 0
    OBVIOUS
  <2>2. w \in Seq(BodySymbols) /\ IsBase64(w, data, g, r)
    BY <2>1, <1>10, Base64Is
  <2> QED BY <2>1, <2>2 DEF IsBase64
<1>12. PICK c \in Nat, d \in Nat : c = 4 * g /\ d = Len(w) /\ c <= d /\ d <= Len(w) /\ d - c = 4
  BY <1>11
<1>13. PICK p : p = Piece(w, c, d)
  OBVIOUS
<1>14. p \in Seq(BodySymbols) /\ IsPiece(p, w, c, d)
  BY <1>11, <1>12, <1>13, PieceIs
<1>15. Len(p) = 4 /\ \A i \in 1..4 : p[i] = w[c + i]
  BY <1>12, <1>14 DEF IsPiece
<1>16. p[1] = w[4 * g + 1] /\ p[2] = w[4 * g + 2] /\ p[3] = w[4 * g + 3] /\ p[4] = w[4 * g + 4]
  BY <1>12, <1>15
<1>17. w[4 * g + 1] = Digit(data, 4 * g + 1) /\ w[4 * g + 2] = Digit(data, 4 * g + 2)
       /\ w[4 * g + 3] = (IF r = 2 THEN Digit(data, 4 * g + 3) ELSE "=") /\ w[4 * g + 4] = "="
  <2>1. 4 * g + 1 \in 1..Digits(data) /\ 4 * g + 2 \in 1..Digits(data)
        /\ 4 * g + 4 \in Digits(data) + 1..Len(w)
    BY <1>11
  <2>2. CASE r = 2
    <3>1. 4 * g + 3 \in 1..Digits(data)
      BY <1>11, <2>2
    <3> QED BY <1>11, <2>1, <2>2, <3>1
  <2>3. CASE r = 1
    <3>1. 4 * g + 3 \in Digits(data) + 1..Len(w)
      BY <1>11, <2>3
    <3> QED BY <1>11, <2>1, <2>3, <3>1
  <2> QED BY <2>2, <2>3
<1>18. p = <<p[1], p[2], p[3], p[4]>>
  BY <1>14, <1>15
<1>19. Flushed(rest) = p
  <2>0. rest # <<>>
    BY <1>4
  <2>1. CASE r = 1
    <3>1. b1 = 0
      BY <1>6, <1>8, <2>1
    <3>2. 0 \div 16 = 0 /\ (b0 % 4) * 16 + 0 = (b0 % 4) * 16
      OBVIOUS
    <3>3. p = <<b0 \div 4, (b0 % 4) * 16, "=", "=">>
      BY <1>9, <1>16, <1>17, <1>18, <2>1, <3>1, <3>2
    <3>4. Flushed(rest) = <<b0 \div 4, (b0 % 4) * 16, "=", "=">>
      BY <1>4, <1>8, <2>0, <2>1 DEF Flushed, LastDigit
    <3> QED BY <3>3, <3>4
  <2>2. CASE r = 2
    <3>1. b1 = rest[2]
      BY <1>6, <1>8, <2>2
    <3>2. p = <<b0 \div 4, (b0 % 4) * 16 + b1 \div 16, (b1 % 16) * 4, "=">>
      BY <1>9, <1>16, <1>17, <1>18, <2>2
    <3>3. Flushed(rest) = <<b0 \div 4, (b0 % 4) * 16 + b1 \div 16, (b1 % 16) * 4, "=">>
      BY <1>4, <1>8, <2>0, <2>2, <3>1 DEF Flushed
    <3> QED BY <3>2, <3>3
  <2> QED BY <2>1, <2>2
<1> QED BY <1>1, <1>10, <1>12, <1>13, <1>19


\* The bytes of a recording's first n chunks, and of all.
FirstChunks(r, n) == FlattenSeq(SubSeq(r, 1, n))
RecordingBytes(r) == FlattenSeq(r)

\* What p chunks leave over when m groups are sent.
AtGroup(r, p, c, b, m) ==
  /\ 3 * m <= Len(FirstChunks(r, p)) /\ Len(FirstChunks(r, p)) - 3 * m <= 2
  /\ c = Piece(RecordingBytes(r), 3 * m, Len(FirstChunks(r, p)))
  /\ b = <<"head", "prefix">> \o Piece(Base64(RecordingBytes(r)), 0, 4 * m)

\* A recording's groups that are full are on their way, and the encoder holds the bytes
\* behind them.
VoiceInv ==
  /\ recording \in Recordings /\ byTool \in BOOLEAN /\ pulled \in 0..Len(recording)
  /\ audioAt \in {"head", "prefix", "audio", "raised", "tail", "done"}
  /\ heard \in {"none", "failed", "silence", "words"}
  /\ audioAt \in {"head", "prefix"} => pulled = 0 /\ carry = <<>>
  /\ audioAt = "head" => body = <<>>
  /\ audioAt = "prefix" => body = <<"head">>
  /\ audioAt \in {"audio", "raised"} => \E m \in Nat : AtGroup(recording, pulled, carry, body, m)
  /\ audioAt = "tail" => body = <<"head", "prefix">> \o Base64(RecordingBytes(recording))
  /\ audioAt = "done" => body = <<"head", "prefix">> \o Base64(RecordingBytes(recording)) \o <<"tail">>
  /\ heard \in {"silence", "words"} => audioAt = "done"
  /\ passed = "published" => heard \in {"words", "failed"}

\* s and t lie at the beginning of w, one behind the other.
JoinedIn(w, s, t) ==
  /\ Len(s) + Len(t) <= Len(w)
  /\ s = Piece(w, 0, Len(s)) /\ t = Piece(w, Len(s), Len(s) + Len(t))

\* What is joined lies in the whole.
LEMMA JoinedLie ==
  ASSUME NEW S, NEW s \in Seq(S), NEW t \in Seq(S), NEW u \in Seq(S), NEW w, w = (s \o t) \o u
  PROVE  JoinedIn(w, s, t)
<1>1. PICK a \in Nat, b \in Nat, c \in Nat : a = Len(s) /\ b = Len(t) /\ c = Len(u)
  BY LenProperties
<1>2. PICK v : v = s \o t
  OBVIOUS
<1>3. v \in Seq(S) /\ Len(v) = a + b
      /\ \A i \in 1..a + b : v[i] = IF i <= a THEN s[i] ELSE t[i - a]
  BY <1>1, <1>2, ConcatProperties
<1>4. w \in Seq(S) /\ Len(w) = (a + b) + c
      /\ \A i \in 1..(a + b) + c : w[i] = IF i <= a + b THEN v[i] ELSE u[i - (a + b)]
  <2>1. w = v \o u
    BY <1>2
  <2>2. /\ v \o u \in Seq(S) /\ Len(v \o u) = Len(v) + Len(u)
        /\ \A i \in 1..Len(v) + Len(u) : (v \o u)[i] = IF i <= Len(v) THEN v[i] ELSE u[i - Len(v)]
    BY <1>3, ConcatProperties
  <2> QED BY <1>1, <1>3, <2>1, <2>2
<1>5. PICK p, q : p = Piece(w, 0, a) /\ q = Piece(w, a, a + b)
  OBVIOUS
<1>6. /\ p \in Seq(S) /\ IsPiece(p, w, 0, a) /\ q \in Seq(S) /\ IsPiece(q, w, a, a + b)
  <2>1. 0 \in Nat /\ a + b \in Nat /\ 0 <= a /\ a <= a + b /\ a <= Len(w) /\ a + b <= Len(w)
    BY <1>4
  <2>2. p \in Seq(S) /\ IsPiece(p, w, 0, a)
    BY <1>4, <1>5, <2>1, PieceIs
  <2>3. q \in Seq(S) /\ IsPiece(q, w, a, a + b)
    BY <1>4, <1>5, <2>1, PieceIs
  <2> QED BY <2>2, <2>3
<1>7. s = p
  <2>1. Len(p) = a /\ \A i \in 1..a : p[i] = w[0 + i]
    <3>1. a - 0 = a
      OBVIOUS
    <3>2. Len(p) = a - 0 /\ \A i \in 1..(a - 0) : p[i] = w[0 + i]
      BY <1>6 DEF IsPiece
    <3> QED BY <3>1, <3>2
  <2>2. \A i \in 1..a : w[0 + i] = s[i]
    <3> SUFFICES ASSUME NEW i \in 1..a PROVE w[0 + i] = s[i]
      OBVIOUS
    <3>1. 0 + i = i /\ i \in 1..a + b /\ i \in 1..(a + b) + c /\ i <= a + b /\ i <= a
      OBVIOUS
    <3> QED BY <1>3, <1>4, <3>1
  <2>3. Len(s) = Len(p) /\ \A i \in 1..Len(s) : s[i] = p[i]
    BY <1>1, <2>1, <2>2
  <2> QED BY <1>6, <2>3, SeqEqual
<1>8. t = q
  <2>1. Len(q) = b /\ \A i \in 1..b : q[i] = w[a + i]
    <3>1. (a + b) - a = b
      OBVIOUS
    <3>2. Len(q) = (a + b) - a /\ \A i \in 1..((a + b) - a) : q[i] = w[a + i]
      BY <1>6 DEF IsPiece
    <3> QED BY <3>1, <3>2
  <2>2. \A i \in 1..b : w[a + i] = t[i]
    <3> SUFFICES ASSUME NEW i \in 1..b PROVE w[a + i] = t[i]
      OBVIOUS
    <3>1. a + i \in 1..(a + b) + c /\ a + i <= a + b /\ ~(a + i <= a) /\ (a + i) - a = i
          /\ a + i \in 1..a + b
      OBVIOUS
    <3>2. w[a + i] = v[a + i] /\ v[a + i] = t[(a + i) - a]
      BY <1>3, <1>4, <3>1
    <3> QED BY <3>1, <3>2
  <2>3. Len(t) = Len(q) /\ \A i \in 1..Len(t) : t[i] = q[i]
    BY <1>1, <2>1, <2>2
  <2> QED BY <1>6, <2>3, SeqEqual
<1>10. a + b <= Len(w)
  BY <1>4
<1> QED BY <1>1, <1>4, <1>5, <1>7, <1>8, <1>10 DEF JoinedIn

\* More chunks are more bytes behind those of the first p.
LEMMA MoreChunks ==
  ASSUME NEW r \in Seq(Seq(0..255)), NEW p \in Nat, NEW n \in Nat, p <= n, n <= Len(r)
  PROVE  /\ RecordingBytes(r) \in Seq(0..255) /\ FirstChunks(r, p) \in Seq(0..255)
         /\ Len(FirstChunks(r, p)) <= Len(FirstChunks(r, n))
         /\ Len(FirstChunks(r, n)) <= Len(RecordingBytes(r))
         /\ FirstChunks(r, n) \in Seq(0..255)
         /\ FlattenSeq(SubSeq(r, p + 1, n)) =
              Piece(RecordingBytes(r), Len(FirstChunks(r, p)), Len(FirstChunks(r, n)))
<1>1. Len(r) \in Nat
  BY LenProperties
<1>2. PICK a, b, c, d : /\ a = SubSeq(r, 1, p) /\ b = SubSeq(r, p + 1, n)
                        /\ c = SubSeq(r, n + 1, Len(r)) /\ d = SubSeq(r, 1, n)
  OBVIOUS
<1>3. a \in Seq(Seq(0..255)) /\ b \in Seq(Seq(0..255)) /\ c \in Seq(Seq(0..255))
      /\ d \in Seq(Seq(0..255))
  <2>1. /\ a = Piece(r, 0, p) /\ b = Piece(r, p, n) /\ c = Piece(r, n, Len(r)) /\ d = Piece(r, 0, n)
    BY <1>2 DEF Piece
  <2>2. 0 \in Nat /\ 0 <= p /\ p <= Len(r) /\ 0 <= n /\ Len(r) <= Len(r)
    BY <1>1
  <2>3. Piece(r, 0, p) \in Seq(Seq(0..255))
    BY <2>2, PieceIs
  <2>4. Piece(r, p, n) \in Seq(Seq(0..255))
    BY <2>2, PieceIs
  <2>5. Piece(r, n, Len(r)) \in Seq(Seq(0..255))
    BY <1>1, <2>2, PieceIs
  <2>6. Piece(r, 0, n) \in Seq(Seq(0..255))
    BY <2>2, PieceIs
  <2> QED BY <2>1, <2>3, <2>4, <2>5, <2>6
<1>4. a \o b = d
  <2>1. 0 \in Nat /\ 0 <= p /\ p <= n /\ n <= Len(r)
    OBVIOUS
  <2>2. Piece(r, 0, p) \o Piece(r, p, n) = Piece(r, 0, n)
    BY <2>1, PiecesJoin
  <2>3. 0 + 1 = 1
    OBVIOUS
  <2>4. SubSeq(r, 0 + 1, p) \o SubSeq(r, p + 1, n) = SubSeq(r, 0 + 1, n)
    BY <2>2 DEF Piece
  <2> QED BY <1>2, <2>3, <2>4
<1>5. d \o c = r
  <2>1. 0 \in Nat /\ 0 <= n /\ n <= Len(r) /\ Len(r) <= Len(r)
    BY <1>1
  <2>2. Piece(r, 0, n) \o Piece(r, n, Len(r)) = Piece(r, 0, Len(r))
    BY <1>1, <2>1, PiecesJoin
  <2>3. SubSeq(r, 1, Len(r)) = r
    BY SubSeqFull
  <2>4. 0 + 1 = 1
    OBVIOUS
  <2>5. SubSeq(r, 0 + 1, n) \o SubSeq(r, n + 1, Len(r)) = SubSeq(r, 0 + 1, Len(r))
    BY <2>2 DEF Piece
  <2> QED BY <1>2, <2>3, <2>4, <2>5
<1>6. PICK fa, fb, fc : fa = FlattenSeq(a) /\ fb = FlattenSeq(b) /\ fc = FlattenSeq(c)
  OBVIOUS
<1>7. fa \in Seq(0..255) /\ fb \in Seq(0..255) /\ fc \in Seq(0..255)
  BY <1>3, <1>6, FlattenType
<1>8. FlattenSeq(d) = fa \o fb
  <2>1. FlattenSeq(a \o b) = FlattenSeq(a) \o FlattenSeq(b)
    <3>1. a \in Seq(Seq(0..255)) /\ b \in Seq(Seq(0..255))
      BY <1>3
    <3> QED BY <3>1, FlattenConcat
  <2> QED BY <1>4, <1>6, <2>1
<1>9. FlattenSeq(r) = (fa \o fb) \o fc
  <2>1. FlattenSeq(d \o c) = FlattenSeq(d) \o FlattenSeq(c)
    <3>1. d \in Seq(Seq(0..255)) /\ c \in Seq(Seq(0..255))
      BY <1>3
    <3> QED BY <3>1, FlattenConcat
  <2> QED BY <1>5, <1>6, <1>8, <2>1
<1>10. PICK w : w = FlattenSeq(r)
  OBVIOUS
<1>11. /\ w \in Seq(0..255) /\ Len(fa) + Len(fb) <= Len(w)
       /\ fb = Piece(w, Len(fa), Len(fa) + Len(fb))
  <2>1. w = (fa \o fb) \o fc
    BY <1>9, <1>10
  <2>2. JoinedIn(w, fa, fb)
    BY <1>7, <2>1, JoinedLie
  <2>3. w \in Seq(0..255)
    BY <1>10, FlattenType
  <2> QED BY <2>2, <2>3 DEF JoinedIn
<1>12. PICK e : e = fa \o fb
  OBVIOUS
<1>13. e \in Seq(0..255) /\ Len(e) = Len(fa) + Len(fb)
  BY <1>7, <1>12, ConcatProperties
<1>14. Len(fa) \in Nat /\ Len(fb) \in Nat
  BY <1>7, LenProperties
<1>15. FirstChunks(r, p) = fa /\ FirstChunks(r, n) = e /\ RecordingBytes(r) = w
       /\ FlattenSeq(SubSeq(r, p + 1, n)) = fb
  BY <1>2, <1>6, <1>8, <1>10, <1>12 DEF FirstChunks, RecordingBytes
<1>16. Len(fa) <= Len(e)
  BY <1>13, <1>14
<1> QED BY <1>7, <1>11, <1>13, <1>15, <1>16

\* What is joined to the bytes from a on up to the end of p chunks, up to that of n.
BytesJoin(r, p, n, a) ==
  Piece(RecordingBytes(r), a, Len(FirstChunks(r, p))) \o FlattenSeq(SubSeq(r, p + 1, n)) =
    Piece(RecordingBytes(r), a, Len(FirstChunks(r, n)))

\* The data at hand are the bytes behind the groups sent.
LEMMA GatheredIs ==
  ASSUME NEW r \in Seq(Seq(0..255)), NEW p \in Nat, NEW n \in Nat, p <= n, n <= Len(r),
         NEW a \in Nat, a <= Len(FirstChunks(r, p))
  PROVE  BytesJoin(r, p, n, a)
<1>1. /\ RecordingBytes(r) \in Seq(0..255) /\ FirstChunks(r, p) \in Seq(0..255)
      /\ Len(FirstChunks(r, p)) <= Len(FirstChunks(r, n))
      /\ Len(FirstChunks(r, n)) <= Len(RecordingBytes(r))
      /\ FirstChunks(r, n) \in Seq(0..255)
      /\ FlattenSeq(SubSeq(r, p + 1, n)) =
           Piece(RecordingBytes(r), Len(FirstChunks(r, p)), Len(FirstChunks(r, n)))
  BY MoreChunks
<1>2. PICK b \in Nat, c \in Nat : b = Len(FirstChunks(r, p)) /\ c = Len(FirstChunks(r, n))
  BY <1>1, LenProperties
<1>3. Piece(RecordingBytes(r), a, b) \o Piece(RecordingBytes(r), b, c) = Piece(RecordingBytes(r), a, c)
  <2>1. RecordingBytes(r) \in Seq(0..255) /\ a <= b /\ b <= c /\ c <= Len(RecordingBytes(r))
    BY <1>1, <1>2
  <2> QED BY <2>1, PiecesJoin
<1> QED BY <1>1, <1>2, <1>3 DEF BytesJoin

\* Pieces of pieces.
LEMMA PieceOfPiece ==
  ASSUME NEW S, NEW s \in Seq(S), NEW a \in Nat, NEW b \in Nat, NEW x \in Nat, NEW y \in Nat,
         x <= y, a + y <= b, b <= Len(s)
  PROVE  Piece(Piece(s, a, b), x, y) = Piece(s, a + x, a + y)
<1>1. PICK p : p = Piece(s, a, b)
  OBVIOUS
<1>2. p \in Seq(S) /\ IsPiece(p, s, a, b)
  <2>1. a <= b
    OBVIOUS
  <2> QED BY <1>1, <2>1, PieceIs
<1>3. Len(p) = b - a /\ \A i \in 1..(b - a) : p[i] = s[a + i]
  BY <1>2 DEF IsPiece
<1>4. PICK q : q = Piece(p, x, y)
  OBVIOUS
<1>5. q \in Seq(S) /\ IsPiece(q, p, x, y)
  <2>1. y <= Len(p)
    BY <1>3
  <2> QED BY <1>2, <1>4, <2>1, PieceIs
<1>6. Len(q) = y - x /\ \A i \in 1..(y - x) : q[i] = p[x + i]
  BY <1>5 DEF IsPiece
<1>7. PICK c \in Nat, d \in Nat : c = a + x /\ d = a + y /\ c <= d /\ d <= Len(s) /\ d - c = y - x
  <2>1. Len(s) \in Nat
    BY LenProperties
  <2> QED BY <2>1
<1>8. PICK t : t = Piece(s, c, d)
  OBVIOUS
<1>9. t \in Seq(S) /\ IsPiece(t, s, c, d)
  BY <1>7, <1>8, PieceIs
<1>10. Len(t) = y - x /\ \A i \in 1..(y - x) : t[i] = s[c + i]
  BY <1>7, <1>9 DEF IsPiece
<1>11. \A i \in 1..(y - x) : q[i] = t[i]
  <2> SUFFICES ASSUME NEW i \in 1..(y - x) PROVE q[i] = t[i]
    OBVIOUS
  <2>1. x + i \in 1..(b - a) /\ a + (x + i) = c + i
    BY <1>7
  <2>2. p[x + i] = s[a + (x + i)]
    BY <1>3, <2>1
  <2> QED BY <1>6, <1>10, <2>1, <2>2
<1>12. q = t
  <2>1. Len(q) = Len(t) /\ \A i \in 1..Len(q) : q[i] = t[i]
    BY <1>6, <1>10, <1>11
  <2> QED BY <1>5, <1>9, <2>1, SeqEqual
<1> QED BY <1>1, <1>4, <1>7, <1>8, <1>12


\* The groups at hand and what is carried on, when what is at hand begins with group m.
GroupsCut(data, m, v, x) ==
  /\ 3 * (m + x) <= v /\ v - 3 * (m + x) <= 2
  /\ WholeGroups(Piece(data, 3 * m, v)) = Piece(data, 3 * m, 3 * (m + x))
  /\ Remainder(Piece(data, 3 * m, v)) = Piece(data, 3 * (m + x), v)

\* What is at hand is cut into whole groups and fewer than three bytes.
LEMMA GroupsOfPiece ==
  ASSUME NEW data \in Seq(0..255), NEW m \in Nat, NEW v \in Nat, 3 * m <= v, v <= Len(data)
  PROVE  \E x \in Nat : GroupsCut(data, m, v, x)
<1>1. PICK a \in Nat : a = 3 * m /\ a <= v
  OBVIOUS
<1>2. PICK now : now = Piece(data, a, v)
  OBVIOUS
<1>3. Len(now) = v - a
  <2>1. IsPiece(Piece(data, a, v), data, a, v)
    BY <1>1, PieceIs
  <2> QED BY <1>2, <2>1 DEF IsPiece
<1>4. PICK x \in Nat, y \in 0..2 : v - a = 3 * x + y /\ (v - a) \div 3 = x
  <2>1. PICK z \in Nat : z = v - a
    BY <1>1
  <2>2. z \div 3 \in Nat /\ z % 3 \in 0..2 /\ z = 3 * (z \div 3) + (z % 3)
    OBVIOUS
  <2> QED BY <2>1, <2>2
<1>5. PICK s \in Nat, d \in Nat, e \in Nat :
        /\ s = 3 * x /\ d = 3 * (m + x) /\ e = v - a
        /\ a + s = d /\ d <= v /\ v - d = y /\ s <= e /\ a + e = v
  BY <1>1, <1>4
<1>6. WholeGroups(now) = Piece(data, a, d)
  <2>1. WholeGroups(now) = SubSeq(now, 1, x * 3)
    BY <1>3, <1>4 DEF WholeGroups
  <2>2. WholeGroups(now) = Piece(now, 0, s)
    <3>1. 0 + 1 = 1 /\ x * 3 = s
      BY <1>5
    <3> QED BY <2>1, <3>1 DEF Piece
  <2>3. Piece(Piece(data, a, v), 0, s) = Piece(data, a + 0, a + s)
    <3>1. 0 \in Nat /\ 0 <= s /\ a + s <= v
      BY <1>5
    <3> QED BY <3>1, PieceOfPiece
  <2>4. a + 0 = a
    OBVIOUS
  <2> QED BY <1>2, <1>5, <2>2, <2>3, <2>4
<1>7. Remainder(now) = Piece(data, d, v)
  <2>1. Remainder(now) = SubSeq(now, x * 3 + 1, v - a)
    BY <1>3, <1>4 DEF Remainder
  <2>2. Remainder(now) = Piece(now, s, e)
    <3>1. x * 3 = s
      BY <1>5
    <3> QED BY <2>1, <1>5, <3>1 DEF Piece
  <2>3. Piece(Piece(data, a, v), s, e) = Piece(data, a + s, a + e)
    <3>1. s <= e /\ a + e <= v
      BY <1>5
    <3> QED BY <3>1, PieceOfPiece
  <2> QED BY <1>2, <1>5, <2>2, <2>3
<1>8. 3 * (m + x) <= v /\ v - 3 * (m + x) <= 2
  BY <1>5
<1>9. GroupsCut(data, m, v, x)
  BY <1>1, <1>2, <1>5, <1>6, <1>7, <1>8 DEF GroupsCut
<1> QED BY <1>9

\* The front of the envelope and the digits so far, with more digits.
LEMMA FrontJoins ==
  ASSUME NEW w \in Seq(BodySymbols), NEW i \in Nat, NEW j \in Nat, i <= j, j <= Len(w)
  PROVE  (<<"head", "prefix">> \o Piece(w, 0, i)) \o Piece(w, i, j) =
            <<"head", "prefix">> \o Piece(w, 0, j)
<1>1. PICK f, q, t : f = <<"head", "prefix">> /\ q = Piece(w, 0, i) /\ t = Piece(w, i, j)
  OBVIOUS
<1>2. f \in Seq(BodySymbols)
  BY <1>1 DEF BodySymbols
<1>3. 0 \in Nat /\ 0 <= i /\ i <= Len(w)
  BY LenProperties
<1>4. Piece(w, 0, i) \in Seq(BodySymbols)
  BY <1>3, PieceIs
<1>5. Piece(w, i, j) \in Seq(BodySymbols)
  BY PieceIs
<1>6. f \in Seq(BodySymbols) /\ q \in Seq(BodySymbols) /\ t \in Seq(BodySymbols)
  BY <1>1, <1>2, <1>4, <1>5
<1>7. (f \o q) \o t = f \o (q \o t)
  <2>1. PICK d, e, x, y : Concats(d, f, q) /\ Concats(e, q, t) /\ Concats(x, d, t) /\ Concats(y, f, e)
    BY DEF Concats
  <2>2. x = y
    BY <1>6, <2>1, ConcatGrouped
  <2> QED BY <2>1, <2>2 DEF Concats
<1>8. Piece(w, 0, i) \o Piece(w, i, j) = Piece(w, 0, j)
  BY <1>3, PiecesJoin
<1> QED BY <1>1, <1>7, <1>8

\* Base64 text of data.
LEMMA Base64Long ==
  ASSUME NEW data \in Seq(0..255), NEW k \in Nat, 3 * k <= Len(data)
  PROVE  Base64(data) \in Seq(BodySymbols) /\ 4 * k <= Len(Base64(data))
<1>1. PICK h \in Nat, t \in 0..2 : Len(data) = 3 * h + t
  <2>1. PICK L \in Nat : L = Len(data)
    BY LenProperties
  <2>2. L \div 3 \in Nat /\ L % 3 \in 0..2 /\ L = 3 * (L \div 3) + (L % 3)
    OBVIOUS
  <2> QED BY <2>1, <2>2
<1>2. Base64(data) \in Seq(BodySymbols) /\ IsBase64(Base64(data), data, h, t)
  BY <1>1, Base64Is
<1>3. Len(Base64(data)) = IF t = 0 THEN 4 * h ELSE 4 * h + 4
  BY <1>2 DEF IsBase64
<1>4. k <= h
  BY <1>1
<1> QED BY <1>2, <1>3, <1>4

\* What is left of the data behind group m is the end of its base64.
LEMMA RestOfPiece ==
  ASSUME NEW data \in Seq(0..255), NEW m \in Nat, NEW t \in 0..2, Len(data) = 3 * m + t
  PROVE  /\ t = 0 => Piece(Base64(data), 0, 4 * m) = Base64(data)
         /\ t # 0 => (<<"head", "prefix">> \o Piece(Base64(data), 0, 4 * m))
                        \o Flushed(Piece(data, 3 * m, Len(data))) =
                     <<"head", "prefix">> \o Base64(data)
<1>1. PICK w : w = Base64(data)
  OBVIOUS
<1>2. w \in Seq(BodySymbols) /\ IsBase64(w, data, m, t)
  BY <1>1, Base64Is
<1>3. Len(w) = IF t = 0 THEN 4 * m ELSE 4 * m + 4
  BY <1>2 DEF IsBase64
<1>4. Piece(w, 0, Len(w)) = w
  <2>1. SubSeq(w, 1, Len(w)) = w
    BY <1>2, SubSeqFull
  <2>2. 0 + 1 = 1
    OBVIOUS
  <2> QED BY <2>1, <2>2 DEF Piece
<1>5. ASSUME t = 0 PROVE Piece(w, 0, 4 * m) = w
  BY <1>3, <1>4, <1>5
<1>6. ASSUME t # 0
      PROVE  (<<"head", "prefix">> \o Piece(w, 0, 4 * m)) \o Flushed(Piece(data, 3 * m, Len(data))) =
             <<"head", "prefix">> \o w
  <2>1. t \in 1..2
    BY <1>6
  <2>2. PICK i \in Nat, j \in Nat : i = 4 * m /\ j = Len(w) /\ i <= j /\ j <= Len(w)
    <3>1. Len(w) = 4 * m + 4
      BY <1>3, <1>6
    <3>2. 4 * m \in Nat /\ 4 * m + 4 \in Nat /\ 4 * m <= 4 * m + 4 /\ 4 * m + 4 <= 4 * m + 4
      OBVIOUS
    <3> QED BY <3>1, <3>2
  <2>3. Flushed(Piece(data, 3 * m, Len(data))) = Piece(Base64(data), 4 * m, Len(Base64(data)))
    BY <2>1, FlushedIs
  <2>4. Flushed(Piece(data, 3 * m, Len(data))) = Piece(w, i, j)
    BY <1>1, <2>2, <2>3
  <2>5. w \in Seq(BodySymbols)
    BY <1>2
  <2>6. (<<"head", "prefix">> \o Piece(w, 0, i)) \o Piece(w, i, j) =
           <<"head", "prefix">> \o Piece(w, 0, j)
    BY <2>2, <2>5, FrontJoins
  <2> QED BY <1>4, <2>2, <2>4, <2>6
<1> QED BY <1>1, <1>5, <1>6


PieceType(s, a, b) == Piece(s, a, b) \in Seq(0..255)

\* The pulled chunks yield the digits of the groups they fill; the rest is carried on.
LEMMA ChunksEncoded ==
  ASSUME NEW r \in Seq(Seq(0..255)), NEW p \in Nat, NEW n \in Nat, p <= n, n <= Len(r),
         NEW c, NEW b, NEW m \in Nat, AtGroup(r, p, c, b, m),
         NEW now, now = c \o FlattenSeq(SubSeq(r, p + 1, n))
  PROVE  \E k \in Nat : AtGroup(r, n, Remainder(now), b \o EncodeFull(WholeGroups(now)), k)
<1>1. /\ RecordingBytes(r) \in Seq(0..255) /\ FirstChunks(r, p) \in Seq(0..255)
      /\ Len(FirstChunks(r, p)) <= Len(FirstChunks(r, n))
      /\ Len(FirstChunks(r, n)) <= Len(RecordingBytes(r))
      /\ FirstChunks(r, n) \in Seq(0..255)
  BY MoreChunks
<1>2. PICK data \in Seq(0..255), u \in Nat, v \in Nat :
        data = RecordingBytes(r) /\ u = Len(FirstChunks(r, p)) /\ v = Len(FirstChunks(r, n))
  BY <1>1, LenProperties
<1>3. u <= v /\ v <= Len(data)
  BY <1>1, <1>2
<1>4. /\ 3 * m <= u /\ c = Piece(data, 3 * m, u)
      /\ b = <<"head", "prefix">> \o Piece(Base64(data), 0, 4 * m)
  BY <1>2 DEF AtGroup
<1>5. now = Piece(data, 3 * m, v)
  <2>1. PICK a \in Nat : a = 3 * m
    OBVIOUS
  <2>2. a <= Len(FirstChunks(r, p))
    BY <1>2, <1>4, <2>1
  <2>3. BytesJoin(r, p, n, a)
    BY <2>2, GatheredIs
  <2> QED BY <1>2, <1>4, <2>1, <2>3 DEF BytesJoin
<1>6. 3 * m <= v
  BY <1>3, <1>4
<1>7. PICK x \in Nat : GroupsCut(data, m, v, x)
  BY <1>3, <1>6, GroupsOfPiece
<1>8. /\ 3 * (m + x) <= v /\ v - 3 * (m + x) <= 2
      /\ WholeGroups(now) = Piece(data, 3 * m, 3 * (m + x))
      /\ Remainder(now) = Piece(data, 3 * (m + x), v)
  BY <1>5, <1>7 DEF GroupsCut
<1>9. 3 * (m + x) <= Len(data)
  <2>1. Len(data) \in Nat
    BY LenProperties
  <2> QED BY <1>3, <1>8, <2>1
<1>10. EncodeFull(WholeGroups(now)) = Piece(Base64(data), 4 * m, 4 * (m + x))
  <2>1. EncodeFull(Piece(data, 3 * m, 3 * (m + x))) = Piece(Base64(data), 4 * m, 4 * (m + x))
    BY <1>9, EncodeIs
  <2> QED BY <1>8, <2>1
<1>11. PICK w \in Seq(BodySymbols) : w = Base64(data) /\ 4 * (m + x) <= Len(w)
  <2>1. m + x \in Nat
    OBVIOUS
  <2>2. Base64(data) \in Seq(BodySymbols) /\ 4 * (m + x) <= Len(Base64(data))
    BY <1>9, <2>1, Base64Long
  <2> QED BY <2>2
<1>12. PICK i \in Nat, j \in Nat : i = 4 * m /\ j = 4 * (m + x) /\ i <= j /\ j <= Len(w)
  BY <1>11
<1>13. b \o EncodeFull(WholeGroups(now)) = <<"head", "prefix">> \o Piece(w, 0, j)
  <2>1. (<<"head", "prefix">> \o Piece(w, 0, i)) \o Piece(w, i, j) =
           <<"head", "prefix">> \o Piece(w, 0, j)
    BY <1>12, FrontJoins
  <2> QED BY <1>4, <1>10, <1>11, <1>12, <2>1
<1>14. AtGroup(r, n, Remainder(now), b \o EncodeFull(WholeGroups(now)), m + x)
  BY <1>2, <1>8, <1>11, <1>12, <1>13 DEF AtGroup
<1> QED BY <1>14

\* What is left at the end is the last digits, or nothing.
AllSent(r, b, now) ==
  /\ now = <<>> => b = <<"head", "prefix">> \o Base64(RecordingBytes(r))
  /\ now # <<>> => b \o Flushed(now) = <<"head", "prefix">> \o Base64(RecordingBytes(r))

\* The flushed carry completes what is sent.
LEMMA RestFlushed ==
  ASSUME NEW r \in Seq(Seq(0..255)), NEW p \in 0..Len(r),
         NEW c, NEW b, NEW m \in Nat, AtGroup(r, p, c, b, m),
         NEW now, now = c \o FlattenSeq(SubSeq(r, p + 1, Len(r))), Len(now) < 3
  PROVE  AllSent(r, b, now)
<1>0. PICK l \in Nat : l = Len(r) /\ p \in Nat /\ p <= l /\ l <= Len(r)
  <2>1. Len(r) \in Nat
    BY LenProperties
  <2> QED BY <2>1
<1>1. /\ RecordingBytes(r) \in Seq(0..255) /\ FirstChunks(r, p) \in Seq(0..255)
      /\ Len(FirstChunks(r, p)) <= Len(FirstChunks(r, l))
  BY <1>0, MoreChunks
<1>2. FirstChunks(r, l) = RecordingBytes(r)
  BY <1>0, SubSeqFull DEF FirstChunks, RecordingBytes
<1>3. PICK data \in Seq(0..255), u \in Nat, v \in Nat :
        data = RecordingBytes(r) /\ u = Len(FirstChunks(r, p)) /\ v = Len(data)
  BY <1>1, LenProperties
<1>4. u <= v
  BY <1>1, <1>2, <1>3
<1>5. /\ 3 * m <= u /\ c = Piece(data, 3 * m, u)
      /\ b = <<"head", "prefix">> \o Piece(Base64(data), 0, 4 * m)
  BY <1>3 DEF AtGroup
<1>6. now = Piece(data, 3 * m, v)
  <2>1. PICK a \in Nat : a = 3 * m
    OBVIOUS
  <2>2. a <= Len(FirstChunks(r, p))
    BY <1>3, <1>5, <2>1
  <2>3. BytesJoin(r, p, l, a)
    BY <1>0, <2>2, GatheredIs
  <2> QED BY <1>0, <1>2, <1>3, <1>5, <2>1, <2>3 DEF BytesJoin
<1>7. Len(now) = v - 3 * m
  <2>1. PICK a \in Nat : a = 3 * m /\ a <= v /\ v <= Len(data)
    BY <1>3, <1>4, <1>5
  <2>2. IsPiece(Piece(data, a, v), data, a, v)
    BY <2>1, PieceIs
  <2> QED BY <1>6, <2>1, <2>2 DEF IsPiece
<1>8. PICK t \in 0..2 : Len(data) = 3 * m + t /\ Len(now) = t
  <2>1. v - 3 * m \in 0..2
    BY <1>4, <1>5, <1>7
  <2> QED BY <1>3, <1>7, <2>1
<1>9. /\ t = 0 => Piece(Base64(data), 0, 4 * m) = Base64(data)
      /\ t # 0 => (<<"head", "prefix">> \o Piece(Base64(data), 0, 4 * m))
                     \o Flushed(Piece(data, 3 * m, Len(data))) =
                  <<"head", "prefix">> \o Base64(data)
  <2>1. Len(data) = 3 * m + t
    BY <1>8
  <2> QED BY <2>1, RestOfPiece
<1>10. now = <<>> => t = 0
  BY <1>8
<1>11. now # <<>> => t # 0
  <2>1. PieceType(data, 3 * m, v) => now \in Seq(0..255)
    BY <1>6 DEF PieceType
  <2>2. PieceType(data, 3 * m, v)
    <3>1. PICK a \in Nat : a = 3 * m /\ a <= v /\ v <= Len(data)
      BY <1>3, <1>4, <1>5
    <3>2. Piece(data, a, v) \in Seq(0..255)
      BY <3>1, PieceIs
    <3> QED BY <3>1, <3>2 DEF PieceType
  <2> QED BY <1>8, <2>1, <2>2, EmptySeq
<1> QED BY <1>3, <1>5, <1>6, <1>9, <1>10, <1>11 DEF AllSent


\* No chunk is pulled at first.
LEMMA NothingPulled ==
  ASSUME NEW r \in Seq(Seq(0..255))
  PROVE  AtGroup(r, 0, <<>>, <<"head", "prefix">>, 0)
<1>1. SubSeq(r, 1, 0) = <<>>
  BY SubSeqEmpty
<1>2. FirstChunks(r, 0) = <<>>
  BY <1>1, FlattenNothing DEF FirstChunks
<1>3. Len(FirstChunks(r, 0)) = 0
  BY <1>2
<1>4. Piece(RecordingBytes(r), 3 * 0, 0) = <<>> /\ Piece(Base64(RecordingBytes(r)), 0, 4 * 0) = <<>>
  <2>1. 3 * 0 + 1 = 1 /\ 4 * 0 = 0 /\ 0 + 1 = 1
    OBVIOUS
  <2>2. SubSeq(RecordingBytes(r), 1, 0) = <<>> /\ SubSeq(Base64(RecordingBytes(r)), 1, 0) = <<>>
    BY SubSeqEmpty
  <2> QED BY <2>1, <2>2 DEF Piece
<1>5. <<"head", "prefix">> \o <<>> = <<"head", "prefix">>
  <2>1. <<"head", "prefix">> \in Seq(BodySymbols)
    BY DEF BodySymbols
  <2> QED BY <2>1, ConcatEmptySeq
<1>6. 3 * 0 <= 0 /\ 0 - 3 * 0 <= 2
  OBVIOUS
<1> QED BY <1>3, <1>4, <1>5, <1>6 DEF AtGroup

\* The front of the envelope.
LEMMA FrontAppended == Append(<<"head">>, "prefix") = <<"head", "prefix">>
<1>1. PICK h, f, a : h = <<"head">> /\ f = <<"head", "prefix">> /\ a = Append(h, "prefix")
  OBVIOUS
<1>2. h \in Seq(BodySymbols) /\ Len(h) = 1 /\ h[1] = "head" /\ "prefix" \in BodySymbols
  BY <1>1 DEF BodySymbols
<1>3. f \in Seq(BodySymbols) /\ Len(f) = 2 /\ f[1] = "head" /\ f[2] = "prefix"
  BY <1>1 DEF BodySymbols
<1>4. a \in Seq(BodySymbols) /\ Len(a) = 2 /\ a[1] = "head" /\ a[2] = "prefix"
  <2>1. /\ Append(h, "prefix") \in Seq(BodySymbols) /\ Len(Append(h, "prefix")) = Len(h) + 1
        /\ \A i \in 1..Len(h) : Append(h, "prefix")[i] = h[i]
        /\ Append(h, "prefix")[Len(h) + 1] = "prefix"
    <3>1. PICK e : e = "prefix"
      OBVIOUS
    <3>2. h \in Seq(BodySymbols) /\ e \in BodySymbols
      BY <1>2, <3>1
    <3>3. /\ Append(h, e) \in Seq(BodySymbols) /\ Len(Append(h, e)) = Len(h) + 1
          /\ \A i \in 1..Len(h) : Append(h, e)[i] = h[i]
          /\ Append(h, e)[Len(h) + 1] = e
      BY <3>2, AppendProperties
    <3> QED BY <3>1, <3>3
  <2> QED BY <1>1, <1>2, <2>1
<1>5. \A i \in 1..2 : a[i] = f[i]
  BY <1>3, <1>4
<1>6. a = f
  BY <1>3, <1>4, <1>5, SeqEqual
<1> QED BY <1>1, <1>6

\* At first nothing is sent.
LEMMA VoiceStarts == VoiceInit => VoiceInv
BY VoiceAssumption DEF VoiceInit, VoiceInv

\* The chunks that are pulled when they are enough, and the last ones that are not.
LEMMA EnoughChunks ==
  ASSUME VoiceInv
  PROVE  /\ Enough # {} => /\ Min(Enough) \in Enough
                           /\ Min(Enough) \in Nat /\ pulled <= Min(Enough)
                           /\ Min(Enough) <= Len(recording)
         /\ Enough = {} /\ pulled < Len(recording) => ~(Len(Gathered(Len(recording))) >= 3)
<1>1. recording \in Seq(Seq(0..255)) /\ pulled \in 0..Len(recording) /\ Len(recording) \in Nat
  <2>1. recording \in Seq(Seq(0..255))
    BY VoiceAssumption DEF VoiceInv
  <2> QED BY <2>1, LenProperties DEF VoiceInv
<1>2. Enough \in SUBSET (pulled + 1..Len(recording))
  BY DEF Enough
<1>3. ASSUME Enough # {} PROVE Min(Enough) \in Enough
  <2>1. Enough \in SUBSET Nat
    BY <1>1, <1>2
  <2>2. PICK x \in Enough : \A y \in Enough : x <= y
    BY <1>3, <2>1, LeastNumber
  <2> HIDE DEF Enough
  <2> QED BY <2>2 DEF Min
<1>4. Enough # {} => /\ Min(Enough) \in Nat /\ pulled <= Min(Enough)
                     /\ Min(Enough) <= Len(recording)
  <2> SUFFICES ASSUME Enough # {} PROVE Min(Enough) \in Nat /\ pulled <= Min(Enough)
                                        /\ Min(Enough) <= Len(recording)
    OBVIOUS
  <2>1. PICK n : n = Min(Enough)
    OBVIOUS
  <2>2. n \in pulled + 1..Len(recording)
    <3> HIDE DEF Enough
    <3> QED BY <1>2, <1>3, <2>1
  <2>3. n \in Nat /\ pulled <= n /\ n <= Len(recording)
    BY <1>1, <2>2
  <2> QED BY <2>1, <2>3
<1>5. Enough = {} /\ pulled < Len(recording) => ~(Len(Gathered(Len(recording))) >= 3)
  <2> SUFFICES ASSUME Enough = {}, pulled < Len(recording)
               PROVE  ~(Len(Gathered(Len(recording))) >= 3)
    OBVIOUS
  <2>1. Len(recording) \in pulled + 1..Len(recording)
    BY <1>1
  <2> QED BY <2>1 DEF Enough
<1> QED BY <1>3, <1>4, <1>5

\* The whole of a body is symbols, and begins with the front of the envelope.
LEMMA WholeType ==
  ASSUME NEW r \in Seq(Seq(0..255))
  PROVE  /\ <<"head", "prefix">> \o Base64(RecordingBytes(r)) \in Seq(BodySymbols)
         /\ Base64(RecordingBytes(r)) \in Seq(BodySymbols)
         /\ FetchBegins(<<"head", "prefix">>, <<"head", "prefix">> \o Base64(RecordingBytes(r)))
<1>1. RecordingBytes(r) \in Seq(0..255)
  BY FlattenType DEF RecordingBytes
<1>2. Base64(RecordingBytes(r)) \in Seq(BodySymbols)
  <2>1. 3 * 0 <= Len(RecordingBytes(r)) /\ 0 \in Nat
    BY <1>1, LenProperties
  <2> QED BY <1>1, <2>1, Base64Long
<1>3. PICK f, w, c : f = <<"head", "prefix">> /\ w = Base64(RecordingBytes(r)) /\ c = f \o w
  OBVIOUS
<1>4. f \in Seq(BodySymbols) /\ w \in Seq(BodySymbols)
  BY <1>2, <1>3 DEF BodySymbols
<1>5. c \in Seq(BodySymbols) /\ FetchBegins(f, c)
  <2>1. Concats(c, f, w)
    BY <1>3 DEF Concats
  <2> QED BY <1>4, <2>1, BeginsJoined
<1> QED BY <1>2, <1>3, <1>5

\* Full groups are a beginning of the whole.
LEMMA SentBegins ==
  ASSUME NEW r \in Seq(Seq(0..255)), NEW p \in 0..Len(r), NEW c, NEW b, NEW m \in Nat,
         AtGroup(r, p, c, b, m)
  PROVE  b \in Seq(BodySymbols) /\ FetchBegins(b, <<"head", "prefix">> \o Base64(RecordingBytes(r)))
<1>0. Len(r) \in Nat
  BY LenProperties
<1>1. /\ RecordingBytes(r) \in Seq(0..255) /\ FirstChunks(r, p) \in Seq(0..255)
      /\ Len(FirstChunks(r, p)) <= Len(FirstChunks(r, p))
      /\ Len(FirstChunks(r, p)) <= Len(RecordingBytes(r))
  <2>1. p \in Nat /\ p <= p /\ p <= Len(r)
    BY <1>0
  <2> QED BY <2>1, MoreChunks
<1>2. 3 * m <= Len(RecordingBytes(r))
  <2>1. Len(RecordingBytes(r)) \in Nat /\ Len(FirstChunks(r, p)) \in Nat
    BY <1>1, LenProperties
  <2> QED BY <1>1, <2>1 DEF AtGroup
<1>3. PICK w \in Seq(BodySymbols) : w = Base64(RecordingBytes(r)) /\ 4 * m <= Len(w)
  BY <1>1, <1>2, Base64Long
<1>4. PICK i \in Nat, j \in Nat : i = 4 * m /\ j = Len(w) /\ i <= j /\ j <= Len(w)
  <2>1. PICK j \in Nat : j = Len(w)
    BY LenProperties
  <2>2. PICK i \in Nat : i = 4 * m
    OBVIOUS
  <2>3. i <= j /\ j <= Len(w)
    BY <1>3, <2>1, <2>2
  <2> QED BY <2>1, <2>2, <2>3
<1>5. b = <<"head", "prefix">> \o Piece(w, 0, i)
  BY <1>3, <1>4 DEF AtGroup
<1>6. (<<"head", "prefix">> \o Piece(w, 0, i)) \o Piece(w, i, j) =
         <<"head", "prefix">> \o Piece(w, 0, j)
  BY <1>4, FrontJoins
<1>7. Piece(w, 0, j) = w
  <2>1. SubSeq(w, 1, Len(w)) = w
    BY SubSeqFull
  <2>2. 0 + 1 = 1
    OBVIOUS
  <2> QED BY <1>4, <2>1, <2>2 DEF Piece
<1>8. Piece(w, 0, i) \in Seq(BodySymbols) /\ Piece(w, i, j) \in Seq(BodySymbols)
  <2>1. 0 \in Nat /\ 0 <= i /\ i <= Len(w)
    BY <1>4
  <2>2. Piece(w, 0, i) \in Seq(BodySymbols)
    BY <2>1, PieceIs
  <2>3. Piece(w, i, j) \in Seq(BodySymbols)
    BY <1>4, PieceIs
  <2> QED BY <2>2, <2>3
<1>9. PICK f, q, t : f = <<"head", "prefix">> /\ q = Piece(w, 0, i) /\ t = Piece(w, i, j)
  OBVIOUS
<1>10. f \in Seq(BodySymbols) /\ q \in Seq(BodySymbols) /\ t \in Seq(BodySymbols)
  BY <1>8, <1>9 DEF BodySymbols
<1>11. b \in Seq(BodySymbols)
  <2>1. f \o q \in Seq(BodySymbols)
    BY <1>10, ConcatProperties
  <2> QED BY <1>5, <1>9, <2>1
<1>12. PICK all : all = <<"head", "prefix">> \o w
  OBVIOUS
<1>13. Concats(all, b, t)
  BY <1>5, <1>6, <1>7, <1>9, <1>12 DEF Concats
<1>14. FetchBegins(b, all)
  BY <1>10, <1>11, <1>13, BeginsJoined
<1> QED BY <1>3, <1>11, <1>12, <1>14

\* When no chunks are enough, the last ones leave less than a group.
LEMMA AtEnd ==
  ASSUME VoiceInv, Enough = {}, NEW m \in Nat, AtGroup(recording, pulled, carry, body, m)
  PROVE  Len(Gathered(Len(recording))) < 3
<1>1. recording \in Seq(Seq(0..255)) /\ pulled \in 0..Len(recording) /\ Len(recording) \in Nat
  <2>1. recording \in Seq(Seq(0..255))
    BY VoiceAssumption DEF VoiceInv
  <2> QED BY <2>1, LenProperties DEF VoiceInv
<1>2. PICK l \in Nat, p \in Nat : l = Len(recording) /\ p = pulled /\ p <= l /\ l <= Len(recording)
  BY <1>1
<1>3. Gathered(l) = Piece(RecordingBytes(recording), 3 * m, Len(FirstChunks(recording, l)))
  <2>1. 3 * m \in Nat /\ 3 * m <= Len(FirstChunks(recording, p))
    BY <1>2 DEF AtGroup
  <2>2. BytesJoin(recording, p, l, 3 * m)
    BY <1>1, <1>2, <2>1, GatheredIs
  <2> QED BY <1>2, <2>2 DEF BytesJoin, AtGroup, Gathered
<1>4. /\ RecordingBytes(recording) \in Seq(0..255) /\ FirstChunks(recording, p) \in Seq(0..255)
      /\ Len(FirstChunks(recording, p)) <= Len(FirstChunks(recording, l))
      /\ Len(FirstChunks(recording, l)) <= Len(RecordingBytes(recording))
      /\ FirstChunks(recording, l) \in Seq(0..255)
  BY <1>1, <1>2, MoreChunks
<1>5. PICK data \in Seq(0..255), u \in Nat, v \in Nat, a \in Nat :
        /\ data = RecordingBytes(recording) /\ u = Len(FirstChunks(recording, p))
        /\ v = Len(FirstChunks(recording, l)) /\ a = 3 * m
        /\ a <= u /\ u <= v /\ v <= Len(data) /\ u - a <= 2
  BY <1>2, <1>4, LenProperties DEF AtGroup
<1>6. Len(Gathered(l)) = v - a
  <2>1. a <= v
    BY <1>5
  <2>2. IsPiece(Piece(data, a, v), data, a, v)
    BY <1>5, <2>1, PieceIs
  <2> QED BY <1>3, <1>5, <2>2 DEF IsPiece
<1>7. CASE p < l
  <2>1. ~(Len(Gathered(l)) >= 3)
    BY <1>2, <1>7, EnoughChunks
  <2> QED BY <1>2, <1>5, <1>6, <2>1
<1>8. CASE p = l
  BY <1>2, <1>5, <1>6, <1>8
<1> QED BY <1>2, <1>7, <1>8

\* Every step keeps the invariant.
LEMMA VoiceSteps == VoiceInv /\ [VoiceNext]_voiceVars => VoiceInv'
<1> SUFFICES ASSUME VoiceInv, [VoiceNext]_voiceVars PROVE VoiceInv'
  OBVIOUS
<1>0. recording \in Seq(Seq(0..255)) /\ Len(recording) \in Nat
  <2>1. recording \in Seq(Seq(0..255))
    BY VoiceAssumption DEF VoiceInv
  <2> QED BY <2>1, LenProperties
<1>1. CASE heard = "none" /\ Opening
  <2>1. CASE audioAt = "head" /\ audioAt' = "prefix" /\ body' = <<"head">>
             /\ UNCHANGED <<recording, pulled, carry, byTool, heard, passed>>
    BY <1>1, <2>1 DEF VoiceInv
  <2>2. CASE audioAt = "prefix" /\ audioAt' = "audio" /\ body' = Append(body, "prefix")
             /\ UNCHANGED <<recording, pulled, carry, byTool, heard, passed>>
    <3>0. body = <<"head">> /\ pulled = 0 /\ carry = <<>>
      BY <2>2 DEF VoiceInv
    <3>a. Append(<<"head">>, "prefix") = <<"head", "prefix">>
      BY FrontAppended
    <3>1. body' = <<"head", "prefix">> /\ pulled' = 0 /\ carry' = <<>> /\ recording' = recording
      BY <2>2, <3>0, <3>a
    <3>2. AtGroup(recording', pulled', carry', body', 0)
      <4>1. AtGroup(recording, 0, <<>>, <<"head", "prefix">>, 0)
        BY <1>0, NothingPulled
      <4> QED BY <3>1, <4>1
    <3>3. \E m \in Nat : AtGroup(recording', pulled', carry', body', m)
      BY <3>2
    <3> QED BY <1>1, <2>2, <3>3 DEF VoiceInv
  <2> QED BY <1>1, <2>1, <2>2 DEF Opening
<1>2. CASE heard = "none" /\ Audio
  <2>1. PICK n : n = Min(Enough)
    OBVIOUS
  <2>2. n \in Nat /\ pulled <= n /\ n <= Len(recording) /\ pulled \in Nat
    <3>1. Enough # {}
      BY <1>2 DEF Audio
    <3> QED BY <2>1, <3>1, EnoughChunks, <1>0 DEF VoiceInv
  <2>3. PICK now : now = carry \o FlattenSeq(SubSeq(recording, pulled + 1, n))
    OBVIOUS
  <2>4. /\ pulled' = n /\ carry' = Remainder(now) /\ body' = body \o EncodeFull(WholeGroups(now))
        /\ UNCHANGED <<recording, audioAt, byTool, heard, passed>> /\ audioAt = "audio"
    BY <1>2, <2>1, <2>3 DEF Audio, Gathered
  <2>5. PICK m \in Nat : AtGroup(recording, pulled, carry, body, m)
    BY <2>4 DEF VoiceInv
  <2>6. \E k \in Nat : AtGroup(recording, n, Remainder(now), body \o EncodeFull(WholeGroups(now)), k)
    BY <1>0, <2>2, <2>3, <2>5, ChunksEncoded
  <2>7. \E k \in Nat : AtGroup(recording', pulled', carry', body', k)
    BY <2>4, <2>6
  <2>8. pulled' \in 0..Len(recording')
    BY <1>0, <2>2, <2>4
  <2> QED BY <1>2, <2>4, <2>7, <2>8 DEF VoiceInv
<1>3. CASE heard = "none" /\ FlushCarry
  <2>1. PICK now : now = Gathered(Len(recording))
    OBVIOUS
  <2>2. /\ audioAt = "audio" /\ Enough = {}
        /\ audioAt' = (IF now = <<>> THEN "done" ELSE "tail")
        /\ body' = body \o (IF now = <<>> THEN <<"tail">> ELSE Flushed(now))
        /\ pulled' = Len(recording) /\ carry' = <<>>
        /\ UNCHANGED <<recording, byTool, heard, passed>>
    BY <1>3, <2>1 DEF FlushCarry
  <2>3. PICK m \in Nat : AtGroup(recording, pulled, carry, body, m)
    BY <2>2 DEF VoiceInv
  <2>4. now = carry \o FlattenSeq(SubSeq(recording, pulled + 1, Len(recording)))
    BY <2>1 DEF Gathered
  <2>5. Len(now) < 3
    BY <1>0, <2>1, <2>2, <2>3, <2>4, AtEnd
  <2>6. pulled \in 0..Len(recording)
    BY DEF VoiceInv
  <2>7. /\ now = <<>> => body = <<"head", "prefix">> \o Base64(RecordingBytes(recording))
        /\ now # <<>> => body \o Flushed(now) = <<"head", "prefix">> \o Base64(RecordingBytes(recording))
    <3>1. AllSent(recording, body, now)
      BY <1>0, <2>3, <2>4, <2>5, <2>6, RestFlushed
    <3> QED BY <3>1 DEF AllSent
  <2>8. pulled' \in 0..Len(recording')
    BY <1>0, <2>2
  <2>9. CASE now = <<>>
    <3>1. audioAt' = "done"
          /\ body' = <<"head", "prefix">> \o Base64(RecordingBytes(recording')) \o <<"tail">>
      BY <2>2, <2>7, <2>9
    <3> QED BY <1>3, <2>2, <2>8, <3>1 DEF VoiceInv
  <2>10. CASE now # <<>>
    <3>1. audioAt' = "tail" /\ body' = <<"head", "prefix">> \o Base64(RecordingBytes(recording'))
      BY <2>2, <2>7, <2>10
    <3> QED BY <1>3, <2>2, <2>8, <3>1 DEF VoiceInv
  <2> QED BY <2>9, <2>10
<1>4. CASE heard = "none" /\ ClosingEnvelope
  <2>1. /\ audioAt = "tail" /\ audioAt' = "done" /\ body' = Append(body, "tail")
        /\ UNCHANGED <<recording, pulled, carry, byTool, heard, passed>>
    BY <1>4 DEF ClosingEnvelope
  <2>2. body = <<"head", "prefix">> \o Base64(RecordingBytes(recording))
    BY <2>1 DEF VoiceInv
  <2>3. body \in Seq(BodySymbols)
    BY <1>0, <2>2, WholeType
  <2>4. body' = <<"head", "prefix">> \o Base64(RecordingBytes(recording')) \o <<"tail">>
    <3>1. Append(body, "tail") = body \o <<"tail">>
      BY <2>3, AppendIsConcat DEF BodySymbols
    <3> QED BY <2>1, <2>2, <3>1
  <2> QED BY <1>4, <2>1, <2>4 DEF VoiceInv
<1>5. CASE heard = "none" /\ MicRaises
  <2>1. UNCHANGED <<recording, pulled, carry, body, byTool, heard, passed>>
        /\ audioAt = "audio" /\ audioAt' = "raised"
    BY <1>5 DEF MicRaises
  <2>2. \E m \in Nat : AtGroup(recording', pulled', carry', body', m)
    BY <2>1 DEF VoiceInv
  <2> QED BY <1>5, <2>1, <2>2 DEF VoiceInv
<1>6. CASE CannotListen \/ Transcribed \/ PassOnHeard \/ UNCHANGED voiceVars
  <2>1. UNCHANGED <<recording, pulled, audioAt, carry, body, byTool>>
    BY <1>6 DEF CannotListen, Transcribed, PassOnHeard, voiceVars
  <2>2. /\ heard' \in {"none", "failed", "silence", "words"}
        /\ heard' \in {"silence", "words"} => audioAt = "done"
        /\ passed' = "published" => heard' \in {"words", "failed"}
    <3>1. CASE CannotListen
      BY <3>1 DEF CannotListen, VoiceInv
    <3>2. CASE Transcribed
      <4>1. heard = "none" /\ passed' = passed
        BY <3>2 DEF Transcribed
      <4>2. passed # "published"
        BY <4>1 DEF VoiceInv
      <4>3. heard' \in (IF audioAt = "done" THEN {"words", "silence"} ELSE {})
                         \cup (IF audioAt # "head" THEN {"failed"} ELSE {})
        BY <3>2 DEF Transcribed
      <4> QED BY <4>1, <4>2, <4>3
    <3>3. CASE PassOnHeard
      BY <3>3 DEF PassOnHeard, VoiceInv
    <3>4. CASE UNCHANGED voiceVars
      BY <3>4 DEF voiceVars, VoiceInv
    <3> QED BY <1>6, <3>1, <3>2, <3>3, <3>4
  <2>3. audioAt' \in {"audio", "raised"} => \E m \in Nat : AtGroup(recording', pulled', carry', body', m)
    BY <2>1 DEF VoiceInv
  <2> QED BY <2>1, <2>2, <2>3 DEF VoiceInv
<1> QED BY <1>1, <1>2, <1>3, <1>4, <1>5, <1>6 DEF VoiceNext

\* What is sent begins the whole.
LEMMA VoiceImplies == VoiceInv => VoiceRight
<1> SUFFICES ASSUME VoiceInv PROVE VoiceRight
  OBVIOUS
<1>0. recording \in Seq(Seq(0..255))
  BY VoiceAssumption DEF VoiceInv
<1>1. PICK all, whole : /\ all = <<"head", "prefix">> \o Base64(RecordingBytes(recording))
                        /\ whole = all \o <<"tail">>
  OBVIOUS
<1>2. all \in Seq(BodySymbols) /\ <<"tail">> \in Seq(BodySymbols)
  BY <1>0, <1>1, WholeType DEF BodySymbols
<1>3. whole \in Seq(BodySymbols) /\ Len(whole) = Len(all) + 1 /\ FetchBegins(all, whole)
      /\ whole[Len(whole)] = "tail"
  <2>1. whole \in Seq(BodySymbols) /\ Len(whole) = Len(all) + Len(<<"tail">>) /\ FetchBegins(all, whole)
    <3>1. PICK t : t = <<"tail">>
      OBVIOUS
    <3>2. all \in Seq(BodySymbols) /\ t \in Seq(BodySymbols)
      BY <1>2, <3>1
    <3>3. Concats(whole, all, t)
      BY <1>1, <3>1 DEF Concats
    <3>4. whole \in Seq(BodySymbols) /\ Len(whole) = Len(all) + Len(t) /\ FetchBegins(all, whole)
      BY <3>2, <3>3, BeginsJoined
    <3> QED BY <3>1, <3>4
  <2>2. \A i \in 1..Len(all) + Len(<<"tail">>) :
          (all \o <<"tail">>)[i] = IF i <= Len(all) THEN all[i] ELSE <<"tail">>[i - Len(all)]
    BY <1>2, ConcatProperties
  <2>3. PICK n \in Nat : n = Len(all)
    BY <1>2, LenProperties
  <2>4. Len(<<"tail">>) = 1 /\ n + 1 \in 1..n + 1 /\ ~(n + 1 <= n) /\ (n + 1) - n = 1
    OBVIOUS
  <2>5. whole[n + 1] = <<"tail">>[1]
    BY <1>1, <2>2, <2>3, <2>4
  <2> QED BY <2>1, <2>3, <2>4, <2>5
<1>4. body \in Seq(BodySymbols) /\ FetchBegins(body, whole) /\ (audioAt = "done" => body = whole)
  <2>1. CASE audioAt = "head"
    <3>1. body = <<>>
      BY <2>1 DEF VoiceInv
    <3>2. Len(whole) \in Nat
      BY <1>3, LenProperties
    <3>3. body \in Seq(BodySymbols) /\ Len(body) = 0
      BY <3>1
    <3> QED BY <2>1, <3>2, <3>3 DEF FetchBegins
  <2>2. CASE audioAt = "prefix"
    <3>1. body = <<"head">>
      BY <2>2 DEF VoiceInv
    <3>2. body \in Seq(BodySymbols) /\ Len(body) = 1 /\ body[1] = "head"
      BY <3>1 DEF BodySymbols
    <3>3. FetchBegins(<<"head", "prefix">>, all)
      BY <1>0, <1>1, WholeType
    <3>4. Len(all) \in Nat /\ 2 <= Len(all) /\ all[1] = "head"
      <4>1. Len(all) \in Nat
        BY <1>2, LenProperties
      <4> QED BY <3>3, <4>1 DEF FetchBegins
    <3>5. whole[1] = "head" /\ 1 <= Len(whole)
      BY <1>3, <3>4 DEF FetchBegins
    <3> QED BY <2>2, <3>2, <3>5 DEF FetchBegins
  <2>3. CASE audioAt \in {"audio", "raised"}
    <3>1. PICK m \in Nat : AtGroup(recording, pulled, carry, body, m)
      BY <2>3 DEF VoiceInv
    <3>2. body \in Seq(BodySymbols) /\ FetchBegins(body, all)
      BY <1>0, <1>1, <3>1, SentBegins DEF VoiceInv
    <3>3. FetchBegins(body, whole)
      BY <1>2, <1>3, <3>2, BeginsOn
    <3> QED BY <2>3, <3>2, <3>3
  <2>4. CASE audioAt = "tail"
    BY <1>1, <1>2, <1>3, <2>4 DEF VoiceInv
  <2>5. CASE audioAt = "done"
    <3>1. body = whole
      BY <1>1, <2>5 DEF VoiceInv
    <3>2. Len(whole) \in Nat
      BY <1>3, LenProperties
    <3> QED BY <1>3, <3>1, <3>2 DEF FetchBegins
  <2> QED BY <2>1, <2>2, <2>3, <2>4, <2>5 DEF VoiceInv
<1>5. IsPrefix(body, whole)
  BY <1>3, <1>4, BeginsPrefix
<1>6. RecordingIsWhole
  BY <1>1, <1>4, <1>5 DEF RecordingIsWhole, RecordingBytes
<1>7. WordsAreHeard
  BY <1>3, <1>4 DEF WordsAreHeard, VoiceInv
<1> QED BY <1>6, <1>7 DEF VoiceRight

\* However a recording is cut into chunks, what is sent is a beginning of its one body and
\* all of it in the end, and only words of a whole recording are taken for the user's, for
\* all recordings.
THEOREM VoiceHolds == VoiceSpec => []VoiceRight
<1>1. VoiceSpec => []VoiceInv
  BY VoiceStarts, VoiceSteps, PTL DEF VoiceSpec
<1> QED BY <1>1, VoiceImplies, PTL

-----------------------------------------------------------------------------
(* The reduce tool                                                           *)

\* What is worked on: the places behind it and the dedup field.
ReduceItems == [from : (SUBSET (Nat \X Nat)) \ {{}}, field : FieldValues]
Ordered(s) == \A k, l \in 1..Len(s) : k < l => NotAfter(s[k].from, s[l].from)

\* A beginning, and what follows it up to b.
LEMMA BeginningGrows ==
  ASSUME NEW S, NEW s \in Seq(S), NEW a \in Nat, NEW b \in Nat, a <= b, b <= Len(s)
  PROVE  SubSeq(s, 1, a) \o SubSeq(s, a + 1, b) = SubSeq(s, 1, b)
<1> DEFINE x == SubSeq(s, 1, a)
           y == SubSeq(s, a + 1, b)
           z == SubSeq(s, 1, b)
<1>0. Len(s) \in Nat
  OBVIOUS
<1>1. x \in Seq(S) /\ Len(x) = a /\ \A i \in 1..a : x[i] = s[i]
  BY <1>0
<1>2. y \in Seq(S) /\ Len(y) = b - a /\ \A i \in 1..(b - a) : y[i] = s[a + i]
  BY <1>0
<1>3. z \in Seq(S) /\ Len(z) = b /\ \A i \in 1..b : z[i] = s[i]
  BY <1>0
<1> HIDE DEF x, y, z
<1>4. PICK u : u = x \o y
  OBVIOUS
<1>5. /\ u \in Seq(S) /\ Len(u) = a + (b - a)
      /\ \A i \in 1..(a + (b - a)) : u[i] = IF i <= a THEN x[i] ELSE y[i - a]
  <2>1. /\ u \in Seq(S) /\ Len(u) = Len(x) + Len(y)
        /\ \A i \in 1..(Len(x) + Len(y)) : u[i] = IF i <= Len(x) THEN x[i] ELSE y[i - Len(x)]
    <3>1. x \in Seq(S) /\ y \in Seq(S)
      BY <1>1, <1>2
    <3> QED BY <1>4, <3>1, ConcatProperties
  <2> QED BY <1>1, <1>2, <2>1
<1>6. ASSUME NEW i \in 1..b PROVE u[i] = z[i]
  <2>1. i \in 1..(a + (b - a)) /\ i \in Nat
    OBVIOUS
  <2>2. CASE i <= a
    <3>1. u[i] = x[i]
      BY <1>5, <2>1, <2>2
    <3>2. x[i] = s[i]
      <4>1. i \in 1..a
        BY <2>1, <2>2
      <4> QED BY <1>1, <4>1
    <3>3. z[i] = s[i]
      BY <1>3
    <3> QED BY <3>1, <3>2, <3>3
  <2>3. CASE ~(i <= a)
    <3>1. PICK j : j = i - a
      OBVIOUS
    <3>2. j \in 1..(b - a) /\ a + j = i
      BY <2>1, <2>3, <3>1
    <3>3. u[i] = y[j]
      BY <1>5, <2>1, <2>3, <3>1
    <3>4. y[j] = s[a + j]
      BY <1>2, <3>2
    <3>5. z[i] = s[i]
      BY <1>3
    <3> QED BY <3>2, <3>3, <3>4, <3>5
  <2> QED BY <2>2, <2>3
<1>7. Len(u) = b /\ Len(z) = b
  BY <1>3, <1>5
<1>8. u = z
  BY <1>3, <1>5, <1>6, <1>7, SeqEqual
<1> QED BY <1>4, <1>8 DEF x, y, z

\* How many chunks there are: as many as reach the end.
LEMMA ChunkCount ==
  ASSUME NEW L \in Nat, NEW n \in Nat, n > 0
  PROVE  /\ (L + n - 1) \div n \in Nat
         /\ L <= ((L + n - 1) \div n) * n
         /\ \A k \in 1..((L + n - 1) \div n) : (k - 1) * n < L /\ (k - 1) * n \in Nat /\ k * n = (k - 1) * n + n
<1>1. PICK a \in Nat : a = L + n - 1
  OBVIOUS
<1>2. PICK c \in Nat : c = a \div n
  OBVIOUS
<1>3. c * n <= a /\ a < c * n + n /\ c * n \in Nat
  BY <1>2
<1>4. L <= c * n
  BY <1>1, <1>3
<1>5. ASSUME NEW k \in 1..c PROVE (k - 1) * n < L /\ (k - 1) * n \in Nat /\ k * n = (k - 1) * n + n
  <2>1. PICK j \in Nat : j = k - 1
    OBVIOUS
  <2>2. k = j + 1 /\ j + 1 <= c
    BY <2>1
  <2>3. (j + 1) * n = j * n + n /\ j * n \in Nat
    OBVIOUS
  <2>4. (j + 1) * n <= c * n
    BY <2>2
  <2>5. j * n + n <= a
    BY <1>3, <2>3, <2>4
  <2>6. j * n < L
    BY <1>1, <2>3, <2>5
  <2> QED BY <2>1, <2>2, <2>3, <2>6
<1> QED BY <1>1, <1>2, <1>4, <1>5

\* The chunks, one after the other, are what was cut, and none is empty.
LEMMA CutsJoin ==
  ASSUME NEW S, NEW s \in Seq(S), NEW n \in Nat, n > 0
  PROVE  /\ Cut(s, n) \in Seq(Seq(S)) /\ FlattenSeq(Cut(s, n)) = s
         /\ \A k \in 1..Len(Cut(s, n)) : Cut(s, n)[k] # <<>>
<1> DEFINE L == Len(s)
           c == (L + n - 1) \div n
           upto(k) == IF k * n < L THEN k * n ELSE L
           part(k) == SubSeq(s, (k - 1) * n + 1, upto(k))
           cuts == [k \in 1..c |-> part(k)]
<1>1. Cut(s, n) = cuts
  BY DEF Cut
<1>2. L \in Nat
  OBVIOUS
<1>3. /\ c \in Nat /\ L <= c * n
      /\ \A k \in 1..c : (k - 1) * n < L /\ (k - 1) * n \in Nat /\ k * n = (k - 1) * n + n
  <2> HIDE DEF L
  <2> QED BY <1>2, ChunkCount
<1>4. ASSUME NEW k \in 1..c
      PROVE  /\ upto(k) \in Nat /\ upto(k) <= L /\ (k - 1) * n < upto(k)
             /\ upto(k - 1) = (k - 1) * n
  <2>1. PICK q \in Nat : q = (k - 1) * n /\ q < L /\ k * n = q + n
    BY <1>3
  <2> HIDE DEF L
  <2>2. upto(k) = IF q + n < L THEN q + n ELSE L
    BY <2>1
  <2>3. upto(k) \in Nat /\ upto(k) <= L /\ q < upto(k)
    BY <1>2, <2>1, <2>2
  <2>4. upto(k - 1) = q
    BY <2>1
  <2> QED BY <2>1, <2>3, <2>4
<1>5. ASSUME NEW k \in 1..c PROVE part(k) \in Seq(S) /\ part(k) # <<>>
  <2>1. PICK q \in Nat, u \in Nat : q = (k - 1) * n /\ u = upto(k) /\ u <= L /\ q < u
    BY <1>3, <1>4
  <2>2. SubSeq(s, q + 1, u) \in Seq(S) /\ Len(SubSeq(s, q + 1, u)) = u - q
    <3>1. \A i \in (q + 1)..u : s[i] \in S
      <4> SUFFICES ASSUME NEW i \in (q + 1)..u PROVE s[i] \in S
        OBVIOUS
      <4>1. i \in 1..Len(s)
        BY <1>2, <2>1
      <4> QED BY <4>1, ElementOfSeq
    <3>2. q + 1 \in Int /\ u \in Int /\ q + 1 <= u /\ u - (q + 1) + 1 = u - q
      BY <2>1
    <3> QED BY <3>1, <3>2, SubSeqProperties
  <2>3. SubSeq(s, q + 1, u) # <<>>
    <3>1. u - q # 0
      BY <2>1
    <3>2. Len(<<>>) = 0
      OBVIOUS
    <3> QED BY <2>2, <3>1, <3>2
  <2> QED BY <2>1, <2>2, <2>3
<1> HIDE DEF part, upto, c
<1>6. cuts \in Seq(Seq(S)) /\ Len(cuts) = c /\ \A k \in 1..c : cuts[k] = part(k)
  BY <1>3, <1>5
<1>7. PICK g : Joins(cuts, S, g) /\ FlattenSeq(cuts) = g[Len(cuts)]
  BY <1>6, FlattenJoins
<1>8. /\ g \in [0..c -> Seq(S)] /\ g[0] = <<>>
      /\ \A i \in 1..c : g[i] = g[i - 1] \o part(i)
  BY <1>6, <1>7 DEF Joins
<1> DEFINE T == {k \in 0..c : g[k] = SubSeq(s, 1, upto(k))}
<1>9. 0 \in T
  <2>1. upto(0) = 0
    BY <1>2 DEF upto
  <2>2. SubSeq(s, 1, 0) = <<>>
    OBVIOUS
  <2>3. 0 \in 0..c
    BY <1>3
  <2> HIDE DEF upto
  <2> QED BY <1>8, <2>1, <2>2, <2>3
<1>10. ASSUME NEW k \in 0..c, k \in T, k + 1 \in 0..c PROVE k + 1 \in T
  <2>1. k + 1 \in 1..c /\ (k + 1) - 1 = k
    BY <1>3, <1>10
  <2>2. PICK q \in Nat, u \in Nat : q = k * n /\ q = upto(k) /\ u = upto(k + 1) /\ u <= L /\ q < u
    BY <1>3, <1>4, <2>1
  <2>3. part(k + 1) = SubSeq(s, q + 1, u)
    BY <2>1, <2>2 DEF part
  <2>4. g[k + 1] = g[k] \o part(k + 1)
    BY <1>8, <2>1
  <2>5. g[k] = SubSeq(s, 1, q)
    BY <1>10, <2>2
  <2>6. SubSeq(s, 1, q) \o SubSeq(s, q + 1, u) = SubSeq(s, 1, u)
    <3>1. q <= u /\ u <= Len(s)
      BY <2>2
    <3> QED BY <3>1, BeginningGrows
  <2>7. g[k + 1] = SubSeq(s, 1, u)
    BY <2>3, <2>4, <2>5, <2>6
  <2> QED BY <1>10, <2>2, <2>7
<1>11. T \in SUBSET (0..c)
  OBVIOUS
<1> HIDE DEF T
<1>12. c \in T
  <2>1. T = 0..c
    BY <1>3, <1>9, <1>10, <1>11, GoesOn
  <2> QED BY <1>3, <2>1
<1>13. upto(c) = L
  <2>1. PICK q : q = c * n
    OBVIOUS
  <2>2. q \in Int /\ L <= q
    BY <1>3, <2>1
  <2> HIDE DEF L
  <2> QED BY <1>2, <2>1, <2>2 DEF upto
<1>14. FlattenSeq(cuts) = s
  <2>1. SubSeq(s, 1, L) = s
    OBVIOUS
  <2> QED BY <1>6, <1>7, <1>12, <1>13, <2>1 DEF T
<1> HIDE DEF cuts
<1> QED BY <1>1, <1>5, <1>6, <1>14

\* Nothing is after itself.
LEMMA NotAfterItself ==
  ASSUME NEW P \in SUBSET (Nat \X Nat)
  PROVE  NotAfter(P, P)
<1> SUFFICES ASSUME NEW q \in P PROVE Before(q, q)
  BY DEF NotAfter
<1>1. q[2] \in Nat
  OBVIOUS
<1> QED BY <1>1 DEF Before

\* What is behind the chunks is in order, not nothing, and what is behind all.
BehindChunks(s, ins) ==
  /\ \A k, l \in 1..Len(ins) : k < l => NotAfter(Behind(ins[k]), Behind(ins[l]))
  /\ \A k \in 1..Len(ins) : Behind(ins[k]) \in (SUBSET (Nat \X Nat)) \ {{}}
  /\ \A k \in 1..Len(ins) : Behind(ins[k]) \subseteq Behind(s)
  /\ \A p \in Behind(s) : \E k \in 1..Len(ins) : p \in Behind(ins[k])

\* ReduceChunks of items in order: what is behind them is in order, too, and nothing is lost.
LEMMA ChunksBehind ==
  ASSUME NEW s \in Seq(ReduceItems), Ordered(s), NEW ins \in Seq(Seq(ReduceItems)),
         FlattenSeq(ins) = s, \A k \in 1..Len(ins) : ins[k] # <<>>
  PROVE  BehindChunks(s, ins)
<1>1. PICK b, o : Places(ins, s, b, o)
  BY FlattenPlaces
<1>2. Len(ins) \in Nat /\ \A k \in 1..Len(ins) : ins[k] \in Seq(ReduceItems)
  BY ElementOfSeq, LenProperties
<1>3. Len(s) \in Nat /\ \A i \in 1..Len(s) : s[i] \in ReduceItems
  BY ElementOfSeq, LenProperties
<1>4. /\ b \in [1..Len(s) -> 1..Len(ins)] /\ o \in [1..Len(s) -> Nat]
      /\ \A i \in 1..Len(s) : o[i] \in 1..Len(ins[b[i]]) /\ s[i] = ins[b[i]][o[i]]
      /\ \A i, j \in 1..Len(s) : i < j => b[i] < b[j] \/ (b[i] = b[j] /\ o[i] < o[j])
      /\ \A k \in 1..Len(ins) : \A l \in 1..Len(ins[k]) :
            \E i \in 1..Len(s) : b[i] = k /\ o[i] = l
  BY <1>1, Zenon DEF Places
<1>5. ASSUME NEW k \in 1..Len(ins), NEW p \in Behind(ins[k])
      PROVE  \E i \in 1..Len(s) : b[i] = k /\ p \in s[i].from
  <2>1. PICK l \in 1..Len(ins[k]) : p \in ins[k][l].from
    BY DEF Behind
  <2>2. PICK i \in 1..Len(s) : b[i] = k /\ o[i] = l
    BY <1>4
  <2>3. s[i] = ins[k][l]
    BY <1>4, <2>2
  <2> QED BY <2>1, <2>2, <2>3
<1>6. ASSUME NEW i \in 1..Len(s) PROVE b[i] \in 1..Len(ins) /\ s[i].from \subseteq Behind(ins[b[i]])
  <2>1. b[i] \in 1..Len(ins) /\ o[i] \in 1..Len(ins[b[i]]) /\ s[i] = ins[b[i]][o[i]]
    BY <1>4
  <2> QED BY <2>1 DEF Behind
<1>7. ASSUME NEW k \in 1..Len(ins) PROVE \E i \in 1..Len(s) : b[i] = k
  <2>1. ins[k] \in Seq(ReduceItems) /\ ins[k] # <<>>
    BY <1>2
  <2>2. 1 \in 1..Len(ins[k])
    <3>1. Len(ins[k]) \in Nat /\ Len(ins[k]) # 0
      BY <2>1, EmptySeq, LenProperties
    <3> QED BY <3>1
  <2> QED BY <1>4, <2>2
<1>8. ASSUME NEW k \in 1..Len(ins), NEW l \in 1..Len(ins), k < l
      PROVE  NotAfter(Behind(ins[k]), Behind(ins[l]))
  <2> SUFFICES ASSUME NEW q \in Behind(ins[l]) PROVE \E p \in Behind(ins[k]) : Before(p, q)
    BY DEF NotAfter
  <2>1. PICK j \in 1..Len(s) : b[j] = l /\ q \in s[j].from
    BY <1>5
  <2>2. PICK i \in 1..Len(s) : b[i] = k
    BY <1>7
  <2>3. i < j
    <3>1. i # j
      BY <1>8, <1>2, <2>1, <2>2
    <3>2. ~(j < i)
      <4> SUFFICES ASSUME j < i PROVE FALSE
        OBVIOUS
      <4>1. b[j] < b[i] \/ b[j] = b[i]
        BY <1>4
      <4> QED BY <1>2, <1>8, <2>1, <2>2, <4>1
    <3> QED BY <1>3, <3>1, <3>2
  <2>4. NotAfter(s[i].from, s[j].from)
    BY <2>3 DEF Ordered
  <2>5. PICK p \in s[i].from : Before(p, q)
    BY <2>1, <2>4 DEF NotAfter
  <2>6. p \in Behind(ins[k])
    BY <1>6, <2>2
  <2> QED BY <2>5, <2>6
<1>9. ASSUME NEW k \in 1..Len(ins)
      PROVE  /\ Behind(ins[k]) \in (SUBSET (Nat \X Nat)) \ {{}}
             /\ Behind(ins[k]) \subseteq Behind(s)
  <2>1. ASSUME NEW p \in Behind(ins[k]) PROVE p \in Nat \X Nat /\ p \in Behind(s)
    <3>1. PICK i \in 1..Len(s) : p \in s[i].from
      BY <1>5
    <3>2. s[i].from \subseteq Nat \X Nat
      BY <1>3 DEF ReduceItems
    <3> QED BY <3>1, <3>2 DEF Behind
  <2>2. Behind(ins[k]) # {}
    <3>1. PICK i \in 1..Len(s) : b[i] = k
      BY <1>7
    <3>2. s[i].from # {} /\ s[i].from \subseteq Behind(ins[k])
      BY <1>3, <1>6, <3>1 DEF ReduceItems
    <3> QED BY <3>2
  <2> QED BY <2>1, <2>2
<1>10. ASSUME NEW p \in Behind(s) PROVE \E k \in 1..Len(ins) : p \in Behind(ins[k])
  <2>1. PICK i \in 1..Len(s) : p \in s[i].from
    BY DEF Behind
  <2> QED BY <1>6, <2>1
<1> QED BY <1>8, <1>9, <1>10 DEF BehindChunks

\* What the chunks return, in their order, is in order again, and nothing is lost if
\* each returns something.
LEMMA ResultsBehind ==
  ASSUME NEW s \in Seq(ReduceItems), Ordered(s), NEW ins \in Seq(Seq(ReduceItems)),
         FlattenSeq(ins) = s, \A k \in 1..Len(ins) : ins[k] # <<>>,
         NEW outs \in Seq(Seq(ReduceItems)), Len(outs) = Len(ins),
         \A k \in 1..Len(outs) : \A i \in 1..Len(outs[k]) : outs[k][i].from = Behind(ins[k])
  PROVE  /\ FlattenSeq(outs) \in Seq(ReduceItems) /\ Ordered(FlattenSeq(outs))
         /\ Behind(FlattenSeq(outs)) \subseteq Behind(s)
         /\ (\A k \in 1..Len(outs) : outs[k] # <<>>) => Behind(FlattenSeq(outs)) = Behind(s)
<1> DEFINE r == FlattenSeq(outs)
<1>1. PICK b, o : Places(outs, r, b, o)
  BY FlattenPlaces
<1>2. r \in Seq(ReduceItems)
  BY FlattenType
<1> HIDE DEF r
<1>3. /\ b \in [1..Len(r) -> 1..Len(outs)]
      /\ \A i \in 1..Len(r) : o[i] \in 1..Len(outs[b[i]]) /\ r[i] = outs[b[i]][o[i]]
      /\ \A i, j \in 1..Len(r) : i < j => b[i] < b[j] \/ b[i] = b[j]
      /\ \A k \in 1..Len(outs) : \A l \in 1..Len(outs[k]) :
            \E i \in 1..Len(r) : b[i] = k /\ o[i] = l
  BY <1>1, Zenon DEF Places
<1>0. /\ Len(r) \in Nat /\ Len(ins) \in Nat /\ 1..Len(outs) = 1..Len(ins)
      /\ \A k \in 1..Len(outs) : \A i \in 1..Len(outs[k]) : outs[k][i].from = Behind(ins[k])
  BY <1>2, LenProperties
<1>4. ASSUME NEW i \in 1..Len(r)
      PROVE  b[i] \in 1..Len(ins) /\ r[i].from = Behind(ins[b[i]])
  <2>1. PICK k \in 1..Len(outs) : k = b[i]
    BY <1>3
  <2>2. o[i] \in 1..Len(outs[k]) /\ r[i] = outs[k][o[i]]
    BY <1>3, <2>1
  <2>3. outs[k][o[i]].from = Behind(ins[k])
    BY <1>0, <2>2
  <2> QED BY <1>0, <2>1, <2>2, <2>3
<1>5. /\ \A k, l \in 1..Len(ins) : k < l => NotAfter(Behind(ins[k]), Behind(ins[l]))
      /\ \A k \in 1..Len(ins) : Behind(ins[k]) \in (SUBSET (Nat \X Nat)) \ {{}}
      /\ \A k \in 1..Len(ins) : Behind(ins[k]) \subseteq Behind(s)
      /\ \A p \in Behind(s) : \E k \in 1..Len(ins) : p \in Behind(ins[k])
  <2>1. BehindChunks(s, ins)
    BY ChunksBehind
  <2> QED BY <2>1 DEF BehindChunks
<1>6. Ordered(r)
  <2> SUFFICES ASSUME NEW i \in 1..Len(r), NEW j \in 1..Len(r), i < j
               PROVE  NotAfter(r[i].from, r[j].from)
    BY DEF Ordered
  <2>1. PICK k \in 1..Len(ins) : k = b[i] /\ r[i].from = Behind(ins[k])
    BY <1>4
  <2>2. PICK l \in 1..Len(ins) : l = b[j] /\ r[j].from = Behind(ins[l])
    BY <1>4
  <2>3. k < l \/ k = l
    <3>1. b[i] < b[j] \/ b[i] = b[j]
      BY <1>3
    <3> QED BY <2>1, <2>2, <3>1
  <2>4. CASE k < l
    <3>1. NotAfter(Behind(ins[k]), Behind(ins[l]))
      BY <1>5, <2>4
    <3> QED BY <2>1, <2>2, <3>1
  <2>5. CASE k = l
    <3>1. Behind(ins[k]) \in SUBSET (Nat \X Nat)
      BY <1>5
    <3>2. NotAfter(Behind(ins[k]), Behind(ins[k]))
      BY <3>1, NotAfterItself
    <3> QED BY <2>1, <2>2, <2>5, <3>2
  <2> QED BY <2>3, <2>4, <2>5
<1>7. Behind(r) \subseteq Behind(s)
  <2> SUFFICES ASSUME NEW p \in Behind(r) PROVE p \in Behind(s)
    OBVIOUS
  <2>1. PICK i \in 1..Len(r) : p \in r[i].from
    BY DEF Behind
  <2> QED BY <1>4, <1>5, <2>1
<1>8. ASSUME \A k \in 1..Len(outs) : outs[k] # <<>> PROVE Behind(s) \subseteq Behind(r)
  <2> SUFFICES ASSUME NEW p \in Behind(s) PROVE p \in Behind(r)
    OBVIOUS
  <2>1. PICK k \in 1..Len(ins) : p \in Behind(ins[k])
    BY <1>5
  <2>2. k \in 1..Len(outs) /\ outs[k] \in Seq(ReduceItems) /\ outs[k] # <<>>
    BY <1>8, ElementOfSeq
  <2>3. 1 \in 1..Len(outs[k])
    <3>1. Len(outs[k]) \in Nat /\ Len(outs[k]) # 0
      BY <2>2, EmptySeq, LenProperties
    <3> QED BY <3>1
  <2>4. PICK i \in 1..Len(r) : b[i] = k
    BY <1>3, <2>2, <2>3
  <2>5. p \in r[i].from
    BY <1>4, <2>1, <2>4
  <2> QED BY <2>5 DEF Behind
<1> QED BY <1>2, <1>6, <1>7, <1>8 DEF r

\* What the files hold is in the files' order, ...
LEMMA ExtractedInOrder ==
  ASSUME input \in Inputs
  PROVE  Extracted \in Seq(ReduceItems) /\ Ordered(Extracted)
<1> DEFINE seqs == [f \in 1..Len(input) |-> Read(f)]
           whole == FlattenSeq(seqs)
<1>1. Len(input) \in Nat /\ \A f \in 1..Len(input) : input[f].fields \in Seq(FieldValues)
  BY ReduceAssumption
<1>2. ASSUME NEW f \in 1..Len(input)
      PROVE  /\ Read(f) \in Seq(ReduceItems)
             /\ \A k \in 1..Len(Read(f)) : k \in Nat /\ Read(f)[k].from = {<<f, k>>}
  <2>1. CASE input[f].kind = "missing"
    <3>1. Read(f) = <<>> /\ Len(<<>>) = 0
      BY <2>1 DEF Read
    <3> QED BY <3>1
  <2>2. CASE input[f].kind # "missing"
    <3>1. PICK s \in Seq(FieldValues) : s = input[f].fields
      BY <1>1
    <3>2. Read(f) = [k \in 1..Len(s) |-> [from |-> {<<f, k>>}, field |-> s[k]]]
      BY <2>2, <3>1 DEF Read
    <3>3. Len(s) \in Nat /\ \A k \in 1..Len(s) : s[k] \in FieldValues
      BY <3>1, ElementOfSeq, LenProperties
    <3>4. ASSUME NEW k \in 1..Len(s) PROVE [from |-> {<<f, k>>}, field |-> s[k]] \in ReduceItems
      <4>1. f \in Nat /\ k \in Nat /\ s[k] \in FieldValues
        BY <1>1, <3>3
      <4>2. {<<f, k>>} \in (SUBSET (Nat \X Nat)) \ {{}}
        BY <4>1
      <4> QED BY <4>1, <4>2 DEF ReduceItems
    <3>5. Read(f) \in Seq(ReduceItems) /\ Len(Read(f)) = Len(s)
      BY <3>2, <3>3, <3>4
    <3> QED BY <3>2, <3>3, <3>5
  <2> QED BY <2>1, <2>2
<1>3. seqs \in Seq(Seq(ReduceItems)) /\ Len(seqs) = Len(input) /\ \A f \in 1..Len(input) : seqs[f] = Read(f)
  BY <1>1, <1>2
<1> HIDE DEF seqs
<1>4. whole \in Seq(ReduceItems)
  BY <1>3, FlattenType
<1>5. PICK b, o : Places(seqs, whole, b, o)
  BY <1>3, FlattenPlaces
<1> HIDE DEF whole
<1>6. /\ \A i \in 1..Len(whole) : b[i] \in 1..Len(seqs)
      /\ \A i \in 1..Len(whole) : o[i] \in 1..Len(seqs[b[i]]) /\ whole[i] = seqs[b[i]][o[i]]
      /\ \A i, j \in 1..Len(whole) : i < j => b[i] < b[j] \/ (b[i] = b[j] /\ o[i] < o[j])
  BY <1>5, Zenon DEF Places
<1>7. ASSUME NEW i \in 1..Len(whole)
      PROVE  b[i] \in Nat /\ o[i] \in Nat /\ whole[i].from = {<<b[i], o[i]>>}
  <2>1. PICK f \in 1..Len(input) : f = b[i]
    BY <1>3, <1>6
  <2>2. o[i] \in 1..Len(Read(f)) /\ whole[i] = Read(f)[o[i]]
    BY <1>3, <1>6, <2>1
  <2>3. o[i] \in Nat /\ whole[i].from = {<<f, o[i]>>}
    BY <1>2, <2>2
  <2>4. f \in Nat
    BY <1>1
  <2> QED BY <2>1, <2>3, <2>4
<1>8. Ordered(whole)
  <2> SUFFICES ASSUME NEW i \in 1..Len(whole), NEW j \in 1..Len(whole), i < j
               PROVE  NotAfter(whole[i].from, whole[j].from)
    BY DEF Ordered
  <2>1. PICK p \in Nat, q \in Nat : p = b[i] /\ q = o[i] /\ whole[i].from = {<<p, q>>}
    BY <1>7
  <2>2. PICK u \in Nat, v \in Nat : u = b[j] /\ v = o[j] /\ whole[j].from = {<<u, v>>}
    BY <1>7
  <2>3. p < u \/ (p = u /\ q < v)
    BY <1>6, <2>1, <2>2
  <2>4. Before(<<p, q>>, <<u, v>>)
    BY <2>3 DEF Before
  <2> QED BY <2>1, <2>2, <2>4 DEF NotAfter
<1>9. Extracted = whole
  BY DEF Extracted, whole, seqs
<1> QED BY <1>4, <1>8, <1>9

\* ... and stays in it when some are left out.
LEMMA DedupedInOrder ==
  ASSUME NEW s \in Seq(ReduceItems), Ordered(s)
  PROVE  Deduped(s) \in Seq(ReduceItems) /\ Ordered(Deduped(s))
<1> DEFINE first(k) == s[k].field = NoField \/ \A l \in 1..k - 1 : s[l].field # s[k].field
           seqs == [k \in 1..Len(s) |-> IF first(k) THEN <<s[k]>> ELSE <<>>]
           whole == FlattenSeq(seqs)
<1>1. Deduped(s) = whole
  BY DEF Deduped
<1>2. Len(s) \in Nat /\ \A k \in 1..Len(s) : s[k] \in ReduceItems
  BY ElementOfSeq, LenProperties
<1>3. ASSUME NEW k \in 1..Len(s)
      PROVE  /\ seqs[k] \in Seq(ReduceItems)
             /\ \A l \in 1..Len(seqs[k]) : l = 1 /\ seqs[k][l] = s[k]
  <2> HIDE DEF first
  <2>1. CASE first(k)
    <3>1. seqs[k] = <<s[k]>>
      BY <2>1
    <3>2. <<s[k]>> \in Seq(ReduceItems) /\ Len(<<s[k]>>) = 1 /\ <<s[k]>>[1] = s[k]
      BY <1>2
    <3> QED BY <3>1, <3>2
  <2>2. CASE ~first(k)
    <3>1. seqs[k] = <<>> /\ Len(<<>>) = 0
      BY <2>2
    <3> QED BY <3>1
  <2> QED BY <2>1, <2>2
<1> HIDE DEF first
<1>4. seqs \in Seq(Seq(ReduceItems)) /\ Len(seqs) = Len(s)
  BY <1>2, <1>3
<1> HIDE DEF seqs
<1>5. whole \in Seq(ReduceItems)
  BY <1>4, FlattenType
<1>6. PICK b, o : Places(seqs, whole, b, o)
  BY <1>4, FlattenPlaces
<1> HIDE DEF whole
<1>7. /\ \A i \in 1..Len(whole) : b[i] \in 1..Len(seqs)
      /\ \A i \in 1..Len(whole) : o[i] \in 1..Len(seqs[b[i]]) /\ whole[i] = seqs[b[i]][o[i]]
      /\ \A i, j \in 1..Len(whole) : i < j => b[i] < b[j] \/ (b[i] = b[j] /\ o[i] < o[j])
  BY <1>6, Zenon DEF Places
<1>8. ASSUME NEW i \in 1..Len(whole) PROVE b[i] \in 1..Len(s) /\ o[i] = 1 /\ whole[i] = s[b[i]]
  <2>1. PICK k \in 1..Len(s) : k = b[i]
    BY <1>4, <1>7
  <2>2. o[i] \in 1..Len(seqs[k]) /\ whole[i] = seqs[k][o[i]]
    BY <1>7, <2>1
  <2>3. o[i] = 1 /\ whole[i] = s[k]
    BY <1>3, <2>2
  <2> QED BY <2>1, <2>3
<1>9. Ordered(whole)
  <2> SUFFICES ASSUME NEW i \in 1..Len(whole), NEW j \in 1..Len(whole), i < j
               PROVE  NotAfter(whole[i].from, whole[j].from)
    BY DEF Ordered
  <2>1. PICK p \in 1..Len(s) : p = b[i] /\ o[i] = 1 /\ whole[i] = s[p]
    BY <1>8
  <2>2. PICK q \in 1..Len(s) : q = b[j] /\ o[j] = 1 /\ whole[j] = s[q]
    BY <1>8
  <2>3. b[i] < b[j] \/ (b[i] = b[j] /\ o[i] < o[j])
    BY <1>7
  <2>4. p < q
    BY <2>1, <2>2, <2>3
  <2>5. NotAfter(s[p].from, s[q].from)
    BY <2>4 DEF Ordered
  <2> QED BY <2>1, <2>2, <2>5
<1> QED BY <1>1, <1>5, <1>9

\* The chunks of a round before any of them starts.
ReduceChunks == [in : Seq(ReduceItems), is : {"waiting", "running", "done"}, out : Seq(ReduceItems)]
ChunkInputs(c) == [k \in 1..Len(c) |-> c[k].in]

\* New chunks wait, and are the items cut up; a negative size cuts nothing.
LEMMA ChunksAreCut ==
  ASSUME NEW s \in Seq(ReduceItems), chunkSize \in Int \ {0}
  PROVE  /\ NewChunks(s) \in Seq(ReduceChunks) /\ ChunkInputs(NewChunks(s)) = Cut(s, chunkSize)
         /\ \A k \in 1..Len(NewChunks(s)) : NewChunks(s)[k].is = "waiting" /\ NewChunks(s)[k].out = <<>>
         /\ chunkSize < 0 => NewChunks(s) = <<>> /\ Cut(s, chunkSize) = <<>>
<1>1. PICK c : c = Cut(s, chunkSize)
  OBVIOUS
<1>2. c \in Seq(Seq(ReduceItems)) /\ (chunkSize < 0 => c = <<>>)
  <2>1. CASE chunkSize < 0
    <3>1. c = <<>>
      BY <1>1, <2>1 DEF Cut
    <3> QED BY <3>1
  <2>2. CASE ~(chunkSize < 0)
    <3>1. chunkSize \in Nat /\ chunkSize > 0
      BY <2>2
    <3> QED BY <1>1, <2>2, <3>1, CutsJoin
  <2> QED BY <2>1, <2>2
<1>3. Len(c) \in Nat /\ \A k \in 1..Len(c) : c[k] \in Seq(ReduceItems)
  BY <1>2, ElementOfSeq, LenProperties
<1>4. PICK w : w = [k \in 1..Len(c) |-> [in |-> c[k], is |-> "waiting", out |-> <<>>]]
  OBVIOUS
<1>5. NewChunks(s) = w
  BY <1>1, <1>4 DEF NewChunks
<1>6. \A k \in 1..Len(c) : [in |-> c[k], is |-> "waiting", out |-> <<>>] \in ReduceChunks
  BY <1>3 DEF ReduceChunks
<1>7. w \in Seq(ReduceChunks) /\ Len(w) = Len(c)
  BY <1>3, <1>4, <1>6
<1>8. \A k \in 1..Len(c) : w[k].in = c[k] /\ w[k].is = "waiting" /\ w[k].out = <<>>
  BY <1>4
<1>9. ChunkInputs(w) = c
  <2>1. ChunkInputs(w) = [k \in 1..Len(c) |-> c[k]]
    BY <1>7, <1>8 DEF ChunkInputs
  <2>2. c = [k \in 1..Len(c) |-> c[k]]
    BY <1>2
  <2> QED BY <2>1, <2>2
<1>10. chunkSize < 0 => w = <<>>
  BY <1>2, <1>7, EmptySeq
<1> QED BY <1>1, <1>2, <1>5, <1>7, <1>8, <1>9, <1>10

-----------------------------------------------------------------------------
\* What the chunks returned.
ChunkOutputs(c) == [k \in 1..Len(c) |-> c[k].out]

\* What is left is in order and behind it is what was merged; in a round the chunks
\* are those of the items, and what one returned has behind it what went in.
ReduceInv ==
  /\ input \in Inputs /\ chunkSize \in ChunkSizes /\ until \in Untils
  /\ mode \in {"one file", "chunks", "tree"}
  /\ stage \in {"called", "round", "failed", "done"} /\ round \in 0..MaxRounds
  /\ emptied \in BOOLEAN
  /\ items \in Seq(ReduceItems) /\ chunk \in Seq(ReduceChunks)
  /\ Ordered(items) /\ Behind(items) \subseteq merged
  /\ ~emptied /\ chunkSize > 0 => Behind(items) = merged
  /\ stage = "called" => round = 0
  /\ stage = "round" =>
        /\ mode = "tree" /\ ChunkInputs(chunk) = Cut(items, chunkSize)
        /\ \A k \in 1..Len(chunk) : \A i \in 1..Len(chunk[k].out) :
              chunk[k].out[i].from = Behind(chunk[k].in)
        /\ ~emptied => \A k \in 1..Len(chunk) : chunk[k].is = "done" => chunk[k].out # <<>>
  /\ stage = "done" /\ mode = "tree" => Len(items) <= until \/ round = MaxRounds
  /\ stage = "done" /\ mode = "chunks" /\ chunk # <<>> => FlattenSeq(ChunkInputs(chunk)) = items

\* There are chunks only when the items are cut forwards, and then nothing is lost.
LEMMA ChunksOfItems ==
  ASSUME ReduceInv, stage = "round", chunkSize > 0
  PROVE  /\ ChunkInputs(chunk) \in Seq(Seq(ReduceItems)) /\ FlattenSeq(ChunkInputs(chunk)) = items
         /\ \A k \in 1..Len(ChunkInputs(chunk)) : ChunkInputs(chunk)[k] # <<>>
         /\ Len(ChunkInputs(chunk)) = Len(chunk) /\ \A k \in 1..Len(chunk) : ChunkInputs(chunk)[k] = chunk[k].in
<1>1. chunkSize \in Nat /\ items \in Seq(ReduceItems) /\ chunk \in Seq(ReduceChunks)
      /\ ChunkInputs(chunk) = Cut(items, chunkSize)
  BY ReduceAssumption DEF ReduceInv
<1>2. /\ Cut(items, chunkSize) \in Seq(Seq(ReduceItems))
      /\ FlattenSeq(Cut(items, chunkSize)) = items
      /\ \A k \in 1..Len(Cut(items, chunkSize)) : Cut(items, chunkSize)[k] # <<>>
  BY <1>1, CutsJoin
<1>3. Len(chunk) \in Nat
  BY <1>1, LenProperties
<1>4. Len(ChunkInputs(chunk)) = Len(chunk) /\ \A k \in 1..Len(chunk) : ChunkInputs(chunk)[k] = chunk[k].in
  BY <1>3 DEF ChunkInputs
<1> QED BY <1>1, <1>2, <1>4

\* Of a negative size there are no chunks.
LEMMA NoChunksBackwards ==
  ASSUME ReduceInv, stage = "round", ~(chunkSize > 0)
  PROVE  chunk = <<>>
<1>1. chunkSize \in Int \ {0} /\ chunkSize < 0 /\ items \in Seq(ReduceItems)
      /\ chunk \in Seq(ReduceChunks) /\ ChunkInputs(chunk) = Cut(items, chunkSize)
  BY ReduceAssumption DEF ReduceInv
<1>2. ChunkInputs(chunk) = <<>>
  BY <1>1, ChunksAreCut
<1>3. Len(chunk) \in Nat /\ Len(ChunkInputs(chunk)) = Len(chunk)
  BY <1>1, LenProperties DEF ChunkInputs
<1>4. Len(chunk) = 0
  BY <1>2, <1>3
<1> QED BY <1>1, <1>4, EmptySeq

\* What a round collects is in order, and behind it is what was behind the items if
\* no chunk returned an empty list.
LEMMA CollectedInOrder ==
  ASSUME ReduceInv, stage = "round"
  PROVE  /\ Collected \in Seq(ReduceItems) /\ Ordered(Collected)
         /\ Behind(Collected) \subseteq Behind(items)
         /\ ~emptied /\ chunkSize > 0 /\ (\A k \in 1..Len(chunk) : chunk[k].is = "done")
            => Behind(Collected) = Behind(items)
<1>1. chunk \in Seq(ReduceChunks) /\ Len(chunk) \in Nat
  BY LenProperties DEF ReduceInv
<1>2. \A k \in 1..Len(chunk) : chunk[k] \in ReduceChunks
  BY <1>1, ElementOfSeq
<1>3. Collected = FlattenSeq(ChunkOutputs(chunk))
  BY DEF Collected, ChunkOutputs
<1>4. /\ ChunkOutputs(chunk) \in Seq(Seq(ReduceItems)) /\ Len(ChunkOutputs(chunk)) = Len(chunk)
      /\ \A k \in 1..Len(chunk) : ChunkOutputs(chunk)[k] = chunk[k].out
  <2>1. \A k \in 1..Len(chunk) : chunk[k].out \in Seq(ReduceItems)
    BY <1>2 DEF ReduceChunks
  <2> QED BY <1>1, <2>1 DEF ChunkOutputs
<1>5. CASE chunkSize > 0
  <2>1. PICK ins \in Seq(Seq(ReduceItems)) : ins = ChunkInputs(chunk)
    BY <1>5, ChunksOfItems
  <2>2. PICK outs \in Seq(Seq(ReduceItems)) : outs = ChunkOutputs(chunk)
    BY <1>4
  <2>3. /\ FlattenSeq(ins) = items /\ Len(ins) = Len(chunk)
        /\ \A k \in 1..Len(ins) : ins[k] # <<>> /\ ins[k] = chunk[k].in
    BY <1>5, <2>1, ChunksOfItems
  <2>4. /\ Len(outs) = Len(ins)
        /\ \A k \in 1..Len(outs) : \A i \in 1..Len(outs[k]) : outs[k][i].from = Behind(ins[k])
    <3>1. \A k \in 1..Len(chunk) : \A i \in 1..Len(chunk[k].out) :
             chunk[k].out[i].from = Behind(chunk[k].in)
      BY DEF ReduceInv
    <3>2. Len(outs) = Len(ins) /\ 1..Len(outs) = 1..Len(chunk)
      BY <1>4, <2>2, <2>3
    <3>3. ASSUME NEW k \in 1..Len(outs), NEW i \in 1..Len(outs[k])
          PROVE  outs[k][i].from = Behind(ins[k])
      <4>1. k \in 1..Len(chunk) /\ outs[k] = chunk[k].out /\ ins[k] = chunk[k].in
        BY <1>4, <2>2, <2>3, <3>2
      <4>2. chunk[k].out[i].from = Behind(chunk[k].in)
        BY <3>1, <4>1
      <4> QED BY <4>1, <4>2
    <3> QED BY <3>2, <3>3
  <2>5. items \in Seq(ReduceItems) /\ Ordered(items)
    BY DEF ReduceInv
  <2>6. /\ FlattenSeq(outs) \in Seq(ReduceItems) /\ Ordered(FlattenSeq(outs))
        /\ Behind(FlattenSeq(outs)) \subseteq Behind(items)
        /\ (\A k \in 1..Len(outs) : outs[k] # <<>>) => Behind(FlattenSeq(outs)) = Behind(items)
    BY <2>3, <2>4, <2>5, ResultsBehind
  <2>7. ASSUME ~emptied, \A k \in 1..Len(chunk) : chunk[k].is = "done"
        PROVE  \A k \in 1..Len(outs) : outs[k] # <<>>
    <3>1. \A k \in 1..Len(chunk) : chunk[k].is = "done" => chunk[k].out # <<>>
      BY <2>7 DEF ReduceInv
    <3>2. ASSUME NEW k \in 1..Len(outs) PROVE outs[k] # <<>>
      <4>1. k \in 1..Len(chunk) /\ outs[k] = chunk[k].out
        BY <1>4, <2>2
      <4> QED BY <2>7, <3>1, <4>1
    <3> QED BY <3>2
  <2> QED BY <1>3, <2>2, <2>6, <2>7
<1>6. CASE ~(chunkSize > 0)
  <2>1. chunk = <<>>
    BY <1>6, NoChunksBackwards
  <2>2. ChunkOutputs(chunk) = <<>>
    BY <1>4, <2>1
  <2>3. Collected = <<>>
    BY <1>3, <2>2, FlattenNothing
  <2>4. Len(<<>>) = 0 /\ <<>> \in Seq(ReduceItems)
    OBVIOUS
  <2> QED BY <1>6, <2>3, <2>4 DEF Ordered, Behind
<1> QED BY <1>5, <1>6

\* At first there are no items.
LEMMA ReduceStarts == ReduceInit => ReduceInv
<1> SUFFICES ASSUME ReduceInit PROVE ReduceInv
  OBVIOUS
<1>1. Len(<<>>) = 0 /\ <<>> \in Seq(ReduceItems) /\ <<>> \in Seq(ReduceChunks)
  OBVIOUS
<1>2. Ordered(<<>>) /\ Behind(<<>>) = {}
  BY <1>1 DEF Ordered, Behind
<1>3. /\ input \in Inputs /\ chunkSize \in ChunkSizes /\ until \in Untils
      /\ mode \in {"one file", "chunks", "tree"} /\ stage = "called" /\ round = 0
      /\ items = <<>> /\ chunk = <<>> /\ merged = {} /\ emptied = FALSE
  BY DEF ReduceInit
<1>4. round \in 0..MaxRounds
  <2>1. MaxRounds \in Nat /\ round = 0
    BY <1>3, ReduceAssumption
  <2> QED BY <2>1
<1>5. items \in Seq(ReduceItems) /\ chunk \in Seq(ReduceChunks)
  BY <1>1, <1>3
<1>6. Ordered(items) /\ Behind(items) = merged
  BY <1>2, <1>3
<1> QED BY <1>3, <1>4, <1>5, <1>6 DEF ReduceInv

\* Every step of the reduction keeps the invariant.
LEMMA ReduceSteps == ReduceInv /\ [ReduceNext]_reduceVars => ReduceInv'
<1> SUFFICES ASSUME ReduceInv, [ReduceNext]_reduceVars PROVE ReduceInv'
  OBVIOUS
<1>0. chunkSize \in Int \ {0} /\ until \in Int /\ MaxRounds \in Nat /\ NoField \in FieldValues
  BY ReduceAssumption DEF ReduceInv
<1>1. CASE Merge
  <2>1. items' \in Seq(ReduceItems) /\ Ordered(items')
    <3>1. Extracted \in Seq(ReduceItems) /\ Ordered(Extracted)
      BY ExtractedInOrder DEF ReduceInv
    <3>2. Deduped(Extracted) \in Seq(ReduceItems) /\ Ordered(Deduped(Extracted))
      BY <3>1, DedupedInOrder
    <3> QED BY <1>1, <3>1, <3>2 DEF Merge
  <2>2. PICK w : w = NewChunks(items')
    OBVIOUS
  <2>3. /\ w \in Seq(ReduceChunks) /\ ChunkInputs(w) = Cut(items', chunkSize)
        /\ \A k \in 1..Len(w) : w[k].is = "waiting" /\ w[k].out = <<>>
        /\ chunkSize < 0 => w = <<>>
    BY <1>0, <2>1, <2>2, ChunksAreCut
  <2>4. /\ UNCHANGED <<input, mode, chunkSize, until, emptied>> /\ merged' = Behind(items')
        /\ stage = "called" /\ round = 0
    BY <1>1 DEF Merge, ReduceInv
  <2>5. CASE mode = "tree" /\ Len(items') > until /\ MaxRounds > 0
    <3>1. stage' = "round" /\ chunk' = w /\ round' = 1
      BY <1>1, <2>2, <2>5 DEF Merge
    <3>2. Len(<<>>) = 0
      OBVIOUS
    <3>3. \A k \in 1..Len(w) : Len(w[k].out) = 0 /\ w[k].is # "done"
      BY <2>3, <3>2
    <3>4. round' \in 0..MaxRounds
      BY <1>0, <2>5, <3>1
    <3> QED BY <2>1, <2>3, <2>4, <2>5, <3>1, <3>3, <3>4 DEF ReduceInv
  <2>6. CASE ~(mode = "tree" /\ Len(items') > until /\ MaxRounds > 0)
    <3>1. stage' = "done" /\ round' = 0
      BY <1>1, <2>4, <2>6 DEF Merge
    <3>2. chunk' = w \/ chunk' = <<>>
      BY <1>1, <2>2, <2>6 DEF Merge
    <3>3. chunk' \in Seq(ReduceChunks)
      <4>1. <<>> \in Seq(ReduceChunks)
        OBVIOUS
      <4> QED BY <2>3, <3>2, <4>1
    <3>4. mode = "tree" => Len(items') <= until \/ round' = MaxRounds
      <4>1. Len(items') \in Nat
        BY <2>1, LenProperties
      <4> QED BY <1>0, <2>6, <3>1, <4>1
    <3>5. ASSUME chunk' # <<>> PROVE FlattenSeq(ChunkInputs(chunk')) = items'
      <4>1. chunk' = w /\ chunkSize \in Nat /\ chunkSize > 0
        BY <1>0, <2>3, <3>2, <3>5
      <4>2. FlattenSeq(Cut(items', chunkSize)) = items'
        BY <2>1, <4>1, CutsJoin
      <4> QED BY <2>3, <4>1, <4>2
    <3>6. round' \in 0..MaxRounds
      BY <1>0, <3>1
    <3> QED BY <2>1, <2>4, <3>1, <3>3, <3>4, <3>5, <3>6 DEF ReduceInv
  <2> QED BY <2>5, <2>6
<1>2. ASSUME NEW k \in DOMAIN chunk, ChunkStarts(k) PROVE ReduceInv'
  <2>1. /\ chunk \in Seq(ReduceChunks) /\ stage = "round" /\ stage' = stage
        /\ k \in 1..Len(chunk) /\ chunk[k].is = "waiting"
        /\ chunk' = [chunk EXCEPT ![k] = [in |-> chunk[k].in, is |-> "running", out |-> <<>>]]
        /\ UNCHANGED <<input, mode, chunkSize, until, stage, items, round, merged, emptied>>
    BY <1>2 DEF ChunkStarts, ReduceInv
  <2>2. chunk[k].in \in Seq(ReduceItems)
    <3>1. chunk[k] \in ReduceChunks
      BY <2>1, ElementOfSeq
    <3> QED BY <3>1 DEF ReduceChunks
  <2>3. PICK c : c = [in |-> chunk[k].in, is |-> "running", out |-> <<>>]
    OBVIOUS
  <2>4. c \in ReduceChunks /\ c.in = chunk[k].in /\ c.is # "done" /\ Len(c.out) = 0
    BY <2>2, <2>3 DEF ReduceChunks
  <2>5. chunk' = [chunk EXCEPT ![k] = c]
    BY <2>1, <2>3
  <2>6. /\ chunk' \in Seq(ReduceChunks) /\ Len(chunk') = Len(chunk)
        /\ \A l \in 1..Len(chunk) : chunk'[l] = IF l = k THEN c ELSE chunk[l]
    BY <2>1, <2>4, <2>5
  <2>7. ChunkInputs(chunk') = ChunkInputs(chunk)
    BY <2>4, <2>6 DEF ChunkInputs
  <2>8. /\ ChunkInputs(chunk') = Cut(items, chunkSize)
        /\ \A l \in 1..Len(chunk') : \A i \in 1..Len(chunk'[l].out) :
              chunk'[l].out[i].from = Behind(chunk'[l].in)
        /\ ~emptied => \A l \in 1..Len(chunk') : chunk'[l].is = "done" => chunk'[l].out # <<>>
    <3>1. /\ ChunkInputs(chunk) = Cut(items, chunkSize)
          /\ \A l \in 1..Len(chunk) : \A i \in 1..Len(chunk[l].out) :
                chunk[l].out[i].from = Behind(chunk[l].in)
          /\ ~emptied => \A l \in 1..Len(chunk) : chunk[l].is = "done" => chunk[l].out # <<>>
      BY <2>1 DEF ReduceInv
    <3>2. ASSUME NEW l \in 1..Len(chunk')
          PROVE  /\ \A i \in 1..Len(chunk'[l].out) : chunk'[l].out[i].from = Behind(chunk'[l].in)
                 /\ ~emptied => (chunk'[l].is = "done" => chunk'[l].out # <<>>)
      <4>1. CASE l = k
        <5>1. chunk'[l] = c
          BY <2>1, <2>6, <4>1
        <5> QED BY <2>4, <5>1
      <4>2. CASE l # k
        <5>1. chunk'[l] = chunk[l] /\ l \in 1..Len(chunk)
          BY <2>6, <4>2
        <5> QED BY <3>1, <5>1
      <4> QED BY <4>1, <4>2
    <3> QED BY <2>7, <3>1, <3>2
  <2> QED BY <2>1, <2>6, <2>8 DEF ReduceInv
<1>3. ASSUME NEW k \in DOMAIN chunk, ChunkEnds(k) PROVE ReduceInv'
  <2>1. /\ chunk \in Seq(ReduceChunks) /\ stage = "round" /\ stage' = stage
        /\ k \in 1..Len(chunk)
        /\ UNCHANGED <<input, mode, chunkSize, until, stage, items, round, merged>>
    BY <1>3 DEF ChunkEnds, ReduceInv
  <2>2. PICK n \in 0..2 :
           /\ chunk' = [chunk EXCEPT ![k] =
                 [in |-> chunk[k].in, is |-> "done",
                  out |-> [i \in 1..n |-> [from |-> Behind(chunk[k].in), field |-> NoField]]]]
           /\ emptied' = (emptied \/ n = 0)
    BY <1>3 DEF ChunkEnds
  <2>3. chunk[k].in \in Seq(ReduceItems)
    <3>1. chunk[k] \in ReduceChunks
      BY <2>1, ElementOfSeq
    <3> QED BY <3>1 DEF ReduceChunks
  <2>4. chunkSize > 0
    <3> SUFFICES ASSUME ~(chunkSize > 0) PROVE FALSE
      OBVIOUS
    <3>1. chunk = <<>> /\ Len(<<>>) = 0
      BY <2>1, NoChunksBackwards
    <3> QED BY <2>1, <3>1
  <2>5. PICK P \in (SUBSET (Nat \X Nat)) \ {{}} : P = Behind(chunk[k].in)
    <3>1. PICK ins \in Seq(Seq(ReduceItems)) : ins = ChunkInputs(chunk)
      BY <2>1, <2>4, ChunksOfItems
    <3>2. /\ FlattenSeq(ins) = items /\ Len(ins) = Len(chunk)
          /\ \A l \in 1..Len(ins) : ins[l] # <<>> /\ ins[l] = chunk[l].in
      BY <2>1, <2>4, <3>1, ChunksOfItems
    <3>3. items \in Seq(ReduceItems) /\ Ordered(items)
      BY DEF ReduceInv
    <3>4. BehindChunks(items, ins)
      BY <3>2, <3>3, ChunksBehind
    <3>5. Behind(ins[k]) \in (SUBSET (Nat \X Nat)) \ {{}} /\ ins[k] = chunk[k].in
      BY <2>1, <3>2, <3>4 DEF BehindChunks
    <3> QED BY <3>5
  <2>6. PICK v : v = [i \in 1..n |-> [from |-> P, field |-> NoField]]
    OBVIOUS
  <2>7. v \in Seq(ReduceItems) /\ Len(v) = n /\ \A i \in 1..n : v[i].from = P
    <3>1. [from |-> P, field |-> NoField] \in ReduceItems
      BY <1>0, <2>5 DEF ReduceItems
    <3> QED BY <2>6, <3>1
  <2>8. PICK c : c = [in |-> chunk[k].in, is |-> "done", out |-> v]
    OBVIOUS
  <2>9. /\ c \in ReduceChunks /\ c.in = chunk[k].in /\ (n # 0 => c.out # <<>>)
        /\ \A i \in 1..Len(c.out) : c.out[i].from = Behind(c.in)
    <3>1. c \in ReduceChunks
      BY <2>3, <2>7, <2>8 DEF ReduceChunks
    <3>2. c.in = chunk[k].in /\ c.out = v
      BY <2>8
    <3>3. n # 0 => v # <<>>
      BY <2>7
    <3> QED BY <2>5, <2>7, <3>1, <3>2, <3>3
  <2>10. chunk' = [chunk EXCEPT ![k] = c]
    BY <2>2, <2>5, <2>6, <2>8
  <2>11. /\ chunk' \in Seq(ReduceChunks) /\ Len(chunk') = Len(chunk)
         /\ \A l \in 1..Len(chunk) : chunk'[l] = IF l = k THEN c ELSE chunk[l]
    BY <2>1, <2>9, <2>10
  <2>12. ChunkInputs(chunk') = ChunkInputs(chunk)
    BY <2>9, <2>11 DEF ChunkInputs
  <2>13. /\ ChunkInputs(chunk') = Cut(items, chunkSize)
         /\ \A l \in 1..Len(chunk') : \A i \in 1..Len(chunk'[l].out) :
               chunk'[l].out[i].from = Behind(chunk'[l].in)
         /\ ~emptied' => \A l \in 1..Len(chunk') : chunk'[l].is = "done" => chunk'[l].out # <<>>
    <3>1. /\ ChunkInputs(chunk) = Cut(items, chunkSize)
          /\ \A l \in 1..Len(chunk) : \A i \in 1..Len(chunk[l].out) :
                chunk[l].out[i].from = Behind(chunk[l].in)
          /\ ~emptied => \A l \in 1..Len(chunk) : chunk[l].is = "done" => chunk[l].out # <<>>
      BY <2>1 DEF ReduceInv
    <3>2. ASSUME NEW l \in 1..Len(chunk')
          PROVE  /\ \A i \in 1..Len(chunk'[l].out) : chunk'[l].out[i].from = Behind(chunk'[l].in)
                 /\ ~emptied' => (chunk'[l].is = "done" => chunk'[l].out # <<>>)
      <4>1. CASE l = k
        <5>1. chunk'[l] = c
          BY <2>1, <2>11, <4>1
        <5> QED BY <2>2, <2>9, <5>1
      <4>2. CASE l # k
        <5>1. chunk'[l] = chunk[l] /\ l \in 1..Len(chunk)
          BY <2>11, <4>2
        <5> QED BY <2>2, <3>1, <5>1
      <4> QED BY <4>1, <4>2
    <3> QED BY <2>12, <3>1, <3>2
  <2>14. emptied' \in BOOLEAN /\ (~emptied' => ~emptied)
    BY <2>2 DEF ReduceInv
  <2> QED BY <2>1, <2>11, <2>13, <2>14 DEF ReduceInv
<1>4. ASSUME NEW k \in DOMAIN chunk, ChunkRaises(k) PROVE ReduceInv'
  BY <1>4 DEF ChunkRaises, ReduceInv
<1>5. CASE RoundEnds
  <2>1. /\ stage = "round" /\ items' = Collected /\ chunk \in Seq(ReduceChunks)
        /\ \A k \in 1..Len(chunk) : chunk[k].is = "done"
        /\ UNCHANGED <<input, mode, chunkSize, until, merged, emptied>>
        /\ mode = "tree" /\ round \in 0..MaxRounds
    BY <1>5 DEF RoundEnds, ReduceInv
  <2>2. /\ items' \in Seq(ReduceItems) /\ Ordered(items') /\ Behind(items') \subseteq merged
        /\ ~emptied /\ chunkSize > 0 => Behind(items') = merged
    <3>1. /\ Behind(items) \subseteq merged
          /\ ~emptied /\ chunkSize > 0 => Behind(items) = merged
      BY DEF ReduceInv
    <3> QED BY <2>1, <3>1, CollectedInOrder
  <2>3. PICK w : w = NewChunks(items')
    OBVIOUS
  <2>4. /\ w \in Seq(ReduceChunks) /\ ChunkInputs(w) = Cut(items', chunkSize)
        /\ \A k \in 1..Len(w) : w[k].is = "waiting" /\ w[k].out = <<>>
    BY <1>0, <2>2, <2>3, ChunksAreCut
  <2>5. CASE Len(items') > until /\ round < MaxRounds
    <3>1. stage' = "round" /\ chunk' = w /\ round' = round + 1
      BY <1>5, <2>1, <2>3, <2>5 DEF RoundEnds
    <3>2. Len(<<>>) = 0
      OBVIOUS
    <3>3. \A k \in 1..Len(w) : Len(w[k].out) = 0 /\ w[k].is # "done"
      BY <2>4, <3>2
    <3>4. round' \in 0..MaxRounds
      BY <1>0, <2>1, <2>5, <3>1
    <3> QED BY <2>1, <2>2, <2>4, <3>1, <3>3, <3>4 DEF ReduceInv
  <2>6. CASE ~(Len(items') > until /\ round < MaxRounds)
    <3>1. stage' = "done" /\ chunk' = <<>> /\ round' = round
      BY <1>5, <2>6 DEF RoundEnds
    <3>2. Len(items') <= until \/ round' = MaxRounds
      <4>1. Len(items') \in Nat
        BY <2>2, LenProperties
      <4> QED BY <1>0, <2>1, <2>6, <3>1, <4>1
    <3>3. <<>> \in Seq(ReduceChunks)
      OBVIOUS
    <3> QED BY <2>1, <2>2, <3>1, <3>2, <3>3 DEF ReduceInv
  <2> QED BY <2>5, <2>6
<1>6. CASE UNCHANGED reduceVars
  BY <1>6 DEF ReduceInv, reduceVars
<1> QED BY <1>1, <1>2, <1>3, <1>4, <1>5, <1>6 DEF ReduceNext

\* The invariant says what a reduction promises.
LEMMA ReduceImplies == ReduceInv => ReduceTypeOK /\ ReduceRight
<1> SUFFICES ASSUME ReduceInv PROVE ReduceTypeOK /\ ReduceRight
  OBVIOUS
<1>1. chunk \in Seq(ReduceChunks) /\ items \in Seq(ReduceItems) /\ Ordered(items)
      /\ Behind(items) \subseteq merged
  BY DEF ReduceInv
<1>2. \A k \in 1..Len(chunk) : chunk[k].is \in {"waiting", "running", "done"}
  <2>1. \A k \in 1..Len(chunk) : chunk[k] \in ReduceChunks
    BY <1>1, ElementOfSeq
  <2> QED BY <2>1 DEF ReduceChunks
<1>3. \A k \in 1..Len(items) : items[k].from \subseteq merged
  BY <1>1 DEF Behind
<1>4. ReduceTypeOK
  BY <1>2, <1>3 DEF ReduceInv, ReduceTypeOK
<1>5. ChunkInputs(chunk) = [k \in 1..Len(chunk) |-> chunk[k].in]
  BY DEF ChunkInputs
<1>6. ReduceRight
  BY <1>1, <1>5 DEF ReduceInv, ReduceRight, Ordered
<1> QED BY <1>4, <1>6

\* A tree-reduce stops at its limit or its last round, keeps the items' order however
\* the chunks come back, and drops nothing unless the tool returns nothing.
THEOREM ReduceHolds == ReduceSpec => [](ReduceTypeOK /\ ReduceRight)
<1>1. ReduceInit => ReduceInv
  BY ReduceStarts
<1>2. ReduceInv /\ [ReduceNext]_reduceVars => ReduceInv'
  BY ReduceSteps
<1>3. ReduceInv => ReduceTypeOK /\ ReduceRight
  BY ReduceImplies
<1> QED BY <1>1, <1>2, <1>3, PTL DEF ReduceSpec

-----------------------------------------------------------------------------
(* The file tools                                                            *)

\* How many numbers of a set there are up to one.
CountTo(S, p) == Cardinality({f \in S : f <= p})

\* The count goes up by one at each of them.
LEMMA CountsUp ==
  ASSUME NEW L \in Nat, NEW S \in SUBSET (1..L)
  PROVE  /\ Cardinality(S) \in Nat /\ CountTo(S, 0) = 0 /\ CountTo(S, L) = Cardinality(S)
         /\ \A p \in 0..L : CountTo(S, p) \in Nat
         /\ \A p, q \in 0..L : p <= q => CountTo(S, p) <= CountTo(S, q)
         /\ \A p \in 1..L : CountTo(S, p) = CountTo(S, p - 1) + (IF p \in S THEN 1 ELSE 0)
<1> DEFINE upto(p) == {f \in S : f <= p}
<1>0. \A f \in S : f \in Nat /\ 1 <= f /\ f <= L
  OBVIOUS
<1>1. IsFiniteSet(S)
  <2>1. IsFiniteSet(1..L)
    BY FS_Interval
  <2> QED BY <2>1, FS_Subset
<1>2. \A p \in 0..L : IsFiniteSet(upto(p)) /\ Cardinality(upto(p)) \in Nat
  <2> SUFFICES ASSUME NEW p \in 0..L
               PROVE  IsFiniteSet(upto(p)) /\ Cardinality(upto(p)) \in Nat
    OBVIOUS
  <2>1. upto(p) \in SUBSET S
    OBVIOUS
  <2>2. IsFiniteSet(upto(p))
    BY <1>1, <2>1, FS_Subset
  <2> HIDE DEF upto
  <2> QED BY <2>2, FS_CardinalityType
<1>3. Cardinality(S) \in Nat
  BY <1>1, FS_CardinalityType
<1>4. upto(0) = {} /\ upto(L) = S
  <2>1. \A f \in S : ~(f <= 0) /\ f <= L
    BY <1>0
  <2> QED BY <2>1
<1>5. ASSUME NEW p \in 0..L, NEW q \in 0..L, p <= q
      PROVE  Cardinality(upto(p)) <= Cardinality(upto(q))
  <2>1. \A f \in S : f <= p => f <= q
    BY <1>0, <1>5
  <2>2. upto(p) \in SUBSET upto(q)
    BY <2>1
  <2>3. IsFiniteSet(upto(q))
    BY <1>2
  <2> HIDE DEF upto
  <2> QED BY <2>2, <2>3, FS_Subset
<1>6. ASSUME NEW p \in 1..L
      PROVE  Cardinality(upto(p)) = Cardinality(upto(p - 1)) + (IF p \in S THEN 1 ELSE 0)
  <2>1. p - 1 \in 0..L /\ p \notin upto(p - 1)
    OBVIOUS
  <2>2. IsFiniteSet(upto(p - 1)) /\ Cardinality(upto(p - 1)) \in Nat
    BY <1>2, <2>1
  <2>3. CASE p \in S
    <3>0. \A f \in S : f <= p <=> f <= p - 1 \/ f = p
      BY <1>0
    <3>1. upto(p) = upto(p - 1) \cup {p}
      BY <2>3, <3>0
    <3> HIDE DEF upto
    <3> QED BY <2>1, <2>2, <2>3, <3>1, FS_AddElement
  <2>4. CASE p \notin S
    <3>0. \A f \in S : f <= p <=> f <= p - 1
      BY <1>0, <2>4
    <3>1. upto(p) = upto(p - 1)
      BY <3>0
    <3> HIDE DEF upto
    <3> QED BY <2>2, <2>4, <3>1
  <2> QED BY <2>3, <2>4
<1>7. Cardinality(upto(0)) = 0
  BY <1>4, FS_EmptySet
<1> HIDE DEF upto
<1>8. \A p : CountTo(S, p) = Cardinality(upto(p))
  BY DEF CountTo, upto
<1>9. \A p \in 1..L : p - 1 \in 0..L
  OBVIOUS
<1> QED BY <1>2, <1>3, <1>4, <1>5, <1>6, <1>7, <1>8, <1>9

\* One of them is the k-th.
LEMMA KthNumber ==
  ASSUME NEW L \in Nat, NEW S \in SUBSET (1..L), NEW k \in 1..Cardinality(S)
  PROVE  /\ \E e \in S : CountTo(S, e) = k
         /\ \A d, e \in S : CountTo(S, d) = CountTo(S, e) => d = e
<1>1. /\ Cardinality(S) \in Nat /\ CountTo(S, 0) = 0 /\ CountTo(S, L) = Cardinality(S)
      /\ \A p \in 0..L : CountTo(S, p) \in Nat
      /\ \A p, q \in 0..L : p <= q => CountTo(S, p) <= CountTo(S, q)
      /\ \A p \in 1..L : CountTo(S, p) = CountTo(S, p - 1) + (IF p \in S THEN 1 ELSE 0)
  BY CountsUp
<1>2. k \in Nat /\ 1 <= k /\ k <= Cardinality(S)
  BY <1>1
<1>3. \E e \in S : CountTo(S, e) = k
  <2> DEFINE P == {p \in 0..L : k <= CountTo(S, p)}
  <2>1. L \in P /\ P \in SUBSET Nat
    BY <1>1, <1>2
  <2>2. PICK e \in P : \A p \in P : e <= p
    BY <2>1, LeastNumber
  <2>3. e \in 0..L /\ k <= CountTo(S, e)
    BY <2>2
  <2>4. e # 0
    BY <1>1, <1>2, <2>3
  <2>5. e \in 1..L /\ e - 1 \in 0..L /\ ~(e <= e - 1)
    BY <2>3, <2>4
  <2>6. ~(k <= CountTo(S, e - 1))
    BY <2>2, <2>5
  <2>7. PICK m \in Nat : m = CountTo(S, e - 1)
    BY <1>1, <2>5
  <2>8. CountTo(S, e) = m + (IF e \in S THEN 1 ELSE 0)
    BY <1>1, <2>5, <2>7
  <2> HIDE DEF P
  <2>9. e \in S
    BY <1>2, <2>3, <2>6, <2>7, <2>8
  <2> QED BY <1>2, <2>3, <2>6, <2>7, <2>8, <2>9
<1>4. ASSUME NEW d \in S, NEW e \in S, d < e PROVE CountTo(S, d) # CountTo(S, e)
  <2>1. d \in 0..L /\ e \in 1..L /\ e - 1 \in 0..L /\ d <= e - 1
    BY <1>4
  <2>2. CountTo(S, d) <= CountTo(S, e - 1) /\ CountTo(S, e) = CountTo(S, e - 1) + 1
    BY <1>1, <1>4, <2>1
  <2>3. CountTo(S, d) \in Nat /\ CountTo(S, e - 1) \in Nat
    BY <1>1, <2>1
  <2> QED BY <2>2, <2>3
<1>5. \A d, e \in S : d < e \/ e < d \/ d = e
  OBVIOUS
<1> QED BY <1>3, <1>4, <1>5

\* Lines: put together they are the text.
LEMMA LinesJoin ==
  ASSUME NEW T, NEW t \in Seq(T)
  PROVE  Lines(t) \in Seq(Seq(T)) /\ FlattenSeq(Lines(t)) = t
<1> DEFINE L == Len(t)
           ends == {k \in DOMAIN t : t[k] = "n" \/ k = Len(t)}
           c == Cardinality(ends)
           nth(k) == CHOOSE e \in ends : Cardinality({f \in ends : f <= e}) = k
           from(k) == IF k = 1 THEN 1 ELSE nth(k - 1) + 1
<1>1. Lines(t) = [k \in 1..c |-> SubSeq(t, from(k), nth(k))]
  BY DEF Lines
<1>2. L \in Nat /\ DOMAIN t = 1..L
  OBVIOUS
<1>3. ends \in SUBSET (1..L) /\ (L # 0 => L \in ends)
  BY <1>2
<1>4. \A k : nth(k) = CHOOSE e \in ends : CountTo(ends, e) = k
  BY DEF CountTo
<1> HIDE DEF L, ends, nth
<1>5. /\ c \in Nat /\ CountTo(ends, 0) = 0 /\ CountTo(ends, L) = c
      /\ \A p, q \in 0..L : p <= q => CountTo(ends, p) <= CountTo(ends, q)
      /\ \A p \in 0..L : CountTo(ends, p) \in Nat
  BY <1>2, <1>3, CountsUp
<1> HIDE DEF c
<1>6. ASSUME NEW k \in 1..c PROVE nth(k) \in ends /\ CountTo(ends, nth(k)) = k
  <2>1. \E e \in ends : CountTo(ends, e) = k
    BY <1>2, <1>3, KthNumber DEF c
  <2> QED BY <1>4, <2>1
<1> DEFINE at == [k \in 0..c |-> IF k = 0 THEN 0 ELSE nth(k)]
<1>7. /\ at[0] = 0 /\ \A k \in 0..c : at[k] \in 0..L /\ CountTo(ends, at[k]) = k
  <2>1. at[0] = 0
    BY <1>5
  <2>2. ASSUME NEW k \in 0..c PROVE at[k] \in 0..L /\ CountTo(ends, at[k]) = k
    <3>1. CASE k = 0
      BY <1>2, <1>5, <2>1, <3>1
    <3>2. CASE k # 0
      <4>1. k \in 1..c /\ at[k] = nth(k)
        BY <1>5, <3>2
      <4>2. nth(k) \in 1..L
        BY <1>3, <1>6, <4>1
      <4>3. nth(k) \in 0..L
        BY <1>2, <4>2
      <4> QED BY <1>6, <4>1, <4>3
    <3> QED BY <3>1, <3>2
  <2> QED BY <2>1, <2>2
<1>8. ASSUME NEW k \in 1..c PROVE /\ k - 1 \in 0..c /\ k \in 0..c /\ at[k - 1] <= at[k]
                                  /\ from(k) = at[k - 1] + 1 /\ nth(k) = at[k]
  <2>1. k - 1 \in 0..c /\ k \in 0..c /\ k \in Nat
    BY <1>5
  <2>2. at[k - 1] \in 0..L /\ at[k] \in 0..L
    BY <1>7, <2>1
  <2>3. CountTo(ends, at[k - 1]) = k - 1 /\ CountTo(ends, at[k]) = k
    BY <1>7, <2>1
  <2>4. at[k - 1] <= at[k]
    <3> SUFFICES ASSUME at[k] <= at[k - 1] PROVE FALSE
      BY <1>2, <2>2
    <3>1. CountTo(ends, at[k]) <= CountTo(ends, at[k - 1])
      BY <1>5, <2>2
    <3> QED BY <2>1, <2>3, <3>1
  <2>5. nth(k) = at[k]
    BY <2>1
  <2>6. from(k) = at[k - 1] + 1
    <3>1. CASE k = 1
      BY <1>7, <3>1
    <3>2. CASE k # 1
      <4>1. at[k - 1] = nth(k - 1)
        BY <2>1, <3>2
      <4> QED BY <3>2, <4>1
    <3> QED BY <3>1, <3>2
  <2> QED BY <2>1, <2>4, <2>5, <2>6
<1>9. at[c] = L
  <2>1. CASE L = 0
    BY <1>5, <1>7, <2>1
  <2>2. CASE L # 0
    <3>1. L \in ends /\ L \in 1..L
      BY <1>2, <1>3, <2>2
    <3>2. c # 0
      <4> SUFFICES ASSUME c = 0 PROVE FALSE
        OBVIOUS
      <4>1. IsFiniteSet(1..L)
        BY <1>2, FS_Interval
      <4>2. IsFiniteSet(ends)
        BY <1>3, <4>1, FS_Subset
      <4>3. ends = {}
        BY <4>2, FS_EmptySet DEF c
      <4> QED BY <3>1, <4>3
    <3>3. c \in 1..c /\ at[c] = nth(c)
      BY <1>5, <3>2
    <3>4. nth(c) \in ends /\ CountTo(ends, nth(c)) = CountTo(ends, L)
      BY <1>5, <1>6, <3>3
    <3>5. nth(c) = L
      BY <1>2, <1>3, <3>1, <3>3, <3>4, KthNumber DEF c
    <3> QED BY <3>3, <3>5
  <2> QED BY <2>1, <2>2
<1> HIDE DEF at, from
<1> DEFINE lines == [k \in 1..c |-> SubSeq(t, at[k - 1] + 1, at[k])]
<1>10. Lines(t) = lines
  <2>1. \A k \in 1..c : SubSeq(t, from(k), nth(k)) = SubSeq(t, at[k - 1] + 1, at[k])
    BY <1>8
  <2> QED BY <1>1, <2>1
<1>11. ASSUME NEW a \in 0..L, NEW b \in 0..L PROVE SubSeq(t, a + 1, b) \in Seq(T)
  <2>1. \A i \in (a + 1)..b : t[i] \in T
    BY <1>2 DEF L
  <2> QED BY <2>1, SubSeqProperties
<1>12. \A k \in 1..c : at[k - 1] \in 0..L /\ at[k] \in 0..L
  BY <1>7, <1>8
<1>13. lines \in Seq(Seq(T)) /\ Len(lines) = c /\ \A k \in 1..c : lines[k] = SubSeq(t, at[k - 1] + 1, at[k])
  <2>1. \A k \in 1..c : SubSeq(t, at[k - 1] + 1, at[k]) \in Seq(T)
    BY <1>11, <1>12
  <2>2. \A k \in 1..c : lines[k] \in Seq(T) /\ lines[k] = SubSeq(t, at[k - 1] + 1, at[k])
    BY <2>1
  <2>3. lines \in [1..c -> Seq(T)]
    BY <2>1
  <2> HIDE DEF lines
  <2>4. lines \in Seq(Seq(T)) /\ Len(lines) = c
    BY <1>5, <2>3
  <2> QED BY <2>2, <2>4
<1> HIDE DEF lines
<1> DEFINE g == [k \in 0..c |-> SubSeq(t, 1, at[k])]
<1>14. \A k \in 0..c : g[k] \in Seq(T) /\ g[k] = SubSeq(t, 1, at[k])
  <2> SUFFICES ASSUME NEW k \in 0..c PROVE SubSeq(t, 1, at[k]) \in Seq(T)
    OBVIOUS
  <2>1. at[k] \in 0..L /\ 0 \in 0..L /\ 0 + 1 = 1
    BY <1>2, <1>7
  <2> QED BY <1>11, <2>1
<1>15. g[0] = <<>>
  <2>1. SubSeq(t, 1, 0) = <<>>
    BY SubSeqEmpty
  <2> QED BY <1>5, <1>7, <1>14, <2>1
<1>16. ASSUME NEW k \in 1..c PROVE g[k] = g[k - 1] \o lines[k]
  <2>1. /\ k - 1 \in 0..c /\ k \in 0..c /\ at[k - 1] <= at[k]
        /\ at[k - 1] \in Nat /\ at[k] \in Nat /\ at[k] <= Len(t)
    BY <1>2, <1>8, <1>12 DEF L
  <2>2. SubSeq(t, 1, at[k - 1]) \o SubSeq(t, at[k - 1] + 1, at[k]) = SubSeq(t, 1, at[k])
    BY <2>1, BeginningGrows
  <2> QED BY <1>13, <1>14, <2>1, <2>2
<1>17. Joins(lines, T, g)
  <2>1. g \in [0..c -> Seq(T)]
    BY <1>14
  <2> HIDE DEF g
  <2> QED BY <1>13, <1>15, <1>16, <2>1 DEF Joins
<1>18. PICK f : Joins(lines, T, f) /\ FlattenSeq(lines) = f[Len(lines)]
  BY <1>13, FlattenJoins
<1>19. f[c] = g[c]
  <2> HIDE DEF g
  <2>1. c \in 0..Len(lines) /\ c <= Len(lines)
    BY <1>5, <1>13
  <2> QED BY <1>13, <1>17, <1>18, <2>1, JoinsAgree
<1>20. g[c] = t
  <2>1. g[c] = SubSeq(t, 1, Len(t))
    BY <1>5, <1>9, <1>14 DEF L
  <2>2. SubSeq(t, 1, Len(t)) = t
    <3>1. \A i \in 1..Len(t) : t[i] \in T
      OBVIOUS
    <3>2. /\ SubSeq(t, 1, Len(t)) \in Seq(T) /\ Len(SubSeq(t, 1, Len(t))) = Len(t)
          /\ \A i \in 1..Len(t) : SubSeq(t, 1, Len(t))[i] = t[i]
      BY <3>1, SubSeqProperties
    <3> QED BY <3>2, SeqEqual
  <2> QED BY <2>1, <2>2
<1> QED BY <1>10, <1>13, <1>18, <1>19, <1>20

\* Windows of one size, one after the other, are the lines.
LEMMA PagesJoin ==
  ASSUME NEW T, NEW ls \in Seq(T), NEW limit \in Nat \ {0}
  PROVE  FlattenSeq([k \in 1..((Len(ls) + limit - 1) \div limit) |->
                        Window(ls, (k - 1) * limit, limit)]) = ls
<1> DEFINE c == (Len(ls) + limit - 1) \div limit
<1>1. limit \in Nat /\ limit > 0 /\ Len(ls) \in Nat
  OBVIOUS
<1>2. ASSUME NEW k \in 1..c
      PROVE  Window(ls, (k - 1) * limit, limit)
               = SubSeq(ls, (k - 1) * limit + 1, IF k * limit < Len(ls) THEN k * limit ELSE Len(ls))
  <2>1. (k - 1) * limit + limit = k * limit
    BY <1>1
  <2> QED BY <2>1 DEF Window, Least
<1>3. [k \in 1..c |-> Window(ls, (k - 1) * limit, limit)] = Cut(ls, limit)
  <2>1. Cut(ls, limit) = [k \in 1..c |-> SubSeq(ls, (k - 1) * limit + 1,
                             IF k * limit < Len(ls) THEN k * limit ELSE Len(ls))]
    BY <1>1 DEF Cut
  <2> HIDE DEF c
  <2> QED BY <1>2, <2>1
<1> HIDE DEF c
<1>4. FlattenSeq(Cut(ls, limit)) = ls
  BY <1>1, CutsJoin
<1> QED BY <1>3, <1>4 DEF c

\* PagesMakeTheFile, of any text.
LEMMA PagesMake ==
  ASSUME NEW T, NEW t \in Seq(T), NEW limit \in Nat \ {0}
  PROVE  LET ls == Lines(t)
             pages == (Len(ls) + limit - 1) \div limit
             page(k) == Window(ls, (k - 1) * limit, limit)
         IN  FlattenSeq(FlattenSeq([k \in 1..pages |-> page(k)])) = t
<1>1. Lines(t) \in Seq(Seq(T)) /\ FlattenSeq(Lines(t)) = t
  BY LinesJoin
<1>2. FlattenSeq([k \in 1..((Len(Lines(t)) + limit - 1) \div limit) |->
                     Window(Lines(t), (k - 1) * limit, limit)]) = Lines(t)
  BY <1>1, PagesJoin
<1> QED BY <1>1, <1>2

\* What the scan of Count knows at a position: the first place, once it found one, and
\* that it passed by no other that lies behind it.
ScanKnows(places, size, i, v) ==
  \/ v.n = 0 /\ v.free = 1 /\ \A p \in places : p > i
  \/ /\ v.n = 1
     /\ \E a \in places : /\ a <= i /\ v.free = a + size /\ \A p \in places : a <= p
                          /\ \A p \in places : p <= i => p = a \/ p < v.free
  \/ v.n > 1

\* A step of it.
LEMMA ScanStep ==
  ASSUME NEW places \in SUBSET Nat, NEW size \in Nat, NEW i \in Nat, i > 0,
         NEW v \in [free : Nat, n : Nat], ScanKnows(places, size, i - 1, v),
         \A p \in places : p > 0,
         NEW w, w = (IF i \in places /\ i >= v.free THEN [free |-> i + size, n |-> v.n + 1] ELSE v)
  PROVE  ScanKnows(places, size, i, w)
<1>1. \A p \in places : p \in Nat /\ (p > i - 1 <=> p > i \/ p = i)
  OBVIOUS
<1>2. v.free \in Nat /\ v.n \in Nat
  OBVIOUS
<1>3. CASE i \in places /\ i >= v.free
  <2>1. w.free = i + size /\ w.n = v.n + 1
    BY <1>3
  <2>2. CASE v.n = 0 /\ v.free = 1 /\ \A p \in places : p > i - 1
    <3>1. w.n = 1 /\ i <= i /\ \A p \in places : i <= p
      BY <1>1, <2>1, <2>2
    <3>2. \A p \in places : p <= i => p = i
      BY <1>1, <3>1
    <3> QED BY <1>3, <2>1, <3>1, <3>2 DEF ScanKnows
  <2>3. CASE v.n >= 1
    BY <1>2, <2>1, <2>3 DEF ScanKnows
  <2> QED BY <1>2, <2>2, <2>3 DEF ScanKnows
<1>4. CASE ~(i \in places /\ i >= v.free)
  <2>1. w = v
    BY <1>4
  <2>2. CASE v.n = 0 /\ v.free = 1 /\ \A p \in places : p > i - 1
    <3>1. i \notin places
      BY <1>4, <2>2
    <3>2. \A p \in places : p > i
      BY <1>1, <2>2, <3>1
    <3> QED BY <2>1, <2>2, <3>2 DEF ScanKnows
  <2>3. CASE v.n = 1
    <3>1. PICK a \in places : /\ a <= i - 1 /\ v.free = a + size /\ \A p \in places : a <= p
                              /\ \A p \in places : p <= i - 1 => p = a \/ p < v.free
      BY <2>3 DEF ScanKnows
    <3>2. a <= i
      BY <1>1, <3>1
    <3>3. ASSUME NEW p \in places, p <= i PROVE p = a \/ p < v.free
      <4>1. CASE p = i
        BY <1>1, <1>2, <1>4, <4>1
      <4>2. CASE p # i
        <5>1. p <= i - 1
          BY <1>1, <3>3, <4>2
        <5> QED BY <3>1, <5>1
      <4> QED BY <4>1, <4>2
    <3> QED BY <2>1, <2>3, <3>1, <3>2, <3>3 DEF ScanKnows
  <2>4. CASE v.n > 1
    BY <2>1, <2>4 DEF ScanKnows
  <2> QED BY <2>2, <2>3, <2>4 DEF ScanKnows
<1> QED BY <1>3, <1>4

\* The places of an edit's text are positions of the file.
LEMMA FoundPlaces ==
  ASSUME NEW T, NEW t \in Seq(T), NEW old \in Seq(T)
  PROVE  /\ Found(t, old) \in SUBSET Nat
         /\ \A p \in Found(t, old) : p > 0 /\ p <= Len(t) + 1 /\ p + Len(old) <= Len(t) + 1
<1>1. Len(t) \in Nat /\ Len(old) \in Nat
  OBVIOUS
<1>2. ASSUME NEW p \in Found(t, old)
      PROVE  p \in Nat /\ p > 0 /\ p <= Len(t) + 1 /\ p + Len(old) <= Len(t) + 1
  <2>1. p \in 1..(Len(t) - Len(old) + 1)
    BY DEF Found
  <2> QED BY <1>1, <2>1
<1> QED BY <1>2

\* Count counts two places at least where two lie beside one another.
LEMMA CountsTwo ==
  ASSUME NEW T, NEW t \in Seq(T), NEW old \in Seq(T),
         NEW j \in Found(t, old), NEW k \in Found(t, old), j < k, ~(k < j + Len(old))
  PROVE  Count(t, old) > 1
<1> DEFINE places == Found(t, old)
           size == Len(old)
           L == Len(t) + 1
           V == [free : Nat, n : Nat]
           start == [free |-> 1, n |-> 0]
           next(i, v) == IF i \in places /\ i >= v.free
                         THEN [free |-> i + size, n |-> v.n + 1] ELSE v
           step == [i \in 1..L |-> [v \in V |-> next(i, v)]]
<1>1. /\ places \in SUBSET Nat /\ L \in Nat /\ size \in Nat
      /\ \A p \in places : p > 0 /\ p <= L /\ p + size <= L
  BY FoundPlaces
<1>2. start \in V
  OBVIOUS
<1> HIDE DEF places, size, L
<1>3. \A i \in 1..L, v \in V : next(i, v) \in V
  <2> SUFFICES ASSUME NEW i \in 1..L, NEW v \in V PROVE next(i, v) \in V
    OBVIOUS
  <2>1. i + size \in Nat /\ v.n + 1 \in Nat
    BY <1>1
  <2> QED BY <2>1
<1>4. step \in [1..L -> [V -> V]] /\ \A i \in 1..L, v \in V : step[i][v] = next(i, v)
  BY <1>3
<1> HIDE DEF step
<1>5. PICK f : LoopRuns(L, V, start, step, f)
  <2> HIDE DEF V, start
  <2> QED BY <1>1, <1>2, <1>4, RunExists
<1>6. f \in [0..L -> V] /\ f[0] = start /\ \A i \in 1..L : f[i] = next(i, f[i - 1])
  <2>1. f \in [0..L -> V] /\ f[0] = start /\ \A i \in 1..L : f[i] = step[i][f[i - 1]]
    BY <1>5 DEF LoopRuns
  <2>2. \A i \in 1..L : f[i - 1] \in V
    BY <1>1, <2>1
  <2> QED BY <1>4, <2>1, <2>2
<1> DEFINE Is(g) == g = [i \in 0..L |-> IF i = 0 THEN start ELSE next(i, g[i - 1])]
           scan == CHOOSE g : Is(g)
<1>7. Is(f)
  <2>1. \A i \in 0..L : f[i] = IF i = 0 THEN start ELSE next(i, f[i - 1])
    <3> SUFFICES ASSUME NEW i \in 0..L PROVE f[i] = IF i = 0 THEN start ELSE next(i, f[i - 1])
      OBVIOUS
    <3>1. i # 0 => i \in 1..L
      BY <1>1
    <3> HIDE DEF next, start
    <3> QED BY <1>6, <3>1
  <2> HIDE DEF next, start
  <2> QED BY <1>6, <2>1
<1>8. Is(scan)
  <2> HIDE DEF Is
  <2> QED BY <1>7
<1>9. Count(t, old) = scan[L].n
  BY DEF Count, L, places, size
<1> HIDE DEF scan
<1> DEFINE S == {i \in 0..L : scan[i] = f[i] /\ ScanKnows(places, size, i, f[i])}
<1>10. 0 \in S
  <2>1. scan[0] = start /\ f[0] = start
    BY <1>1, <1>6, <1>8
  <2>2. ScanKnows(places, size, 0, start)
    BY <1>1 DEF ScanKnows
  <2> QED BY <1>1, <2>1, <2>2
<1>11. ASSUME NEW i \in 0..L, i \in S, i + 1 \in 0..L PROVE i + 1 \in S
  <2>1. i + 1 \in 1..L /\ (i + 1) - 1 = i /\ i + 1 \in Nat /\ i + 1 > 0 /\ i + 1 # 0
    BY <1>1, <1>11
  <2>2. scan[i] = f[i] /\ ScanKnows(places, size, (i + 1) - 1, f[i]) /\ f[i] \in V
    BY <1>6, <1>11, <2>1
  <2>3. f[i + 1] = next(i + 1, f[i])
    BY <1>6, <2>1
  <2>4. scan[i + 1] = next(i + 1, scan[i])
    <3> HIDE DEF next, start
    <3> QED BY <1>8, <1>11, <2>1
  <2>5. scan[i + 1] = f[i + 1]
    <3> HIDE DEF next
    <3> QED BY <2>2, <2>3, <2>4
  <2>6. ScanKnows(places, size, i + 1, f[i + 1])
    <3>1. \A p \in places : p > 0
      BY <1>1
    <3> QED BY <1>1, <2>1, <2>2, <2>3, <3>1, ScanStep
  <2> QED BY <1>11, <2>5, <2>6
<1>12. S \in SUBSET (0..L)
  OBVIOUS
<1> HIDE DEF S
<1>13. L \in S
  <2>1. S = 0..L
    BY <1>1, <1>10, <1>11, <1>12, GoesOn
  <2> QED BY <1>1, <2>1
<1>14. Count(t, old) = f[L].n /\ ScanKnows(places, size, L, f[L]) /\ f[L] \in V
  BY <1>1, <1>6, <1>9, <1>13 DEF S
<1>15. j \in places /\ k \in places /\ ~(k < j + size)
  BY DEF places, size
<1>16. PICK v \in V : v = f[L]
  BY <1>14
<1>17. v.n > 1
  <2>1. j \in Nat /\ k \in Nat /\ j <= L /\ k <= L /\ v.free \in Nat
    BY <1>1, <1>15
  <2>2. CASE \A p \in places : p > L
    BY <1>1, <1>15, <2>1, <2>2
  <2>3. ASSUME NEW a \in places, v.free = a + size, \A p \in places : a <= p,
               \A p \in places : p <= L => p = a \/ p < v.free
        PROVE  FALSE
    <3>1. a <= j /\ a \in Nat /\ (k = a \/ k < a + size)
      BY <1>1, <1>15, <2>1, <2>3
    <3> QED BY <1>1, <1>15, <2>1, <3>1
  <2> QED BY <1>14, <1>16, <2>2, <2>3 DEF ScanKnows
<1> QED BY <1>14, <1>16, <1>17

\* What is joined can be taken apart again.
LEMMA JoinEnds ==
  ASSUME NEW T, NEW x \in Seq(T), NEW y \in Seq(T)
  PROVE  /\ x \o y \in Seq(T) /\ Len(x \o y) = Len(x) + Len(y)
         /\ SubSeq(x \o y, 1, Len(x)) = x
         /\ SubSeq(x \o y, Len(x) + 1, Len(x) + Len(y)) = y
<1>1. PICK w, m, n : w = x \o y /\ m = Len(x) /\ n = Len(y)
  OBVIOUS
<1>2. /\ w \in Seq(T) /\ Len(w) = m + n /\ m \in Nat /\ n \in Nat
      /\ \A i \in 1..(m + n) : w[i] = IF i <= m THEN x[i] ELSE y[i - m]
  BY <1>1, ConcatProperties, LenProperties
<1>3. \A i \in 1..(m + n) : w[i] \in T
  BY <1>2, ElementOfSeq
<1>4. SubSeq(w, 1, m) = x
  <2>1. \A i \in 1..m : w[i] \in T
    BY <1>2, <1>3
  <2>2. /\ SubSeq(w, 1, m) \in Seq(T)
        /\ Len(SubSeq(w, 1, m)) = IF 1 <= m THEN m - 1 + 1 ELSE 0
        /\ \A i \in 1..(m - 1 + 1) : SubSeq(w, 1, m)[i] = w[1 + i - 1]
    BY <1>2, <2>1, SubSeqProperties
  <2>3. Len(SubSeq(w, 1, m)) = m /\ \A i \in 1..m : SubSeq(w, 1, m)[i] = w[i]
    BY <1>2, <2>2
  <2>4. \A i \in 1..m : w[i] = x[i]
    BY <1>2
  <2>5. \A i \in 1..m : SubSeq(w, 1, m)[i] = x[i]
    BY <2>3, <2>4
  <2> QED BY <1>1, <2>2, <2>3, <2>5, SeqEqual
<1>5. SubSeq(w, m + 1, m + n) = y
  <2>1. \A i \in (m + 1)..(m + n) : w[i] \in T
    BY <1>2, <1>3
  <2>2. /\ SubSeq(w, m + 1, m + n) \in Seq(T)
        /\ Len(SubSeq(w, m + 1, m + n)) = IF m + 1 <= m + n THEN (m + n) - (m + 1) + 1 ELSE 0
        /\ \A i \in 1..((m + n) - (m + 1) + 1) : SubSeq(w, m + 1, m + n)[i] = w[m + 1 + i - 1]
    BY <1>2, <2>1, SubSeqProperties
  <2>3. Len(SubSeq(w, m + 1, m + n)) = n
    BY <1>2, <2>2
  <2>4. ASSUME NEW i \in 1..n PROVE SubSeq(w, m + 1, m + n)[i] = y[i]
    <3>1. /\ i \in 1..((m + n) - (m + 1) + 1) /\ m + 1 + i - 1 \in 1..(m + n)
          /\ ~(m + 1 + i - 1 <= m) /\ (m + 1 + i - 1) - m = i
      BY <1>2
    <3> QED BY <1>2, <2>2, <3>1
  <2> QED BY <1>1, <2>2, <2>3, <2>4, SeqEqual
<1> QED BY <1>1, <1>2, <1>4, <1>5

\* The k-th and so many elements of t replaced.
TextReplaced(t, k, size, new, after) ==
  after = SubSeq(t, 1, k - 1) \o new \o SubSeq(t, k + size, Len(t))

\* The ends of a text stay as they are around what is put between them.
LEMMA EndsStay ==
  ASSUME NEW T, NEW t \in Seq(T), NEW new \in Seq(T), NEW k \in Nat, NEW size \in Nat,
         k > 0, k + size <= Len(t) + 1,
         NEW after, TextReplaced(t, k, size, new, after)
  PROVE  /\ after \in Seq(T) /\ k - 1 <= Len(after)
         /\ SubSeq(after, 1, k - 1) = SubSeq(t, 1, k - 1)
         /\ SubSeq(after, k + Len(new), Len(after)) = SubSeq(t, k + size, Len(t))
<1>1. PICK a, b : a = SubSeq(t, 1, k - 1) /\ b = SubSeq(t, k + size, Len(t))
  OBVIOUS
<1>2. PICK c, d : c = a \o new /\ d = new \o b
  OBVIOUS
<1>3. /\ Len(t) \in Nat /\ Len(new) \in Nat /\ k - 1 \in Nat /\ k - 1 <= Len(t)
      /\ \A i \in 1..Len(t) : t[i] \in T
  OBVIOUS
<1>4. a \in Seq(T) /\ Len(a) = k - 1
  <2>1. \A i \in 1..(k - 1) : t[i] \in T
    BY <1>3
  <2>2. /\ SubSeq(t, 1, k - 1) \in Seq(T)
        /\ Len(SubSeq(t, 1, k - 1)) = IF 1 <= k - 1 THEN (k - 1) - 1 + 1 ELSE 0
    BY <1>3, <2>1, SubSeqProperties
  <2> QED BY <1>1, <1>3, <2>2
<1>5. b \in Seq(T) /\ Len(b) \in Nat
  <2>1. \A i \in (k + size)..Len(t) : t[i] \in T
    BY <1>3
  <2>2. SubSeq(t, k + size, Len(t)) \in Seq(T)
    BY <1>3, <2>1, SubSeqProperties
  <2> QED BY <1>1, <2>2, LenProperties
<1>6. after = c \o b
  BY <1>1, <1>2 DEF TextReplaced
<1>7. c \in Seq(T) /\ Len(c) = (k - 1) + Len(new)
  <2>1. a \in Seq(T)
    BY <1>4
  <2>2. a \o new \in Seq(T) /\ Len(a \o new) = Len(a) + Len(new)
    BY <2>1, JoinEnds
  <2> QED BY <1>2, <1>4, <2>2
<1>8. /\ after \in Seq(T) /\ Len(after) = Len(c) + Len(b)
      /\ SubSeq(after, Len(c) + 1, Len(c) + Len(b)) = b
  <2>1. /\ c \o b \in Seq(T) /\ Len(c \o b) = Len(c) + Len(b)
        /\ SubSeq(c \o b, Len(c) + 1, Len(c) + Len(b)) = b
    <3>1. c \in Seq(T) /\ b \in Seq(T)
      BY <1>5, <1>7
    <3> QED BY <3>1, JoinEnds
  <2> QED BY <1>6, <2>1
<1>9. SubSeq(after, k + Len(new), Len(after)) = b
  <2>1. k + Len(new) = Len(c) + 1
    BY <1>3, <1>7
  <2> QED BY <1>8, <2>1
<1>10. after = a \o d
  <2>1. PICK v : v = a \o d
    OBVIOUS
  <2>2. Concats(c, a, new) /\ Concats(d, new, b) /\ Concats(after, c, b) /\ Concats(v, a, d)
    BY <1>2, <1>6, <2>1 DEF Concats
  <2>3. after = v
    BY <1>4, <1>5, <2>2, ConcatGrouped
  <2> QED BY <2>1, <2>3
<1>11. d \in Seq(T)
  BY <1>2, <1>5, JoinEnds
<1>12. SubSeq(after, 1, k - 1) = a
  <2>1. SubSeq(a \o d, 1, Len(a)) = a
    BY <1>4, <1>11, JoinEnds
  <2> QED BY <1>4, <1>10, <2>1
<1>13. k - 1 <= Len(after)
  <2>1. PICK i, j : i = Len(new) /\ j = Len(b)
    OBVIOUS
  <2>2. Len(after) = (k - 1) + i + j /\ i \in Nat /\ j \in Nat
    BY <1>3, <1>5, <1>7, <1>8, <2>1
  <2> QED BY <1>3, <2>2
<1> QED BY <1>1, <1>8, <1>9, <1>12, <1>13

\* What is read of a text is a text, ...
LEMMA ReadIsText ==
  ASSUME NEW t \in Seq(FileLetters)
  PROVE  AsRead(t) \in Seq(FileLetters)
<1> DEFINE part(k) == IF t[k] = "n" /\ k > 1 /\ t[k - 1] = "r" THEN <<>>
                      ELSE <<IF t[k] = "r" THEN "n" ELSE t[k]>>
<1>1. \A k \in 1..Len(t) : part(k) \in Seq(FileLetters)
  <2> SUFFICES ASSUME NEW k \in 1..Len(t) PROVE part(k) \in Seq(FileLetters)
    OBVIOUS
  <2>1. t[k] \in FileLetters /\ "n" \in FileLetters
    BY FileAssumption
  <2>2. <<>> \in Seq(FileLetters) /\ \A x \in FileLetters : <<x>> \in Seq(FileLetters)
    OBVIOUS
  <2> QED BY <2>1, <2>2
<1>2. AsRead(t) = FlattenSeq([k \in 1..Len(t) |-> part(k)])
  <2>1. DOMAIN t = 1..Len(t)
    OBVIOUS
  <2>2. AsRead(t) = FlattenSeq([k \in DOMAIN t |-> part(k)])
    BY DEF AsRead
  <2> HIDE DEF part
  <2> QED BY <2>1, <2>2
<1> HIDE DEF part
<1>3. [k \in 1..Len(t) |-> part(k)] \in Seq(Seq(FileLetters))
  <2>1. Len(t) \in Nat
    OBVIOUS
  <2>2. [k \in 1..Len(t) |-> part(k)] \in [1..Len(t) -> Seq(FileLetters)]
    BY <1>1
  <2> QED BY <2>1, <2>2
<1> QED BY <1>2, <1>3, FlattenType

\* ... and the very text where no carriage return is.
LEMMA ReadIsSame ==
  ASSUME NEW t \in Seq(FileLetters), "r" \notin ToSet(t)
  PROVE  AsRead(t) = t
<1> DEFINE L == Len(t)
           part(k) == IF t[k] = "n" /\ k > 1 /\ t[k - 1] = "r" THEN <<>>
                      ELSE <<IF t[k] = "r" THEN "n" ELSE t[k]>>
           ones == [k \in 1..L |-> <<t[k]>>]
           g == [k \in 0..L |-> SubSeq(t, 1, k)]
<1>1. L \in Nat /\ \A k \in 1..L : t[k] \in FileLetters /\ t[k] # "r"
  BY DEF ToSet
<1>2. AsRead(t) = FlattenSeq(ones)
  <2>1. \A k \in 1..L : part(k) = <<t[k]>>
    <3> SUFFICES ASSUME NEW k \in 1..L PROVE part(k) = <<t[k]>>
      OBVIOUS
    <3>1. k > 1 => k - 1 \in 1..L
      BY <1>1
    <3>2. t[k] # "r" /\ (k > 1 => t[k - 1] # "r")
      BY <1>1, <3>1
    <3> QED BY <3>2
  <2>2. AsRead(t) = FlattenSeq([k \in 1..L |-> part(k)])
    <3>1. DOMAIN t = 1..L
      OBVIOUS
    <3>2. AsRead(t) = FlattenSeq([k \in DOMAIN t |-> part(k)])
      BY DEF AsRead
    <3> HIDE DEF part
    <3> QED BY <3>1, <3>2
  <2> HIDE DEF part
  <2> QED BY <2>1, <2>2
<1>3. ones \in Seq(Seq(FileLetters)) /\ Len(ones) = L /\ \A k \in 1..L : ones[k] = <<t[k]>>
  <2>1. \A k \in 1..L : <<t[k]>> \in Seq(FileLetters)
    BY <1>1
  <2> QED BY <1>1, <2>1
<1>4. \A k \in 0..L : SubSeq(t, 1, k) \in Seq(FileLetters)
  <2> SUFFICES ASSUME NEW k \in 0..L PROVE SubSeq(t, 1, k) \in Seq(FileLetters)
    OBVIOUS
  <2>1. \A i \in 1..k : t[i] \in FileLetters
    BY <1>1
  <2> QED BY <1>1, <2>1, SubSeqProperties
<1>5. \A k \in 0..L : g[k] \in Seq(FileLetters) /\ g[k] = SubSeq(t, 1, k)
  BY <1>4
<1>6. g \in [0..L -> Seq(FileLetters)]
  BY <1>4
<1>7. g[0] = <<>>
  <2>1. SubSeq(t, 1, 0) = <<>>
    BY SubSeqEmpty
  <2> QED BY <1>1, <1>5, <2>1
<1> HIDE DEF ones, g
<1>8. ASSUME NEW k \in 1..L PROVE g[k] = g[k - 1] \o ones[k]
  <2>1. k - 1 \in 0..L /\ k \in 0..L /\ k - 1 <= k /\ k <= Len(t) /\ (k - 1) + 1 = k /\ k - 1 \in Nat /\ k \in Nat
    BY <1>1
  <2>2. SubSeq(t, 1, k - 1) \o SubSeq(t, (k - 1) + 1, k) = SubSeq(t, 1, k)
    BY <2>1, BeginningGrows
  <2>3. SubSeq(t, (k - 1) + 1, k) = <<t[k]>>
    <3>1. \A i \in k..k : t[i] \in FileLetters
      BY <1>1
    <3>2. /\ SubSeq(t, k, k) \in Seq(FileLetters) /\ Len(SubSeq(t, k, k)) = 1
          /\ SubSeq(t, k, k)[1] = t[k]
      BY <2>1, <3>1, SubSeqProperties
    <3>3. <<t[k]>> \in Seq(FileLetters) /\ Len(<<t[k]>>) = 1 /\ <<t[k]>>[1] = t[k]
      BY <1>1
    <3>4. \A i \in 1..1 : SubSeq(t, k, k)[i] = <<t[k]>>[i]
      BY <3>2, <3>3
    <3>5. SubSeq(t, k, k) = <<t[k]>>
      BY <3>2, <3>3, <3>4, SeqEqual
    <3> QED BY <2>1, <3>5
  <2> QED BY <1>3, <1>5, <2>1, <2>2, <2>3
<1>9. Joins(ones, FileLetters, g)
  BY <1>3, <1>6, <1>7, <1>8 DEF Joins
<1>10. PICK f : Joins(ones, FileLetters, f) /\ FlattenSeq(ones) = f[Len(ones)]
  BY <1>3, FlattenJoins
<1>11. f[L] = g[L]
  <2>1. L \in 0..Len(ones) /\ L <= Len(ones)
    BY <1>1, <1>3
  <2> QED BY <1>3, <1>9, <1>10, <2>1, JoinsAgree
<1>12. g[L] = t
  <2>1. /\ SubSeq(t, 1, Len(t)) \in Seq(FileLetters) /\ Len(SubSeq(t, 1, Len(t))) = Len(t)
        /\ \A i \in 1..Len(t) : SubSeq(t, 1, Len(t))[i] = t[i]
    BY <1>1, SubSeqProperties
  <2>2. SubSeq(t, 1, Len(t)) = t
    BY <2>1, SeqEqual
  <2> QED BY <1>1, <1>5, <2>2
<1> QED BY <1>2, <1>3, <1>10, <1>11, <1>12

\* A capped text is no longer than the cap.
LEMMA CappedIs ==
  ASSUME NEW t \in Seq(FileLetters)
  PROVE  Capped(t) \in Seq(FileLetters) /\ Len(Capped(t)) <= ReadCap
<1>1. PICK n \in Nat : n = Least(ReadCap, Len(t)) /\ n <= ReadCap /\ n <= Len(t)
  <2>1. ReadCap \in Nat /\ Len(t) \in Nat
    BY FileAssumption
  <2> QED BY <2>1 DEF Least
<1>2. \A i \in 1..n : t[i] \in FileLetters
  BY <1>1
<1>3. SubSeq(t, 1, n) \in Seq(FileLetters) /\ Len(SubSeq(t, 1, n)) = IF 1 <= n THEN n - 1 + 1 ELSE 0
  BY <1>2, SubSeqProperties
<1> QED BY <1>1, <1>3, FileAssumption DEF Capped

\* A window lies in the lines.
LEMMA WindowIs ==
  ASSUME NEW ls \in Seq(Seq(FileLetters)), NEW offset \in Nat, NEW limit \in Nat
  PROVE  /\ Window(ls, offset, limit) \in Seq(Seq(FileLetters))
         /\ offset + Len(Window(ls, offset, limit)) <= Len(ls) \/ Window(ls, offset, limit) = <<>>
<1>1. PICK n \in Nat : n = Least(offset + limit, Len(ls)) /\ n <= Len(ls)
  <2>1. Len(ls) \in Nat /\ offset + limit \in Nat
    OBVIOUS
  <2> QED BY <2>1 DEF Least
<1>2. \A i \in (offset + 1)..n : ls[i] \in Seq(FileLetters)
  BY <1>1
<1>3. /\ SubSeq(ls, offset + 1, n) \in Seq(Seq(FileLetters))
      /\ Len(SubSeq(ls, offset + 1, n)) = IF offset + 1 <= n THEN n - (offset + 1) + 1 ELSE 0
  BY <1>2, SubSeqProperties
<1>4. CASE offset + 1 <= n
  <2>1. offset + Len(SubSeq(ls, offset + 1, n)) <= Len(ls)
    BY <1>1, <1>3, <1>4
  <2> QED BY <1>1, <1>3, <2>1 DEF Window
<1>5. CASE ~(offset + 1 <= n)
  <2>1. SubSeq(ls, offset + 1, n) = <<>>
    BY <1>5, SubSeqEmpty
  <2> QED BY <1>1, <1>3, <2>1 DEF Window
<1> QED BY <1>4, <1>5

-----------------------------------------------------------------------------
\* What a read returns, and what is known of an edit.
ReadKinds ==
  [lines : Seq(Seq(FileLetters)), offset : Nat, total : Nat, whole : Seq(FileLetters),
   kind : {"none", "range", "whole", "stream", "refused", "no file"}]
ReadTrue(r) ==
  /\ r.kind # "stream" => Len(r.whole) <= ReadCap
  /\ r.kind = "range" => r.offset + Len(r.lines) <= r.total \/ r.lines = <<>>

\* Reads and the last edit are as they were told.
FileInv == FileTypeOK /\ seen \in [Editors -> ReadKinds] /\ (\A s \in Editors : ReadTrue(seen[s]))
           /\ EditsAreLocal

\* What is assumed of the constants, part by part, and a read of nothing.
LEMMA FileConstants ==
  /\ ReadCap \in Nat /\ MaxCalls \in Nat /\ PageSizes \subseteq Nat \ {0}
  /\ NoRead \in ReadKinds /\ ReadTrue(NoRead) /\ NoRead.kind = "none" /\ NoRead.lines = <<>>
  /\ NoRead.whole = <<>> /\ NoRead.offset = 0 /\ NoRead.total = 0
<1>1. ReadCap \in Nat /\ MaxCalls \in Nat /\ PageSizes \subseteq Nat \ {0}
  BY FileAssumption
<1>2. <<>> \in Seq(Seq(FileLetters)) /\ <<>> \in Seq(FileLetters) /\ Len(<<>>) = 0
  OBVIOUS
<1> QED BY <1>1, <1>2 DEF NoRead, ReadKinds, ReadTrue

\* The calls are counted up to their bound.
LEMMA CallsBounded == FileTypeOK /\ Called => fileCalls' \in 0..MaxCalls
<1>1. MaxCalls \in Nat
  BY FileConstants
<1>2. ASSUME FileTypeOK, Called PROVE fileCalls' \in 0..MaxCalls
  <2>1. fileCalls \in 0..MaxCalls /\ fileCalls < MaxCalls /\ fileCalls' = fileCalls + 1
    BY <1>2 DEF FileTypeOK, Called
  <2> QED BY <1>1, <2>1
<1> QED BY <1>2

\* It holds at the start, ...
LEMMA FileStarts == FileInit => FileInv
<1> SUFFICES ASSUME FileInit PROVE FileInv
  OBVIOUS
<1>1. text \in Seq(FileLetters) /\ exists \in BOOLEAN /\ fileCalls \in 0..MaxCalls
  <2>1. FileTexts \subseteq Seq(FileLetters) /\ {<<>>} \subseteq Seq(FileLetters)
    BY FileAssumption
  <2>2. text \in FileTexts \cup {<<>>}
    BY DEF FileInit
  <2>3. fileCalls \in 0..MaxCalls
    BY FileConstants DEF FileInit
  <2> QED BY <2>1, <2>2, <2>3 DEF FileInit
<1>2. NoRead \in ReadKinds /\ ReadTrue(NoRead) /\ NoRead.kind = "none"
  BY FileConstants
<1>3. seen \in [Editors -> ReadKinds] /\ \A s \in Editors : seen[s] = NoRead
  BY <1>2 DEF FileInit
<1>4. lastEdit.said = "none" /\ EditsAreLocal
  BY DEF FileInit, NoEdit, EditsAreLocal
<1> QED BY <1>1, <1>2, <1>3, <1>4 DEF FileInv, FileTypeOK

\* ... a read keeps it that returns something true, ...
LEMMA FileReadKeeps ==
  ASSUME FileInv, NEW s \in Editors, NEW r \in ReadKinds, ReadTrue(r), Called,
         seen' = [seen EXCEPT ![s] = r], UNCHANGED <<exists, text, lastEdit>>
  PROVE  FileInv'
<1>1. fileCalls' \in 0..MaxCalls
  BY CallsBounded DEF FileInv
<1>2. seen' \in [Editors -> ReadKinds] /\ \A e \in Editors : seen'[e] = IF e = s THEN r ELSE seen[e]
  BY DEF FileInv
<1>3. \A e \in Editors : seen'[e] \in ReadKinds /\ ReadTrue(seen'[e])
  BY <1>2 DEF FileInv
<1>4. \A e \in Editors : seen'[e].kind \in {"none", "range", "whole", "stream", "refused", "no file"}
  BY <1>3 DEF ReadKinds
<1>5. FileTypeOK'
  BY <1>1, <1>4 DEF FileInv, FileTypeOK
<1>6. EditsAreLocal'
  BY DEF FileInv, EditsAreLocal
<1> QED BY <1>2, <1>3, <1>5, <1>6 DEF FileInv, ReadTrue

\* ... an edit keeps it, ...
LEMMA EditKeeps ==
  ASSUME FileInv, NEW s \in Editors, EditFile(s)
  PROVE  FileInv'
<1>1. PICK old \in EditPieces, new \in EditPieces :
        LET read == AsRead(text)
            places == Found(read, old)
            at == CHOOSE k \in places : \A j \in places : k <= j
            said == CASE places = {} -> "not found"
                      [] Count(read, old) > 1 -> "several"
                      [] OTHER -> "edited"
            after == IF said # "edited" THEN text
                     ELSE SubSeq(read, 1, at - 1) \o new \o SubSeq(read, at + Len(old), Len(read))
        IN /\ text' = after
           /\ lastEdit' = [before |-> text, old |-> old, new |-> new, after |-> after, said |-> said]
  BY DEF EditFile
<1> DEFINE read == AsRead(text)
           places == Found(read, old)
           at == CHOOSE k \in places : \A j \in places : k <= j
           said == CASE places = {} -> "not found"
                     [] Count(read, old) > 1 -> "several"
                     [] OTHER -> "edited"
           after == IF said # "edited" THEN text
                    ELSE SubSeq(read, 1, at - 1) \o new \o SubSeq(read, at + Len(old), Len(read))
<1>2. /\ text' = after
      /\ lastEdit' = [before |-> text, old |-> old, new |-> new, after |-> after, said |-> said]
  BY <1>1
<1>3. Called /\ UNCHANGED <<exists, seen>>
  BY DEF EditFile
<1>4. text \in Seq(FileLetters) /\ read \in Seq(FileLetters) /\ old \in Seq(FileLetters) /\ new \in Seq(FileLetters)
  <2>1. text \in Seq(FileLetters) /\ old \in Seq(FileLetters) /\ new \in Seq(FileLetters)
    BY FileAssumption DEF FileInv, FileTypeOK
  <2> QED BY <2>1, ReadIsText
<1>r. read = IF "r" \in ToSet(text) THEN AsRead(text) ELSE text
  BY <1>4, ReadIsSame
<1> HIDE DEF read
<1>5. /\ places \in SUBSET Nat
      /\ \A p \in places : p > 0 /\ p <= Len(read) + 1 /\ p + Len(old) <= Len(read) + 1
  BY <1>4, FoundPlaces
<1>6. said \in {"not found", "several", "edited"}
  OBVIOUS
<1>7. said = "edited" => ~(Count(read, old) > 1) /\ places # {}
  OBVIOUS
<1> HIDE DEF places, said, at
<1>8. said # "edited" => after = text
  OBVIOUS
<1>9. ASSUME said = "edited"
      PROVE  /\ at \in places /\ after \in Seq(FileLetters) /\ at - 1 <= Len(after)
             /\ SubSeq(after, 1, at - 1) = SubSeq(read, 1, at - 1)
             /\ SubSeq(after, at + Len(new), Len(after)) = SubSeq(read, at + Len(old), Len(read))
             /\ \A j, k \in places : j < k => k < j + Len(old)
  <2>1. \E k \in places : \A j \in places : k <= j
    BY <1>5, <1>7, <1>9, LeastNumber
  <2>2. at \in places
    BY <2>1 DEF at
  <2>3. after = SubSeq(read, 1, at - 1) \o new \o SubSeq(read, at + Len(old), Len(read))
    BY <1>9
  <2> HIDE DEF after
  <2>4. at \in Nat /\ at > 0 /\ at + Len(old) <= Len(read) + 1 /\ Len(old) \in Nat
    BY <1>4, <1>5, <2>2, LenProperties
  <2>5. /\ after \in Seq(FileLetters) /\ at - 1 <= Len(after)
        /\ SubSeq(after, 1, at - 1) = SubSeq(read, 1, at - 1)
        /\ SubSeq(after, at + Len(new), Len(after)) = SubSeq(read, at + Len(old), Len(read))
    <3>1. TextReplaced(read, at, Len(old), new, after)
      BY <2>3 DEF TextReplaced
    <3>2. read \in Seq(FileLetters) /\ new \in Seq(FileLetters)
      BY <1>4
    <3>3. PICK size \in Nat, k \in Nat : size = Len(old) /\ k = at /\ k > 0 /\ k + size <= Len(read) + 1
      BY <2>4
    <3>4. PICK t, n, a : t = read /\ n = new /\ a = after
      OBVIOUS
    <3>5. /\ TextReplaced(t, k, size, n, a) /\ t \in Seq(FileLetters) /\ n \in Seq(FileLetters)
          /\ k > 0 /\ k + size <= Len(t) + 1
      BY <3>1, <3>2, <3>3, <3>4
    <3>6. /\ a \in Seq(FileLetters) /\ k - 1 <= Len(a)
          /\ SubSeq(a, 1, k - 1) = SubSeq(t, 1, k - 1)
          /\ SubSeq(a, k + Len(n), Len(a)) = SubSeq(t, k + size, Len(t))
      BY <3>5, EndsStay
    <3> QED BY <3>3, <3>4, <3>6
  <2>6. ASSUME NEW j \in places, NEW k \in places, j < k PROVE k < j + Len(old)
    <3>1. j \in Found(read, old) /\ k \in Found(read, old)
      BY DEF places
    <3> QED BY <1>4, <1>7, <1>9, <2>6, <3>1, CountsTwo
  <2> QED BY <2>2, <2>5, <2>6
<1>10. after \in Seq(FileLetters)
  BY <1>4, <1>8, <1>9
<1> HIDE DEF after
<1>11. /\ lastEdit'.before = text /\ lastEdit'.old = old /\ lastEdit'.new = new
       /\ lastEdit'.after = after /\ lastEdit'.said = said
  BY <1>2
<1>12. EditsAreLocal'
  <2>1. said \in {"not found", "several"} => after = text
    BY <1>8
  <2>2. said = "edited" =>
          /\ \E k \in Found(read, old) :
                /\ k - 1 <= Len(after)
                /\ SubSeq(after, 1, k - 1) = SubSeq(read, 1, k - 1)
                /\ SubSeq(after, k + Len(new), Len(after)) = SubSeq(read, k + Len(old), Len(read))
          /\ \A j, k \in Found(read, old) : j < k => k < j + Len(old)
    BY <1>9 DEF places
  <2>3. (IF "r" \in ToSet(lastEdit'.before) THEN AsRead(lastEdit'.before) ELSE lastEdit'.before) = read
    BY <1>r, <1>11
  <2> QED BY <1>11, <2>1, <2>2, <2>3 DEF EditsAreLocal
<1>13. fileCalls' \in 0..MaxCalls
  BY <1>3, CallsBounded DEF FileInv
<1>14. FileTypeOK'
  BY <1>2, <1>3, <1>6, <1>10, <1>11, <1>13 DEF FileInv, FileTypeOK
<1>15. seen' \in [Editors -> ReadKinds] /\ \A e \in Editors : ReadTrue(seen'[e])
  BY <1>3 DEF FileInv
<1> QED BY <1>12, <1>14, <1>15 DEF FileInv, ReadTrue

\* ... and so does every step.
LEMMA FileSteps == FileInv /\ [FileNext]_fileVars => FileInv'
<1> SUFFICES ASSUME FileInv, [FileNext]_fileVars PROVE FileInv'
  OBVIOUS
<1> DEFINE read == AsRead(text)
<1>0. text \in Seq(FileLetters) /\ read \in Seq(FileLetters)
  <2>1. text \in Seq(FileLetters)
    BY DEF FileInv, FileTypeOK
  <2> QED BY <2>1, ReadIsText
<1>1. ASSUME NEW s \in Editors, ReadRange(s) PROVE FileInv'
  <2>1. PICK offset \in 0..Len(text), limit \in PageSizes :
          seen' = [seen EXCEPT ![s] =
            [lines |-> Window(Lines(read), offset, limit), offset |-> offset,
             total |-> Len(Lines(read)),
             whole |-> Capped(FlattenSeq(Window(Lines(read), offset, limit))), kind |-> "range"]]
    BY <1>1 DEF ReadRange
  <2>2. Lines(read) \in Seq(Seq(FileLetters)) /\ offset \in Nat /\ limit \in Nat
    BY <1>0, FileAssumption, LinesJoin
  <2>3. PICK w : w = Window(Lines(read), offset, limit)
    OBVIOUS
  <2>4. w \in Seq(Seq(FileLetters)) /\ (offset + Len(w) <= Len(Lines(read)) \/ w = <<>>)
    BY <2>2, <2>3, WindowIs
  <2>5. FlattenSeq(w) \in Seq(FileLetters)
    BY <2>4, FlattenType
  <2>6. Capped(FlattenSeq(w)) \in Seq(FileLetters) /\ Len(Capped(FlattenSeq(w))) <= ReadCap
    BY <2>5, CappedIs
  <2>7. PICK n \in Nat : n = Len(Lines(read))
    BY <2>2, LenProperties
  <2>8. PICK r : r = [lines |-> w, offset |-> offset, total |-> n,
                      whole |-> Capped(FlattenSeq(w)), kind |-> "range"]
    OBVIOUS
  <2>9. r \in ReadKinds /\ ReadTrue(r)
    BY <2>2, <2>4, <2>6, <2>7, <2>8 DEF ReadKinds, ReadTrue
  <2>10. seen' = [seen EXCEPT ![s] = r]
    BY <2>1, <2>3, <2>7, <2>8
  <2>11. Called /\ UNCHANGED <<exists, text, lastEdit>>
    BY <1>1 DEF ReadRange
  <2> QED BY <2>9, <2>10, <2>11, FileReadKeeps
<1>2. ASSUME NEW s \in Editors, ReadWhole(s) PROVE FileInv'
  <2>1. Capped(read) \in Seq(FileLetters) /\ Len(Capped(read)) <= ReadCap /\ Len(read) \in Nat
    <3> HIDE DEF read
    <3> QED BY <1>0, CappedIs, LenProperties
  <2>2. PICK r : r = IF Len(text) > 4 * ReadCap THEN [NoRead EXCEPT !.kind = "refused"]
                     ELSE [NoRead EXCEPT !.whole = Capped(read), !.total = Len(read), !.kind = "whole"]
    OBVIOUS
  <2>3. r \in ReadKinds /\ ReadTrue(r)
    BY <2>1, <2>2, FileConstants DEF ReadKinds, ReadTrue
  <2>4. seen' = [seen EXCEPT ![s] = r] /\ Called /\ UNCHANGED <<exists, text, lastEdit>>
    BY <1>2, <2>2 DEF ReadWhole
  <2> QED BY <2>3, <2>4, FileReadKeeps
<1>3. ASSUME NEW s \in Editors, StreamWhole(s) PROVE FileInv'
  <2>1. PICK r : r = [NoRead EXCEPT !.whole = read, !.total = Len(read), !.kind = "stream"]
    OBVIOUS
  <2>2. r \in ReadKinds /\ ReadTrue(r)
    <3> HIDE DEF read
    <3>1. Len(read) \in Nat
      BY <1>0, LenProperties
    <3> QED BY <1>0, <2>1, <3>1, FileConstants DEF ReadKinds, ReadTrue
  <2>3. seen' = [seen EXCEPT ![s] = r] /\ Called /\ UNCHANGED <<exists, text, lastEdit>>
    BY <1>3, <2>1 DEF StreamWhole
  <2> QED BY <2>2, <2>3, FileReadKeeps
<1>4. ASSUME NEW s \in Editors, WriteFile(s) PROVE FileInv'
  <2>1. text' \in Seq(FileLetters) /\ exists' = TRUE /\ lastEdit' = NoEdit /\ UNCHANGED seen
    BY <1>4, FileAssumption DEF WriteFile
  <2>2. fileCalls' \in 0..MaxCalls
    BY <1>4, CallsBounded DEF WriteFile, FileInv
  <2>3. FileTypeOK'
    BY <2>1, <2>2 DEF FileInv, FileTypeOK, NoEdit
  <2>4. EditsAreLocal'
    BY <2>1 DEF NoEdit, EditsAreLocal
  <2> QED BY <2>1, <2>3, <2>4 DEF FileInv, ReadTrue
<1>5. ASSUME NEW s \in Editors, FileMissing(s) PROVE FileInv'
  <2>1. PICK r : r = [NoRead EXCEPT !.kind = "no file"]
    OBVIOUS
  <2>2. r \in ReadKinds /\ ReadTrue(r)
    BY <2>1, FileConstants DEF ReadKinds, ReadTrue
  <2>3. seen' = [seen EXCEPT ![s] = r] /\ Called /\ UNCHANGED <<exists, text, lastEdit>>
    BY <1>5, <2>1 DEF FileMissing
  <2> QED BY <2>2, <2>3, FileReadKeeps
<1>6. CASE UNCHANGED fileVars
  BY <1>6 DEF fileVars, FileInv, FileTypeOK, EditsAreLocal, ReadTrue
<1> QED BY <1>1, <1>2, <1>3, <1>4, <1>5, <1>6, EditKeeps DEF FileNext

\* It implies the property.
LEMMA FileImplies == FileInv => FileTypeOK /\ FileRight
<1> SUFFICES ASSUME FileInv PROVE FileTypeOK /\ FileRight
  OBVIOUS
<1>1. PagesMakeTheFile
  <2>1. text \in Seq(FileLetters) /\ PageSizes \subseteq Nat \ {0}
    BY FileAssumption DEF FileInv, FileTypeOK
  <2>2. AsRead(text) \in Seq(FileLetters)
    BY <2>1, ReadIsText
  <2> QED BY <2>1, <2>2, PagesMake DEF PagesMakeTheFile
<1>2. ReadsAreBounded
  BY DEF FileInv, ReadTrue, ReadsAreBounded
<1> QED BY <1>1, <1>2 DEF FileInv, FileRight

\* The file tools are right: pages put together are the file, a read returns no more
\* than its cap, and an edit changes one place or nothing, the endings of a file with
\* carriage returns besides.
THEOREM FilesHold == FileSpec => []FileRight
<1>1. FileSpec => []FileInv
  BY FileStarts, FileSteps, PTL DEF FileSpec
<1>2. FileInv => FileRight
  BY FileImplies
<1> QED BY <1>1, <1>2, PTL
=============================================================================
