------------------------- MODULE Components_proofs --------------------------
(***************************************************************************)
(* Proofs about an agent's turns (its durable steps and reply, its budget   *)
(* and loop detection), and about the components of Components together.   *)
(***************************************************************************)
EXTENDS Components, Host_proofs, Tools_proofs

-----------------------------------------------------------------------------
(* DurableSteps: views of a journal *)

Ops == {"mint", "chat", "tool", "stream", "append", "post"}
StepAnswers == {"ok", "error", "tool", "stream", "overflow", "final", "refused"}

\* What an operation may come to.
Came(op) ==
  IF op = "chat" THEN {"tool", "stream", "overflow", "final", "error"}
  ELSE IF op = "stream" THEN {"ok", "refused"} ELSE {"ok", "error"}

Results == {r \in [op : Ops, is : StepAnswers, life : 1..MaxLives] : r.is \in Came(r.op)}
Entries == [result : Results, on : Seq(Results)]

\* Where an entry's result stands in the view of a loop that has seen it.
At(j, e) == Len(j[e].on) + 1

\* The operation at a place of a view.
OpAt(v, i) == IF i = 1 THEN "mint" ELSE OpAfter(v[i - 1])

\* A view in which k entries of the journal were replayed: they stand where they
\* were committed, and the other results are of streaming tools.
Agrees(j, v, k) ==
  /\ \A e \in 1..k : At(j, e) <= Len(v) /\ v[At(j, e)] = j[e].result
  /\ \A i \in 1..Len(v) :
        v[i].op = OpAt(v, i) /\ (v[i].op # "stream" => \E e \in 1..k : i = At(j, e))

\* Every entry was computed on a view in which those before it were replayed.
Sound(j) ==
  \A e \in 1..Len(j) :
     /\ Agrees(j, j[e].on, e - 1)
     /\ j[e].result.op # "stream" /\ j[e].result.op = OpAt(j[e].on, At(j, e))

\* The operation of an entry, from the entry before it.
EntryOp(j, e) ==
  IF e = 1 THEN "mint"
  ELSE IF OpAfter(j[e - 1].result) = "stream" THEN "append" ELSE OpAfter(j[e - 1].result)

\* The agent loop goes on after any result but an error or the end.
LEMMA AfterResults ==
  ASSUME NEW r \in Results
  PROVE  /\ r.op = "stream" => OpAfter(r) = "append"
         /\ r.is # "error" /\ r.op # "post" => OpAfter(r) \in Ops
<1>1. r.op \in Ops /\ r.is \in Came(r.op)
  BY DEF Results
<1>2. CASE r.op \in {"mint", "append"}
  <2>1. r.op \notin {"tool", "stream"} /\ r.is # "overflow" /\ r.is # "final"
    BY <1>1, <1>2 DEF Came
  <2>2. OpAfter(r) = "chat"
    BY <1>2, <2>1 DEF OpAfter
  <2> QED BY <1>2, <2>2 DEF Ops
<1>3. CASE r.op \in {"tool", "stream"}
  <2>1. r.op \notin {"mint", "append"} /\ r.is # "overflow" /\ r.is # "final"
    BY <1>1, <1>3 DEF Came
  <2>2. OpAfter(r) = "append"
    BY <1>3, <2>1 DEF OpAfter
  <2> QED BY <1>3, <2>2 DEF Ops
<1>4. CASE r.op = "chat"
  <2>1. r.is \in {"tool", "stream", "overflow", "final", "error"}
    BY <1>1, <1>4 DEF Came
  <2>2. r.is # "error" => OpAfter(r) \in {"chat", "post", "tool", "stream"}
    BY <1>4, <2>1 DEF OpAfter
  <2> QED BY <1>4, <2>2 DEF Ops
<1>5. CASE r.op = "post"
  BY <1>5
<1> QED BY <1>1, <1>2, <1>3, <1>4, <1>5 DEF Ops

\* The types of an entry.
LEMMA EntryTypes ==
  ASSUME NEW j \in Seq(Entries), NEW e \in 1..Len(j)
  PROVE  j[e].result \in Results /\ j[e].on \in Seq(Results) /\ At(j, e) \in Nat \ {0}
<1>1. j[e] \in Entries
  OBVIOUS
<1>2. j[e].result \in Results /\ j[e].on \in Seq(Results)
  BY <1>1 DEF Entries
<1> QED BY <1>2 DEF At

\* The entries of a journal stand in their order.
LEMMA PlacesGrow ==
  ASSUME NEW j \in Seq(Entries), Sound(j), NEW f \in 1..Len(j), NEW e \in 1..f - 1
  PROVE  At(j, e) < At(j, f)
<1>1. Agrees(j, j[f].on, f - 1)
  BY DEF Sound
<1>2. At(j, e) <= Len(j[f].on)
  BY <1>1 DEF Agrees
<1>3. j[f] \in Entries /\ e \in 1..Len(j)
  OBVIOUS
<1>4. j[e] \in Entries
  BY <1>3
<1>5. j[f].on \in Seq(Results) /\ j[e].on \in Seq(Results)
  BY <1>3, <1>4 DEF Entries
<1>6. Len(j[f].on) \in Nat /\ Len(j[e].on) \in Nat
  BY <1>5
<1> QED BY <1>2, <1>6 DEF At

\* Two entries do not stand in one place.
LEMMA PlacesDiffer ==
  ASSUME NEW j \in Seq(Entries), Sound(j),
         NEW e \in 1..Len(j), NEW f \in 1..Len(j), At(j, e) = At(j, f)
  PROVE  e = f
<1>1. e \in Nat /\ f \in Nat /\ At(j, e) \in Nat /\ At(j, f) \in Nat
  <2>1. j[e] \in Entries /\ j[f] \in Entries
    OBVIOUS
  <2>2. j[f].on \in Seq(Results) /\ j[e].on \in Seq(Results)
    BY <2>1 DEF Entries
  <2> QED BY <2>2 DEF At
<1>2. ~(At(j, e) < At(j, f)) /\ ~(At(j, f) < At(j, e))
  BY <1>1
<1>3. ~(e < f)
  <2> SUFFICES ASSUME e < f PROVE FALSE
    OBVIOUS
  <2>1. e \in 1..f - 1
    BY <1>1
  <2> QED BY <1>2, <2>1, PlacesGrow
<1>4. ~(f < e)
  <2> SUFFICES ASSUME f < e PROVE FALSE
    OBVIOUS
  <2>1. f \in 1..e - 1
    BY <1>1
  <2> QED BY <1>2, <2>1, PlacesGrow
<1> QED BY <1>1, <1>3, <1>4

\* Two views of a journal have the same results, but for those of streaming tools,
\* as far as both go.
LEMMA ViewsAgree ==
  ASSUME NEW j \in Seq(Entries), Sound(j), NEW k \in 0..Len(j), NEW l \in 0..Len(j),
         NEW v \in Seq(Results), NEW w \in Seq(Results), Agrees(j, v, k), Agrees(j, w, l),
         NEW n \in Nat, n <= Len(v), n <= Len(w)
  PROVE  \A i \in 1..n : v[i] = w[i] \/ (v[i].op = "stream" /\ w[i].op = "stream")
<1> DEFINE Alike(i) == v[i] = w[i] \/ (v[i].op = "stream" /\ w[i].op = "stream")
           S == {i \in 1..n : ~Alike(i)}
<1>1. SUFFICES ASSUME S # {} PROVE FALSE
  OBVIOUS
<1>2. S \in SUBSET Nat
  OBVIOUS
<1>3. PICK i \in S : \A x \in S : i <= x
  <2> HIDE DEF S
  <2> QED BY <1>1, <1>2, LeastNumber
<1>4. i \in 1..n /\ ~Alike(i) /\ i \in 1..Len(v) /\ i \in 1..Len(w)
  BY <1>3
<1>5. OpAt(v, i) = OpAt(w, i)
  <2>1. CASE i = 1
    BY <2>1 DEF OpAt
  <2>2. CASE i # 1
    <3>1. i - 1 \in 1..n /\ ~(i <= i - 1) /\ i - 1 \in 1..Len(v) /\ i - 1 \in 1..Len(w)
      BY <1>4, <2>2
    <3>2. Alike(i - 1)
      <4>1. i - 1 \notin S
        <5> HIDE DEF S
        <5> QED BY <1>3, <3>1
      <4> QED BY <3>1, <4>1
    <3>3. v[i - 1] \in Results /\ w[i - 1] \in Results
      BY <3>1
    <3>4. OpAfter(v[i - 1]) = OpAfter(w[i - 1])
      BY <3>2, <3>3, AfterResults
    <3> QED BY <2>2, <3>4 DEF OpAt
  <2> QED BY <2>1, <2>2
<1>6. v[i].op = w[i].op /\ v[i].op # "stream"
  BY <1>4, <1>5 DEF Agrees
<1>7. PICK e \in 1..k : i = At(j, e)
  BY <1>4, <1>6 DEF Agrees
<1>8. PICK f \in 1..l : i = At(j, f)
  BY <1>4, <1>6 DEF Agrees
<1>9. e = f
  <2>1. e \in 1..Len(j) /\ f \in 1..Len(j) /\ At(j, e) = At(j, f)
    BY <1>7, <1>8
  <2> QED BY <2>1, PlacesDiffer
<1>10. v[i] = j[e].result /\ w[i] = j[e].result
  BY <1>7, <1>8, <1>9 DEF Agrees
<1> QED BY <1>4, <1>10

\* A loop that saw k entries and calls for a step is where the next was computed.
LEMMA NextEntryPlace ==
  ASSUME NEW j \in Seq(Entries), Sound(j), NEW k \in 0..Len(j) - 1,
         NEW v \in Seq(Results), Agrees(j, v, k), OpAt(v, Len(v) + 1) # "stream"
  PROVE  /\ At(j, k + 1) = Len(v) + 1
         /\ j[k + 1].result.op = OpAt(v, Len(v) + 1)
<1> DEFINE w == j[k + 1].on
<1>1. k + 1 \in 1..Len(j) /\ k \in 0..Len(j) /\ (k + 1) - 1 = k
  OBVIOUS
<1>2. w \in Seq(Results)
  <2>1. j[k + 1] \in Entries
    BY <1>1
  <2> QED BY <2>1 DEF Entries
<1>3. /\ Agrees(j, w, k) /\ j[k + 1].result.op # "stream"
      /\ j[k + 1].result.op = OpAt(w, Len(w) + 1)
  BY <1>1 DEF Sound, At
<1> HIDE DEF w
<1>4. Len(v) \in Nat /\ Len(w) \in Nat
  BY <1>2
<1>5. ASSUME NEW n \in Nat, n <= Len(v), n <= Len(w)
      PROVE  OpAt(v, n + 1) = OpAt(w, n + 1)
  <2>1. CASE n = 0
    BY <2>1 DEF OpAt
  <2>2. CASE n # 0
    <3>1. n \in 1..n /\ n \in 1..Len(v) /\ n \in 1..Len(w) /\ (n + 1) - 1 = n /\ n + 1 # 1
      BY <1>4, <1>5, <2>2
    <3>2. v[n] = w[n] \/ (v[n].op = "stream" /\ w[n].op = "stream")
      BY <1>1, <1>2, <1>3, <1>5, <3>1, ViewsAgree
    <3>3. v[n] \in Results /\ w[n] \in Results
      BY <1>2, <3>1
    <3>4. OpAfter(v[n]) = OpAfter(w[n])
      BY <3>2, <3>3, AfterResults
    <3> QED BY <3>1, <3>4 DEF OpAt
  <2> QED BY <2>1, <2>2
<1>6. ~(Len(v) < Len(w))
  <2> SUFFICES ASSUME Len(v) < Len(w) PROVE FALSE
    OBVIOUS
  <2>1. Len(v) + 1 \in 1..Len(w) /\ Len(v) <= Len(v) /\ Len(v) <= Len(w)
    BY <1>4
  <2>2. OpAt(v, Len(v) + 1) = OpAt(w, Len(v) + 1)
    BY <1>4, <1>5, <2>1
  <2>3. w[Len(v) + 1].op # "stream"
    BY <1>3, <2>1, <2>2 DEF Agrees
  <2>4. PICK e \in 1..k : Len(v) + 1 = At(j, e)
    BY <1>3, <2>1, <2>3 DEF Agrees
  <2>5. At(j, e) <= Len(v)
    BY <2>4 DEF Agrees
  <2> QED BY <1>4, <2>4, <2>5
<1>7. ~(Len(w) < Len(v))
  <2> SUFFICES ASSUME Len(w) < Len(v) PROVE FALSE
    OBVIOUS
  <2>1. Len(w) + 1 \in 1..Len(v) /\ Len(w) <= Len(w) /\ Len(w) <= Len(v)
    BY <1>4
  <2>2. OpAt(v, Len(w) + 1) = OpAt(w, Len(w) + 1)
    BY <1>4, <1>5, <2>1
  <2>3. v[Len(w) + 1].op # "stream"
    BY <1>3, <2>1, <2>2 DEF Agrees
  <2>4. PICK e \in 1..k : Len(w) + 1 = At(j, e)
    BY <2>1, <2>3 DEF Agrees
  <2>5. At(j, e) <= Len(w)
    BY <1>3, <2>4 DEF Agrees
  <2> QED BY <1>4, <2>4, <2>5
<1>8. Len(v) = Len(w)
  BY <1>4, <1>6, <1>7
<1>9. OpAt(v, Len(v) + 1) = OpAt(w, Len(w) + 1)
  BY <1>4, <1>5, <1>8
<1> QED BY <1>3, <1>8, <1>9 DEF At, w

\* Appending to a view leaves its places.
LEMMA OpsStay ==
  ASSUME NEW v \in Seq(Results), NEW r \in Results
  PROVE  /\ Append(v, r) \in Seq(Results) /\ Len(Append(v, r)) = Len(v) + 1
         /\ \A i \in 1..Len(v) : Append(v, r)[i] = v[i]
         /\ Append(v, r)[Len(v) + 1] = r
         /\ \A i \in 1..Len(v) + 1 : OpAt(Append(v, r), i) = OpAt(v, i)
         /\ OpAt(Append(v, r), Len(v) + 2) = OpAfter(r)
<1> DEFINE w == Append(v, r)
<1>1. /\ w \in Seq(Results) /\ Len(w) = Len(v) + 1 /\ \A i \in 1..Len(v) : w[i] = v[i]
      /\ w[Len(v) + 1] = r
  OBVIOUS
<1>2. Len(v) \in Nat
  OBVIOUS
<1> HIDE DEF w
<1>3. ASSUME NEW i \in 1..Len(v) + 1 PROVE OpAt(w, i) = OpAt(v, i)
  <2>1. i # 1 => i - 1 \in 1..Len(v)
    BY <1>2
  <2> QED BY <1>1, <2>1 DEF OpAt
<1>4. OpAt(w, Len(v) + 2) = OpAfter(r)
  <2>1. Len(v) + 2 # 1 /\ (Len(v) + 2) - 1 = Len(v) + 1
    BY <1>2
  <2> QED BY <1>1, <2>1 DEF OpAt
<1> QED BY <1>1, <1>3, <1>4 DEF w

\* The next entry's result, appended, is the entry's place.
LEMMA EntryExtends ==
  ASSUME NEW j \in Seq(Entries), NEW k \in 0..Len(j) - 1, NEW v \in Seq(Results),
         Agrees(j, v, k), At(j, k + 1) = Len(v) + 1, j[k + 1].result \in Results,
         j[k + 1].result.op = OpAt(v, Len(v) + 1)
  PROVE  Agrees(j, Append(v, j[k + 1].result), k + 1)
<1> DEFINE r == j[k + 1].result
           w == Append(v, r)
<1>1. /\ w \in Seq(Results) /\ Len(w) = Len(v) + 1 /\ \A i \in 1..Len(v) : w[i] = v[i]
      /\ w[Len(v) + 1] = r /\ \A i \in 1..Len(v) + 1 : OpAt(w, i) = OpAt(v, i)
  BY OpsStay
<1>2. Len(v) \in Nat /\ k + 1 \in 1..k + 1
  OBVIOUS
<1> HIDE DEF w
<1>3. ASSUME NEW e \in 1..k + 1 PROVE At(j, e) <= Len(w) /\ w[At(j, e)] = j[e].result
  <2>1. CASE e = k + 1
    BY <1>1, <1>2, <2>1
  <2>2. CASE e # k + 1
    <3>1. e \in 1..k
      BY <2>2
    <3>2. At(j, e) <= Len(v) /\ v[At(j, e)] = j[e].result
      BY <3>1 DEF Agrees
    <3>3. At(j, e) \in 1..Len(v)
      <4>1. e \in 1..Len(j)
        BY <3>1
      <4>2. At(j, e) \in Nat \ {0}
        BY <4>1, EntryTypes
      <4> QED BY <1>2, <3>2, <4>2
    <3> QED BY <1>1, <1>2, <3>2, <3>3
  <2> QED BY <2>1, <2>2
<1>4. ASSUME NEW i \in 1..Len(w)
      PROVE  w[i].op = OpAt(w, i) /\ (w[i].op # "stream" => \E e \in 1..k + 1 : i = At(j, e))
  <2>1. CASE i = Len(v) + 1
    BY <1>1, <1>2, <2>1
  <2>2. CASE i # Len(v) + 1
    <3>1. i \in 1..Len(v) /\ i \in 1..Len(v) + 1
      BY <1>1, <1>2, <2>2
    <3>2. v[i].op = OpAt(v, i) /\ (v[i].op # "stream" => \E e \in 1..k : i = At(j, e))
      BY <3>1 DEF Agrees
    <3>3. \A e \in 1..k : e \in 1..k + 1
      OBVIOUS
    <3> QED BY <1>1, <3>1, <3>2, <3>3
  <2> QED BY <2>1, <2>2
<1> QED BY <1>3, <1>4 DEF Agrees, w

\* A streaming tool's result is no entry's.
LEMMA StreamExtends ==
  ASSUME NEW j \in Seq(Entries), NEW k \in 0..Len(j), NEW v \in Seq(Results),
         Agrees(j, v, k), NEW r \in Results, r.op = "stream", OpAt(v, Len(v) + 1) = "stream"
  PROVE  Agrees(j, Append(v, r), k)
<1> DEFINE w == Append(v, r)
<1>1. /\ w \in Seq(Results) /\ Len(w) = Len(v) + 1 /\ \A i \in 1..Len(v) : w[i] = v[i]
      /\ w[Len(v) + 1] = r /\ \A i \in 1..Len(v) + 1 : OpAt(w, i) = OpAt(v, i)
  BY OpsStay
<1>2. Len(v) \in Nat
  OBVIOUS
<1> HIDE DEF w
<1>3. ASSUME NEW e \in 1..k PROVE At(j, e) <= Len(w) /\ w[At(j, e)] = j[e].result
  <2>1. At(j, e) <= Len(v) /\ v[At(j, e)] = j[e].result
    BY DEF Agrees
  <2>2. At(j, e) \in 1..Len(v)
    <3>1. e \in 1..Len(j)
      OBVIOUS
    <3>2. At(j, e) \in Nat \ {0}
      BY <3>1, EntryTypes
    <3> QED BY <1>2, <2>1, <3>2
  <2> QED BY <1>1, <1>2, <2>1, <2>2
<1>4. ASSUME NEW i \in 1..Len(w)
      PROVE  w[i].op = OpAt(w, i) /\ (w[i].op # "stream" => \E e \in 1..k : i = At(j, e))
  <2>1. CASE i = Len(v) + 1
    <3>1. Len(v) + 1 \in 1..Len(v) + 1
      BY <1>2
    <3> QED BY <1>1, <2>1, <3>1
  <2>2. CASE i # Len(v) + 1
    <3>1. i \in 1..Len(v) /\ i \in 1..Len(v) + 1
      BY <1>1, <1>2, <2>2
    <3>2. v[i].op = OpAt(v, i) /\ (v[i].op # "stream" => \E e \in 1..k : i = At(j, e))
      BY <3>1 DEF Agrees
    <3> QED BY <1>1, <3>1, <3>2
  <2> QED BY <2>1, <2>2
<1> QED BY <1>3, <1>4 DEF Agrees, w

\* A longer journal says the same of the entries it had.
LEMMA LongerJournal ==
  ASSUME NEW j \in Seq(Entries), NEW x \in Entries, NEW v, NEW k \in 0..Len(j)
  PROVE  /\ Append(j, x) \in Seq(Entries) /\ Len(Append(j, x)) = Len(j) + 1
         /\ \A e \in 1..Len(j) : Append(j, x)[e] = j[e] /\ At(Append(j, x), e) = At(j, e)
         /\ Append(j, x)[Len(j) + 1] = x
         /\ Agrees(Append(j, x), v, k) <=> Agrees(j, v, k)
<1> DEFINE h == Append(j, x)
<1>1. /\ h \in Seq(Entries) /\ Len(h) = Len(j) + 1 /\ \A e \in 1..Len(j) : h[e] = j[e]
      /\ h[Len(j) + 1] = x
  OBVIOUS
<1> HIDE DEF h
<1>2. \A e \in 1..Len(j) : At(h, e) = At(j, e)
  BY <1>1 DEF At
<1>3. \A e \in 1..k : e \in 1..Len(j)
  OBVIOUS
<1>4. Agrees(h, v, k) <=> Agrees(j, v, k)
  <2>1. \A e \in 1..k : h[e] = j[e] /\ At(h, e) = At(j, e)
    BY <1>1, <1>2, <1>3
  <2> QED BY <2>1 DEF Agrees
<1> QED BY <1>1, <1>2, <1>4 DEF h

\* A commit keeps the journal sound.
LEMMA CommitsSound ==
  ASSUME NEW j \in Seq(Entries), Sound(j), NEW v \in Seq(Results), Agrees(j, v, Len(j)),
         NEW r \in Results, r.op # "stream", r.op = OpAt(v, Len(v) + 1),
         NEW x \in Entries, x = [result |-> r, on |-> v]
  PROVE  /\ Sound(Append(j, x))
         /\ Agrees(Append(j, x), Append(v, r), Len(j) + 1)
<1> DEFINE h == Append(j, x)
<1>1. /\ h \in Seq(Entries) /\ Len(h) = Len(j) + 1
      /\ \A e \in 1..Len(j) : h[e] = j[e] /\ At(h, e) = At(j, e)
      /\ h[Len(j) + 1] = x
  <2>1. 0 \in 0..Len(j)
    OBVIOUS
  <2> QED BY <2>1, LongerJournal
<1>2. \A k \in 0..Len(j) : \A w : Agrees(h, w, k) <=> Agrees(j, w, k)
  BY LongerJournal
<1>3. Len(j) \in Nat
  OBVIOUS
<1> HIDE DEF h
<1>4. x.result = r /\ x.on = v /\ At(h, Len(j) + 1) = Len(v) + 1
  BY <1>1 DEF At
<1>5. ASSUME NEW e \in 1..Len(h)
      PROVE  /\ Agrees(h, h[e].on, e - 1)
             /\ h[e].result.op # "stream" /\ h[e].result.op = OpAt(h[e].on, At(h, e))
  <2>1. CASE e = Len(j) + 1
    <3>1. e - 1 = Len(j) /\ Len(j) \in 0..Len(j)
      BY <1>3, <2>1
    <3> QED BY <1>1, <1>2, <1>4, <2>1, <3>1
  <2>2. CASE e # Len(j) + 1
    <3>1. e \in 1..Len(j) /\ e - 1 \in 0..Len(j)
      BY <1>1, <1>3, <2>2
    <3>2. /\ Agrees(j, j[e].on, e - 1)
          /\ j[e].result.op # "stream" /\ j[e].result.op = OpAt(j[e].on, At(j, e))
      BY <3>1 DEF Sound
    <3> QED BY <1>1, <1>2, <3>1, <3>2
  <2> QED BY <2>1, <2>2
<1>6. Sound(h)
  BY <1>5 DEF Sound
<1>7. Agrees(h, Append(v, r), Len(j) + 1)
  <2>1. Len(j) \in 0..Len(h) - 1 /\ Len(j) \in 0..Len(j)
    BY <1>1, <1>3
  <2>2. Agrees(h, v, Len(j))
    BY <1>2, <2>1
  <2>3. h[Len(j) + 1].result = r
    BY <1>1, <1>4
  <2> QED BY <1>1, <1>4, <2>1, <2>2, <2>3, EntryExtends
<1> QED BY <1>6, <1>7 DEF h

\* The operation of the next entry is known from the entry before it.
LEMMA NextEntryOp ==
  ASSUME NEW j \in Seq(Entries), Sound(j), NEW k \in 0..Len(j),
         NEW v \in Seq(Results), Agrees(j, v, k), OpAt(v, Len(v) + 1) # "stream"
  PROVE  OpAt(v, Len(v) + 1) = EntryOp(j, k + 1)
<1>1. Len(v) \in Nat /\ k \in Nat
  OBVIOUS
<1>2. ASSUME NEW n \in 1..Len(v), v[n].op # "stream", \A i \in n + 1..Len(v) : v[i].op = "stream"
      PROVE  k # 0 /\ n = At(j, k) /\ v[n] = j[k].result
  <2>1. PICK e \in 1..k : n = At(j, e)
    BY <1>2 DEF Agrees
  <2>2. k \in 1..k /\ k \in 1..Len(j) /\ e \in 1..Len(j)
    BY <1>1
  <2>3. At(j, k) <= Len(v) /\ v[At(j, k)] = j[k].result
    BY <2>2 DEF Agrees
  <2>4. j[k].result.op # "stream"
    BY <2>2 DEF Sound
  <2>5. At(j, k) \in Nat
    <3>1. j[k] \in Entries
      BY <2>2
    <3>2. j[k].on \in Seq(Results)
      BY <3>1 DEF Entries
    <3> QED BY <3>2 DEF At
  <2>6. At(j, k) <= n
    <3> SUFFICES ASSUME n < At(j, k) PROVE FALSE
      BY <2>5
    <3>1. At(j, k) \in n + 1..Len(v)
      BY <2>3, <2>5
    <3> QED BY <1>2, <2>3, <2>4, <3>1
  <2>7. e = k
    <3> SUFFICES ASSUME e # k PROVE FALSE
      OBVIOUS
    <3>1. e \in 1..k - 1
      BY <1>1
    <3>2. At(j, e) < At(j, k)
      BY <2>2, <3>1, PlacesGrow
    <3> QED BY <2>1, <2>5, <2>6, <3>2
  <2> QED BY <2>1, <2>2, <2>3, <2>7
<1>3. CASE Len(v) = 0
  <2>1. k = 0
    <3> SUFFICES ASSUME k # 0 PROVE FALSE
      OBVIOUS
    <3>1. k \in 1..k /\ k \in 1..Len(j)
      BY <1>1
    <3>2. At(j, k) <= 0
      BY <1>3, <3>1 DEF Agrees
    <3>3. j[k] \in Entries
      BY <3>1
    <3>4. j[k].on \in Seq(Results)
      BY <3>3 DEF Entries
    <3> QED BY <3>2, <3>4 DEF At
  <2> QED BY <1>3, <2>1 DEF OpAt, EntryOp
<1>4. CASE Len(v) # 0 /\ v[Len(v)].op # "stream"
  <2>1. Len(v) \in 1..Len(v) /\ \A i \in Len(v) + 1..Len(v) : v[i].op = "stream"
    BY <1>1, <1>4
  <2>2. k # 0 /\ v[Len(v)] = j[k].result
    BY <1>2, <1>4, <2>1
  <2>3. OpAt(v, Len(v) + 1) = OpAfter(j[k].result)
    <3>1. Len(v) + 1 # 1 /\ (Len(v) + 1) - 1 = Len(v)
      BY <1>1, <1>4
    <3> QED BY <2>2, <3>1 DEF OpAt
  <2>4. k + 1 # 1 /\ (k + 1) - 1 = k
    BY <1>1, <2>2
  <2> QED BY <2>3, <2>4 DEF EntryOp
<1>5. CASE Len(v) # 0 /\ v[Len(v)].op = "stream"
  <2>1. Len(v) \in 1..Len(v)
    BY <1>1, <1>5
  <2>2. OpAt(v, Len(v)) = "stream"
    BY <1>5, <2>1 DEF Agrees
  <2>3. Len(v) # 1
    BY <2>2 DEF OpAt
  <2> DEFINE n == Len(v) - 1
  <2>a. n \in 1..Len(v) /\ n \in Nat /\ n + 1 = Len(v) /\ n = Len(v) - 1
    <3>1. \A a \in Nat : a # 0 /\ a # 1 => a - 1 \in 1..a /\ a - 1 \in Nat /\ (a - 1) + 1 = a
      OBVIOUS
    <3> QED BY <1>1, <1>5, <2>3, <3>1
  <2>b. OpAfter(v[n]) = "stream"
    BY <2>2, <2>3 DEF OpAt
  <2> HIDE DEF n
  <2>4. n \in 1..Len(v) /\ n \in Nat /\ n + 1 = Len(v) /\ OpAfter(v[n]) = "stream"
    BY <2>a, <2>b
  <2>5. v[n] \in Results /\ v[Len(v)] \in Results
    BY <2>1, <2>4
  <2>6. v[n].op # "stream" /\ OpAfter(v[Len(v)]) = "append"
    BY <1>5, <2>4, <2>5, AfterResults
  <2>7. \A i \in n + 1..Len(v) : i = Len(v)
    BY <1>1, <2>4
  <2>8. k # 0 /\ v[n] = j[k].result
    BY <1>2, <1>5, <2>4, <2>6, <2>7
  <2>9. OpAt(v, Len(v) + 1) = "append"
    <3>1. Len(v) + 1 # 1 /\ (Len(v) + 1) - 1 = Len(v)
      BY <1>1, <1>5
    <3> QED BY <2>6, <3>1 DEF OpAt
  <2>10. k + 1 # 1 /\ (k + 1) - 1 = k
    BY <1>1, <2>8
  <2> QED BY <2>4, <2>8, <2>9, <2>10 DEF EntryOp
<1> QED BY <1>3, <1>4, <1>5

-----------------------------------------------------------------------------
(* The inductive invariant *)

StepTypes ==
  /\ journal \in Seq(Entries) /\ view \in Seq(Results)
  /\ bodies \in Seq([entry : Nat, life : Nat, came : StepAnswers])
  /\ scratch \subseteq Nat \X Nat

\* The journal is sound, and the loop's view is one of it.
ViewInv == Sound(journal) /\ Agrees(journal, view, replayed)

\* While the turn runs, no committed step failed or ended it.
RunningInv ==
  stepsAt = "running" =>
    \A e \in 1..Len(journal) : journal[e].result.is # "error" /\ journal[e].result.op # "post"

\* The runs, in this life, of the step that is not committed yet.
CurrentHolds == {b \in DOMAIN bodies : bodies[b].entry = Len(journal) + 1 /\ bodies[b].life = life}

\* An outcome in hand is of this life and of the loop's next operation; an error
\* used up the attempts.
HandInv ==
  Pending =>
    /\ hand \in Results /\ hand.op = NextOp /\ hand.op # "stream" /\ hand.life = life
    /\ stepsAt = "running" /\ tries = 0
    /\ replayed = Len(journal) /\ Len(view) < MaxSteps
    /\ bodies # <<>> /\ hand.is = bodies[Len(bodies)].came
    /\ hand.is = "error" => Cardinality(CurrentHolds) = MaxTries(hand.op)

\* The attempts of the step under way are its runs in this life.
TriesInv ==
  /\ tries > 0 =>
       ~Pending /\ replayed = Len(journal) /\ NextOp # "stream" /\ tries < MaxTries(NextOp)
  /\ ~Pending => Cardinality(CurrentHolds) = tries /\ \A b \in CurrentHolds : bodies[b].came # "overflow"

\* Bodies run for the next entry at most; one that streams runs once in a life.
BodiesInv ==
  /\ \A b \in DOMAIN bodies :
        bodies[b].entry \in 1..Len(journal) + 1 /\ bodies[b].life \in 1..life
  /\ streaming => \A b, c \in DOMAIN bodies :
        b # c /\ bodies[b].entry = bodies[c].entry /\ bodies[b].life = bodies[c].life
          => EntryOp(journal, bodies[b].entry) # "chat"

\* The files of this life are registered.
ScratchInv ==
  stepsAt = "running" => \A f \in scratch : f[1] <= life /\ (f[1] = life => f \in scratchPaths)

StepsInv ==
  /\ StepsTypeOK /\ StepTypes /\ ViewInv /\ RunningInv /\ HandInv /\ TriesInv /\ BodiesInv
  /\ ScratchInv /\ CommittedNeverRuns /\ OverflowIsItself /\ FailsOnlyWhenExhausted
  /\ ScratchIsCleaned

\* The next operation is that after the view's last result.
LEMMA NextOpIs ==
  ASSUME view \in Seq(Results)
  PROVE  NextOp = OpAt(view, Len(view) + 1)
<1>1. CASE view = <<>>
  BY <1>1 DEF NextOp, OpAt
<1>2. CASE view # <<>>
  <2>1. Len(view) \in Nat /\ Len(view) # 0 /\ Last(view) = view[Len(view)]
    BY <1>2 DEF Last
  <2>2. Len(view) + 1 # 1 /\ (Len(view) + 1) - 1 = Len(view)
    BY <2>1
  <2> QED BY <1>2, <2>1, <2>2 DEF NextOp, OpAt
<1> QED BY <1>1, <1>2

\* While the turn runs the loop has a next operation.
LEMMA NextOpRuns ==
  ASSUME StepTypes, ViewInv, RunningInv, stepsAt = "running", replayed \in 0..Len(journal)
  PROVE  NextOp \in Ops
<1>1. CASE view = <<>>
  BY <1>1 DEF NextOp, Ops
<1>2. CASE view # <<>>
  <2> DEFINE n == Len(view)
             r == view[n]
  <2>1. n \in 1..n /\ r \in Results /\ NextOp = OpAfter(r)
    BY <1>2 DEF StepTypes, NextOp, Last
  <2>2. r.op # "stream" => \E e \in 1..replayed : r = journal[e].result
    <3>1. Agrees(journal, view, replayed)
      BY DEF ViewInv
    <3> QED BY <2>1, <3>1 DEF Agrees
  <2>3. \A e \in 1..replayed : e \in 1..Len(journal)
    BY DEF StepTypes
  <2>4. r.op = "stream" => r.is # "error" /\ r.op # "post"
    BY <2>1 DEF Results, Came
  <2>5. r.is # "error" /\ r.op # "post"
    <3>1. \A e \in 1..Len(journal) : journal[e].result.is # "error" /\ journal[e].result.op # "post"
      BY DEF RunningInv
    <3> HIDE DEF n, r
    <3> QED BY <2>2, <2>3, <2>4, <3>1
  <2> HIDE DEF n, r
  <2> QED BY <2>1, <2>5, AfterResults
<1> QED BY <1>1, <1>2

\* An attempt is one of three at most.
LEMMA TriesBound == \A op : MaxTries(op) \in 1..3
<1> SUFFICES ASSUME NEW op PROVE MaxTries(op) \in 1..3
  OBVIOUS
<1>1. CASE op = "chat" /\ ~streaming
  BY <1>1 DEF MaxTries
<1>2. CASE op = "tool"
  BY <1>2 DEF MaxTries
<1>3. CASE ~(op = "chat" /\ ~streaming) /\ op # "tool"
  BY <1>3 DEF MaxTries
<1> QED BY <1>1, <1>2, <1>3

\* A model call that streams is made once.
LEMMA StreamedOnce == streaming => MaxTries("chat") = 1
BY DEF MaxTries

\* The invariant holds at the start.
LEMMA StepsStart == StepsInit => StepsInv
<1> SUFFICES ASSUME StepsInit PROVE StepsInv
  OBVIOUS
<1>1. /\ journal = <<>> /\ view = <<>> /\ bodies = <<>> /\ life = 1 /\ replayed = 0 /\ tries = 0
      /\ stepsAt = "running" /\ scratch = {} /\ scratchPaths = {} /\ ~Pending
  BY DEF StepsInit, Pending, NoResult, Result
<1>2. Len(<<>>) = 0 /\ DOMAIN <<>> = {} /\ \A C : <<>> \in Seq(C)
  OBVIOUS
<1>3. StepsTypeOK /\ StepTypes
  BY <1>1, <1>2, StepsAssumption DEF StepsTypeOK, StepTypes
<1>4. ViewInv
  BY <1>1, <1>2 DEF ViewInv, Sound, Agrees
<1>5. CurrentHolds = {}
  BY <1>1, <1>2 DEF CurrentHolds
<1>6. RunningInv /\ HandInv /\ BodiesInv /\ ScratchInv
  BY <1>1, <1>2 DEF RunningInv, HandInv, BodiesInv, ScratchInv
<1>7. TriesInv
  BY <1>1, <1>5, FS_EmptySet DEF TriesInv
<1>8. CommittedNeverRuns /\ OverflowIsItself /\ FailsOnlyWhenExhausted /\ ScratchIsCleaned
  BY <1>1, <1>2 DEF CommittedNeverRuns, OverflowIsItself, FailsOnlyWhenExhausted, ScratchIsCleaned
<1> QED BY <1>3, <1>4, <1>6, <1>7, <1>8 DEF StepsInv

-----------------------------------------------------------------------------
(* The steps *)

\* A result that is neither an error nor the end: the turn goes on.
LEMMA SeesMore ==
  ASSUME NEW r, Sees(r), r.is # "error", r.op # "post"
  PROVE  view' = Append(view, r) /\ UNCHANGED <<stepsAt, scratch, scratchPaths>>
BY DEF Sees, CleansUp

\* What no body, commit or crash touches stays.
LEMMA BodiesStay ==
  ASSUME UNCHANGED <<streaming, journal, life, bodies, hand>>,
         BodiesInv, CommittedNeverRuns, OverflowIsItself
  PROVE  BodiesInv' /\ CommittedNeverRuns' /\ OverflowIsItself' /\ CurrentHolds' = CurrentHolds
         /\ Pending' = Pending
<1>1. CurrentHolds' = CurrentHolds
  BY DEF CurrentHolds
<1>2. Pending' = Pending
  BY DEF Pending
<1>3. BodiesInv'
  BY DEF BodiesInv, EntryOp
<1>4. CommittedNeverRuns'
  BY DEF CommittedNeverRuns, RunsOf
<1>5. OverflowIsItself'
  BY <1>2 DEF OverflowIsItself
<1> QED BY <1>1, <1>2, <1>3, <1>4, <1>5

\* Before a step no outcome is in hand.
LEMMA BeforeStep ==
  ASSUME StepsInv, StepRuns
  PROVE  /\ stepsAt = "running" /\ ~Pending /\ Len(view) < MaxSteps /\ Len(view) \in Nat
         /\ journal \in Seq(Entries) /\ view \in Seq(Results) /\ Len(journal) \in Nat
         /\ replayed \in 0..Len(journal) /\ life \in 1..MaxLives
         /\ Sound(journal) /\ Agrees(journal, view, replayed)
         /\ NextOp \in Ops /\ NextOp = OpAt(view, Len(view) + 1)
<1>1. StepTypes /\ StepsTypeOK /\ ViewInv /\ RunningInv /\ stepsAt = "running"
  BY DEF StepsInv, StepRuns
<1>2. journal \in Seq(Entries) /\ view \in Seq(Results) /\ replayed \in 0..Len(journal)
  BY <1>1 DEF StepTypes, StepsTypeOK
<1>3. NextOp \in Ops /\ NextOp = OpAt(view, Len(view) + 1)
  BY <1>1, <1>2, NextOpIs, NextOpRuns
<1>4. Len(view) \in Nat /\ Len(journal) \in Nat
  BY <1>2
<1> QED BY <1>1, <1>2, <1>3, <1>4 DEF StepRuns, StepsTypeOK, ViewInv

\* A step that is replayed.
LEMMA ReplayKeeps ==
  ASSUME StepsInv, Replay
  PROVE  StepsInv'
<1> DEFINE r == journal[replayed + 1].result
<1>1. /\ StepRuns /\ NextOp # "stream" /\ replayed < Len(journal) /\ replayed' = replayed + 1
      /\ Sees(r) /\ UNCHANGED <<streaming, journal, life, tries, hand, bodies>>
  BY DEF Replay
<1>2. /\ stepsAt = "running" /\ ~Pending /\ Len(view) < MaxSteps /\ Len(view) \in Nat
      /\ journal \in Seq(Entries) /\ view \in Seq(Results) /\ Len(journal) \in Nat
      /\ replayed \in 0..Len(journal) /\ life \in 1..MaxLives
      /\ Sound(journal) /\ Agrees(journal, view, replayed)
      /\ NextOp = OpAt(view, Len(view) + 1)
  BY <1>1, BeforeStep
<1>3. /\ StepsTypeOK /\ StepTypes /\ RunningInv /\ TriesInv /\ BodiesInv /\ ScratchInv
      /\ CommittedNeverRuns /\ OverflowIsItself
  BY DEF StepsInv
<1>4. replayed + 1 \in 1..Len(journal) /\ replayed \in 0..Len(journal) - 1
  BY <1>1, <1>2
<1>5. r \in Results /\ r.is # "error" /\ r.op # "post"
  <2>1. journal[replayed + 1].result \in Results
    BY <1>2, <1>4, EntryTypes
  <2> QED BY <1>2, <1>3, <1>4, <2>1 DEF RunningInv
<1>6. view' = Append(view, r) /\ UNCHANGED <<stepsAt, scratch, scratchPaths>>
  BY <1>1, <1>5, SeesMore
<1>7. ViewInv'
  <2>1. At(journal, replayed + 1) = Len(view) + 1 /\ r.op = OpAt(view, Len(view) + 1)
    BY <1>1, <1>2, <1>4, NextEntryPlace
  <2>2. Agrees(journal, Append(view, r), replayed + 1)
    BY <1>2, <1>4, <1>5, <2>1, EntryExtends
  <2> HIDE DEF r
  <2> QED BY <1>1, <1>2, <1>6, <2>2 DEF ViewInv
<1> HIDE DEF r
<1>8. view' \in Seq(Results) /\ Len(view') = Len(view) + 1
  BY <1>2, <1>5, <1>6
<1>9. StepsTypeOK' /\ StepTypes'
  <2>1. Len(view') <= MaxSteps
    BY <1>2, <1>8, StepsAssumption
  <2>2. replayed' \in 0..Len(journal')
    BY <1>1, <1>2, <1>4
  <2> QED BY <1>1, <1>3, <1>6, <1>8, <2>1, <2>2 DEF StepsTypeOK, StepTypes
<1>10. /\ BodiesInv' /\ CommittedNeverRuns' /\ OverflowIsItself' /\ CurrentHolds' = CurrentHolds
       /\ Pending' = Pending
  BY <1>1, <1>3, BodiesStay
<1>11. RunningInv'
  BY <1>1, <1>3, <1>6 DEF RunningInv
<1>12. HandInv'
  BY <1>2, <1>10 DEF HandInv
<1>13. TriesInv'
  <2>1. ~(tries > 0)
    BY <1>1, <1>2, <1>3 DEF TriesInv
  <2> QED BY <1>1, <1>2, <1>3, <1>10, <2>1 DEF TriesInv
<1>14. ScratchInv'
  BY <1>1, <1>3, <1>6 DEF ScratchInv
<1>15. FailsOnlyWhenExhausted' /\ ScratchIsCleaned'
  BY <1>2, <1>6 DEF FailsOnlyWhenExhausted, ScratchIsCleaned
<1> QED BY <1>7, <1>9, <1>10, <1>11, <1>12, <1>13, <1>14, <1>15 DEF StepsInv

\* A streaming tool, outside of any step.
LEMMA StreamToolKeeps ==
  ASSUME StepsInv, StreamTool
  PROVE  StepsInv'
<1>1. /\ StepRuns /\ NextOp = "stream"
      /\ UNCHANGED <<streaming, journal, life, replayed, tries, hand, bodies>>
  BY DEF StreamTool
<1>2. /\ stepsAt = "running" /\ ~Pending /\ Len(view) < MaxSteps /\ Len(view) \in Nat
      /\ journal \in Seq(Entries) /\ view \in Seq(Results) /\ Len(journal) \in Nat
      /\ replayed \in 0..Len(journal) /\ life \in 1..MaxLives
      /\ Sound(journal) /\ Agrees(journal, view, replayed)
      /\ NextOp = OpAt(view, Len(view) + 1)
  BY <1>1, BeforeStep
<1>3. /\ StepsTypeOK /\ StepTypes /\ RunningInv /\ TriesInv /\ BodiesInv /\ ScratchInv
      /\ CommittedNeverRuns /\ OverflowIsItself
  BY DEF StepsInv
<1>4. /\ BodiesInv' /\ CommittedNeverRuns' /\ OverflowIsItself' /\ CurrentHolds' = CurrentHolds
      /\ Pending' = Pending
  BY <1>1, <1>3, BodiesStay
<1>5. HandInv'
  BY <1>2, <1>4 DEF HandInv
<1>6. TriesInv'
  <2>1. ~(tries > 0)
    BY <1>1, <1>3 DEF TriesInv
  <2> QED BY <1>1, <1>2, <1>3, <1>4, <2>1 DEF TriesInv
<1>7. ASSUME NEW is \in {"ok", "refused"}, view' = Append(view, Result("stream", is))
      PROVE  ViewInv' /\ view' \in Seq(Results) /\ Len(view') <= MaxSteps
  <2> DEFINE r == Result("stream", is)
  <2>1. r \in Results /\ r.op = "stream"
    <3>1. life \in 1..MaxLives
      BY <1>2
    <3> QED BY <3>1 DEF Result, Results, Ops, StepAnswers, Came
  <2> HIDE DEF r
  <2>2. view' = Append(view, r)
    BY <1>7 DEF r
  <2>3. Agrees(journal, Append(view, r), replayed)
    BY <1>1, <1>2, <2>1, StreamExtends
  <2>4. view' \in Seq(Results) /\ Len(view') = Len(view) + 1
    BY <1>2, <2>1, <2>2
  <2>5. Len(view') <= MaxSteps
    BY <1>2, <2>4, StepsAssumption
  <2> QED BY <1>1, <1>2, <2>2, <2>3, <2>4, <2>5 DEF ViewInv
<1>8. CASE /\ scratch' = scratch \cup {<<life, Len(view)>>}
           /\ scratchPaths' = scratchPaths \cup {<<life, Len(view)>>}
           /\ view' = Append(view, Result("stream", "ok")) /\ UNCHANGED stepsAt
  <2>1. ViewInv' /\ view' \in Seq(Results) /\ Len(view') <= MaxSteps
    BY <1>7, <1>8
  <2>2. <<life, Len(view)>> \in Nat \X Nat /\ <<life, Len(view)>>[1] = life /\ life \in Nat
    BY <1>2, StepsAssumption
  <2>3. StepsTypeOK' /\ StepTypes'
    BY <1>1, <1>3, <1>8, <2>1, <2>2 DEF StepsTypeOK, StepTypes
  <2>4. ScratchInv'
    BY <1>1, <1>2, <1>3, <1>8, <2>2 DEF ScratchInv
  <2>5. RunningInv' /\ FailsOnlyWhenExhausted' /\ ScratchIsCleaned'
    BY <1>1, <1>2, <1>3, <1>8 DEF RunningInv, FailsOnlyWhenExhausted, ScratchIsCleaned
  <2> QED BY <1>4, <1>5, <1>6, <2>1, <2>3, <2>4, <2>5 DEF StepsInv
<1>9. CASE view' = Append(view, Result("stream", "refused"))
           /\ UNCHANGED <<scratch, scratchPaths, stepsAt>>
  <2>1. ViewInv' /\ view' \in Seq(Results) /\ Len(view') <= MaxSteps
    BY <1>7, <1>9
  <2>2. StepsTypeOK' /\ StepTypes'
    BY <1>1, <1>3, <1>9, <2>1 DEF StepsTypeOK, StepTypes
  <2>3. ScratchInv'
    BY <1>1, <1>3, <1>9 DEF ScratchInv
  <2>4. RunningInv' /\ FailsOnlyWhenExhausted' /\ ScratchIsCleaned'
    BY <1>1, <1>2, <1>3, <1>9 DEF RunningInv, FailsOnlyWhenExhausted, ScratchIsCleaned
  <2> QED BY <1>4, <1>5, <1>6, <2>1, <2>2, <2>3, <2>4 DEF StepsInv
<1>10. CASE stepsAt' = "failed" /\ UNCHANGED <<view, scratch, scratchPaths>>
  <2>1. StepsTypeOK' /\ StepTypes' /\ ViewInv'
    BY <1>1, <1>2, <1>3, <1>10 DEF StepsTypeOK, StepTypes, ViewInv
  <2>2. NextOp' = "stream"
    BY <1>1, <1>10 DEF NextOp
  <2>3. RunningInv' /\ FailsOnlyWhenExhausted' /\ ScratchIsCleaned' /\ ScratchInv'
    BY <1>10, <2>2 DEF RunningInv, FailsOnlyWhenExhausted, ScratchIsCleaned, ScratchInv
  <2> QED BY <1>4, <1>5, <1>6, <2>1, <2>3 DEF StepsInv
<1> QED BY <1>8, <1>9, <1>10 DEF StreamTool

\* The process dies, and the workflow is recovered.
LEMMA DieAndRecoverKeeps ==
  ASSUME StepsInv, DieAndRecover
  PROVE  StepsInv'
<1>1. /\ stepsAt = "running" /\ life < MaxLives /\ life' = life + 1
      /\ scratch' = (IF NextOp = "stream" THEN scratch \cup {<<life, Len(view)>>} ELSE scratch)
      /\ view' = <<>> /\ replayed' = 0 /\ tries' = 0 /\ scratchPaths' = {}
      /\ hand' = [NoResult EXCEPT !.life = life']
      /\ UNCHANGED <<streaming, journal, stepsAt, bodies>>
  BY DEF DieAndRecover
<1>2. /\ StepsTypeOK /\ StepTypes /\ ViewInv /\ RunningInv /\ TriesInv /\ BodiesInv /\ ScratchInv
      /\ CommittedNeverRuns /\ OverflowIsItself
  BY DEF StepsInv
<1>3. /\ life \in 1..MaxLives /\ life \in Nat /\ life' \in 1..MaxLives /\ journal \in Seq(Entries)
      /\ Len(journal) \in Nat /\ Len(view) \in Nat /\ scratch \subseteq Nat \X Nat
  BY <1>1, <1>2, StepsAssumption DEF StepsTypeOK, StepTypes
<1>4. ~Pending'
  BY <1>1 DEF Pending, NoResult, Result
<1>5. CurrentHolds' = {}
  <2> SUFFICES ASSUME NEW b \in DOMAIN bodies, bodies[b].life = life' PROVE FALSE
    BY <1>1 DEF CurrentHolds
  <2>1. bodies[b].life \in 1..life
    BY <1>2 DEF BodiesInv
  <2> QED BY <1>1, <1>3, <2>1
<1>6. <<>> \in Seq(Results) /\ Len(<<>>) = 0
  OBVIOUS
<1>7. \A f \in scratch' : f \in Nat \X Nat /\ f[1] <= life /\ f[1] < life'
  <2>1. \A f \in scratch : f[1] \in Nat /\ f[1] <= life
    BY <1>1, <1>2, <1>3 DEF ScratchInv
  <2>2. <<life, Len(view)>> \in Nat \X Nat /\ <<life, Len(view)>>[1] = life
    BY <1>3
  <2>3. life <= life /\ life < life' /\ \A n \in Nat : n <= life => n < life'
    BY <1>1, <1>3
  <2> QED BY <1>1, <1>3, <2>1, <2>2, <2>3
<1>8. StepsTypeOK' /\ StepTypes'
  <2>1. 0 \in 0..Len(journal') /\ 0 \in 0..2 /\ 0 <= MaxSteps
    BY <1>1, <1>3, StepsAssumption
  <2>2. scratch' \subseteq Nat \X Nat
    BY <1>7
  <2> QED BY <1>1, <1>2, <1>3, <1>6, <2>1, <2>2 DEF StepsTypeOK, StepTypes
<1>9. ViewInv'
  <2>1. Agrees(journal, <<>>, 0)
    BY <1>6 DEF Agrees
  <2> QED BY <1>1, <1>2, <2>1 DEF ViewInv
<1>10. RunningInv'
  BY <1>1, <1>2 DEF RunningInv
<1>11. HandInv' /\ TriesInv'
  BY <1>1, <1>4, <1>5, FS_EmptySet DEF HandInv, TriesInv
<1>12. BodiesInv'
  <2>1. \A n : n \in 1..life => n \in 1..life'
    BY <1>1, <1>3
  <2>2. Len(journal') = Len(journal)
    BY <1>1
  <2>3. \A b \in DOMAIN bodies' :
           bodies'[b].entry \in 1..Len(journal') + 1 /\ bodies'[b].life \in 1..life'
    BY <1>1, <1>2, <2>1, <2>2 DEF BodiesInv
  <2> QED BY <1>1, <1>2, <2>3 DEF BodiesInv, EntryOp
<1>13. CommittedNeverRuns' /\ OverflowIsItself'
  BY <1>1, <1>2, <1>4 DEF CommittedNeverRuns, RunsOf, OverflowIsItself
<1>14. ScratchInv'
  <2>1. \A f \in scratch' : f[1] <= life' /\ f[1] # life'
    <3>1. \A f \in scratch' : f[1] \in Nat /\ f[1] < life'
      BY <1>7
    <3>2. life' \in Nat /\ \A n \in Nat : n < life' => n <= life' /\ n # life'
      BY <1>1, <1>3
    <3> QED BY <3>1, <3>2
  <2> QED BY <2>1 DEF ScratchInv
<1>15. FailsOnlyWhenExhausted' /\ ScratchIsCleaned'
  BY <1>1 DEF FailsOnlyWhenExhausted, ScratchIsCleaned
<1> QED BY <1>8, <1>9, <1>10, <1>11, <1>12, <1>13, <1>14, <1>15 DEF StepsInv

\* What an attempt may come to is a result's.
LEMMA OutcomesAre ==
  ASSUME NEW op \in Ops, op # "stream", NEW came \in Outcomes(op)
  PROVE  came \in Came(op) /\ came \in StepAnswers
<1>1. CASE op = "chat"
  BY <1>1 DEF Outcomes, Came, StepAnswers
<1>2. CASE op = "mint"
  BY <1>2 DEF Outcomes, Came, StepAnswers
<1>3. CASE op # "chat" /\ op # "mint"
  BY <1>3 DEF Outcomes, Came, StepAnswers
<1> QED BY <1>1, <1>2, <1>3

\* An attempt of the step under way.
LEMMA StepBodyKeeps ==
  ASSUME StepsInv, StepBody
  PROVE  StepsInv'
<1>1. /\ StepRuns /\ NextOp # "stream" /\ replayed = Len(journal)
      /\ UNCHANGED <<streaming, journal, life, view, replayed, stepsAt, scratch, scratchPaths>>
  BY DEF StepBody
<1>2. PICK came \in Outcomes(NextOp) :
         /\ bodies' = Append(bodies, [entry |-> Len(journal) + 1, life |-> life, came |-> came])
         /\ IF came = "error" /\ tries + 1 < MaxTries(NextOp)
            THEN tries' = tries + 1 /\ UNCHANGED hand
            ELSE tries' = 0 /\ hand' = Result(NextOp, came)
  BY DEF StepBody, Handed
<1>3. /\ stepsAt = "running" /\ ~Pending /\ Len(view) < MaxSteps /\ Len(view) \in Nat
      /\ journal \in Seq(Entries) /\ view \in Seq(Results) /\ Len(journal) \in Nat
      /\ replayed \in 0..Len(journal) /\ life \in 1..MaxLives
      /\ Sound(journal) /\ Agrees(journal, view, replayed)
      /\ NextOp \in Ops /\ NextOp = OpAt(view, Len(view) + 1)
  BY <1>1, BeforeStep
<1>4. /\ StepsTypeOK /\ StepTypes /\ ViewInv /\ RunningInv /\ TriesInv /\ BodiesInv /\ ScratchInv
      /\ CommittedNeverRuns /\ OverflowIsItself
  BY DEF StepsInv
<1>5. came \in Came(NextOp) /\ came \in StepAnswers
  BY <1>1, <1>3, OutcomesAre
<1> DEFINE nb == [entry |-> Len(journal) + 1, life |-> life, came |-> came]
           n == Len(bodies) + 1
<1>6. /\ nb \in [entry : Nat, life : Nat, came : StepAnswers]
      /\ nb.entry = Len(journal) + 1 /\ nb.life = life /\ nb.came = came
  BY <1>3, <1>5
<1>7. /\ bodies \in Seq([entry : Nat, life : Nat, came : StepAnswers])
      /\ bodies' = Append(bodies, nb)
  BY <1>2, <1>4 DEF StepTypes
<1> HIDE DEF nb
<1>8. /\ bodies' \in Seq([entry : Nat, life : Nat, came : StepAnswers])
      /\ DOMAIN bodies' = 1..n /\ Len(bodies') = n /\ bodies'[n] = nb
      /\ DOMAIN bodies = 1..Len(bodies) /\ \A b \in DOMAIN bodies : bodies'[b] = bodies[b]
      /\ Len(bodies) \in Nat
  BY <1>6, <1>7
<1>9. n \in Nat /\ n \notin DOMAIN bodies /\ DOMAIN bodies' = DOMAIN bodies \cup {n}
  BY <1>8
<1> HIDE DEF n
<1>10. NextOp' = NextOp /\ MaxTries(NextOp)' = MaxTries(NextOp)
  BY <1>1 DEF NextOp, MaxTries
<1>11. tries \in Nat /\ tries < MaxTries(NextOp) /\ MaxTries(NextOp) \in 1..3
  <2>1. MaxTries(NextOp) \in 1..3 /\ tries \in 0..2
    BY <1>4, TriesBound DEF StepsTypeOK
  <2>2. tries > 0 => tries < MaxTries(NextOp)
    BY <1>4 DEF TriesInv
  <2> QED BY <2>1, <2>2
<1>12. CurrentHolds' = CurrentHolds \cup {n} /\ n \notin CurrentHolds
  BY <1>1, <1>6, <1>8, <1>9 DEF CurrentHolds
<1>13. IsFiniteSet(CurrentHolds) /\ Cardinality(CurrentHolds) = tries /\ Cardinality(CurrentHolds') = tries + 1
  <2>1. CurrentHolds \in SUBSET (1..Len(bodies))
    BY <1>8 DEF CurrentHolds
  <2>2. IsFiniteSet(1..Len(bodies))
    BY <1>8, FS_Interval
  <2>3. IsFiniteSet(CurrentHolds)
    BY <2>1, <2>2, FS_Subset
  <2>4. Cardinality(CurrentHolds) = tries
    BY <1>3, <1>4 DEF TriesInv
  <2> QED BY <1>12, <2>3, <2>4, FS_AddElement
<1>14. Result(NextOp, came) \in Results
  BY <1>3, <1>5 DEF Result, Results
<1>a. Result(NextOp, came).op = NextOp /\ Result(NextOp, came).is = came
      /\ Result(NextOp, came).life = life
  BY DEF Result
<1>b. NextOp # "none" /\ NextOp \in Ops
  BY <1>3 DEF Ops
<1>15. StepTypes'
  BY <1>1, <1>4, <1>8 DEF StepTypes
<1>16. StepsTypeOK'
  <2>1. tries' \in 0..2
    BY <1>2, <1>11
  <2> QED BY <1>1, <1>4, <2>1 DEF StepsTypeOK
<1>17. ViewInv' /\ RunningInv' /\ ScratchInv'
  BY <1>1, <1>4 DEF ViewInv, RunningInv, ScratchInv
<1>18. ASSUME came = "error" /\ tries + 1 < MaxTries(NextOp)
       PROVE  HandInv' /\ TriesInv'
  <2>1. tries' = tries + 1 /\ hand' = hand
    BY <1>2, <1>18
  <2>2. ~Pending'
    BY <1>3, <2>1 DEF Pending
  <2>3. \A b \in CurrentHolds' : bodies'[b].came # "overflow"
    <3>1. \A b \in CurrentHolds : b \in DOMAIN bodies /\ bodies[b].came # "overflow"
      BY <1>3, <1>4 DEF TriesInv, CurrentHolds
    <3> QED BY <1>6, <1>8, <1>12, <1>18, <3>1
  <2>4. HandInv'
    BY <2>2 DEF HandInv
  <2>5. replayed' = Len(journal') /\ NextOp' # "stream" /\ tries' < MaxTries(NextOp)'
    BY <1>1, <1>10, <1>18, <2>1
  <2>6. TriesInv'
    BY <1>10, <1>13, <2>1, <2>2, <2>3, <2>5 DEF TriesInv
  <2> QED BY <2>4, <2>6
<1>19. ASSUME ~(came = "error" /\ tries + 1 < MaxTries(NextOp))
       PROVE  HandInv' /\ TriesInv'
  <2>1. tries' = 0 /\ hand' = Result(NextOp, came)
    BY <1>2, <1>19
  <2>2. hand' \in Results /\ hand'.op = NextOp /\ hand'.is = came /\ hand'.life = life
    BY <1>14, <1>a, <2>1
  <2>3. Pending'
    BY <1>b, <2>2 DEF Pending
  <2>4. came = "error" => Cardinality(CurrentHolds') = MaxTries(NextOp)
    BY <1>11, <1>13, <1>19
  <2>5. bodies' # <<>> /\ bodies'[Len(bodies')].came = came
    <3>1. n # 0
      BY <1>8 DEF n
    <3> QED BY <1>6, <1>8, <3>1
  <2>6. HandInv'
    BY <1>1, <1>3, <1>10, <2>1, <2>2, <2>4, <2>5 DEF HandInv
  <2>7. TriesInv'
    BY <2>1, <2>3 DEF TriesInv
  <2> QED BY <2>6, <2>7
<1>20. HandInv' /\ TriesInv'
  BY <1>18, <1>19
<1>21. BodiesInv'
  <2>1. \A b \in DOMAIN bodies' :
           bodies'[b].entry \in 1..Len(journal') + 1 /\ bodies'[b].life \in 1..life'
    <3>1. nb.entry \in 1..Len(journal) + 1 /\ nb.life \in 1..life
      <4>1. life \in Nat /\ life >= 1
        BY <1>3, StepsAssumption
      <4> QED BY <1>3, <1>6, <4>1
    <3>2. \A b \in DOMAIN bodies :
             bodies[b].entry \in 1..Len(journal) + 1 /\ bodies[b].life \in 1..life
      BY <1>4 DEF BodiesInv
    <3> QED BY <1>1, <1>8, <1>9, <3>1, <3>2
  <2>2. streaming /\ NextOp = "chat" => CurrentHolds = {}
    <3> SUFFICES ASSUME streaming, NextOp = "chat" PROVE CurrentHolds = {}
      OBVIOUS
    <3>1. tries = 0
      BY <1>11, StreamedOnce
    <3> QED BY <1>13, <3>1, FS_EmptySet
  <2>3. EntryOp(journal, Len(journal) + 1) = NextOp
    BY <1>1, <1>3, NextEntryOp
  <2>4. ASSUME streaming, NEW b \in DOMAIN bodies', NEW c \in DOMAIN bodies', b # c,
               bodies'[b].entry = bodies'[c].entry, bodies'[b].life = bodies'[c].life
        PROVE  EntryOp(journal, bodies'[b].entry) # "chat"
    <3>1. CASE b # n /\ c # n
      <4>1. b \in DOMAIN bodies /\ c \in DOMAIN bodies
        BY <1>9, <3>1
      <4> QED BY <1>4, <1>8, <2>4, <4>1 DEF BodiesInv
    <3>2. CASE b = n
      <4>1. c \in DOMAIN bodies
        BY <1>9, <2>4, <3>2
      <4>2. c \in CurrentHolds
        BY <1>6, <1>8, <2>4, <3>2, <4>1 DEF CurrentHolds
      <4> QED BY <1>6, <1>8, <2>2, <2>3, <2>4, <3>2, <4>2
    <3>3. CASE c = n
      <4>1. b \in DOMAIN bodies
        BY <1>9, <2>4, <3>3
      <4>2. b \in CurrentHolds
        BY <1>6, <1>8, <2>4, <3>3, <4>1 DEF CurrentHolds
      <4> QED BY <1>6, <1>8, <2>2, <2>3, <2>4, <3>3, <4>2
    <3> QED BY <3>1, <3>2, <3>3
  <2>5. \A e : EntryOp(journal, e)' = EntryOp(journal, e)
    BY <1>1 DEF EntryOp
  <2> QED BY <1>1, <2>1, <2>4 DEF BodiesInv, EntryOp
<1>22. CommittedNeverRuns'
  <2> SUFFICES ASSUME NEW e \in DOMAIN journal, NEW b \in DOMAIN bodies', bodies'[b].entry = e
               PROVE  bodies'[b].life <= journal[e].result.life
    BY <1>1 DEF CommittedNeverRuns, RunsOf
  <2>1. e \in 1..Len(journal)
    BY <1>3
  <2>2. b \in DOMAIN bodies
    <3>1. b # n
      BY <1>3, <1>6, <1>8, <2>1
    <3> QED BY <1>9, <3>1
  <2> QED BY <1>4, <1>8, <2>2 DEF CommittedNeverRuns, RunsOf
<1>23. OverflowIsItself'
  <2>1. ASSUME NEW b \in DOMAIN bodies', bodies'[b].came = "overflow",
               NEW c \in b + 1..n, bodies'[c].life = bodies'[b].life
        PROVE  bodies'[c].entry # bodies'[b].entry
    <3>1. b \in DOMAIN bodies /\ b < n
      <4>1. b \in 1..n /\ b < n
        BY <1>8, <1>9, <2>1
      <4>2. b # n
        BY <1>9, <4>1
      <4> QED BY <1>9, <4>1, <4>2
    <3>2. CASE c = n
      <4>1. b \in CurrentHolds => bodies[b].came # "overflow"
        BY <1>3, <1>4 DEF TriesInv
      <4> QED BY <1>6, <1>8, <2>1, <3>1, <3>2, <4>1 DEF CurrentHolds
    <3>3. CASE c # n
      <4>1. c \in b + 1..Len(bodies) /\ c \in DOMAIN bodies
        <5>1. n = Len(bodies) + 1
          BY DEF n
        <5> QED BY <1>8, <3>1, <3>3, <5>1
      <4> QED BY <1>4, <1>8, <2>1, <3>1, <4>1 DEF OverflowIsItself
    <3> QED BY <3>2, <3>3
  <2>2. ASSUME NEW b \in DOMAIN bodies', bodies'[b].came = "overflow", Pending'
        PROVE  hand'.is # "error" \/ b # Len(bodies')
    BY <1>20, <2>2 DEF HandInv
  <2> QED BY <1>8, <2>1, <2>2 DEF OverflowIsItself
<1>24. FailsOnlyWhenExhausted' /\ ScratchIsCleaned'
  BY <1>1, <1>3 DEF FailsOnlyWhenExhausted, ScratchIsCleaned
<1> QED BY <1>15, <1>16, <1>17, <1>20, <1>21, <1>22, <1>23, <1>24 DEF StepsInv

\* The outcome in hand is committed.
LEMMA StepCommitKeeps ==
  ASSUME StepsInv, StepCommit
  PROVE  StepsInv'
<1> DEFINE r == hand
           x == [result |-> hand, on |-> view]
<1>1. /\ stepsAt = "running" /\ Pending /\ hand' = NoResult
      /\ journal' = Append(journal, x) /\ replayed' = replayed + 1 /\ Sees(r)
      /\ UNCHANGED <<streaming, life, tries, bodies>>
  BY DEF StepCommit
<1>2. /\ StepsTypeOK /\ StepTypes /\ ViewInv /\ RunningInv /\ HandInv /\ BodiesInv /\ ScratchInv
      /\ CommittedNeverRuns /\ OverflowIsItself
  BY DEF StepsInv
<1>3. /\ journal \in Seq(Entries) /\ view \in Seq(Results) /\ Len(journal) \in Nat
      /\ Len(view) \in Nat /\ life \in 1..MaxLives /\ life \in Nat
      /\ Sound(journal) /\ Agrees(journal, view, replayed)
      /\ NextOp = OpAt(view, Len(view) + 1)
  BY <1>2, NextOpIs, StepsAssumption DEF StepTypes, StepsTypeOK, ViewInv
<1>4. /\ r \in Results /\ r.op = NextOp /\ r.op # "stream" /\ r.life = life /\ tries = 0
      /\ replayed = Len(journal) /\ Len(view) < MaxSteps
      /\ r.is = "error" => Cardinality(CurrentHolds) = MaxTries(r.op)
  BY <1>1, <1>2 DEF HandInv
<1>5. x \in Entries /\ x.result = r /\ x.on = view
  BY <1>3, <1>4 DEF Entries
<1>6. view' = Append(view, r) /\ view' \in Seq(Results) /\ Len(view') = Len(view) + 1
      /\ Last(view') = r /\ view' # <<>>
  <2>1. view' = Append(view, r)
    BY <1>1 DEF Sees, CleansUp
  <2>2. view' \in Seq(Results) /\ Len(view') = Len(view) + 1 /\ view'[Len(view')] = r
    BY <1>3, <1>4, <2>1, OpsStay
  <2> QED BY <1>3, <2>1, <2>2 DEF Last
<1>7. /\ stepsAt' = (IF r.is = "error" THEN "failed" ELSE IF r.op = "post" THEN "done" ELSE stepsAt)
      /\ IF r.op = "post" /\ r.is # "error"
         THEN scratchPaths' = {} /\ scratch' = scratch \ scratchPaths
         ELSE UNCHANGED <<scratchPaths, scratch>>
  BY <1>1 DEF Sees, CleansUp
<1>8. ViewInv'
  <2>1. Sound(Append(journal, x)) /\ Agrees(Append(journal, x), Append(view, r), Len(journal) + 1)
    BY <1>3, <1>4, <1>5, CommitsSound
  <2> QED BY <1>1, <1>4, <1>6, <2>1 DEF ViewInv
<1>9. /\ journal' \in Seq(Entries) /\ Len(journal') = Len(journal) + 1
      /\ \A e \in 1..Len(journal) : journal'[e] = journal[e]
      /\ journal'[Len(journal) + 1].result = r
      /\ DOMAIN journal' = 1..Len(journal) + 1 /\ DOMAIN journal = 1..Len(journal)
  <2>1. 0 \in 0..Len(journal)
    BY <1>3
  <2> HIDE DEF x
  <2> QED BY <1>1, <1>3, <1>5, <2>1, LongerJournal
<1> HIDE DEF r, x
<1>10. ~Pending'
  BY <1>1 DEF Pending, NoResult, Result
<1>11. \A b \in DOMAIN bodies : bodies[b].entry \in 1..Len(journal) + 1 /\ bodies[b].life \in 1..life
  BY <1>2 DEF BodiesInv
<1>12. CurrentHolds' = {}
  <2> SUFFICES ASSUME NEW b \in DOMAIN bodies, bodies[b].entry = Len(journal') + 1 PROVE FALSE
    BY <1>1 DEF CurrentHolds
  <2> QED BY <1>3, <1>9, <1>11
<1>13. StepsTypeOK' /\ StepTypes'
  <2>1. Len(view') <= MaxSteps
    BY <1>3, <1>4, <1>6, StepsAssumption
  <2>2. replayed' \in 0..Len(journal')
    BY <1>1, <1>3, <1>4, <1>9
  <2>3. scratchPaths' \subseteq scratch' /\ scratch' \subseteq scratch
    BY <1>2, <1>7 DEF StepsTypeOK
  <2>4. stepsAt' \in {"running", "done", "failed"}
    BY <1>1, <1>7
  <2> QED BY <1>1, <1>2, <1>6, <1>9, <2>1, <2>2, <2>3, <2>4 DEF StepsTypeOK, StepTypes
<1>14. RunningInv'
  <2> SUFFICES ASSUME stepsAt' = "running", NEW e \in 1..Len(journal')
               PROVE  journal'[e].result.is # "error" /\ journal'[e].result.op # "post"
    BY DEF RunningInv
  <2>1. r.is # "error" /\ r.op # "post"
    BY <1>7
  <2>2. e \in 1..Len(journal) \/ e = Len(journal) + 1
    BY <1>3, <1>9
  <2> QED BY <1>1, <1>2, <1>9, <2>1, <2>2 DEF RunningInv
<1>15. HandInv' /\ TriesInv'
  BY <1>1, <1>4, <1>10, <1>12, FS_EmptySet DEF HandInv, TriesInv
<1>16. BodiesInv'
  <2>1. \A e \in 1..Len(journal) + 1 : EntryOp(journal', e) = EntryOp(journal, e)
    <3> SUFFICES ASSUME NEW e \in 1..Len(journal) + 1
                 PROVE  EntryOp(journal', e) = EntryOp(journal, e)
      OBVIOUS
    <3>1. e # 1 => e - 1 \in 1..Len(journal)
      BY <1>3
    <3> QED BY <1>9, <3>1 DEF EntryOp
  <2>2. \A b \in DOMAIN bodies : bodies[b].entry \in 1..Len(journal') + 1
    BY <1>3, <1>9, <1>11
  <2>3. \A b \in DOMAIN bodies : EntryOp(journal', bodies[b].entry) = EntryOp(journal, bodies[b].entry)
    BY <1>11, <2>1
  <2>4. streaming => \A b, c \in DOMAIN bodies :
           b # c /\ bodies[b].entry = bodies[c].entry /\ bodies[b].life = bodies[c].life
             => EntryOp(journal', bodies[b].entry) # "chat"
    BY <1>2, <2>3 DEF BodiesInv
  <2> QED BY <1>1, <1>11, <2>2, <2>4 DEF BodiesInv, EntryOp
<1>17. CommittedNeverRuns'
  <2> SUFFICES ASSUME NEW e \in DOMAIN journal', NEW b \in DOMAIN bodies, bodies[b].entry = e
               PROVE  bodies[b].life <= journal'[e].result.life
    BY <1>1 DEF CommittedNeverRuns, RunsOf
  <2>1. e \in 1..Len(journal) \/ e = Len(journal) + 1
    BY <1>3, <1>9
  <2>2. bodies[b].life <= life
    BY <1>3, <1>11
  <2> QED BY <1>2, <1>4, <1>9, <2>1, <2>2 DEF CommittedNeverRuns, RunsOf
<1>18. OverflowIsItself'
  BY <1>1, <1>2, <1>10 DEF OverflowIsItself
<1>19. ScratchInv' /\ ScratchIsCleaned'
  <2>1. \A f \in scratch : f[1] \in Nat /\ f[1] <= life /\ (f[1] = life => f \in scratchPaths)
    BY <1>1, <1>2 DEF ScratchInv, StepTypes
  <2>2. \A f \in scratch : f \notin scratchPaths => f[1] < life
    <3>1. \A a \in Nat : a <= life /\ a # life => a < life
      BY <1>3
    <3> QED BY <2>1, <3>1
  <2>3. stepsAt' = "running" => UNCHANGED <<scratch, scratchPaths>>
    BY <1>7
  <2>4. stepsAt' = "done" => scratch' = scratch \ scratchPaths
    BY <1>1, <1>7
  <2> QED BY <1>1, <2>1, <2>2, <2>3, <2>4 DEF ScratchInv, ScratchIsCleaned
<1>20. FailsOnlyWhenExhausted'
  <2> SUFFICES ASSUME stepsAt' = "failed"
               PROVE  /\ Last(view').is = "error" /\ journal'[replayed'].result = Last(view')
                      /\ Cardinality({b \in DOMAIN bodies' : bodies'[b].entry = replayed'
                                                  /\ bodies'[b].life = Last(view').life})
                           = MaxTries(Last(view).op)'
    <3>1. {b \in RunsOf(replayed)' : bodies'[b].life = Last(view').life}
            = {b \in DOMAIN bodies' : bodies'[b].entry = replayed'
                                        /\ bodies'[b].life = Last(view').life}
      BY DEF RunsOf
    <3> QED BY <3>1 DEF FailsOnlyWhenExhausted, RunsOf
  <2>1. r.is = "error"
    BY <1>1, <1>7
  <2>2. journal'[replayed'].result = r
    BY <1>1, <1>4, <1>9
  <2>3. {b \in DOMAIN bodies' : bodies'[b].entry = replayed' /\ bodies'[b].life = Last(view').life}
          = CurrentHolds
    BY <1>1, <1>4, <1>6 DEF CurrentHolds
  <2>4. MaxTries(Last(view).op)' = MaxTries(r.op)
    BY <1>1, <1>6 DEF MaxTries
  <2> QED BY <1>4, <1>6, <2>1, <2>2, <2>3, <2>4
<1> QED BY <1>8, <1>13, <1>14, <1>15, <1>16, <1>17, <1>18, <1>19, <1>20 DEF StepsInv

\* Every step keeps the invariant.
LEMMA StepsKeep == StepsInv /\ [StepsNext]_stepVars => StepsInv'
<1>1. ASSUME StepsInv, UNCHANGED stepVars PROVE StepsInv'
  <2>1. /\ streaming' = streaming /\ journal' = journal /\ life' = life /\ view' = view
        /\ replayed' = replayed /\ tries' = tries /\ hand' = hand /\ stepsAt' = stepsAt
        /\ bodies' = bodies /\ scratch' = scratch /\ scratchPaths' = scratchPaths
    BY <1>1 DEF stepVars
  <2>2. /\ BodiesInv' /\ CommittedNeverRuns' /\ OverflowIsItself' /\ CurrentHolds' = CurrentHolds
        /\ Pending' = Pending
    BY <1>1, <2>1, BodiesStay DEF StepsInv
  <2>3. NextOp' = NextOp /\ \A op : MaxTries(op)' = MaxTries(op)
    BY <2>1 DEF NextOp, MaxTries
  <2>4. StepsTypeOK' /\ StepTypes' /\ ViewInv' /\ RunningInv' /\ ScratchInv' /\ ScratchIsCleaned'
    BY <1>1, <2>1 DEF StepsInv, StepsTypeOK, StepTypes, ViewInv, RunningInv, ScratchInv,
                      ScratchIsCleaned
  <2>5. HandInv'
    <3>1. MaxTries(hand.op)' = MaxTries(hand.op)
      BY <2>1 DEF MaxTries
    <3>2. HandInv
      BY <1>1 DEF StepsInv
    <3> QED BY <2>1, <2>2, <2>3, <3>1, <3>2 DEF HandInv
  <2>6. TriesInv'
    <3>1. MaxTries(NextOp)' = MaxTries(NextOp)
      BY <2>1, <2>3 DEF MaxTries
    <3>2. TriesInv
      BY <1>1 DEF StepsInv
    <3> QED BY <2>1, <2>2, <2>3, <3>1, <3>2 DEF TriesInv
  <2>7. FailsOnlyWhenExhausted'
    BY <1>1, <2>1 DEF StepsInv, FailsOnlyWhenExhausted, RunsOf, MaxTries, NextOp
  <2> QED BY <2>2, <2>4, <2>5, <2>6, <2>7 DEF StepsInv
<1> QED BY <1>1, ReplayKeeps, StepBodyKeeps, StepCommitKeeps, StreamToolKeeps,
           DieAndRecoverKeeps DEF StepsNext

\* A loop's view is, as far as it was replayed, what the entries were computed on.
LEMMA ReplaysAgree == StepsInv => ReplayAgrees
<1> SUFFICES ASSUME StepsInv, NEW i \in DOMAIN view, NEW e \in DOMAIN journal,
                    i <= Len(journal[e].on), e <= replayed
             PROVE  \/ view[i] = journal[e].on[i]
                    \/ view[i].op = "stream" /\ journal[e].on[i].op = "stream"
  BY DEF ReplayAgrees
<1>1. /\ journal \in Seq(Entries) /\ view \in Seq(Results) /\ Len(journal) \in Nat
      /\ Sound(journal) /\ Agrees(journal, view, replayed) /\ replayed \in 0..Len(journal)
  BY DEF StepsInv, StepTypes, StepsTypeOK, ViewInv
<1>2. e \in 1..Len(journal) /\ i \in Nat /\ i \in 1..i /\ i <= Len(view)
  BY <1>1
<1> DEFINE on == journal[e].on
           k == e - 1
<1>3. on \in Seq(Results) /\ Agrees(journal, on, k) /\ k \in 0..Len(journal) /\ i <= Len(on)
  BY <1>1, <1>2, EntryTypes DEF Sound
<1> HIDE DEF on, k
<1>4. view[i] = on[i] \/ (view[i].op = "stream" /\ on[i].op = "stream")
  BY <1>1, <1>2, <1>3, ViewsAgree
<1> QED BY <1>4 DEF on

\* A streamed model call runs once in a life.
LEMMA ShownOnce == StepsInv => ShownOncePerLife
<1> SUFFICES ASSUME StepsInv, streaming, NEW b \in DOMAIN bodies, NEW c \in DOMAIN bodies,
                    b # c, bodies[b].entry = bodies[c].entry, bodies[b].life = bodies[c].life,
                    bodies[b].entry \in DOMAIN journal
             PROVE  journal[bodies[b].entry].result.op # "chat"
  BY DEF ShownOncePerLife
<1>1. journal \in Seq(Entries) /\ Len(journal) \in Nat /\ Sound(journal)
  BY DEF StepsInv, StepTypes, ViewInv
<1>2. PICK e \in 1..Len(journal) : e = bodies[b].entry
  BY <1>1
<1> DEFINE on == journal[e].on
           k == e - 1
<1>3. /\ on \in Seq(Results) /\ Agrees(journal, on, k) /\ k \in 0..Len(journal)
      /\ At(journal, e) = Len(on) + 1 /\ k + 1 = e
      /\ journal[e].result.op # "stream" /\ journal[e].result.op = OpAt(on, Len(on) + 1)
  BY <1>1, <1>2, EntryTypes DEF Sound, At
<1> HIDE DEF on, k
<1>4. journal[e].result.op = EntryOp(journal, e)
  BY <1>1, <1>3, NextEntryOp
<1>5. EntryOp(journal, e) # "chat"
  BY <1>2 DEF StepsInv, BodiesInv
<1> QED BY <1>2, <1>4, <1>5

\* In every life of a turn: a recovered loop sees again what every committed step was
\* computed on, no body runs once its step is committed, what is streamed is shown
\* once in a life, an overflow reaches the loop as itself, a turn fails only when a
\* step used up its attempts, and one that ends leaves no file of its own.
THEOREM StepsHold == StepsSpec => [](StepsTypeOK /\ StepsRight)
<1>1. StepsInv => StepsTypeOK /\ StepsRight
  BY ReplaysAgree, ShownOnce DEF StepsInv, StepsRight
<1> QED BY <1>1, StepsStart, StepsKeep, PTL DEF StepsSpec

-----------------------------------------------------------------------------
(* The reply *)

Max1(n) == IF n = 0 THEN 1 ELSE n
Owes(b) == IF b THEN 1 ELSE 0

\* What the chat got, and is sure to get, is paid for by a call for it or by a
\* crash; without the flag one crash is still to be charged.
ReplyAccounts ==
  /\ ran => at \in {"tool", "publish"}
  /\ told + Owes(at = "tool" /\ call.to = "own" /\ ~ran) <= asked + replyCrashes
  /\ told > 0 /\ ~sentInTurn => told + 1 <= asked + replyCrashes /\ replyCrashes > 0
  /\ sentInTurn => told > 0
  /\ at \in {"loop", "tool", "check"} => replies = 0
  /\ at \in {"check", "publish"} => publishes
  /\ at = "publish" => ~sentInTurn /\ (ran => replies > 0)
  /\ replies + Owes(at = "publish" /\ ~ran) <= 1 + replyCrashes
  /\ replies > 0 /\ told > 0 => replyCrashes > 0
  /\ at \in {"publish", "done"} =>
        told + replies + Owes(at = "publish" /\ ~ran) <= Max1(asked) + replyCrashes
  /\ at = "done" /\ publishes => told + replies > 0

ReplyInv == ReplyTypeOK /\ ReplyAccounts

\* It holds at the start, ...
LEMMA ReplyStarts == ReplyInit => ReplyInv
<1> SUFFICES ASSUME ReplyInit PROVE ReplyInv
  OBVIOUS
<1>1. ReplyTypeOK
  <2>1. call \in Call \cup {NoCall} /\ (call # NoCall <=> at = "tool")
    BY DEF ReplyInit
  <2>2. calls \in 0..MaxSends /\ asked \in 0..calls /\ replyCrashes \in 0..MaxReplyCrashes
    BY ReplyAssumption DEF ReplyInit
  <2> QED BY <2>1, <2>2 DEF ReplyInit, ReplyTypeOK
<1>2. ReplyAccounts
  BY DEF ReplyInit, ReplyAccounts, Max1, Owes
<1> QED BY <1>1, <1>2 DEF ReplyInv

\* ... every step keeps it, ...
LEMMA ReplyKeeps == ReplyInv /\ [ReplyNext]_replyVars => ReplyInv'
<1> SUFFICES ASSUME ReplyInv, [ReplyNext]_replyVars PROVE ReplyInv'
  OBVIOUS
<1>0. ReplyTypeOK /\ ReplyAccounts
  BY DEF ReplyInv
<1>1. CASE CallMessage
  <2>c. NoCall \notin Call
    BY DEF Call, NoCall
  <2>a. asked' \in 0..calls' /\ calls' \in 0..MaxSends
    BY <1>0, <1>1, ReplyAssumption DEF ReplyTypeOK, CallMessage
  <2>1. ReplyTypeOK'
    BY <1>0, <1>1, <2>a, <2>c DEF ReplyTypeOK, CallMessage
  <2>2. ReplyAccounts'
    BY <1>0, <1>1 DEF ReplyTypeOK, ReplyAccounts, CallMessage, Call, NoCall, Max1, Owes
  <2> QED BY <2>1, <2>2 DEF ReplyInv
<1>2. CASE EndLoop
  <2>1. ReplyTypeOK'
    BY <1>0, <1>2 DEF ReplyTypeOK, EndLoop
  <2>2. ReplyAccounts'
    BY <1>0, <1>2 DEF ReplyTypeOK, ReplyAccounts, EndLoop, Max1, Owes
  <2> QED BY <2>1, <2>2 DEF ReplyInv
<1>3. CASE MessageBody
  <2>1. ReplyTypeOK'
    BY <1>0, <1>3 DEF ReplyTypeOK, MessageBody, Call, NoCall
  <2>2. ReplyAccounts'
    BY <1>0, <1>3 DEF ReplyTypeOK, ReplyAccounts, MessageBody, Call, NoCall, Max1, Owes
  <2> QED BY <2>1, <2>2 DEF ReplyInv
<1>4. CASE MessageCommit
  <2>1. ReplyTypeOK'
    BY <1>0, <1>4 DEF ReplyTypeOK, MessageCommit
  <2>2. ReplyAccounts'
    BY <1>0, <1>4 DEF ReplyTypeOK, ReplyAccounts, MessageCommit, Max1, Owes
  <2> QED BY <2>1, <2>2 DEF ReplyInv
<1>5. CASE Check
  <2>1. ReplyTypeOK'
    BY <1>0, <1>5 DEF ReplyTypeOK, Check
  <2>2. ReplyAccounts'
    BY <1>0, <1>5 DEF ReplyTypeOK, ReplyAccounts, Check, Max1, Owes
  <2> QED BY <2>1, <2>2 DEF ReplyInv
<1>6. CASE PublishReplyBody
  <2>1. ReplyTypeOK'
    BY <1>0, <1>6 DEF ReplyTypeOK, PublishReplyBody
  <2>2. ReplyAccounts'
    BY <1>0, <1>6 DEF ReplyTypeOK, ReplyAccounts, PublishReplyBody, Max1, Owes
  <2> QED BY <2>1, <2>2 DEF ReplyInv
<1>7. CASE PublishReplyCommit
  <2>1. ReplyTypeOK'
    BY <1>0, <1>7 DEF ReplyTypeOK, PublishReplyCommit
  <2>2. ReplyAccounts'
    BY <1>0, <1>7 DEF ReplyTypeOK, ReplyAccounts, PublishReplyCommit, Max1, Owes
  <2> QED BY <2>1, <2>2 DEF ReplyInv
<1>8. CASE CrashTurn
  <2>c. replyCrashes' \in 0..MaxReplyCrashes
    BY <1>0, <1>8, ReplyAssumption DEF ReplyTypeOK, CrashTurn
  <2>1. ReplyTypeOK'
    BY <1>0, <1>8, <2>c DEF ReplyTypeOK, CrashTurn
  <2>2. ReplyAccounts'
    BY <1>0, <1>8 DEF ReplyTypeOK, ReplyAccounts, CrashTurn, Max1, Owes
  <2> QED BY <2>1, <2>2 DEF ReplyInv
<1>9. CASE UNCHANGED replyVars
  <2>1. ReplyTypeOK'
    BY <1>0, <1>9 DEF ReplyTypeOK, replyVars
  <2>2. ReplyAccounts'
    BY <1>0, <1>9 DEF ReplyTypeOK, ReplyAccounts, replyVars, Max1, Owes
  <2> QED BY <2>1, <2>2 DEF ReplyInv
<1> QED BY <1>1, <1>2, <1>3, <1>4, <1>5, <1>6, <1>7, <1>8, <1>9 DEF ReplyNext

\* ... and it says what is to be shown.
LEMMA ReplyImplied == ReplyInv => ReplyTypeOK /\ ReplyRight
BY DEF ReplyInv, ReplyTypeOK, ReplyAccounts, ReplyRight, Max1, Owes

\* A durable turn that ends has answered its chat, by the message tool or by its reply;
\* the chat gets one answer, and one more for a crash at most, for any number of calls
\* of the message tool and of crashes (run_durable_turn, MessageTool).
THEOREM ReplyCorrect == ReplySpec => [](ReplyTypeOK /\ ReplyRight)
BY ReplyStarts, ReplyKeeps, ReplyImplied, PTL DEF ReplySpec

-----------------------------------------------------------------------------
(* Numbers and finite sets. *)

\* A finite one has a greatest: the one with the fewest above it.
LEMMA GreatestNumber ==
  ASSUME NEW S \in SUBSET Nat, IsFiniteSet(S), S # {}
  PROVE  Max(S) \in S /\ \A y \in S : y <= Max(S)
<1> DEFINE Above(x) == {z \in S : z > x}
           N == {Cardinality(Above(x)) : x \in S}
<1>1. \A x \in S : IsFiniteSet(Above(x)) /\ Cardinality(Above(x)) \in Nat
  <2> SUFFICES ASSUME NEW x \in S PROVE IsFiniteSet(Above(x)) /\ Cardinality(Above(x)) \in Nat
    OBVIOUS
  <2>1. IsFiniteSet(Above(x))
    BY FS_Subset
  <2> HIDE DEF Above
  <2> QED BY <2>1, FS_CardinalityType
<1>2. N \in SUBSET Nat /\ N # {}
  <2> HIDE DEF Above
  <2> QED BY <1>1
<1>3. PICK n \in N : \A m \in N : n <= m
  <2> HIDE DEF N
  <2> QED BY <1>2, LeastNumber
<1>4. PICK x \in S : n = Cardinality(Above(x))
  <2> HIDE DEF Above
  <2> QED BY <1>3
<1>5. ASSUME NEW y \in S, y > x PROVE FALSE
  <2>0. x \in Nat /\ y \in Nat /\ \A z \in S : z \in Nat
    OBVIOUS
  <2>1. Above(y) \subseteq Above(x) /\ y \in Above(x) /\ y \notin Above(y)
    <3>1. \A z \in S : z > y => z > x
      BY <1>5, <2>0
    <3>2. y > x /\ ~(y > y)
      BY <1>5, <2>0
    <3> QED BY <3>1, <3>2
  <2>2. IsFiniteSet(Above(x)) /\ Above(y) \in SUBSET Above(x) /\ Above(x) # Above(y)
    <3> HIDE DEF Above
    <3> QED BY <1>1, <2>1
  <2> HIDE DEF Above
  <2>3. Cardinality(Above(y)) <= Cardinality(Above(x)) /\ Cardinality(Above(x)) # Cardinality(Above(y))
    BY <2>2, FS_Subset
  <2>4. Cardinality(Above(y)) \in N
    OBVIOUS
  <2> HIDE DEF N
  <2>5. n <= Cardinality(Above(y))
    BY <1>3, <2>4
  <2> QED BY <1>1, <1>4, <2>3, <2>5
<1>6. \A y \in S : x >= y
  BY <1>5
<1>7. \E g \in S : \A y \in S : g >= y
  BY <1>6
<1>8. Max(S) \in S /\ \A y \in S : Max(S) >= y
  BY <1>7, Zenon DEF Max
<1> QED BY <1>8

\* What a call is charged is a number, and no more than MaxCharge.
LEMMA Charges ==
  /\ MaxCharge \in Nat
  /\ \A u \in Usages : Chargeable(u) \in Nat /\ Chargeable(u) <= MaxCharge
<1>1. ASSUME NEW u \in Usages PROVE Chargeable(u) \in Nat
  <2>1. u.total \in Nat /\ u.cached \in Nat /\ u.cached <= u.total /\ CachedShare \in Nat \ {0}
    BY BudgetAssumption
  <2>2. u.cached \div CachedShare \in Nat
    BY <2>1
  <2> QED BY <2>1, <2>2 DEF Chargeable
<1> DEFINE S == {Chargeable(u) : u \in Usages}
<1>2. S \in SUBSET Nat /\ S # {}
  BY <1>1, BudgetAssumption
<1>3. IsFiniteSet(S)
  <2> DEFINE f == [u \in Usages |-> Chargeable(u)]
  <2>1. f \in Surjection(Usages, S)
    BY DEF Surjection
  <2> HIDE DEF f, S
  <2> QED BY <2>1, BudgetAssumption, FS_Surjection
<1>4. MaxCharge = Max(S)
  BY DEF MaxCharge
<1> HIDE DEF S
<1>5. Max(S) \in S /\ \A y \in S : y <= Max(S)
  BY <1>2, <1>3, GreatestNumber
<1>6. \A u \in Usages : Chargeable(u) \in S
  BY DEF S
<1> QED BY <1>1, <1>2, <1>4, <1>5, <1>6

-----------------------------------------------------------------------------
(* Turn budget: the inductive invariant. *)

\* Only a fallback calls another model, and every threshold below a surfaced one
\* counts as surfaced.
TrackerInv ==
  /\ enforcement # "fallback" => \A c \in Chats : chat[c].model = "primary"
  /\ \A p \in Thresholds : \A q \in tracker.warned : p <= q => p \in tracker.warned

\* A daily tracker is on disk, or is fresh and the disk has an earlier day.
StoreInv ==
  /\ tracker.day <= today /\ store.day <= today
  /\ kind = "daily" =>
       store = tracker \/ (store.day < tracker.day /\ tracker = Fresh(tracker.day))

\* The hook fired once at most, and then the limit is still reached; its flags are
\* what the observer makes of the calls it saw begin.
HookInv ==
  /\ fires <= 1
  /\ hook.fired <=> (fires # 0 \/ Silenced)
  /\ hook.prev <=> SawLimit
  /\ fires # 0 => AtLimit(tracker) /\ ~Silenced
  /\ spell.at => AtLimit(tracker) /\ hook.fired

BudgetInv == BudgetTypeOK /\ TrackerInv /\ StoreInv /\ HookInv /\ OvershootBounded

-----------------------------------------------------------------------------
(* Turn budget: what the steps do. *)

Trackers ==
  [day : 0..MaxDays, tokens : Nat, seen : Nat, warned : SUBSET Thresholds, pending : BOOLEAN]

\* The types of the tracker and of what is stored.
LEMMA TrackerTypes ==
  BudgetTypeOK => tracker \in Trackers /\ store \in Trackers /\ \A d \in 0..MaxDays : Fresh(d) \in Trackers
BY DEF BudgetTypeOK, Trackers, Fresh

\* The threshold that is due, if any, has not surfaced.
LEMMA DueIsNew ==
  ASSUME NEW t \in Trackers, NEW force
  PROVE  /\ Due(t, force) \subseteq Thresholds \ t.warned
         /\ \A p, q \in Due(t, force) : p = q
<1> DEFINE new == {p \in Thresholds \ t.warned : Reaches(t, p)}
<1>1. CASE new = {} \/ (~force /\ AtLimit(t))
  <2>1. Due(t, force) = {}
    BY <1>1 DEF Due
  <2> QED BY <2>1
<1>2. CASE new # {} /\ ~(~force /\ AtLimit(t))
  <2>1. Due(t, force) = {Max(new)}
    BY <1>2 DEF Due
  <2>0. \A p \in Thresholds : p \in Nat /\ p <= 100
    BY BudgetAssumption
  <2>2. new \in SUBSET Nat /\ \A p \in new : p <= 100
    BY <2>0
  <2>3. new \subseteq Thresholds \ t.warned
    OBVIOUS
  <2> HIDE DEF new
  <2>4. IsFiniteSet(new)
    BY <2>2, FS_BoundedSetOfNaturals
  <2>5. Max(new) \in new
    BY <1>2, <2>2, <2>4, GreatestNumber
  <2> QED BY <2>1, <2>3, <2>5
<1> QED BY <1>1, <1>2

\* Thresholds are numbers.
LEMMA ThresholdsAreNumbers == \A p \in Thresholds : p \in Nat
BY BudgetAssumption

\* Marking it keeps the marked thresholds closed towards the lower ones.
LEMMA WarnedCloses ==
  ASSUME NEW t \in Trackers, NEW due \in SUBSET Thresholds,
         \A p \in Thresholds : \A q \in t.warned : p <= q => p \in t.warned
  PROVE  /\ Warned(t, due) \in Trackers
         /\ due \subseteq Warned(t, due).warned /\ t.warned \subseteq Warned(t, due).warned
         /\ \A p \in Thresholds : \A q \in Warned(t, due).warned : p <= q => p \in Warned(t, due).warned
         /\ Warned(t, due).tokens = t.tokens /\ Warned(t, due).seen = t.seen
         /\ Warned(t, due).day = t.day
<1> DEFINE w == Warned(t, due)
           below == {p \in Thresholds : \E d \in due : p <= d}
<1>1. \A p \in Thresholds : p \in Nat
  BY ThresholdsAreNumbers
<1>2. w = [t EXCEPT !.warned = t.warned \cup below]
  BY DEF Warned
<1>3. below \subseteq Thresholds /\ due \subseteq below
  BY <1>1
<1>4. \A p \in Thresholds : \A q \in below : p <= q => p \in below
  BY <1>1
<1> HIDE DEF w, below
<1>5. /\ w \in Trackers /\ w.warned = t.warned \cup below
      /\ w.tokens = t.tokens /\ w.seen = t.seen /\ w.day = t.day
  BY <1>2, <1>3 DEF Trackers
<1>6. \A p \in Thresholds : \A q \in w.warned : p <= q => p \in w.warned
  BY <1>4, <1>5
<1> QED BY <1>3, <1>5, <1>6 DEF w

\* Recording a call raises the counters by its charge at most.
LEMMA RecordedFacts ==
  ASSUME kind \in {"turn", "daily"}, NEW t \in Trackers, NEW u \in Usages, NEW by
  PROVE  /\ Recorded(t, u, by) \in Trackers
         /\ Recorded(t, u, by).warned = t.warned /\ Recorded(t, u, by).day = t.day
         /\ t.tokens <= Recorded(t, u, by).tokens /\ t.seen <= Recorded(t, u, by).seen
         /\ Recorded(t, u, by).tokens <= t.tokens + MaxCharge
         /\ kind = "daily" /\ by # "primary" => Recorded(t, u, by) = t
<1>1. /\ Chargeable(u) \in Nat /\ Chargeable(u) <= MaxCharge /\ MaxCharge \in Nat
  BY Charges
<1>2. t.tokens \in Nat /\ t.seen \in Nat
  BY DEF Trackers
<1>3. CASE kind = "turn"
  <2>1. Recorded(t, u, by) = [t EXCEPT !.seen = t.seen + 1, !.tokens = t.tokens + Chargeable(u)]
    BY <1>3 DEF Recorded
  <2> DEFINE r == Recorded(t, u, by)
             n == t.tokens + Chargeable(u)
             k == t.seen + 1
  <2>r. r = [t EXCEPT !.seen = k, !.tokens = n] /\ n \in Nat /\ k \in Nat
    BY <1>1, <1>2, <2>1
  <2> HIDE DEF r, n, k
  <2>2. /\ r \in Trackers /\ r.warned = t.warned /\ r.day = t.day
        /\ r.tokens = n /\ r.seen = k
    BY <2>r DEF Trackers
  <2>3. t.tokens <= r.tokens /\ t.seen <= r.seen /\ r.tokens <= t.tokens + MaxCharge
    BY <1>1, <1>2, <2>2 DEF n, k
  <2> QED BY <1>3, <2>2, <2>3 DEF r
<1>4. CASE kind = "daily" /\ by = "primary"
  <2>1. Recorded(t, u, by) = [t EXCEPT !.tokens = t.tokens + Chargeable(u)]
    BY <1>4 DEF Recorded
  <2> QED BY <1>1, <1>2, <1>4, <2>1 DEF Trackers
<1>5. CASE kind = "daily" /\ by # "primary"
  <2>1. Recorded(t, u, by) = t
    BY <1>5 DEF Recorded
  <2> QED BY <1>1, <1>2, <2>1
<1> QED BY <1>3, <1>4, <1>5

\* A limit that is reached stays reached as the counters grow.
LEMMA LimitStays ==
  ASSUME NEW t \in Trackers, NEW s \in Trackers, t.tokens <= s.tokens, t.seen <= s.seen, AtLimit(t)
  PROVE  AtLimit(s)
BY BudgetAssumption DEF AtLimit, Trackers

\* Without a limit there is room for another call.
LEMMA RoomBelowLimit ==
  ASSUME NEW t \in Trackers, ~AtLimit(t)
  PROVE  t.tokens <= Limit - 1
BY BudgetAssumption DEF AtLimit, Trackers

\* Products of numbers are numbers, and grow with them.
LEMMA Products ==
  ASSUME NEW M \in Nat, NEW a \in Nat, NEW b \in Nat
  PROVE  /\ M * a \in Nat
         /\ a <= b => M * a <= M * b
         /\ M * (a + 1) = M * a + M
OBVIOUS

\* Sessions with a call in flight are counted among the sessions.
LEMMA InFlightCounted ==
  /\ IsFiniteSet(InFlight) /\ Cardinality(InFlight) \in Nat /\ Cardinality(Chats) \in Nat
  /\ Cardinality(InFlight) <= Cardinality(Chats)
<1>1. InFlight \in SUBSET Chats
  BY DEF InFlight
<1> QED BY <1>1, BudgetAssumption, FS_Subset, FS_CardinalityType

-----------------------------------------------------------------------------
(* Turn budget: calls in flight. *)

\* The bound holds on when there are no more calls and no more tokens, ...
LEMMA OvershootFewer ==
  ASSUME BudgetTypeOK, BudgetTypeOK', OvershootBounded, UNCHANGED <<kind, enforcement>>,
         InFlight' \subseteq InFlight, tracker'.tokens <= tracker.tokens
  PROVE  OvershootBounded'
<1> DEFINE a == Cardinality(InFlight)
           b == Cardinality(InFlight')
<1>1. IsFiniteSet(InFlight) /\ a \in Nat
  BY InFlightCounted
<1>2. InFlight' \in SUBSET InFlight
  OBVIOUS
<1>3. b <= a /\ b \in Nat
  BY <1>1, <1>2, FS_Subset, FS_CardinalityType
<1>4. tracker.tokens \in Nat /\ tracker'.tokens \in Nat
  BY DEF BudgetTypeOK
<1> HIDE DEF a, b
<1>5. MaxCharge * b <= MaxCharge * a /\ MaxCharge * a \in Nat /\ MaxCharge * b \in Nat
  BY <1>1, <1>3, Charges, Products
<1>6. tracker'.tokens + MaxCharge * b <= tracker.tokens + MaxCharge * a
  BY <1>4, <1>5
<1>7. MaxCharge * Cardinality(Chats) \in Nat /\ Limit \in Nat
  BY Charges, Products, InFlightCounted, BudgetAssumption
<1>8. ASSUME enforcement = "cutoff" \/ (enforcement = "fallback" /\ kind = "daily")
      PROVE  tracker'.tokens + MaxCharge * b <= Limit - 1 + MaxCharge * Cardinality(Chats)
  <2>1. tracker.tokens + MaxCharge * a <= Limit - 1 + MaxCharge * Cardinality(Chats)
    BY <1>8 DEF OvershootBounded, a
  <2> QED BY <1>4, <1>5, <1>6, <1>7, <2>1
<1> QED BY <1>8 DEF OvershootBounded, b

\* ... when one begins below the limit, ...
LEMMA OvershootBegins ==
  ASSUME BudgetTypeOK', tracker'.tokens <= Limit - 1
  PROVE  OvershootBounded'
<1> DEFINE b == Cardinality(InFlight')
<1>1. InFlight' \in SUBSET Chats
  BY DEF InFlight
<1>2. b <= Cardinality(Chats) /\ b \in Nat /\ Cardinality(Chats) \in Nat
  BY <1>1, BudgetAssumption, FS_Subset, FS_CardinalityType
<1>3. tracker'.tokens \in Nat
  BY DEF BudgetTypeOK
<1> HIDE DEF b
<1>4. /\ MaxCharge * b <= MaxCharge * Cardinality(Chats) /\ MaxCharge * b \in Nat
      /\ MaxCharge * Cardinality(Chats) \in Nat
  BY <1>2, Charges, Products
<1>5. tracker'.tokens + MaxCharge * b <= Limit - 1 + MaxCharge * Cardinality(Chats)
  BY <1>3, <1>4, BudgetAssumption
<1> QED BY <1>5 DEF OvershootBounded, b

\* ... and when one ends.
LEMMA OvershootEnds ==
  ASSUME BudgetTypeOK, BudgetTypeOK', OvershootBounded, UNCHANGED <<kind, enforcement>>,
         NEW c \in InFlight, InFlight' = InFlight \ {c},
         tracker'.tokens <= tracker.tokens + MaxCharge
  PROVE  OvershootBounded'
<1> DEFINE a == Cardinality(InFlight)
           b == Cardinality(InFlight')
<1>1. IsFiniteSet(InFlight) /\ a \in Nat
  BY InFlightCounted
<1>2. b = a - 1 /\ b \in Nat
  BY <1>1, FS_RemoveElement, FS_CardinalityType
<1>4. tracker.tokens \in Nat /\ tracker'.tokens \in Nat
  BY DEF BudgetTypeOK
<1> HIDE DEF a, b
<1>5. a = b + 1
  BY <1>1, <1>2
<1>6. MaxCharge \in Nat /\ MaxCharge * a = MaxCharge * b + MaxCharge /\ MaxCharge * b \in Nat
  BY <1>2, <1>5, Charges, Products
<1>7. MaxCharge * Cardinality(Chats) \in Nat /\ Limit \in Nat
  BY Charges, Products, InFlightCounted, BudgetAssumption
<1>8. ASSUME enforcement = "cutoff" \/ (enforcement = "fallback" /\ kind = "daily")
      PROVE  tracker'.tokens + MaxCharge * b <= Limit - 1 + MaxCharge * Cardinality(Chats)
  <2>1. tracker.tokens + MaxCharge * a <= Limit - 1 + MaxCharge * Cardinality(Chats)
    BY <1>8 DEF OvershootBounded, a
  <2> QED BY <1>4, <1>6, <1>7, <2>1
<1> QED BY <1>8 DEF OvershootBounded, b

-----------------------------------------------------------------------------
(* Turn budget: the invariant is kept. *)

ChatStates ==
  [at : {"idle", "ready", "calling", "between"}, limit : BOOLEAN,
   model : {"primary", "fallback"}, tools : BOOLEAN]

\* A spell begins with what the observer knows of the one before.
LEMMA SpellTypes ==
  ASSUME BudgetTypeOK
  PROVE  /\ FirstSpell \in Spells /\ NextSpell \in Spells
         /\ ~NextSpell.below /\ ~NextSpell.at
         /\ NextSpell.muted <=> (fires # 0 \/ Silenced)
         /\ NextSpell.seen <=> SawLimit
<1>1. FirstSpell \in Spells
  BY DEF FirstSpell, Spells
<1>2. spell \in Spells
  BY DEF BudgetTypeOK
<1>3. \A a, b \in BOOLEAN :
         /\ [FirstSpell EXCEPT !.muted = a, !.seen = b] \in Spells
         /\ [FirstSpell EXCEPT !.muted = a, !.seen = b].muted = a
         /\ [FirstSpell EXCEPT !.muted = a, !.seen = b].seen = b
         /\ [FirstSpell EXCEPT !.muted = a, !.seen = b].below = FALSE
         /\ [FirstSpell EXCEPT !.muted = a, !.seen = b].at = FALSE
  BY DEF FirstSpell, Spells
<1>4. (fires # 0 \/ Silenced) \in BOOLEAN /\ SawLimit \in BOOLEAN
  BY DEF Silenced, SawLimit
<1>5. NextSpell = [FirstSpell EXCEPT !.muted = (fires # 0 \/ Silenced), !.seen = SawLimit]
  BY DEF NextSpell
<1> QED BY <1>1, <1>3, <1>4, <1>5

\* Steps that leave tracker, store, hook, fires and spell alone.
LEMMA LoopSteps ==
  ASSUME BudgetInv, UNCHANGED <<kind, enforcement, tracker, store, hook, shown, fires, spell>>,
         today' \in 0..MaxDays, today <= today', restarts' = restarts,
         chat' \in [Chats -> ChatStates],
         \A c \in Chats : chat'[c] = chat[c] \/ (chat'[c].model = "primary" /\ chat'[c].at # "calling")
  PROVE  BudgetInv'
<1>1. BudgetTypeOK'
  BY DEF BudgetInv, BudgetTypeOK, ChatStates
<1>2. TrackerInv'
  BY DEF BudgetInv, TrackerInv
<1>3. StoreInv'
  <2>1. today \in Nat /\ today' \in Nat /\ tracker.day \in Nat /\ store.day \in Nat
    BY BudgetAssumption DEF BudgetInv, BudgetTypeOK
  <2> QED BY <2>1 DEF BudgetInv, StoreInv, Fresh
<1>4. HookInv'
  BY DEF BudgetInv, HookInv, AtLimit, Silenced, SawLimit
<1>5. OvershootBounded'
  <2>1. InFlight' \subseteq InFlight
    BY DEF InFlight
  <2>2. tracker'.tokens <= tracker.tokens
    BY DEF BudgetInv, BudgetTypeOK
  <2> QED BY <1>1, <2>1, <2>2, OvershootFewer DEF BudgetInv
<1> QED BY <1>1, <1>2, <1>3, <1>4, <1>5 DEF BudgetInv

\* A turn starts.
LEMMA StartTurnKeeps ==
  ASSUME BudgetInv, NEW c \in Chats, StartTurn(c)
  PROVE  BudgetInv'
<1>0. BudgetTypeOK /\ TrackerInv /\ StoreInv /\ HookInv /\ OvershootBounded
  BY DEF BudgetInv
<1>1. /\ chat' = [chat EXCEPT ![c].at = "ready"] /\ chat \in [Chats -> ChatStates]
      /\ UNCHANGED <<kind, enforcement, store, today, hook, restarts>> /\ chat[c].at = "idle"
  BY <1>0 DEF StartTurn, BudgetTypeOK, ChatStates
<1>2. /\ chat' \in [Chats -> ChatStates]
      /\ \A d \in Chats : chat'[d].model = chat[d].model
      /\ \A d \in Chats : chat'[d].at = "calling" => d # c /\ chat'[d] = chat[d]
  BY <1>1 DEF ChatStates
<1>t. 0 \in 0..MaxDays /\ tracker.tokens \in Nat /\ Fresh(0) \in Trackers
  BY <1>0, BudgetAssumption, TrackerTypes DEF BudgetTypeOK
<1>k. CASE kind = "turn"
  <2>1. tracker' = Fresh(0) /\ shown' = {} /\ fires' = 0 /\ spell' = NextSpell
    BY <1>k DEF StartTurn
  <2>n. /\ NextSpell \in Spells /\ ~NextSpell.below /\ ~NextSpell.at
        /\ NextSpell.muted <=> (fires # 0 \/ Silenced)
        /\ NextSpell.seen <=> SawLimit
    BY <1>0, SpellTypes
  <2>2. BudgetTypeOK'
    BY <1>0, <1>1, <1>2, <1>t, <2>1, <2>n DEF BudgetTypeOK, ChatStates, Trackers
  <2>3. TrackerInv'
    BY <1>0, <1>1, <1>2, <2>1 DEF TrackerInv, Fresh
  <2>4. StoreInv'
    <3>1. today \in Nat
      BY <1>0, BudgetAssumption DEF BudgetTypeOK
    <3> QED BY <1>0, <1>1, <1>k, <2>1, <3>1 DEF StoreInv, Fresh
  <2>5. HookInv'
    <3>1. (Silenced' <=> NextSpell.muted) /\ (SawLimit' <=> NextSpell.seen) /\ ~spell'.at
      BY <2>1, <2>n DEF Silenced, SawLimit
    <3> QED BY <1>0, <1>1, <2>1, <2>n, <3>1 DEF HookInv
  <2>6. OvershootBounded'
    <3>1. InFlight' \subseteq InFlight
      BY <1>2 DEF InFlight
    <3>2. tracker'.tokens <= tracker.tokens
      BY <1>t, <2>1 DEF Fresh
    <3> QED BY <1>0, <1>1, <2>2, <3>1, <3>2, OvershootFewer
  <2> QED BY <2>2, <2>3, <2>4, <2>5, <2>6 DEF BudgetInv
<1>d. CASE kind # "turn"
  <2>1. UNCHANGED <<tracker, shown, fires, spell>>
    BY <1>d DEF StartTurn
  <2>2. BudgetTypeOK'
    BY <1>0, <1>1, <1>2, <2>1 DEF BudgetTypeOK, ChatStates
  <2>3. TrackerInv'
    BY <1>0, <1>1, <1>2, <2>1 DEF TrackerInv
  <2>4. StoreInv'
    BY <1>0, <1>1, <2>1 DEF StoreInv, Fresh
  <2>5. HookInv'
    BY <1>0, <1>1, <2>1 DEF HookInv, AtLimit, Silenced, SawLimit
  <2>6. OvershootBounded'
    <3>1. InFlight' \subseteq InFlight
      BY <1>2 DEF InFlight
    <3>2. tracker'.tokens <= tracker.tokens
      BY <1>t, <2>1
    <3> QED BY <1>0, <1>1, <2>2, <3>1, <3>2, OvershootFewer
  <2> QED BY <2>2, <2>3, <2>4, <2>5, <2>6 DEF BudgetInv
<1> QED BY <1>k, <1>d

\* The process starts again.
LEMMA RestartKeeps ==
  ASSUME BudgetInv, Restart
  PROVE  BudgetInv'
<1>0. BudgetTypeOK /\ TrackerInv /\ StoreInv /\ HookInv /\ OvershootBounded
  BY DEF BudgetInv
<1>1. /\ restarts < MaxRestarts /\ restarts' = restarts + 1 /\ tracker' = Restored
      /\ chat' = [c \in Chats |-> Idle] /\ fires' = 0
      /\ hook' = [fired |-> AtLimit(Restored) /\ ~Restored.pending, prev |-> AtLimit(Restored)]
      /\ shown' = (IF kind = "daily" /\ store.day = today THEN shown ELSE {})
      /\ spell' = [FirstSpell EXCEPT !.muted = AtLimit(Restored) /\ ~Restored.pending,
                                     !.seen = AtLimit(Restored)]
      /\ UNCHANGED <<kind, enforcement, store, today>>
  BY DEF Restart
<1>2. today \in 0..MaxDays /\ today \in Nat /\ tracker.day \in Nat /\ store.day \in Nat
  BY <1>0, BudgetAssumption DEF BudgetTypeOK
<1>3. /\ (kind = "daily" /\ store.day = today /\ tracker' = store /\ store = tracker)
           \/ (~(kind = "daily" /\ store.day = today) /\ tracker' = Fresh(today))
  BY <1>0, <1>1, <1>2 DEF Restored, StoreInv, Fresh
<1>4. tracker' \in Trackers /\ shown' \subseteq tracker'.warned /\ shown' \subseteq Thresholds
  BY <1>0, <1>1, <1>2, <1>3, TrackerTypes DEF BudgetTypeOK
<1>s. /\ spell' \in Spells /\ ~spell'.below /\ ~spell'.at
      /\ spell'.muted <=> (AtLimit(Restored) /\ ~Restored.pending)
      /\ spell'.seen <=> AtLimit(Restored)
  <2>1. \A a, b \in BOOLEAN :
           /\ [FirstSpell EXCEPT !.muted = a, !.seen = b] \in Spells
           /\ [FirstSpell EXCEPT !.muted = a, !.seen = b].muted = a
           /\ [FirstSpell EXCEPT !.muted = a, !.seen = b].seen = b
           /\ [FirstSpell EXCEPT !.muted = a, !.seen = b].below = FALSE
           /\ [FirstSpell EXCEPT !.muted = a, !.seen = b].at = FALSE
    BY DEF FirstSpell, Spells
  <2>2. AtLimit(Restored) \in BOOLEAN /\ (AtLimit(Restored) /\ ~Restored.pending) \in BOOLEAN
    BY DEF AtLimit
  <2> QED BY <1>1, <2>1, <2>2
<1>5. BudgetTypeOK'
  <2>1. hook' \in [fired : BOOLEAN, prev : BOOLEAN]
    <3>1. \A a, b \in BOOLEAN : [fired |-> a, prev |-> b] \in [fired : BOOLEAN, prev : BOOLEAN]
      OBVIOUS
    <3>2. AtLimit(Restored) \in BOOLEAN /\ (AtLimit(Restored) /\ ~Restored.pending) \in BOOLEAN
      BY DEF AtLimit
    <3> QED BY <1>1, <3>1, <3>2
  <2>2. restarts' \in 0..MaxRestarts /\ chat' \in [Chats -> ChatStates]
    BY <1>0, <1>1, BudgetAssumption DEF BudgetTypeOK, Idle, ChatStates
  <2> QED BY <1>0, <1>1, <1>4, <1>s, <2>1, <2>2 DEF BudgetTypeOK, ChatStates, Trackers
<1>6. TrackerInv'
  BY <1>0, <1>1, <1>3 DEF TrackerInv, Fresh, Idle
<1>7. StoreInv'
  BY <1>0, <1>1, <1>2, <1>3 DEF StoreInv, Fresh
<1>8. HookInv'
  <2>1. /\ hook'.fired <=> (AtLimit(Restored) /\ ~Restored.pending)
        /\ hook'.prev <=> AtLimit(Restored)
    BY <1>1
  <2>2. (Silenced' <=> spell'.muted) /\ (SawLimit' <=> spell'.seen)
    BY <1>s DEF Silenced, SawLimit
  <2> QED BY <1>1, <1>s, <2>1, <2>2 DEF HookInv
<1>9. OvershootBounded'
  <2>1. InFlight' \subseteq InFlight
    BY <1>1 DEF InFlight, Idle
  <2>2. tracker'.tokens <= tracker.tokens
    BY <1>0, <1>3 DEF BudgetTypeOK, Fresh
  <2> QED BY <1>0, <1>1, <1>5, <2>1, <2>2, OvershootFewer
<1> QED BY <1>5, <1>6, <1>7, <1>8, <1>9 DEF BudgetInv

\* The first half of a call, in the terms of the step.
LEMMA CallBeginsFacts ==
  ASSUME BudgetInv, NEW c \in Chats, CallBegins(c)
  PROVE  \E t \in Trackers, due \in SUBSET Thresholds :
           /\ t = AutoReset(tracker)
           /\ t = tracker \/ (kind = "daily" /\ t = Fresh(today) /\ tracker.day < today)
           /\ due \subseteq Thresholds \ t.warned /\ \A p, q \in due : p = q
           /\ \A p \in Thresholds : \A q \in t.warned : p <= q => p \in t.warned
           /\ tracker' \in Trackers /\ tracker'.warned = Warned(t, due).warned
           /\ tracker'.tokens = t.tokens /\ tracker'.seen = t.seen /\ tracker'.day = t.day
           /\ tracker' = tracker => UNCHANGED store
           /\ tracker' # tracker /\ kind = "daily" => store' = tracker'
           /\ kind # "daily" => UNCHANGED store
           /\ shown' = (IF t = tracker THEN shown ELSE {}) \cup due
<1>0. BudgetTypeOK /\ TrackerInv /\ StoreInv /\ HookInv
  BY DEF BudgetInv
<1> DEFINE t == AutoReset(tracker)
           limit == AtLimit(t)
           refused == limit /\ enforcement = "cutoff"
           due == Due(t, refused)
           w == Warned(t, due)
           after == [w EXCEPT !.pending = @ /\ ~(limit /\ enforcement = "warn")]
<1>1. /\ tracker' = after
      /\ IF after = tracker THEN UNCHANGED store ELSE Persist(after)
      /\ shown' = (IF t = tracker THEN shown ELSE {}) \cup due
  BY DEF CallBegins
<1>2. tracker \in Trackers /\ today \in 0..MaxDays /\ today \in Nat /\ tracker.day \in Nat
  BY <1>0, TrackerTypes, BudgetAssumption DEF BudgetTypeOK
<1>3. t = tracker \/ (kind = "daily" /\ t = Fresh(today) /\ tracker.day < today)
  <2>1. CASE kind = "daily" /\ tracker.day # today
    <3>1. t = Fresh(today)
      BY <2>1 DEF AutoReset
    <3>2. tracker.day < today
      BY <1>0, <1>2, <2>1 DEF StoreInv
    <3> QED BY <2>1, <3>1, <3>2
  <2>2. CASE ~(kind = "daily" /\ tracker.day # today)
    BY <2>2 DEF AutoReset
  <2> QED BY <2>1, <2>2
<1>4. t \in Trackers
  BY <1>0, <1>2, <1>3, TrackerTypes
<1>5. \A p \in Thresholds : \A q \in t.warned : p <= q => p \in t.warned
  BY <1>0, <1>3 DEF TrackerInv, Fresh
<1> HIDE DEF t
<1>6. due \subseteq Thresholds \ t.warned /\ \A p, q \in due : p = q
  <2> HIDE DEF limit
  <2> QED BY <1>4, DueIsNew
<1> HIDE DEF due
<1>7. w \in Trackers /\ w.tokens = t.tokens /\ w.seen = t.seen /\ w.day = t.day
  BY <1>4, <1>5, <1>6, WarnedCloses
<1> HIDE DEF w, limit
<1>8. /\ after \in Trackers /\ after.warned = w.warned /\ after.tokens = w.tokens /\ after.seen = w.seen
      /\ after.day = w.day
  BY <1>7 DEF Trackers
<1> HIDE DEF after
<1>9. /\ tracker' = tracker => UNCHANGED store
      /\ tracker' # tracker /\ kind = "daily" => store' = tracker'
      /\ kind # "daily" => UNCHANGED store
  BY <1>1 DEF Persist
<1>10. due \in SUBSET Thresholds
  BY <1>6
<1> QED BY <1>1, <1>3, <1>4, <1>5, <1>6, <1>7, <1>8, <1>9, <1>10 DEF t, w

\* The hook and what its observer has seen, after a call began with tracker t.
HookAfter(c, t) ==
  /\ chat[c].at = "ready"
  /\ hook' = [fired |-> ReArmed(AtLimit(t)) \/ AtLimit(t), prev |-> AtLimit(t)]
  /\ fires' = IF AtLimit(t) /\ ~ReArmed(AtLimit(t))
              THEN (IF t = tracker THEN fires ELSE 0) + 1
              ELSE (IF t = tracker THEN fires ELSE 0)
  /\ spell' = [(IF t = tracker THEN spell ELSE NextSpell) EXCEPT
                 !.below = @ \/ ~AtLimit(t), !.at = @ \/ AtLimit(t)]
  /\ UNCHANGED <<kind, enforcement, today, restarts>>

\* What becomes of the hook and of the session.
LEMMA CallBeginsHook ==
  ASSUME NEW c \in Chats, CallBegins(c), NEW t, t = AutoReset(tracker)
  PROVE  /\ HookAfter(c, t)
         /\ \E n : /\ chat' = [chat EXCEPT ![c] = n]
                   /\ n \in ChatStates
                   /\ enforcement # "fallback" => n.model = "primary"
                   /\ AtLimit(t) /\ enforcement = "cutoff" => n.at # "calling"
                   /\ AtLimit(t) /\ enforcement = "fallback" => n.at # "calling" \/ n.model # "primary"
<1> DEFINE limit == AtLimit(t)
           refused == limit /\ enforcement = "cutoff"
           n == IF refused THEN Idle
                ELSE [at |-> "calling", limit |-> limit,
                      model |-> IF limit /\ enforcement = "fallback" THEN "fallback" ELSE "primary",
                      tools |-> ~(kind = "turn" /\ Reaches(t, StripAt))]
<1>1. chat' = [chat EXCEPT ![c] = n]
  BY DEF CallBegins
<1>2. HookAfter(c, t)
  BY DEF CallBegins, HookAfter
<1>3. n \in ChatStates
  <2>1. Idle \in ChatStates
    BY DEF Idle, ChatStates
  <2>2. \A a, b \in BOOLEAN : \A m \in {"primary", "fallback"} :
           [at |-> "calling", limit |-> a, model |-> m, tools |-> b] \in ChatStates
    BY DEF ChatStates
  <2>3. limit \in BOOLEAN /\ (~(kind = "turn" /\ Reaches(t, StripAt))) \in BOOLEAN
    BY DEF AtLimit
  <2> HIDE DEF limit
  <2> QED BY <2>1, <2>2, <2>3
<1>4. /\ enforcement # "fallback" => n.model = "primary"
      /\ AtLimit(t) /\ enforcement = "cutoff" => n.at # "calling"
      /\ AtLimit(t) /\ enforcement = "fallback" => n.at # "calling" \/ n.model # "primary"
  BY DEF Idle
<1> HIDE DEF n
<1> QED BY <1>1, <1>2, <1>3, <1>4

\* A call begins.
LEMMA CallBeginsKeeps ==
  ASSUME BudgetInv, NEW c \in Chats, CallBegins(c)
  PROVE  BudgetInv'
<1>0. BudgetTypeOK /\ TrackerInv /\ StoreInv /\ HookInv /\ OvershootBounded
  BY DEF BudgetInv
<1>1. PICK t \in Trackers, due \in SUBSET Thresholds :
         /\ t = AutoReset(tracker)
         /\ t = tracker \/ (kind = "daily" /\ t = Fresh(today) /\ tracker.day < today)
         /\ due \subseteq Thresholds \ t.warned /\ \A p, q \in due : p = q
         /\ \A p \in Thresholds : \A q \in t.warned : p <= q => p \in t.warned
         /\ tracker' \in Trackers /\ tracker'.warned = Warned(t, due).warned
         /\ tracker'.tokens = t.tokens /\ tracker'.seen = t.seen /\ tracker'.day = t.day
         /\ tracker' = tracker => UNCHANGED store
         /\ tracker' # tracker /\ kind = "daily" => store' = tracker'
         /\ kind # "daily" => UNCHANGED store
         /\ shown' = (IF t = tracker THEN shown ELSE {}) \cup due
  BY CallBeginsFacts
<1>z. t = AutoReset(tracker)
  BY <1>1
<1>2. /\ chat[c].at = "ready"
      /\ hook' = [fired |-> ReArmed(AtLimit(t)) \/ AtLimit(t), prev |-> AtLimit(t)]
      /\ fires' = IF AtLimit(t) /\ ~ReArmed(AtLimit(t))
                  THEN (IF t = tracker THEN fires ELSE 0) + 1
                  ELSE (IF t = tracker THEN fires ELSE 0)
      /\ spell' = [(IF t = tracker THEN spell ELSE NextSpell) EXCEPT
                     !.below = @ \/ ~AtLimit(t), !.at = @ \/ AtLimit(t)]
      /\ UNCHANGED <<kind, enforcement, today, restarts>>
  <2>1. HookAfter(c, t)
    BY <1>z, CallBeginsHook
  <2> QED BY <2>1 DEF HookAfter
<1>3. PICK n \in ChatStates :
         /\ chat' = [chat EXCEPT ![c] = n]
         /\ enforcement # "fallback" => n.model = "primary"
         /\ AtLimit(t) /\ enforcement = "cutoff" => n.at # "calling"
         /\ AtLimit(t) /\ enforcement = "fallback" => n.at # "calling" \/ n.model # "primary"
  BY <1>z, CallBeginsHook
<1>4. due \subseteq tracker'.warned /\ t.warned \subseteq tracker'.warned
      /\ \A p \in Thresholds : \A q \in tracker'.warned : p <= q => p \in tracker'.warned
  BY <1>1, WarnedCloses
<1>5. \A x : AtLimit(x) \in BOOLEAN /\ ReArmed(x) \in BOOLEAN
  BY DEF AtLimit, ReArmed
<1>6. AtLimit(tracker)' <=> AtLimit(t)
  BY <1>1, <1>2 DEF AtLimit
<1> DEFINE s == IF t = tracker THEN spell ELSE NextSpell
<1>s. /\ s \in Spells /\ spell' \in Spells /\ spell'.muted = s.muted /\ spell'.seen = s.seen
      /\ spell'.below <=> (s.below \/ ~AtLimit(t))
      /\ spell'.at <=> (s.at \/ AtLimit(t))
  <2>1. s \in Spells
    BY <1>0, SpellTypes DEF BudgetTypeOK
  <2> HIDE DEF s
  <2>2. \A a, b \in BOOLEAN :
           LET x == [s EXCEPT !.below = a, !.at = b]
           IN x \in Spells /\ x.muted = s.muted /\ x.seen = s.seen /\ x.below = a /\ x.at = b
    BY <2>1 DEF Spells
  <2>3. (s.below \/ ~AtLimit(t)) \in BOOLEAN /\ (s.at \/ AtLimit(t)) \in BOOLEAN
    BY <1>5
  <2>4. spell' = [s EXCEPT !.below = (s.below \/ ~AtLimit(t)), !.at = (s.at \/ AtLimit(t))]
    BY <1>2 DEF s
  <2> QED BY <2>1, <2>2, <2>3, <2>4
<1>7. BudgetTypeOK'
  <2>1. chat' \in [Chats -> ChatStates] /\ fires' \in Nat
    BY <1>0, <1>2, <1>3 DEF BudgetTypeOK, ChatStates
  <2>2. hook' \in [fired : BOOLEAN, prev : BOOLEAN]
    <3>1. \A a, b \in BOOLEAN : [fired |-> a, prev |-> b] \in [fired : BOOLEAN, prev : BOOLEAN]
      OBVIOUS
    <3> QED BY <1>2, <1>5, <3>1
  <2>3. shown' \subseteq Thresholds /\ shown' \subseteq tracker'.warned
    BY <1>0, <1>1, <1>4 DEF BudgetTypeOK
  <2>4. store' \in Trackers
    BY <1>0, <1>1, TrackerTypes DEF BudgetTypeOK
  <2> QED BY <1>0, <1>1, <1>2, <1>s, <2>1, <2>2, <2>3, <2>4 DEF BudgetTypeOK, ChatStates, Trackers
<1>8. TrackerInv'
  <2>1. ASSUME enforcement' # "fallback", NEW d \in Chats PROVE chat'[d].model = "primary"
    BY <1>0, <1>2, <1>3, <2>1 DEF TrackerInv, BudgetTypeOK
  <2> QED BY <1>4, <2>1 DEF TrackerInv
<1>9. StoreInv'
  <2>1. today \in Nat /\ tracker.day \in Nat /\ store.day \in Nat /\ tracker'.day \in Nat
    BY <1>0, <1>1, BudgetAssumption DEF BudgetTypeOK, Trackers
  <2>2. tracker'.day <= today
    BY <1>0, <1>1, <2>1 DEF StoreInv, Fresh
  <2>3. store'.day <= today
    BY <1>0, <1>1, <2>2 DEF StoreInv, BudgetTypeOK
  <2>4. ASSUME kind = "daily"
        PROVE  store' = tracker' \/ (store'.day < tracker'.day /\ tracker' = Fresh(tracker'.day))
    <3>1. CASE tracker' = tracker
      BY <1>0, <1>1, <2>4, <3>1 DEF StoreInv
    <3>2. CASE tracker' # tracker
      BY <1>1, <2>4, <3>2
    <3> QED BY <3>1, <3>2
  <2>5. Fresh(tracker.day)' = Fresh(tracker'.day)
    BY DEF Fresh
  <2> QED BY <1>2, <2>2, <2>3, <2>4, <2>5 DEF StoreInv
<1>10. HookInv'
  <2>1. fires \in Nat /\ spell \in Spells /\ hook \in [fired : BOOLEAN, prev : BOOLEAN]
    BY <1>0 DEF BudgetTypeOK
  <2>2. (hook'.fired <=> ReArmed(AtLimit(t)) \/ AtLimit(t)) /\ (hook'.prev <=> AtLimit(t))
    BY <1>2, <1>5
  <2>3. ReArmed(AtLimit(t)) <=> (hook.fired /\ ~(hook.prev /\ ~AtLimit(t)))
    BY DEF ReArmed
  <2>4. CASE t = tracker
    <3>1. /\ hook.fired <=> (fires # 0 \/ Silenced)
          /\ hook.prev <=> SawLimit
          /\ fires # 0 => AtLimit(t) /\ ~Silenced
          /\ spell.at => AtLimit(t) /\ hook.fired
          /\ fires <= 1
      BY <1>0, <2>4 DEF HookInv
    <3>2. /\ spell'.muted = spell.muted /\ spell'.seen = spell.seen
          /\ spell'.below <=> (spell.below \/ ~AtLimit(t))
          /\ spell'.at <=> (spell.at \/ AtLimit(t))
      BY <1>s, <2>4
    <3>3. /\ Silenced' <=> (spell.muted /\ ~(spell.seen /\ (spell.below \/ ~AtLimit(t))))
          /\ SawLimit' <=> (spell.at \/ AtLimit(t) \/ (spell.seen /\ ~(spell.below \/ ~AtLimit(t))))
      BY <3>2, Zenon DEF Silenced, SawLimit
    <3>4. fires' = IF AtLimit(t) /\ ~hook.fired THEN fires + 1 ELSE fires
      BY <1>2, <2>3, <2>4
    <3>5. CASE AtLimit(t)
      <4>1. (Silenced' <=> Silenced) /\ SawLimit' /\ spell'.at
        BY <3>2, <3>3, <3>5 DEF Silenced
      <4>2. hook'.fired /\ hook'.prev
        BY <2>2, <3>5
      <4>3. CASE hook.fired
        BY <1>6, <2>1, <3>1, <3>4, <3>5, <4>1, <4>2, <4>3 DEF HookInv
      <4>4. CASE ~hook.fired
        <5>1. fires = 0 /\ ~Silenced /\ fires' = 1
          BY <2>1, <3>1, <3>4, <3>5, <4>4
        <5> QED BY <1>6, <3>5, <4>1, <4>2, <5>1 DEF HookInv
      <4> QED BY <4>3, <4>4
    <3>6. CASE ~AtLimit(t)
      <4>1. fires = 0 /\ fires' = 0 /\ ~spell.at /\ ~spell'.at
        BY <3>1, <3>2, <3>4, <3>6
      <4>2. (Silenced' <=> (spell.muted /\ ~spell.seen)) /\ ~SawLimit'
        BY <3>3, <3>6, <4>1
      <4>3. hook'.fired <=> (Silenced /\ ~(spell.seen /\ ~spell.below))
        BY <2>2, <2>3, <3>1, <3>6, <4>1 DEF SawLimit
      <4>4. hook'.fired <=> Silenced'
        BY <4>2, <4>3 DEF Silenced
      <4>5. ~hook'.prev
        BY <2>2, <3>6
      <4> QED BY <4>1, <4>2, <4>4, <4>5 DEF HookInv
    <3> QED BY <3>5, <3>6
  <2>5. CASE t # tracker
    <3>1. ~AtLimit(t)
      BY <1>1, <2>5, BudgetAssumption DEF AtLimit, Fresh
    <3>2. /\ ~s.below /\ ~s.at /\ (s.muted <=> (fires # 0 \/ Silenced)) /\ (s.seen <=> SawLimit)
      BY <1>0, <2>5, SpellTypes
    <3> HIDE DEF s
    <3>3. (Silenced' <=> (s.muted /\ ~s.seen)) /\ ~SawLimit' /\ ~spell'.at
      BY <1>s, <3>1, <3>2 DEF Silenced, SawLimit
    <3>4. fires' = 0
      BY <1>2, <2>5, <3>1
    <3>5. (hook'.fired <=> (hook.fired /\ ~hook.prev)) /\ ~hook'.prev
      BY <2>2, <2>3, <3>1
    <3>6. (hook.fired <=> (fires # 0 \/ Silenced)) /\ (hook.prev <=> SawLimit)
      BY <1>0 DEF HookInv
    <3> QED BY <3>2, <3>3, <3>4, <3>5, <3>6 DEF HookInv
  <2> QED BY <2>4, <2>5
<1>11. OvershootBounded'
  <2>1. CASE ~AtLimit(t)
    <3>1. tracker'.tokens <= Limit - 1
      BY <1>1, <2>1, RoomBelowLimit
    <3> QED BY <1>7, <3>1, OvershootBegins
  <2>2. CASE AtLimit(t) /\ enforcement \in {"cutoff", "fallback"}
    <3>1. InFlight' \subseteq InFlight
      BY <1>0, <1>3, <2>2 DEF InFlight, BudgetTypeOK
    <3>2. tracker'.tokens <= tracker.tokens
      BY <1>0, <1>1 DEF BudgetTypeOK, Fresh
    <3> QED BY <1>0, <1>2, <1>7, <3>1, <3>2, OvershootFewer
  <2>3. CASE enforcement \notin {"cutoff", "fallback"}
    BY <1>2, <2>3 DEF OvershootBounded
  <2> QED BY <2>1, <2>2, <2>3
<1> QED BY <1>7, <1>8, <1>9, <1>10, <1>11 DEF BudgetInv

\* The second half of a call.
LEMMA CallEndsKeeps ==
  ASSUME BudgetInv, NEW c \in Chats, CallEnds(c)
  PROVE  BudgetInv'
<1>0. BudgetTypeOK /\ TrackerInv /\ StoreInv /\ HookInv /\ OvershootBounded
  BY DEF BudgetInv
<1> DEFINE r(u) == Recorded(tracker, u, chat[c].model)
           fire(u) == ~chat[c].limit /\ AtLimit(r(u)) /\ ~hook.fired
<1>1. PICK u \in Usages, more \in BOOLEAN :
         /\ tracker' = r(u) /\ Persist(r(u))
         /\ hook' = [hook EXCEPT !.fired = @ \/ fire(u)]
         /\ fires' = IF fire(u) THEN fires + 1 ELSE fires
         /\ chat' = [chat EXCEPT ![c] = [Idle EXCEPT !.at = IF more THEN "between" ELSE "idle"]]
  BY DEF CallEnds
<1>2. chat[c].at = "calling" /\ UNCHANGED <<kind, enforcement, today, shown, spell, restarts>>
  BY DEF CallEnds
<1> DEFINE t == r(u)
           n == [Idle EXCEPT !.at = IF more THEN "between" ELSE "idle"]
           f == fire(u)
<1>3. tracker \in Trackers /\ chat \in [Chats -> ChatStates] /\ kind \in {"turn", "daily"}
  BY <1>0, TrackerTypes DEF BudgetTypeOK, ChatStates
<1>4. /\ t \in Trackers /\ t.warned = tracker.warned /\ t.day = tracker.day
      /\ tracker.tokens <= t.tokens /\ tracker.seen <= t.seen
      /\ t.tokens <= tracker.tokens + MaxCharge
      /\ kind = "daily" /\ chat[c].model # "primary" => t = tracker
  BY <1>3, RecordedFacts
<1>5. n \in ChatStates /\ n.at # "calling" /\ n.model = "primary"
  BY DEF Idle, ChatStates
<1>6. f \in BOOLEAN /\ (f => ~hook.fired /\ AtLimit(t))
  BY DEF AtLimit
<1>7. tracker' = t /\ Persist(t) /\ hook' = [hook EXCEPT !.fired = @ \/ f]
      /\ fires' = (IF f THEN fires + 1 ELSE fires) /\ chat' = [chat EXCEPT ![c] = n]
  BY <1>1
<1> HIDE DEF t, n, f, r, fire
<1>8. /\ hook' \in [fired : BOOLEAN, prev : BOOLEAN] /\ (hook'.fired <=> (hook.fired \/ f))
      /\ hook'.prev = hook.prev
  BY <1>0, <1>6, <1>7 DEF BudgetTypeOK
<1>9. BudgetTypeOK'
  <2>1. store' \in Trackers
    BY <1>0, <1>4, <1>7, TrackerTypes DEF Persist
  <2>2. chat' \in [Chats -> ChatStates] /\ fires' \in Nat
    BY <1>0, <1>3, <1>5, <1>6, <1>7 DEF BudgetTypeOK
  <2> QED BY <1>0, <1>2, <1>4, <1>7, <1>8, <2>1, <2>2 DEF BudgetTypeOK, ChatStates, Trackers
<1>10. TrackerInv'
  <2>1. \A d \in Chats : enforcement # "fallback" => chat'[d].model = "primary"
    BY <1>0, <1>3, <1>5, <1>7 DEF TrackerInv
  <2> QED BY <1>0, <1>2, <1>4, <1>7, <2>1 DEF TrackerInv
<1>11. StoreInv'
  BY <1>0, <1>2, <1>4, <1>7 DEF StoreInv, Persist
<1>12. HookInv'
  <2>1. AtLimit(tracker)' <=> AtLimit(t)
    BY <1>2, <1>7 DEF AtLimit
  <2>2. AtLimit(tracker) => AtLimit(t)
    BY <1>3, <1>4, LimitStays
  <2>3. fires \in Nat
    BY <1>0 DEF BudgetTypeOK
  <2>4. (Silenced' <=> Silenced) /\ (SawLimit' <=> SawLimit) /\ spell' = spell
    BY <1>2 DEF Silenced, SawLimit
  <2>5. CASE f
    <3>1. fires = 0 /\ ~Silenced /\ fires' = 1
      BY <1>0, <1>6, <1>7, <2>5 DEF HookInv
    <3> QED BY <1>0, <1>6, <1>8, <2>1, <2>4, <2>5, <3>1 DEF HookInv
  <2>6. CASE ~f
    <3>1. fires' = fires
      BY <1>7, <2>6
    <3> QED BY <1>0, <1>8, <2>1, <2>2, <2>4, <2>6, <3>1 DEF HookInv
  <2> QED BY <2>5, <2>6
<1>13. OvershootBounded'
  <2>1. CASE chat[c].model = "primary"
    <3>1. c \in InFlight /\ InFlight' = InFlight \ {c}
      BY <1>2, <1>3, <1>5, <1>7, <2>1 DEF InFlight
    <3> QED BY <1>0, <1>2, <1>4, <1>7, <1>9, <3>1, OvershootEnds
  <2>2. CASE chat[c].model # "primary" /\ kind = "daily"
    <3>1. InFlight' \subseteq InFlight
      BY <1>3, <1>5, <1>7 DEF InFlight
    <3>2. tracker'.tokens <= tracker.tokens
      BY <1>3, <1>4, <1>7, <2>2 DEF Trackers
    <3> QED BY <1>0, <1>2, <1>9, <3>1, <3>2, OvershootFewer
  <2>3. CASE chat[c].model # "primary" /\ kind # "daily"
    <3>1. enforcement = "fallback"
      BY <1>0, <2>3 DEF TrackerInv
    <3> QED BY <1>2, <2>3, <3>1 DEF OvershootBounded
  <2> QED BY <2>1, <2>2, <2>3
<1> QED BY <1>9, <1>10, <1>11, <1>12, <1>13 DEF BudgetInv

-----------------------------------------------------------------------------
(* Turn budget: the results. *)

\* The invariant holds at the start.
LEMMA BudgetStarts == BudgetInit => BudgetInv
<1> SUFFICES ASSUME BudgetInit PROVE BudgetInv
  OBVIOUS
<1>1. BudgetTypeOK
  <2>1. 0 \in 0..MaxDays /\ 0 \in 0..MaxRestarts
    BY BudgetAssumption
  <2>2. Fresh(0) \in Trackers
    BY <2>1 DEF Fresh, Trackers
  <2>3. Idle \in ChatStates
    BY DEF Idle, ChatStates
  <2>4. chat \in [Chats -> ChatStates]
    BY <2>3 DEF BudgetInit
  <2>5. tracker.warned = {} /\ shown = {}
    BY DEF BudgetInit, Fresh
  <2>6. [fired |-> FALSE, prev |-> FALSE] \in [fired : BOOLEAN, prev : BOOLEAN] /\ FirstSpell \in Spells
    BY DEF FirstSpell, Spells
  <2> QED BY <2>1, <2>2, <2>4, <2>5, <2>6 DEF BudgetInit, BudgetTypeOK, Trackers, ChatStates
<1>2. TrackerInv
  BY DEF BudgetInit, TrackerInv, Idle, Fresh
<1>3. StoreInv
  BY DEF BudgetInit, StoreInv, Fresh
<1>4. HookInv
  BY DEF BudgetInit, HookInv, FirstSpell, Silenced, SawLimit
<1>5. OvershootBounded
  <2>1. InFlight = {}
    BY DEF BudgetInit, InFlight, Idle
  <2>2. Cardinality(InFlight) = 0
    BY <2>1, FS_EmptySet
  <2>3. MaxCharge * 0 = 0 /\ MaxCharge * Cardinality(Chats) \in Nat /\ Limit - 1 \in Nat
    BY Charges, InFlightCounted, BudgetAssumption
  <2>4. tracker.tokens = 0
    BY DEF BudgetInit, Fresh
  <2> QED BY <2>2, <2>3, <2>4 DEF OvershootBounded
<1> QED BY <1>1, <1>2, <1>3, <1>4, <1>5 DEF BudgetInv

\* A turn that goes on or fails, and midnight.
LEMMA QuietStepsKeep ==
  ASSUME BudgetInv,
         (\E c \in Chats : Continue(c) \/ CallFails(c)) \/ Midnight \/ UNCHANGED budgetVars
  PROVE  BudgetInv'
<1>1. BudgetTypeOK /\ MaxDays \in Nat
  BY BudgetAssumption DEF BudgetInv
<1>2. ASSUME NEW c \in Chats, Continue(c) \/ CallFails(c) PROVE BudgetInv'
  <2>1. PICK n \in ChatStates :
           chat' = [chat EXCEPT ![c] = n] /\ n.model = "primary" /\ n.at # "calling"
    <3>1. Idle \in ChatStates /\ [Idle EXCEPT !.at = "ready"] \in ChatStates
      BY DEF Idle, ChatStates
    <3>2. \A n \in {Idle, [Idle EXCEPT !.at = "ready"]} : n.model = "primary" /\ n.at # "calling"
      BY DEF Idle
    <3>3. CASE Continue(c)
      BY <3>1, <3>2, <3>3 DEF Continue
    <3>4. CASE CallFails(c)
      BY <3>1, <3>2, <3>4 DEF CallFails
    <3> QED BY <1>2, <3>3, <3>4
  <2>2. UNCHANGED <<kind, enforcement, tracker, store, today, hook, shown, fires, spell, restarts>>
    BY <1>2 DEF Continue, CallFails
  <2>3. chat \in [Chats -> ChatStates] /\ today \in 0..MaxDays
    BY <1>1 DEF BudgetTypeOK, ChatStates
  <2>4. chat' \in [Chats -> ChatStates] /\ today' \in 0..MaxDays /\ today <= today'
    BY <1>1, <2>1, <2>2, <2>3
  <2>5. \A d \in Chats : chat'[d] = chat[d] \/ (chat'[d].model = "primary" /\ chat'[d].at # "calling")
    BY <2>1, <2>3
  <2> QED BY <2>2, <2>4, <2>5, LoopSteps
<1>3. ASSUME Midnight \/ UNCHANGED budgetVars PROVE BudgetInv'
  <2>1. UNCHANGED <<kind, enforcement, tracker, store, hook, chat, shown, fires, spell, restarts>>
    BY <1>3 DEF Midnight, budgetVars
  <2>2. today' \in 0..MaxDays /\ today <= today'
    BY <1>1, <1>3 DEF Midnight, budgetVars, BudgetTypeOK
  <2>3. chat' \in [Chats -> ChatStates]
    BY <1>1, <2>1 DEF BudgetTypeOK, ChatStates
  <2> QED BY <2>1, <2>2, <2>3, LoopSteps
<1> QED BY <1>2, <1>3

\* Every step keeps the invariant.
LEMMA BudgetKeeps == BudgetInv /\ [BudgetNext]_budgetVars => BudgetInv'
<1> SUFFICES ASSUME BudgetInv, [BudgetNext]_budgetVars PROVE BudgetInv'
  OBVIOUS
<1>1. CASE \E c \in Chats : StartTurn(c)
  BY <1>1, StartTurnKeeps
<1>2. CASE \E c \in Chats : CallBegins(c)
  BY <1>2, CallBeginsKeeps
<1>3. CASE \E c \in Chats : CallEnds(c)
  BY <1>3, CallEndsKeeps
<1>4. CASE Restart
  BY <1>4, RestartKeeps
<1>5. CASE (\E c \in Chats : Continue(c) \/ CallFails(c)) \/ Midnight \/ UNCHANGED budgetVars
  BY <1>5, QuietStepsKeep
<1> QED BY <1>1, <1>2, <1>3, <1>4, <1>5 DEF BudgetNext

\* The tracker's types, the bound on the overshoot and what the limit's hook does
\* (once at most, and when not at all), of BudgetWrapper.chat, hold in every state.
THEOREM BudgetHolds == BudgetSpec => [](BudgetTypeOK /\ OvershootBounded /\ FiresOnce)
<1>1. BudgetInv => BudgetTypeOK /\ OvershootBounded /\ FiresOnce
  BY DEF BudgetInv, HookInv, FiresOnce
<1> QED BY <1>1, BudgetStarts, BudgetKeeps, PTL DEF BudgetSpec

\* A step that surfaces a threshold surfaces one above those surfaced before.
LEMMA WarningsGoUp ==
  ASSUME BudgetInv, [BudgetNext]_budgetVars, shown \subseteq shown',
         NEW p \in shown' \ shown, NEW q \in shown
  PROVE  p > q
<1>1. BudgetTypeOK /\ TrackerInv
  BY DEF BudgetInv
<1>2. shown' # shown /\ shown' # {}
  OBVIOUS
<1>3. PICK c \in Chats : CallBegins(c)
  BY <1>2 DEF BudgetNext, budgetVars, StartTurn, Continue, CallEnds, CallFails, Midnight, Restart
<1>4. PICK t \in Trackers, due \in SUBSET Thresholds :
         /\ due \subseteq Thresholds \ t.warned /\ \A x, y \in due : x = y
         /\ shown' = (IF t = tracker THEN shown ELSE {}) \cup due
  BY <1>3, CallBeginsFacts
<1>5. CASE t = tracker
  <2>1. p \in due /\ p \in Thresholds /\ p \notin tracker.warned /\ q \in tracker.warned
    BY <1>1, <1>4, <1>5 DEF BudgetTypeOK
  <2>2. p \in Nat /\ q \in Nat
    BY <1>1, <2>1, BudgetAssumption DEF BudgetTypeOK
  <2>3. ~(p <= q)
    BY <1>1, <2>1 DEF TrackerInv
  <2> QED BY <2>2, <2>3
<1>6. CASE t # tracker
  BY <1>4, <1>6
<1> QED BY <1>5, <1>6

\* A restart within the day finds on disk the counters the process died with.
LEMMA RestartsRestore ==
  ASSUME BudgetInv, [BudgetNext]_budgetVars,
         restarts' # restarts, kind = "daily", tracker.day = today
  PROVE  tracker' = tracker
<1>1. BudgetTypeOK /\ StoreInv
  BY DEF BudgetInv
<1>2. Restart
  BY DEF BudgetNext, budgetVars, StartTurn, Continue, CallBegins, CallEnds, CallFails, Midnight
<1>3. store = tracker \/ (store.day < tracker.day /\ tracker = Fresh(tracker.day))
  BY <1>1 DEF StoreInv
<1>4. store.day \in Nat /\ tracker.day \in Nat
  BY <1>1, BudgetAssumption DEF BudgetTypeOK
<1>5. tracker' = IF store.day = today THEN store ELSE Fresh(today)
  BY <1>2 DEF Restart, Restored
<1> QED BY <1>3, <1>4, <1>5

\* Warnings go upwards until a reset, also over a restart (consume_threshold_warning).
THEOREM BudgetWarnsUpwards == BudgetSpec => WarnsUpwards
<1>1. BudgetInv /\ [BudgetNext]_budgetVars
      => (shown \subseteq shown' => \A p \in shown' \ shown, q \in shown : p > q)
  BY WarningsGoUp
<1> QED BY <1>1, BudgetStarts, BudgetKeeps, PTL DEF BudgetSpec, WarnsUpwards

\* A restart within the day restores the very counters (DailyBudgetTracker).
THEOREM BudgetRestartRestores == BudgetSpec => RestartRestores
<1>1. BudgetInv /\ [BudgetNext]_budgetVars
      => (restarts' # restarts /\ kind = "daily" /\ tracker.day = today => tracker' = tracker)
  BY RestartsRestore
<1> QED BY <1>1, BudgetStarts, BudgetKeeps, PTL DEF BudgetSpec, RestartRestores

-----------------------------------------------------------------------------
(* Loop detection: the end of a sequence. *)

\* LastN keeps the last n entries, or all.
LEMMA LastNEntries ==
  ASSUME NEW C, NEW s \in Seq(C), NEW n \in Nat
  PROVE  /\ LastN(s, n) \in Seq(C)
         /\ Len(LastN(s, n)) = IF Len(s) > n THEN n ELSE Len(s)
         /\ \A k \in 0..Len(LastN(s, n)) - 1 :
               LastN(s, n)[Len(LastN(s, n)) - k] = s[Len(s) - k]
<1> DEFINE m == IF Len(s) > n THEN Len(s) - n + 1 ELSE 1
           q == SubSeq(s, m, Len(s))
<1>1. m \in 1..Len(s) + 1 /\ Len(s) \in Nat
  OBVIOUS
<1>2. q \in Seq(C) /\ Len(q) = Len(s) - m + 1 /\ \A i \in 1..Len(s) - m + 1 : q[i] = s[m + i - 1]
  <2> HIDE DEF m
  <2> QED BY <1>1
<1>3. q = LastN(s, n)
  BY DEF LastN
<1>4. Len(q) = IF Len(s) > n THEN n ELSE Len(s)
  <2> HIDE DEF q
  <2> QED BY <1>1, <1>2
<1>5. ASSUME NEW k \in 0..Len(q) - 1 PROVE q[Len(q) - k] = s[Len(s) - k]
  <2> HIDE DEF m, q
  <2>1. Len(q) - k \in 1..Len(s) - m + 1 /\ m + (Len(q) - k) - 1 = Len(s) - k
    BY <1>1, <1>2
  <2> QED BY <1>2, <2>1
<1> HIDE DEF m, q
<1> QED BY <1>2, <1>3, <1>4, <1>5

\* Two sequences of one length with the same entries, counted from the end.
LEMMA SameFromTheEnd ==
  ASSUME NEW C, NEW s \in Seq(C), NEW r \in Seq(C), Len(s) = Len(r),
         \A k \in 0..Len(s) - 1 : s[Len(s) - k] = r[Len(r) - k]
  PROVE  s = r
<1> SUFFICES ASSUME NEW i \in 1..Len(s) PROVE s[i] = r[i]
  OBVIOUS
<1>1. Len(s) - i \in 0..Len(s) - 1 /\ Len(s) - (Len(s) - i) = i
  OBVIOUS
<1> QED BY <1>1

\* What is dropped before an append would have been dropped after it.
LEMMA KeptIsEnough ==
  ASSUME NEW C, NEW s \in Seq(C), NEW n \in Nat \ {0}, NEW c \in C
  PROVE  LastN(Append(LastN(s, n), c), n) = LastN(Append(s, c), n)
<1> DEFINE l == LastN(s, n)
           a == LastN(Append(l, c), n)
           b == LastN(Append(s, c), n)
<1>1. l \in Seq(C) /\ Len(l) = (IF Len(s) > n THEN n ELSE Len(s))
      /\ \A k \in 0..Len(l) - 1 : l[Len(l) - k] = s[Len(s) - k]
  BY LastNEntries
<1> DEFINE x == Append(l, c)
           y == Append(s, c)
<1>2. x \in Seq(C) /\ y \in Seq(C) /\ Len(x) = Len(l) + 1 /\ Len(y) = Len(s) + 1
  <2> HIDE DEF l
  <2> QED BY <1>1
<1> HIDE DEF l, a, b, x, y
<1>3. a \in Seq(C) /\ Len(a) = (IF Len(l) + 1 > n THEN n ELSE Len(l) + 1)
      /\ \A k \in 0..Len(a) - 1 : a[Len(a) - k] = x[Len(l) + 1 - k]
  <2>1. a = LastN(x, n)
    BY DEF a, x
  <2>2. LastN(x, n) \in Seq(C) /\ Len(LastN(x, n)) = (IF Len(x) > n THEN n ELSE Len(x))
        /\ \A k \in 0..Len(LastN(x, n)) - 1 : LastN(x, n)[Len(LastN(x, n)) - k] = x[Len(x) - k]
    BY <1>2, LastNEntries
  <2> QED BY <1>2, <2>1, <2>2
<1>4. b \in Seq(C) /\ Len(b) = (IF Len(s) + 1 > n THEN n ELSE Len(s) + 1)
      /\ \A k \in 0..Len(b) - 1 : b[Len(b) - k] = y[Len(s) + 1 - k]
  <2>1. b = LastN(y, n)
    BY DEF b, y
  <2>2. LastN(y, n) \in Seq(C) /\ Len(LastN(y, n)) = (IF Len(y) > n THEN n ELSE Len(y))
        /\ \A k \in 0..Len(LastN(y, n)) - 1 : LastN(y, n)[Len(LastN(y, n)) - k] = y[Len(y) - k]
    BY <1>2, LastNEntries
  <2> QED BY <1>2, <2>1, <2>2
<1>5. Len(a) = Len(b) /\ Len(a) <= Len(l) + 1 /\ Len(l) <= Len(s) /\ Len(l) \in Nat /\ Len(s) \in Nat
  BY <1>1, <1>3, <1>4
<1>6. ASSUME NEW k \in 0..Len(a) - 1 PROVE a[Len(a) - k] = b[Len(b) - k]
  <2>1. a[Len(a) - k] = x[Len(l) + 1 - k] /\ b[Len(b) - k] = y[Len(s) + 1 - k]
    BY <1>3, <1>4, <1>5
  <2>2. CASE k = 0
    <3>1. x[Len(l) + 1] = c /\ y[Len(s) + 1] = c
      BY <1>1 DEF x, y
    <3> QED BY <1>5, <2>1, <2>2, <3>1
  <2>3. CASE k # 0
    <3>1. k - 1 \in 0..Len(l) - 1 /\ Len(l) + 1 - k = Len(l) - (k - 1)
          /\ Len(s) + 1 - k = Len(s) - (k - 1) /\ Len(l) + 1 - k \in 1..Len(l) /\ Len(s) + 1 - k \in 1..Len(s)
      BY <1>5, <2>3
    <3>2. x[Len(l) + 1 - k] = l[Len(l) + 1 - k]
          /\ y[Len(s) + 1 - k] = s[Len(s) + 1 - k]
      BY <1>1, <3>1 DEF x, y
    <3> QED BY <1>1, <2>1, <3>1, <3>2
  <2> QED BY <2>2, <2>3
<1>7. a = b
  BY <1>3, <1>4, <1>5, <1>6, SameFromTheEnd
<1> QED BY <1>7 DEF a, b, l

\* One call or two are appended one by one.
LEMMA CallByCall ==
  ASSUME NEW C, NEW r \in Seq(C), NEW cs \in Seq(C)
  PROVE  /\ Len(cs) = 1 => r \o cs = Append(r, cs[1])
         /\ Len(cs) = 2 => r \o cs = Append(Append(r, cs[1]), cs[2])
<1>1. r \o cs \in Seq(C) /\ Len(r \o cs) = Len(r) + Len(cs)
      /\ \A i \in 1..Len(r) + Len(cs) : (r \o cs)[i] = IF i <= Len(r) THEN r[i] ELSE cs[i - Len(r)]
  OBVIOUS
<1>2. ASSUME Len(cs) = 1 PROVE r \o cs = Append(r, cs[1])
  <2>1. cs[1] \in C
    BY <1>2
  <2> DEFINE a == Append(r, cs[1])
  <2>2. a \in Seq(C) /\ Len(a) = Len(r) + 1
        /\ \A i \in 1..Len(r) + 1 : a[i] = IF i <= Len(r) THEN r[i] ELSE cs[1]
    BY <2>1
  <2> HIDE DEF a
  <2>3. \A i \in 1..Len(r) + 1 : (r \o cs)[i] = a[i]
    BY <1>1, <1>2, <2>2
  <2> QED BY <1>1, <1>2, <2>2, <2>3 DEF a
<1>3. ASSUME Len(cs) = 2 PROVE r \o cs = Append(Append(r, cs[1]), cs[2])
  <2>1. cs[1] \in C /\ cs[2] \in C
    <3>1. \A i \in 1..Len(cs) : cs[i] \in C
      OBVIOUS
    <3> QED BY <1>3, <3>1
  <2> DEFINE a == Append(r, cs[1])
             b == Append(a, cs[2])
  <2>2. a \in Seq(C) /\ Len(a) = Len(r) + 1
        /\ \A i \in 1..Len(r) + 1 : a[i] = IF i <= Len(r) THEN r[i] ELSE cs[1]
    BY <2>1
  <2> HIDE DEF a
  <2>3. b \in Seq(C) /\ Len(b) = Len(r) + 2
        /\ \A i \in 1..Len(r) + 2 :
              b[i] = IF i <= Len(r) THEN r[i] ELSE IF i = Len(r) + 1 THEN cs[1] ELSE cs[2]
    BY <2>1, <2>2
  <2> HIDE DEF b
  <2>4. \A i \in 1..Len(r) + 2 : (r \o cs)[i] = b[i]
    BY <1>1, <1>3, <2>3
  <2> QED BY <1>1, <1>3, <2>3, <2>4 DEF a, b
<1> QED BY <1>2, <1>3

\* A run in which every call equals the one before is of one call.
LEMMA RunOfOne ==
  ASSUME NEW C, NEW q \in Seq(C), NEW n \in Nat, Len(q) = n, \A k \in 2..n : q[k] = q[k - 1]
  PROVE  \A k \in 0..n - 1 : q[n - k] = q[n]
<1> DEFINE S == {k \in 0..n - 1 : q[n - k] # q[n]}
<1>1. SUFFICES ASSUME S # {} PROVE FALSE
  OBVIOUS
<1>2. S \in SUBSET Nat
  OBVIOUS
<1>3. PICK k \in S : \A j \in S : k <= j
  <2> HIDE DEF S
  <2> QED BY <1>1, <1>2, LeastNumber
<1>4. k \in 0..n - 1 /\ q[n - k] # q[n] /\ k - 1 \notin S
  <2>1. k \in Nat /\ ~(k <= k - 1)
    BY <1>2, <1>3
  <2>2. k - 1 \notin S
    <3> HIDE DEF S
    <3> QED BY <1>3, <2>1
  <2> QED BY <1>3, <2>2
<1>5. k # 0
  BY <1>4
<1>6. k - 1 \in 0..n - 1 /\ n - (k - 1) \in 2..n /\ (n - (k - 1)) - 1 = n - k
  BY <1>4, <1>5
<1>7. q[n - (k - 1)] = q[n]
  BY <1>4, <1>6
<1> QED BY <1>4, <1>6, <1>7

\* A run in which every call equals the one before the last is of two calls that
\* alternate.
LEMMA RunOfTwo ==
  ASSUME NEW C, NEW q \in Seq(C), NEW n \in Nat, Len(q) = n, \A k \in 3..n : q[k] = q[k - 2]
  PROVE  \A k \in 0..n - 1 : /\ k % 2 = 0 => q[n - k] = q[n]
                             /\ k % 2 = 1 => q[n - k] = q[n - 1]
<1> DEFINE S == {k \in 0..n - 1 : q[n - k] # q[n - (k % 2)]}
<1>1. SUFFICES ASSUME S # {} PROVE FALSE
  <2>1. \A k \in 0..n - 1 : k % 2 \in {0, 1}
    OBVIOUS
  <2>2. ASSUME S = {}, NEW k \in 0..n - 1 PROVE q[n - k] = q[n - (k % 2)]
    BY <2>2
  <2> HIDE DEF S
  <2>3. ASSUME S = {}, NEW k \in 0..n - 1
        PROVE (k % 2 = 0 => q[n - k] = q[n]) /\ (k % 2 = 1 => q[n - k] = q[n - 1])
    BY <2>1, <2>2, <2>3
  <2> QED BY <2>3
<1>2. S \in SUBSET Nat
  OBVIOUS
<1>3. PICK k \in S : \A j \in S : k <= j
  <2> HIDE DEF S
  <2> QED BY <1>1, <1>2, LeastNumber
<1>4. k \in 0..n - 1 /\ q[n - k] # q[n - (k % 2)] /\ k - 2 \notin S
  <2>1. k \in Nat /\ ~(k <= k - 2)
    BY <1>2, <1>3
  <2>2. k - 2 \notin S
    <3> HIDE DEF S
    <3> QED BY <1>3, <2>1
  <2> QED BY <1>3, <2>2
<1>5. k # 0 /\ k # 1
  BY <1>4
<1>6. k - 2 \in 0..n - 1 /\ n - (k - 2) \in 3..n /\ (n - (k - 2)) - 2 = n - k /\ (k - 2) % 2 = k % 2
  BY <1>4, <1>5
<1>7. q[n - (k - 2)] = q[n - (k % 2)]
  BY <1>4, <1>6
<1> QED BY <1>4, <1>6, <1>7

-----------------------------------------------------------------------------
(* Loop detection: what the policy sees in its history. *)

\* The streak is the longest run of the last call.
LEMMA StreakCounts ==
  ASSUME NEW s \in Seq(Calls), s # <<>>
  PROVE  /\ Streak(s) \in 1..Len(s)
         /\ \A n \in 1..Len(s) :
               n <= Streak(s) <=> \A k \in 0..n - 1 : s[Len(s) - k] = s[Len(s)]
<1> DEFINE S == {n \in 1..Len(s) : \A k \in 0..n - 1 : s[Len(s) - k] = Last(s)}
<1>1. Len(s) \in Nat \ {0} /\ Last(s) = s[Len(s)]
  BY DEF Last
<1>2. 1 \in S
  BY <1>1
<1>3. S \in SUBSET Nat /\ S \in SUBSET (1..Len(s))
  OBVIOUS
<1>4. IsFiniteSet(1..Len(s))
  BY <1>1, FS_Interval
<1>5. IsFiniteSet(S)
  <2> HIDE DEF S
  <2> QED BY <1>3, <1>4, FS_Subset
<1>6. Streak(s) = Max(S)
  BY DEF Streak
<1>7. Max(S) \in S /\ \A y \in S : y <= Max(S)
  <2> HIDE DEF S
  <2> QED BY <1>2, <1>3, <1>5, GreatestNumber
<1>8. Streak(s) \in S /\ \A y \in S : y <= Streak(s)
  <2> HIDE DEF S
  <2> QED BY <1>6, <1>7
<1> QED BY <1>1, <1>8

\* The paired calls are the longest run in which two calls alternate.
LEMMA PairedCounts ==
  ASSUME NEW s \in Seq(Calls), Len(s) >= 2
  PROVE  /\ \E n \in Nat \ {0} : Paired(s) = 2 * n /\ 2 * n <= Len(s)
         /\ \A n \in Nat \ {0} :
               2 * n <= Len(s) =>
                 (2 * n <= Paired(s)
                    <=> \A k \in 0..2 * n - 1 : s[Len(s) - k] = s[Len(s) - (k % 2)])
<1> DEFINE S == {n \in 1..Len(s) \div 2 : \A k \in 0..2 * n - 1 : s[Len(s) - k] = s[Len(s) - (k % 2)]}
<1>1. Len(s) \in Nat /\ Len(s) \div 2 \in Nat \ {0}
  OBVIOUS
<1>2. 1 \in S
  <2>1. \A k \in 0..2 * 1 - 1 : k % 2 = k
    OBVIOUS
  <2> QED BY <1>1, <2>1
<1>3. S \in SUBSET Nat /\ S \in SUBSET (1..Len(s) \div 2)
  OBVIOUS
<1>4. IsFiniteSet(1..Len(s) \div 2)
  BY <1>1, FS_Interval
<1>5. IsFiniteSet(S)
  <2> HIDE DEF S
  <2> QED BY <1>3, <1>4, FS_Subset
<1>6. Paired(s) = 2 * Max(S)
  BY DEF Paired
<1>7. Max(S) \in S /\ \A y \in S : y <= Max(S)
  <2> HIDE DEF S
  <2> QED BY <1>2, <1>3, <1>5, GreatestNumber
<1>8. PICK m \in S : Paired(s) = 2 * m /\ \A y \in S : y <= m
  <2> HIDE DEF S
  <2> QED BY <1>6, <1>7
<1>9. m \in 1..Len(s) \div 2 /\ \A k \in 0..2 * m - 1 : s[Len(s) - k] = s[Len(s) - (k % 2)]
  BY <1>8
<1>10. ASSUME NEW n \in 1..Len(s) \div 2
       PROVE  2 * n <= Paired(s) <=> \A k \in 0..2 * n - 1 : s[Len(s) - k] = s[Len(s) - (k % 2)]
  <2>1. m \in Nat /\ n \in Nat
    BY <1>1, <1>9
  <2>2. 2 * n <= Paired(s) <=> n <= m
    BY <1>8, <2>1
  <2>3. ASSUME n <= m PROVE \A k \in 0..2 * n - 1 : s[Len(s) - k] = s[Len(s) - (k % 2)]
    <3>1. \A k \in 0..2 * n - 1 : k \in 0..2 * m - 1
      BY <2>1, <2>3
    <3> QED BY <1>9, <3>1
  <2>4. ASSUME \A k \in 0..2 * n - 1 : s[Len(s) - k] = s[Len(s) - (k % 2)] PROVE n <= m
    <3>1. n \in S
      BY <2>4
    <3> QED BY <1>8, <3>1
  <2> QED BY <2>2, <2>3, <2>4
<1>11. \A a \in Nat, n \in Nat : 2 * n <= a <=> n <= a \div 2
  OBVIOUS
<1>12. m \in Nat \ {0} /\ 2 * m <= Len(s)
  BY <1>1, <1>9, <1>11
<1>13. \A n \in Nat \ {0} : 2 * n <= Len(s) => n \in 1..Len(s) \div 2
  BY <1>1, <1>11
<1> QED BY <1>8, <1>10, <1>12, <1>13

\* A history cut to its end repeats one call only if the turn's calls do.
LEMMA RepeatsAreCycles ==
  ASSUME NEW s \in Loopers, recorded[s] \in Seq(Calls), NEW m \in Nat \ {0},
         NEW h, h = LastN(recorded[s], m), h # <<>>, Repeats(h)
  PROVE  Cycling(recorded[s], 1, Critical)
<1> DEFINE r == recorded[s]
           q == LastN(r, Critical)
           n == Critical
<1>0. n \in Nat \ {0} /\ r \in Seq(Calls)
  BY LoopAssumption
<1>1. h \in Seq(Calls) /\ Len(h) = (IF Len(r) > m THEN m ELSE Len(r))
      /\ \A k \in 0..Len(h) - 1 : h[Len(h) - k] = r[Len(r) - k]
  BY <1>0, LastNEntries
<1>2. Len(h) >= n /\ Streak(h) >= n
  BY DEF Repeats
<1>3. \A k \in 0..n - 1 : h[Len(h) - k] = h[Len(h)]
  <2>1. n \in 1..Len(h)
    BY <1>0, <1>1, <1>2
  <2> QED BY <1>1, <1>2, <2>1, StreakCounts
<1>4. Len(q) = (IF Len(r) > n THEN n ELSE Len(r))
      /\ \A k \in 0..Len(q) - 1 : q[Len(q) - k] = r[Len(r) - k]
  BY <1>0, LastNEntries
<1> HIDE DEF r, q, n
<1>5. Len(q) = n
  BY <1>0, <1>1, <1>2, <1>4
<1>6. ASSUME NEW k \in 0..n - 1 PROVE q[n - k] = h[Len(h)]
  <2>1. k \in 0..Len(h) - 1
    BY <1>0, <1>1, <1>2
  <2> QED BY <1>1, <1>3, <1>4, <1>5, <2>1
<1>7. ASSUME NEW k \in 2..n PROVE q[k] = q[k - 1]
  <2>1. n - k \in 0..n - 1 /\ n - (n - k) = k /\ n - k + 1 \in 0..n - 1 /\ n - (n - k + 1) = k - 1
    BY <1>0
  <2>2. q[k] = h[Len(h)] /\ q[k - 1] = h[Len(h)]
    BY <1>6, <2>1
  <2> QED BY <2>2
<1> QED BY <1>5, <1>7 DEF Cycling, q, r, n

\* And so with two calls that alternate.
LEMMA PingPongsAreCycles ==
  ASSUME NEW s \in Loopers, recorded[s] \in Seq(Calls), NEW m \in Nat \ {0},
         NEW h, h = LastN(recorded[s], m), PingPong(h)
  PROVE  Cycling(recorded[s], 2, EvenAbove(Critical))
<1> DEFINE r == recorded[s]
           n == EvenAbove(Critical)
           q == LastN(r, n)
<1>0. n \in Nat \ {0} /\ r \in Seq(Calls) /\ Critical \in Nat \ {0}
  BY LoopAssumption DEF EvenAbove
<1>1. h \in Seq(Calls) /\ Len(h) = (IF Len(r) > m THEN m ELSE Len(r))
      /\ \A k \in 0..Len(h) - 1 : h[Len(h) - k] = r[Len(r) - k]
  BY <1>0, LastNEntries
<1>2. Len(h) >= 4 /\ h[Len(h)] # h[Len(h) - 1] /\ Paired(h) >= Critical
  BY DEF PingPong
<1>a. Len(h) >= 2
  BY <1>1, <1>2
<1>3. PICK e \in Nat \ {0} : n = 2 * e /\ 2 * e <= Len(h) /\ 2 * e <= Paired(h)
  <2>1. PICK p \in Nat \ {0} : Paired(h) = 2 * p /\ 2 * p <= Len(h)
    BY <1>1, <1>a, PairedCounts
  <2>2. PICK e \in Nat : n = 2 * e /\ 2 * e <= Critical + 1
    <3>1. (Critical + 1) \div 2 \in Nat /\ n = 2 * ((Critical + 1) \div 2)
          /\ 2 * ((Critical + 1) \div 2) <= Critical + 1
      BY <1>0 DEF EvenAbove
    <3> QED BY <3>1
  <2>3. e # 0 /\ e <= p
    BY <1>0, <1>2, <2>1, <2>2
  <2>4. Len(h) \in Nat
    BY <1>1
  <2>5. 2 * e <= 2 * p
    BY <2>1, <2>2, <2>3
  <2> QED BY <2>1, <2>2, <2>3, <2>4, <2>5
<1>4. \A k \in 0..n - 1 : h[Len(h) - k] = h[Len(h) - (k % 2)]
  <2>1. h \in Seq(Calls) /\ Len(h) >= 2 /\ e \in Nat \ {0} /\ 2 * e <= Len(h) /\ 2 * e <= Paired(h)
    BY <1>1, <1>3, <1>a
  <2>2. \A k \in 0..2 * e - 1 : h[Len(h) - k] = h[Len(h) - (k % 2)]
    BY <2>1, PairedCounts, Zenon
  <2> QED BY <1>3, <2>2
<1>5. n <= Len(h)
  BY <1>1, <1>3
<1>6. Len(q) = (IF Len(r) > n THEN n ELSE Len(r))
      /\ \A k \in 0..Len(q) - 1 : q[Len(q) - k] = r[Len(r) - k]
  BY <1>0, LastNEntries
<1> HIDE DEF r, q, n
<1>7. Len(q) = n
  BY <1>0, <1>1, <1>5, <1>6
<1>8. ASSUME NEW k \in 0..n - 1 PROVE q[n - k] = h[Len(h) - (k % 2)]
  <2>1. k \in 0..Len(h) - 1
    BY <1>0, <1>1, <1>5
  <2> QED BY <1>1, <1>4, <1>6, <1>7, <2>1
<1>9. ASSUME NEW k \in 3..n PROVE q[k] = q[k - 2]
  <2>1. /\ n - k \in 0..n - 1 /\ n - (n - k) = k
        /\ n - k + 2 \in 0..n - 1 /\ n - (n - k + 2) = k - 2
        /\ (n - k + 2) % 2 = (n - k) % 2
    BY <1>0
  <2>2. q[k] = h[Len(h) - ((n - k) % 2)] /\ q[k - 2] = h[Len(h) - ((n - k + 2) % 2)]
    BY <1>8, <2>1
  <2> QED BY <2>1, <2>2
<1>10. q[1] # q[2]
  <2>1. /\ n - 1 \in 0..n - 1 /\ n - (n - 1) = 1 /\ (n - 1) % 2 = 1
        /\ n - 2 \in 0..n - 1 /\ n - (n - 2) = 2 /\ (n - 2) % 2 = 0
    BY <1>0, <1>3
  <2>2. q[1] = h[Len(h) - 1] /\ q[2] = h[Len(h) - 0]
    BY <1>8, <2>1
  <2> QED BY <1>1, <1>2, <2>2
<1> QED BY <1>7, <1>9, <1>10 DEF Cycling, q, r, n

\* A history that is long enough repeats one call if the turn's calls do.
LEMMA CyclesRepeat ==
  ASSUME NEW s \in Loopers, recorded[s] \in Seq(Calls), NEW m \in Nat \ {0},
         NEW h, h = LastN(recorded[s], m), Cycling(recorded[s], 1, Critical), m >= Critical
  PROVE  h # <<>> /\ Repeats(h)
<1> DEFINE r == recorded[s]
           q == LastN(r, Critical)
           n == Critical
<1>0. n \in Nat \ {0} /\ r \in Seq(Calls)
  BY LoopAssumption
<1>1. h \in Seq(Calls) /\ Len(h) = (IF Len(r) > m THEN m ELSE Len(r))
      /\ \A k \in 0..Len(h) - 1 : h[Len(h) - k] = r[Len(r) - k]
  BY <1>0, LastNEntries
<1>2. q \in Seq(Calls) /\ Len(q) = (IF Len(r) > n THEN n ELSE Len(r))
      /\ \A k \in 0..Len(q) - 1 : q[Len(q) - k] = r[Len(r) - k]
  BY <1>0, LastNEntries
<1>3. Len(q) = n /\ \A k \in 2..n : q[k] = q[k - 1]
  BY DEF Cycling
<1> HIDE DEF r, q, n
<1>4. \A k \in 0..n - 1 : q[n - k] = q[n]
  BY <1>0, <1>2, <1>3, RunOfOne
<1>5. Len(r) >= n /\ Len(h) >= n
  BY <1>0, <1>1, <1>2, <1>3 DEF n
<1>6. ASSUME NEW k \in 0..n - 1 PROVE h[Len(h) - k] = q[n]
  <2>1. k \in 0..Len(h) - 1
    BY <1>0, <1>1, <1>5
  <2> QED BY <1>1, <1>2, <1>3, <1>4, <2>1
<1>7. h[Len(h)] = q[n]
  <2>1. 0 \in 0..n - 1 /\ Len(h) - 0 = Len(h)
    BY <1>0, <1>1
  <2> QED BY <1>6, <2>1
<1>8. h # <<>> /\ n \in 1..Len(h)
  BY <1>0, <1>1, <1>5
<1>9. n <= Streak(h)
  BY <1>1, <1>6, <1>7, <1>8, StreakCounts
<1>10. Streak(h) \in 1..Len(h)
  BY <1>1, <1>8, StreakCounts
<1> QED BY <1>0, <1>1, <1>5, <1>8, <1>9, <1>10 DEF Repeats, n

\* And so with two calls that alternate, over four calls at least.
LEMMA CyclesPingPong ==
  ASSUME NEW s \in Loopers, recorded[s] \in Seq(Calls), NEW m \in Nat \ {0},
         NEW h, h = LastN(recorded[s], m), Cycling(recorded[s], 2, PairRun), m >= PairRun
  PROVE  h # <<>> /\ PingPong(h)
<1> DEFINE r == recorded[s]
           n == PairRun
           q == LastN(r, n)
<1>0. n \in Nat \ {0} /\ n >= 4 /\ n >= Critical /\ r \in Seq(Calls) /\ Critical \in Nat \ {0}
  BY LoopAssumption DEF PairRun, EvenAbove
<1>a. PICK e \in Nat \ {0} : n = 2 * e
  <2>1. n \div 2 \in Nat \ {0} /\ n = 2 * (n \div 2)
    BY LoopAssumption DEF PairRun, EvenAbove
  <2> QED BY <2>1
<1>1. h \in Seq(Calls) /\ Len(h) = (IF Len(r) > m THEN m ELSE Len(r))
      /\ \A k \in 0..Len(h) - 1 : h[Len(h) - k] = r[Len(r) - k]
  BY <1>0, LastNEntries
<1>2. q \in Seq(Calls) /\ Len(q) = (IF Len(r) > n THEN n ELSE Len(r))
      /\ \A k \in 0..Len(q) - 1 : q[Len(q) - k] = r[Len(r) - k]
  BY <1>0, LastNEntries
<1>3. Len(q) = n /\ (\A k \in 3..n : q[k] = q[k - 2]) /\ q[1] # q[2]
  BY DEF Cycling
<1> HIDE DEF r, q, n
<1>4. \A k \in 0..n - 1 : /\ k % 2 = 0 => q[n - k] = q[n]
                          /\ k % 2 = 1 => q[n - k] = q[n - 1]
  <2>1. n \in Nat /\ q \in Seq(Calls) /\ Len(q) = n /\ \A k \in 3..n : q[k] = q[k - 2]
    BY <1>0, <1>2, <1>3
  <2> QED BY <2>1, RunOfTwo
<1>5. Len(r) >= n /\ Len(h) >= n
  BY <1>0, <1>1, <1>2, <1>3 DEF n
<1>6. ASSUME NEW k \in 0..n - 1 PROVE h[Len(h) - k] = q[n - k]
  <2>1. k \in 0..Len(h) - 1
    BY <1>0, <1>1, <1>5
  <2> QED BY <1>1, <1>2, <1>3, <2>1
<1>7. h[Len(h)] # h[Len(h) - 1]
  <2>1. /\ n - 1 \in 0..n - 1 /\ n - (n - 1) = 1 /\ (n - 1) % 2 = 1
        /\ n - 2 \in 0..n - 1 /\ n - (n - 2) = 2 /\ (n - 2) % 2 = 0
        /\ 0 \in 0..n - 1 /\ 1 \in 0..n - 1 /\ n - 0 = n
    BY <1>0, <1>a
  <2>2. q[1] = q[n - 1] /\ q[2] = q[n]
    BY <1>4, <2>1
  <2>3. h[Len(h) - 0] = q[n - 0] /\ h[Len(h) - 1] = q[n - 1]
    BY <1>6, <2>1
  <2>4. Len(h) - 0 = Len(h)
    BY <1>1
  <2> QED BY <1>3, <2>1, <2>2, <2>3, <2>4
<1>8. ASSUME NEW k \in 0..n - 1 PROVE h[Len(h) - k] = h[Len(h) - (k % 2)]
  <2>1. k % 2 \in {0, 1} /\ 0 \in 0..n - 1 /\ 1 \in 0..n - 1
    BY <1>0
  <2>2. h[Len(h) - 0] = q[n - 0] /\ h[Len(h) - 1] = q[n - 1]
    BY <1>6, <2>1
  <2>3. n - 0 = n
    BY <1>0
  <2> QED BY <1>4, <1>6, <2>1, <2>2, <2>3
<1>9. 2 * e <= Len(h)
  BY <1>a, <1>1, <1>5
<1>10. 2 * e <= Paired(h)
  <2>1. \A k \in 0..2 * e - 1 : h[Len(h) - k] = h[Len(h) - (k % 2)]
    BY <1>8, <1>a
  <2>2. Len(h) >= 2
    BY <1>0, <1>1, <1>5
  <2> QED BY <1>1, <1>9, <2>1, <2>2, PairedCounts
<1>11. PICK p \in Nat \ {0} : Paired(h) = 2 * p
  <2>1. Len(h) >= 2
    BY <1>0, <1>1, <1>5
  <2> QED BY <1>1, <2>1, PairedCounts
<1>12. Paired(h) >= Critical /\ Len(h) >= Critical /\ Len(h) >= 4 /\ h # <<>>
  BY <1>0, <1>1, <1>5, <1>10, <1>11, <1>a
<1> QED BY <1>7, <1>12 DEF PingPong

-----------------------------------------------------------------------------
(* Loop detection: the inductive invariant. *)

\* A turn that met no other is alone, and the policy's history is the end of its
\* calls.
OwnHistory ==
  \A s \in UnderWay \ mixed : UnderWay = {s} /\ history = LastN(recorded[s], size)

\* A turn that goes on is below the breaker.
BelowBreaker == \A s \in Loopers : turn[s] \in {"asks", "goes on"} => iteration[s] <= Breaker

LoopInv == LoopTypeOK /\ OwnHistory /\ BelowBreaker /\ LoopRight

\* The types a step needs of the variables.
LEMMA LoopTypes ==
  ASSUME LoopTypeOK
  PROVE  /\ size \in Nat \ {0} /\ Breaker \in Nat /\ 0 \in 0..Breaker + 1
         /\ history \in Seq(Calls)
         /\ \A s \in Loopers : recorded[s] \in Seq(Calls)
         /\ \A s \in Loopers : iteration[s] \in Nat /\ iteration[s] <= Breaker + 1
<1>1. Breaker \in Nat /\ size \in Nat \ {0}
  BY LoopAssumption DEF LoopTypeOK
<1>2. \A s \in Loopers : recorded[s] \in Seq(Calls)
  BY DEF LoopTypeOK
<1>3. \A s \in Loopers : iteration[s] \in 0..Breaker + 1
  BY DEF LoopTypeOK
<1>4. \A n \in 0..Breaker + 1 : n \in Nat /\ n <= Breaker + 1
  BY <1>1
<1>5. history \in Seq(Calls)
  BY DEF LoopTypeOK
<1>6. 0 \in 0..Breaker + 1
  BY <1>1
<1> QED BY <1>1, <1>2, <1>3, <1>4, <1>5, <1>6

\* The invariant holds at the start.
LEMMA LoopStarts == LoopInit => LoopInv
<1> SUFFICES ASSUME LoopInit PROVE LoopInv
  OBVIOUS
<1>1. Breaker \in Nat /\ size \in Sizes /\ size \in Nat /\ history = <<>>
  BY LoopAssumption DEF LoopInit
<1>2. <<>> \in Seq(Calls) /\ Len(<<>>) = 0
  OBVIOUS
<1>3. LoopTypeOK
  BY <1>1, <1>2 DEF LoopInit, LoopTypeOK
<1>4. OwnHistory /\ BelowBreaker /\ LoopRight
  BY DEF LoopInit, OwnHistory, BelowBreaker, LoopRight, UnderWay
<1> QED BY <1>3, <1>4 DEF LoopInv

\* An iteration more reaches the breaker or passes it.
LEMMA OneMore ==
  \A i, b \in Nat : \A j : j = i + 1 => (i >= b => j > b) /\ (~(i >= b) => j <= b)
OBVIOUS

\* A turn that begins clears the history; it and those it meets are mixed.
LEMMA BeginTurnKeeps ==
  ASSUME LoopInv, NEW s \in Loopers, BeginTurn(s)
  PROVE  LoopInv'
<1>1. LoopTypeOK /\ OwnHistory /\ BelowBreaker /\ LoopRight /\ Breaker \in Nat
  BY LoopAssumption DEF LoopInv
<1>2. <<>> \in Seq(Calls) /\ Len(<<>>) = 0
  OBVIOUS
<1>a. size \in Nat /\ 0 \in 0..Breaker + 1
  BY <1>1, LoopTypes
<1>3. LoopTypeOK'
  <2>1. iteration' \in [Loopers -> 0..Breaker + 1] /\ recorded' \in [Loopers -> Seq(Calls)]
    BY <1>1, <1>2, <1>a DEF LoopTypeOK, BeginTurn
  <2>2. turn' \in [Loopers -> {"idle", "asks", "goes on", "stopped"}] /\ mixed' \subseteq Loopers
    BY <1>1 DEF LoopTypeOK, BeginTurn, UnderWay
  <2>3. history' \in Seq(Calls) /\ Len(history') <= size
    BY <1>2, <1>a DEF BeginTurn
  <2> QED BY <1>1, <2>1, <2>2, <2>3 DEF LoopTypeOK, BeginTurn
<1>4. UnderWay' = UnderWay \cup {s} /\ s \notin UnderWay
  BY <1>1 DEF LoopTypeOK, BeginTurn, UnderWay
<1>5. OwnHistory'
  <2> SUFFICES ASSUME NEW l \in UnderWay' \ mixed'
               PROVE  UnderWay' = {l} /\ history' = LastN(recorded'[l], size')
    BY DEF OwnHistory, LastN
  <2>1. UnderWay = {} /\ l = s
    BY <1>4 DEF BeginTurn
  <2>2. l \in Loopers /\ recorded'[l] = <<>> /\ history' = <<>> /\ size' = size
    BY <2>1 DEF BeginTurn
  <2>3. LastN(<<>>, size) = <<>>
    <3>1. ASSUME NEW e \in Seq(Calls), Len(e) = 0 PROVE LastN(e, size) = <<>>
      <4>1. /\ LastN(e, size) \in Seq(Calls)
            /\ Len(LastN(e, size)) = IF Len(e) > size THEN size ELSE Len(e)
        BY <1>a, LastNEntries
      <4>2. Len(LastN(e, size)) = 0
        BY <1>a, <3>1, <4>1
      <4> QED BY <4>1, <4>2
    <3> QED BY <1>2, <3>1
  <2> QED BY <1>4, <2>1, <2>2, <2>3
<1>6. BelowBreaker'
  <2>1. \A l \in Loopers : l # s => turn'[l] = turn[l] /\ iteration'[l] = iteration[l]
    BY <1>1 DEF LoopTypeOK, BeginTurn
  <2>2. iteration' = [iteration EXCEPT ![s] = 0] /\ iteration \in [Loopers -> 0..Breaker + 1]
    BY <1>1 DEF LoopTypeOK, BeginTurn
  <2>3. iteration'[s] = 0
    BY <2>2
  <2>4. 0 <= Breaker
    BY <1>1
  <2> QED BY <1>1, <2>1, <2>3, <2>4 DEF BelowBreaker
<1>7. LoopRight'
  <2>1. \A l \in Loopers \ mixed' : turn'[l] \notin {"stopped", "goes on"}
    BY <1>1 DEF LoopTypeOK, BeginTurn, UnderWay
  <2> QED BY <2>1 DEF LoopRight
<1> QED BY <1>3, <1>5, <1>6, <1>7 DEF LoopInv

\* The verdict on a turn that met no other is that on its calls.
LEMMA ShouldContinueKeeps ==
  ASSUME LoopInv, NEW s \in Loopers, ShouldContinue(s)
  PROVE  LoopInv'
<1>1. LoopTypeOK /\ OwnHistory /\ BelowBreaker /\ LoopRight /\ Breaker \in Nat
  BY LoopAssumption DEF LoopInv
<1>2. size \in Nat \ {0} /\ \A l \in Loopers : recorded[l] \in Seq(Calls) /\ iteration[l] \in Nat
  BY <1>1, LoopTypes
<1>3. UNCHANGED <<size, history, recorded, mixed>> /\ turn[s] = "asks"
      /\ iteration' = [iteration EXCEPT ![s] = @ + 1] /\ turn'[s] \in {"stopped", "goes on"}
      /\ turn' = [turn EXCEPT ![s] = turn'[s]]
  BY <1>1 DEF ShouldContinue, LoopTypeOK
<1> DEFINE stops == \/ iteration[s] >= Breaker
                    \/ history # <<>> /\ (Repeats(history) \/ PingPong(history))
<1>4. turn'[s] = IF stops THEN "stopped" ELSE "goes on"
  BY <1>1 DEF ShouldContinue, LoopTypeOK
<1> HIDE DEF stops
<1>b. iteration[s] \in Nat /\ iteration[s] <= Breaker /\ iteration'[s] = iteration[s] + 1
  BY <1>1, <1>2, <1>3 DEF LoopTypeOK, BelowBreaker
<1>5. LoopTypeOK'
  <2>1. iteration[s] + 1 \in 0..Breaker + 1
    BY <1>1, <1>b
  <2>2. iteration' \in [Loopers -> 0..Breaker + 1]
    BY <1>1, <1>3, <2>1 DEF LoopTypeOK
  <2>3. turn' \in [Loopers -> {"idle", "asks", "goes on", "stopped"}]
    BY <1>1, <1>3 DEF LoopTypeOK
  <2> QED BY <1>1, <1>3, <2>2, <2>3 DEF LoopTypeOK
<1>6. UnderWay' = UnderWay /\ s \in UnderWay
  BY <1>1, <1>3 DEF LoopTypeOK, UnderWay
<1>7. OwnHistory'
  BY <1>1, <1>3, <1>6 DEF OwnHistory, LastN
<1>8. BelowBreaker'
  <2> SUFFICES ASSUME NEW l \in Loopers, turn'[l] \in {"asks", "goes on"}
               PROVE  iteration'[l] <= Breaker
    BY DEF BelowBreaker
  <2>1. CASE l = s
    <3>1. ~(iteration[s] >= Breaker)
      BY <1>3, <1>4, <2>1 DEF stops
    <3> QED BY <1>1, <1>b, <2>1, <3>1, OneMore
  <2>2. CASE l # s
    <3>1. turn'[l] = turn[l] /\ iteration'[l] = iteration[l]
      BY <1>1, <1>3, <2>2 DEF LoopTypeOK
    <3> QED BY <1>1, <3>1 DEF BelowBreaker
  <2> QED BY <2>1, <2>2
<1>10. LoopRight'
  <2> SUFFICES ASSUME NEW l \in Loopers \ mixed
               PROVE  /\ turn'[l] = "stopped" =>
                           \/ iteration'[l] > Breaker
                           \/ Cycling(recorded[l], 1, Critical) \/ Cycling(recorded[l], 2, EvenAbove(Critical))
                      /\ turn'[l] = "goes on" =>
                           /\ Cycling(recorded[l], 1, Critical) => size < Critical
                           /\ Cycling(recorded[l], 2, PairRun) => size < PairRun
    BY <1>3 DEF LoopRight
  <2>1. CASE l # s
    <3>1. turn'[l] = turn[l] /\ iteration'[l] = iteration[l] /\ l \in Loopers \ mixed
      BY <1>1, <1>3, <2>1 DEF LoopTypeOK
    <3> HIDE DEF LoopRight
    <3> QED BY <1>1, <3>1 DEF LoopRight
  <2>2. CASE l = s
    <3>1. history = LastN(recorded[s], size)
      BY <1>1, <1>6, <2>2 DEF OwnHistory
    <3>2. CASE iteration[s] >= Breaker
      <4>1. turn'[s] = "stopped"
        BY <1>4, <3>2 DEF stops
      <4>2. iteration'[s] > Breaker
        BY <1>1, <1>b, <3>2, OneMore
      <4> QED BY <2>2, <4>1, <4>2
    <3>3. ASSUME stops, ~(iteration[s] >= Breaker)
          PROVE  Cycling(recorded[s], 1, Critical) \/ Cycling(recorded[s], 2, EvenAbove(Critical))
      <4>1. history # <<>> /\ (Repeats(history) \/ PingPong(history))
        BY <3>3 DEF stops
      <4> QED BY <1>2, <3>1, <4>1, RepeatsAreCycles, PingPongsAreCycles
    <3>4. ASSUME ~stops, Cycling(recorded[s], 1, Critical) PROVE size < Critical
      <4>1. size \in Nat /\ Critical \in Nat /\ ~(size >= Critical)
        BY <1>2, <3>1, <3>4, CyclesRepeat, LoopAssumption DEF stops
      <4> QED BY <4>1
    <3>5. ASSUME ~stops, Cycling(recorded[s], 2, PairRun) PROVE size < PairRun
      <4>1. size \in Nat /\ PairRun \in Nat
        BY <1>2, LoopAssumption DEF PairRun, EvenAbove
      <4>2. ~(size >= PairRun)
        BY <1>2, <3>1, <3>5, CyclesPingPong DEF stops
      <4> QED BY <4>1, <4>2
    <3> QED BY <1>4, <2>2, <3>2, <3>3, <3>4, <3>5
  <2> QED BY <2>1, <2>2
<1> QED BY <1>5, <1>7, <1>8, <1>10 DEF LoopInv

\* A verdict stands while the turn's calls do.
LEMMA SameVerdict ==
  ASSUME LoopRight, UNCHANGED <<size, iteration, mixed>>,
         \A l \in Loopers : turn'[l] \in {"stopped", "goes on"} =>
            recorded'[l] = recorded[l] /\ turn'[l] = turn[l]
  PROVE  LoopRight'
<1> SUFFICES ASSUME NEW l \in Loopers \ mixed, turn'[l] \in {"stopped", "goes on"}
             PROVE  /\ turn'[l] = "stopped" =>
                         \/ iteration'[l] > Breaker
                         \/ Cycling(recorded'[l], 1, Critical) \/ Cycling(recorded'[l], 2, EvenAbove(Critical))
                    /\ turn'[l] = "goes on" =>
                         /\ Cycling(recorded'[l], 1, Critical) => size' < Critical
                         /\ Cycling(recorded'[l], 2, PairRun) => size' < PairRun
  BY DEF LoopRight
<1>1. recorded'[l] = recorded[l] /\ turn'[l] = turn[l]
  OBVIOUS
<1> QED BY <1>1 DEF LoopRight

\* The calls are kept one by one: the history stays the end of them all.
LEMMA RecordCallsKeeps ==
  ASSUME LoopInv, NEW s \in Loopers, RecordCalls(s)
  PROVE  LoopInv'
<1>1. LoopTypeOK /\ OwnHistory /\ BelowBreaker /\ LoopRight /\ Breaker \in Nat
  BY LoopAssumption DEF LoopInv
<1>2. size \in Nat \ {0} /\ history \in Seq(Calls) /\ \A l \in Loopers : recorded[l] \in Seq(Calls)
  BY <1>1, LoopTypes
<1>3. UNCHANGED <<size, iteration, mixed>> /\ turn[s] = "goes on"
      /\ turn' = [turn EXCEPT ![s] = "asks"]
  BY DEF RecordCalls
<1>a. PICK n \in 1..2 : \E cs \in [1..n -> Calls] :
         /\ history' = Kept(IF n = 1 THEN Append(history, cs[1])
                            ELSE Append(Kept(Append(history, cs[1])), cs[2]))
         /\ recorded' = [recorded EXCEPT ![s] = IF s \in mixed THEN @ ELSE @ \o cs]
  BY DEF RecordCalls
<1>4. PICK cs \in [1..n -> Calls] :
         /\ history' = Kept(IF n = 1 THEN Append(history, cs[1])
                            ELSE Append(Kept(Append(history, cs[1])), cs[2]))
         /\ recorded' = [recorded EXCEPT ![s] = IF s \in mixed THEN @ ELSE @ \o cs]
  BY <1>a
<1>5. cs \in Seq(Calls) /\ Len(cs) = n /\ cs[1] \in Calls /\ (n = 2 => cs[2] \in Calls)
      /\ n \in {1, 2}
  OBVIOUS
<1>6. \A x \in Seq(Calls) : Kept(x) \in Seq(Calls) /\ Len(Kept(x)) <= size
  BY <1>2, LastNEntries DEF Kept
<1>7. history' \in Seq(Calls) /\ Len(history') <= size
  <2>1. Append(history, cs[1]) \in Seq(Calls)
    BY <1>2, <1>5
  <2>2. CASE n = 1
    BY <1>4, <1>6, <2>1, <2>2
  <2>3. CASE n = 2
    <3>1. Kept(Append(history, cs[1])) \in Seq(Calls) /\ cs[2] \in Calls
      BY <1>5, <1>6, <2>1, <2>3
    <3>2. Append(Kept(Append(history, cs[1])), cs[2]) \in Seq(Calls)
      BY <3>1
    <3>3. history' = Kept(Append(Kept(Append(history, cs[1])), cs[2]))
      BY <1>4, <2>3
    <3> QED BY <1>6, <3>2, <3>3
  <2> QED BY <1>5, <2>2, <2>3
<1>8. recorded' \in [Loopers -> Seq(Calls)]
  <2>1. recorded[s] \o cs \in Seq(Calls)
    BY <1>2, <1>5
  <2> QED BY <1>1, <1>4, <2>1 DEF LoopTypeOK
<1>9. LoopTypeOK'
  BY <1>1, <1>3, <1>7, <1>8 DEF LoopTypeOK
<1>10. UnderWay' = UnderWay /\ s \in UnderWay
  BY <1>1, <1>3 DEF LoopTypeOK, UnderWay
<1>11. OwnHistory'
  <2> SUFFICES ASSUME NEW l \in UnderWay \ mixed
               PROVE  UnderWay = {l} /\ history' = LastN(recorded'[l], size)
    BY <1>3, <1>10 DEF OwnHistory, LastN
  <2>1. UnderWay = {l} /\ l = s /\ s \notin mixed /\ history = LastN(recorded[s], size)
    BY <1>1, <1>10 DEF OwnHistory
  <2>2. recorded'[s] = recorded[s] \o cs
    BY <1>1, <1>4, <2>1 DEF LoopTypeOK
  <2> DEFINE r == recorded[s]
             a == Append(r, cs[1])
  <2>3. r \in Seq(Calls) /\ a \in Seq(Calls)
    BY <1>2, <1>5
  <2>4. Kept(Append(history, cs[1])) = LastN(a, size)
    BY <1>2, <1>5, <2>1, KeptIsEnough DEF Kept
  <2>5. CASE n = 1
    <3>1. r \o cs = a
      <4> HIDE DEF r
      <4> QED BY <1>5, <2>3, <2>5, CallByCall
    <3> QED BY <1>4, <2>1, <2>2, <2>4, <2>5, <3>1
  <2>6. CASE n = 2
    <3>1. r \o cs = Append(a, cs[2])
      <4> HIDE DEF r
      <4> QED BY <1>5, <2>3, <2>6, CallByCall
    <3> HIDE DEF a
    <3>2. LastN(Append(LastN(a, size), cs[2]), size) = LastN(Append(a, cs[2]), size)
      BY <1>2, <1>5, <2>3, <2>6, KeptIsEnough
    <3>3. history' = LastN(Append(LastN(a, size), cs[2]), size)
      BY <1>4, <2>4, <2>6 DEF Kept
    <3> QED BY <2>1, <2>2, <3>1, <3>2, <3>3
  <2> QED BY <1>5, <2>5, <2>6
<1>12. BelowBreaker'
  BY <1>1, <1>3 DEF LoopTypeOK, BelowBreaker
<1>13. LoopRight'
  <2>1. \A l \in Loopers \ {s} : recorded'[l] = recorded[l] /\ turn'[l] = turn[l]
    BY <1>1, <1>3, <1>4 DEF LoopTypeOK
  <2>2. turn'[s] = "asks"
    BY <1>1, <1>3 DEF LoopTypeOK
  <2>3. \A l \in Loopers : turn'[l] \in {"stopped", "goes on"} => l # s
    BY <2>2
  <2> QED BY <1>1, <1>3, <2>1, <2>3, SameVerdict
<1> QED BY <1>9, <1>11, <1>12, <1>13 DEF LoopInv

\* A turn that ends leaves the others as they are.
LEMMA TurnEndsKeeps ==
  ASSUME LoopInv, NEW s \in Loopers, TurnEnds(s)
  PROVE  LoopInv'
<1>1. LoopTypeOK /\ OwnHistory /\ BelowBreaker /\ LoopRight
  BY DEF LoopInv
<1>2. UNCHANGED <<size, history, iteration, mixed>> /\ turn[s] \in {"goes on", "stopped"}
      /\ turn' = [turn EXCEPT ![s] = "idle"] /\ recorded' = [recorded EXCEPT ![s] = <<>>]
  BY DEF TurnEnds
<1>3. <<>> \in Seq(Calls)
  OBVIOUS
<1>4. LoopTypeOK'
  BY <1>1, <1>2, <1>3 DEF LoopTypeOK
<1>5. UnderWay' = UnderWay \ {s} /\ s \in UnderWay
  BY <1>1, <1>2 DEF LoopTypeOK, UnderWay
<1>6. OwnHistory'
  <2>1. UnderWay' \ mixed' = {}
    BY <1>1, <1>2, <1>5 DEF OwnHistory
  <2> QED BY <2>1 DEF OwnHistory
<1>7. BelowBreaker'
  BY <1>1, <1>2 DEF LoopTypeOK, BelowBreaker
<1>8. LoopRight'
  <2>1. \A l \in Loopers \ {s} : recorded'[l] = recorded[l] /\ turn'[l] = turn[l]
    BY <1>1, <1>2 DEF LoopTypeOK
  <2>2. turn'[s] = "idle"
    BY <1>1, <1>2 DEF LoopTypeOK
  <2>3. \A l \in Loopers : turn'[l] \in {"stopped", "goes on"} => l # s
    BY <2>2
  <2> QED BY <1>1, <1>2, <2>1, <2>3, SameVerdict
<1> QED BY <1>4, <1>6, <1>7, <1>8 DEF LoopInv

\* Every step keeps the invariant.
LEMMA LoopKeeps == LoopInv /\ [LoopNext]_loopVars => LoopInv'
<1> SUFFICES ASSUME LoopInv, [LoopNext]_loopVars PROVE LoopInv'
  OBVIOUS
<1>1. ASSUME NEW s \in Loopers, BeginTurn(s) \/ ShouldContinue(s) \/ RecordCalls(s) \/ TurnEnds(s)
      PROVE  LoopInv'
  BY <1>1, BeginTurnKeeps, ShouldContinueKeeps, RecordCallsKeeps, TurnEndsKeeps
<1>2. CASE UNCHANGED loopVars
  <2>1. LoopTypeOK /\ OwnHistory /\ BelowBreaker /\ LoopRight
    BY DEF LoopInv
  <2>2. UNCHANGED <<size, history, turn, iteration, recorded, mixed>>
    BY <1>2 DEF loopVars
  <2>3. LoopTypeOK' /\ OwnHistory' /\ BelowBreaker'
    BY <2>1, <2>2 DEF LoopTypeOK, OwnHistory, BelowBreaker, UnderWay, LastN
  <2>4. LoopRight'
    BY <2>1, <2>2, SameVerdict
  <2> QED BY <2>3, <2>4 DEF LoopInv
<1> QED BY <1>1, <1>2 DEF LoopNext

\* A turn that met no other is stopped exactly when its calls repeat.
THEOREM LoopHolds == LoopSpec => [](LoopTypeOK /\ LoopRight)
<1>1. LoopInv => LoopTypeOK /\ LoopRight
  BY DEF LoopInv
<1> QED BY <1>1, LoopStarts, LoopKeeps, PTL DEF LoopSpec

-----------------------------------------------------------------------------
(* The components together. *)

\* While a component moves, its invariant holds: for the agent's turns ...
AgentInv ==
  /\ part = "budget" => BudgetInv
  /\ part = "loop" => LoopInv
  /\ part = "reply" => ReplyInv
  /\ part = "steps" => StepsInv

\* ... for the application ...
HostInv ==
  /\ part = "skills" => SkillsInv
  /\ part = "cron tool" => CronToolInv
  /\ part = "heartbeat" => HeartbeatInv
  /\ part = "gateway" => GatewayInv
  /\ part = "terminals" => TerminalInv
  /\ part = "github" => GitInv

\* ... and for the tools and the providers.
ToolsInv ==
  /\ part = "batch" => BatchInv
  /\ part = "shell" => ShellInv
  /\ part = "includes" => IncludesInv
  /\ part = "reduce" => ReduceInv
  /\ part = "fetch" => FetchInv
  /\ part = "split" => SplitInv
  /\ part = "voice" => VoiceInv
  /\ part = "files" => FileInv
  /\ part = "openai" => ProviderInv
  /\ part = "litellm" => LLMInv

ComponentsInv == AgentInv /\ HostInv /\ ToolsInv

\* It holds at the start, ...
LEMMA ComponentsStart == ComponentsInit => ComponentsInv
<1>1. ComponentsInit => AgentInv
  BY BudgetStarts, LoopStarts, ReplyStarts, StepsStart DEF ComponentsInit, AgentInv
<1>2. ComponentsInit => HostInv
  BY SkillsStart, CronToolStarts, HeartbeatStarts, GatewayStarts, TerminalStarts, GitStarts
  DEF ComponentsInit, HostInv
<1>3. ComponentsInit => ToolsInv
  BY BatchStarts, ShellStarts, IncludesStarts, ReduceStarts, FetchStarts, SplitStarts,
     VoiceStarts, FileStarts, ProviderStarts, LLMStarts
  DEF ComponentsInit, ToolsInv
<1> QED BY <1>1, <1>2, <1>3 DEF ComponentsInv

\* ... a step of Components is one of the component that moves, ...
LEMMA PartMoves ==
  ASSUME [ComponentsNext]_componentsVars
  PROVE  /\ part' = part
         /\ part = "budget" => [BudgetNext]_budgetVars
         /\ part = "loop" => [LoopNext]_loopVars
         /\ part = "reply" => [ReplyNext]_replyVars
         /\ part = "steps" => [StepsNext]_stepVars
         /\ part = "skills" => [SkillsNext]_skillsVars
         /\ part = "cron tool" => [CronToolNext]_cronToolVars
         /\ part = "heartbeat" => [HeartbeatNext]_beatVars
         /\ part = "gateway" => [GatewayNext]_gatewayVars
         /\ part = "terminals" => [TerminalNext]_terminalVars
         /\ part = "github" => [GitNext]_gitVars
         /\ part = "batch" => [BatchToolNext]_batchToolVars
         /\ part = "shell" => [ShellNext]_shellVars
         /\ part = "includes" => [IncludesNext]_includesVars
         /\ part = "reduce" => [ReduceNext]_reduceVars
         /\ part = "fetch" => [FetchNext]_fetchVars
         /\ part = "split" => [SplitNext]_splitVars
         /\ part = "voice" => [VoiceNext]_voiceVars
         /\ part = "files" => [FileNext]_fileVars
         /\ part = "openai" => [ProviderNext]_providerVars
         /\ part = "litellm" => [LLMNext]_llmVars
<1>1. CASE UNCHANGED componentsVars
  BY <1>1 DEF componentsVars
<1>2. CASE ComponentsNext
  BY <1>2 DEF ComponentsNext, Moves
<1> QED BY <1>1, <1>2

\* ... and every step keeps it.
LEMMA ComponentsKeep == ComponentsInv /\ [ComponentsNext]_componentsVars => ComponentsInv'
<1> SUFFICES ASSUME AgentInv, HostInv, ToolsInv, [ComponentsNext]_componentsVars
             PROVE  AgentInv' /\ HostInv' /\ ToolsInv'
  BY DEF ComponentsInv
<1>0. part' = part
  BY PartMoves
<1>1. part = "budget" => BudgetInv'
  BY PartMoves, BudgetKeeps DEF AgentInv
<1>2. part = "loop" => LoopInv'
  BY PartMoves, LoopKeeps DEF AgentInv
<1>3. part = "reply" => ReplyInv'
  BY PartMoves, ReplyKeeps DEF AgentInv
<1>4. part = "steps" => StepsInv'
  BY PartMoves, StepsKeep DEF AgentInv
<1>5. part = "skills" => SkillsInv'
  BY PartMoves, SkillsKeep DEF HostInv
<1>6. part = "cron tool" => CronToolInv'
  BY PartMoves, CronToolKeeps DEF HostInv
<1>7. part = "heartbeat" => HeartbeatInv'
  BY PartMoves, HeartbeatKeeps DEF HostInv
<1>8. part = "gateway" => GatewayInv'
  BY PartMoves, GatewayKeeps DEF HostInv
<1>9. part = "terminals" => TerminalInv'
  BY PartMoves, TerminalKeeps DEF HostInv
<1>10. part = "github" => GitInv'
  BY PartMoves, GitKeeps DEF HostInv
<1>21. part = "batch" => BatchInv'
  BY PartMoves, BatchSteps DEF ToolsInv
<1>22. part = "shell" => ShellInv'
  BY PartMoves, ShellSteps DEF ToolsInv
<1>23. part = "includes" => IncludesInv'
  BY PartMoves, IncludesSteps DEF ToolsInv
<1>24. part = "openai" => ProviderInv'
  BY PartMoves, ProviderSteps DEF ToolsInv
<1>25. part = "litellm" => LLMInv'
  BY PartMoves, LLMSteps DEF ToolsInv
<1>26. part = "reduce" => ReduceInv'
  BY PartMoves, ReduceSteps DEF ToolsInv
<1>27. part = "fetch" => FetchInv'
  BY PartMoves, FetchSteps DEF ToolsInv
<1>28. part = "split" => SplitInv'
  BY PartMoves, SplitSteps DEF ToolsInv
<1>29. part = "voice" => VoiceInv'
  BY PartMoves, VoiceSteps DEF ToolsInv
<1>30. part = "files" => FileInv'
  BY PartMoves, FileSteps DEF ToolsInv
<1>11. AgentInv'
  BY <1>0, <1>1, <1>2, <1>3, <1>4 DEF AgentInv
<1>12. HostInv'
  BY <1>0, <1>5, <1>6, <1>7, <1>8, <1>9, <1>10 DEF HostInv
<1>13. ToolsInv'
  BY <1>0, <1>21, <1>22, <1>23, <1>24, <1>25, <1>26, <1>27, <1>28, <1>29, <1>30
  DEF ToolsInv
<1> QED BY <1>11, <1>12, <1>13

\* The agent's turns are right: budgets are overshot by a call of each session at most
\* and their hook fires once but for a flag still set, loops are broken exactly when calls repeat,
\* a durable turn answers once, and its committed steps neither run again nor change.
THEOREM TurnsCorrect == ComponentsSpec => []TurnsRight
<1>1. BudgetInv => BudgetTypeOK /\ OvershootBounded /\ FiresOnce
  BY DEF BudgetInv, HookInv, FiresOnce
<1>2. LoopInv => LoopTypeOK /\ LoopRight
  BY DEF LoopInv
<1>3. StepsInv => StepsTypeOK /\ StepsRight
  BY ReplaysAgree, ShownOnce DEF StepsInv, StepsRight
<1>4. ComponentsInv => TurnsRight
  BY <1>1, <1>2, <1>3, ReplyImplied DEF ComponentsInv, AgentInv, TurnsRight
<1> QED BY <1>4, ComponentsStart, ComponentsKeep, PTL DEF ComponentsSpec

\* The application is right: a turn is told of the skills it can load and may call
\* their tools, scheduled jobs run and answer where they should, one beat is made at a
\* time, channels are sent their messages in order, a terminal waits for an answer
\* that can come, and a green GitHub job has answered.
THEOREM HostCorrect == ComponentsSpec => []HostRight
<1>1. SkillsInv => SkillsRight
  BY SkillsImply
<1>2. CronToolInv => CronToolRight
  BY CronToolImplies
<1>3. HeartbeatInv => HeartbeatRight
  BY HeartbeatImplies
<1>4. GatewayInv => GatewayRight
  BY GatewayImplies
<1>5. GitInv => GitTypeOK /\ GitRight
  BY GitImplies
<1>6. ComponentsInv => HostRight
  BY <1>1, <1>2, <1>3, <1>4, <1>5, TerminalImplies DEF ComponentsInv, HostInv, HostRight
<1> QED BY <1>6, ComponentsStart, ComponentsKeep, PTL DEF ComponentsSpec

\* The tools are right: a batch writes each item's result once and in its place, a
\* reduce loses no item and keeps their order, a command's output is whole and leaves
\* no reader behind, a screen's includes end, a fetched page has no gap, a reply
\* that is split is whole, and so is the body of a recording; a file's pages are the
\* file and an edit of it touches one place.
THEOREM ToolsCorrect == ComponentsSpec => []ToolsRight
<1>1. ComponentsInv => ToolsRight
  BY BatchImplies, ShellImplies, IncludesImplies, ReduceImplies, FetchImplies, SplitImplies,
     VoiceImplies, FileImplies
  DEF ComponentsInv, ToolsInv, ToolsRight
<1> QED BY <1>1, ComponentsStart, ComponentsKeep, PTL DEF ComponentsSpec

\* The providers are right: an answer is of one model and made up of its deltas, a
\* request's body is whole, and calls pair up with their results.
THEOREM ProvidersCorrect == ComponentsSpec => []ProvidersRight
<1>1. ComponentsInv => ProvidersRight
  BY ProviderImplies, LLMImplies DEF ComponentsInv, ToolsInv, ProvidersRight
<1> QED BY <1>1, ComponentsStart, ComponentsKeep, PTL DEF ComponentsSpec

\* The steps of a budget are right: warnings go upwards until a reset, and a restart
\* within the day restores the counters.
THEOREM BudgetStepsCorrect == ComponentsSpec => BudgetStepsRight
<1>1. ComponentsInv /\ [ComponentsNext]_componentsVars
      => [part = "budget" =>
            /\ shown \subseteq shown' => \A p \in shown' \ shown, q \in shown : p > q
            /\ restarts' # restarts /\ kind = "daily" /\ tracker.day = today =>
                 tracker' = tracker]_budgetVars
  <2> SUFFICES ASSUME ComponentsInv, [ComponentsNext]_componentsVars, part = "budget"
               PROVE  /\ shown \subseteq shown' => \A p \in shown' \ shown, q \in shown : p > q
                      /\ restarts' # restarts /\ kind = "daily" /\ tracker.day = today =>
                           tracker' = tracker
    OBVIOUS
  <2>1. BudgetInv
    BY DEF ComponentsInv, AgentInv
  <2>2. [BudgetNext]_budgetVars
    BY PartMoves
  <2> QED BY <2>1, <2>2, WarningsGoUp, RestartsRestore
<1> QED BY <1>1, ComponentsStart, ComponentsKeep, PTL DEF ComponentsSpec, BudgetStepsRight
=============================================================================
