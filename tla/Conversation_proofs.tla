------------------------ MODULE Conversation_proofs ------------------------
(***************************************************************************)
(* Proofs about Conversation, for any window, any logs and any bounds.     *)
(*                                                                         *)
(* The inductive invariant says what a pass in flight holds: a chunk that  *)
(* starts at the boundary it loaded and, unless a clear overtook it, lies  *)
(* in the log (BoundaryInv); a boundary no smaller than the one on disk    *)
(* unless the pass is stale (PassInv); all of MEMORY.md, unless two passes *)
(* overlapped (MemoryInv).  And it says how calls and results lie in the   *)
(* log (PairInv), from which the repaired view has them in pairs.          *)
(***************************************************************************)
EXTENDS Conversation, WellFoundedInduction, TLAPS

\* A turn's last append is in the log when it may have to be made again, and
\* no append waits for its journal entry during a recovery.
LogInv ==
  /\ header <= Len(log)
  /\ redo => turn.last
  /\ turn.last => log # <<>> /\ turn.state # "idle"
  /\ pass["recover"].on => ~redo
  /\ sidecar.there \/ sidecar.through = 0

\* What a pass holds: a chunk past the boundary it loaded, which is the one on
\* disk unless the pass is stale.
PassInv ==
  \A p \in Passes :
     pass[p].on =>
        /\ pass[p].loaded.through <= pass[p].end
        /\ pass[p].clears <= clears
        /\ ~pass[p].stale => /\ sidecar.through <= pass[p].loaded.through
                             /\ sidecar.there \/ header = 0

\* Nothing before the boundary of s was left out but for the sake of a pair, or
\* before the boundary l that an earlier log has left.
Accounts(s, l) ==
  /\ s.through <= Len(log) \/ s.through <= l
  /\ \A i \in (l + 1)..s.through :
        \/ log[i].n \in s.folded
        \/ log[i].role = "tool"
        \/ i > 1 /\ log[i - 1].calls # {}

\* A pass that no clear has overtaken will save a boundary with that property.
BoundaryInv ==
  /\ Accounts(Loaded, leftover)
  /\ \A p \in Passes :
        pass[p].on /\ pass[p].clears >= clears =>
           /\ Accounts(pass[p].loaded, leftover)
           /\ pass[p].total <= Len(log)
           /\ \A i \in (pass[p].loaded.through + 1)..pass[p].end : log[i].n \in pass[p].chunk

\* The one pass in flight was shown all of MEMORY.md.
MemoryInv ==
  \/ overlap
  \/ /\ entries \subseteq memory \cup torn
     /\ \A p \in Passes : pass[p].on => memory \subseteq pass[p].seen
     /\ \A p, q \in Passes : pass[p].on /\ pass[q].on => p = q

ConvInv == TypeOK /\ LogInv /\ PassInv /\ BoundaryInv /\ MemoryInv

-----------------------------------------------------------------------------
(* Numbers *)

\* A set of numbers that is not empty has a least one.
LEMMA LeastNatural ==
  ASSUME NEW S \in SUBSET Nat, S # {}
  PROVE  \E x \in S : \A y \in S : x <= y
<1> DEFINE R == OpToRel(<, Nat)
<1>1. IsWellFoundedOn(R, Nat)
  BY NatLessThanWellFounded
<1>2. \A x, y \in Nat : x < y => <<x, y>> \in R
  BY DEF OpToRel
<1> HIDE DEF R
<1>3. PICK x \in S : \A y \in S : ~(<<y, x>> \in R)
  BY <1>1, WFMin
<1>4. \A y \in S : x <= y
  <2> SUFFICES ASSUME NEW y \in S PROVE x <= y
    OBVIOUS
  <2>1. x \in Nat /\ y \in Nat
    OBVIOUS
  <2>2. ~(y < x)
    BY <1>2, <1>3, <2>1, Zenon
  <2> QED BY <2>1, <2>2
<1> QED BY <1>4

\* A repaired boundary is not before the end of the chunk nor past the log, and
\* every message between the two is kept out to keep a pair together.
LEMMA RepairFacts ==
  ASSUME log \in Seq(Messages), NEW boundary \in Nat, NEW total \in Nat, boundary <= total
  PROVE  /\ RepairBoundary(boundary, total) \in Nat
         /\ boundary <= RepairBoundary(boundary, total)
         /\ total <= Len(log) => RepairBoundary(boundary, total) <= Len(log)
         /\ \A i \in boundary..(RepairBoundary(boundary, total) - 1) :
               \/ log[i + 1].role = "tool"
               \/ i \in DOMAIN log /\ log[i].calls # {}
<1> DEFINE end == IF total < Len(log) THEN total ELSE Len(log)
           splits(i) == \/ log[i + 1].role = "tool"
                        \/ i \in DOMAIN log /\ log[i].calls # {}
           fits(i) == /\ i < end => ~splits(i)
                      /\ \A j \in boundary..(i - 1) : splits(j)
<1>1. Len(log) \in Nat /\ end \in Nat /\ end <= Len(log)
  OBVIOUS
<1>2. CASE boundary >= end
  <2>1. RepairBoundary(boundary, total) = boundary
    BY <1>2 DEF RepairBoundary
  <2>2. total <= Len(log) => boundary <= Len(log)
    OBVIOUS
  <2> QED BY <2>1, <2>2
<1>3. CASE boundary < end
  <2> DEFINE S == {i \in boundary..end : i < end => ~splits(i)}
  <2>1. end \in S /\ S \in SUBSET Nat
    BY <1>1, <1>3
  <2>2. PICK i \in S : \A j \in S : i <= j
    <3> HIDE DEF S
    <3> QED BY <2>1, LeastNatural
  <2>3. i \in boundary..end /\ (i < end => ~splits(i))
    BY <2>2
  <2>4. ASSUME NEW j \in boundary..(i - 1) PROVE splits(j)
    <3>1. j \in boundary..end /\ j < end /\ ~(i <= j)
      BY <1>1, <2>3, <2>4
    <3>2. j \notin S
      BY <2>2, <3>1
    <3> HIDE DEF splits
    <3> QED BY <3>1, <3>2
  <2>5. \E k \in boundary..end : fits(k)
    <3> HIDE DEF splits
    <3> QED BY <2>3, <2>4
  <2>6. RepairBoundary(boundary, total) = CHOOSE k \in boundary..end : fits(k)
    <3>1. ~(boundary >= end)
      BY <1>1, <1>3
    <3> QED BY <3>1, Zenon DEF RepairBoundary
  <2>7. RepairBoundary(boundary, total) \in boundary..end /\ fits(RepairBoundary(boundary, total))
    <3> HIDE DEF fits
    <3> QED BY <2>5, <2>6
  <2> QED BY <1>1, <2>7
<1> QED BY <1>1, <1>2, <1>3

-----------------------------------------------------------------------------
(* The log, the sidecar and what a pass reads of them *)

PassRecord == [on : BOOLEAN, loaded : Sidecars, chunk : SUBSET (1..MaxMessages),
               end : Nat, total : Nat, seen : SUBSET (1..MaxMessages),
               stale : BOOLEAN, clears : 0..MaxClears]

PassTypes == pass \in [Passes -> PassRecord] /\ \A p \in Passes : pass[p].end <= pass[p].total

\* The part of TypeOK about the passes.
LEMMA PassTyped == TypeOK => PassTypes
BY DEF TypeOK, PassTypes, PassRecord

\* What load_state yields: a sidecar that is not before the one on disk.
LEMMA LoadedFacts ==
  ASSUME TypeOK, LogInv
  PROVE  /\ Loaded \in Sidecars
         /\ Loaded.there \/ header = 0
         /\ Loaded.there \/ Loaded.through = 0
         /\ sidecar.through <= Loaded.through
         /\ sidecar.there \/ header = 0 => Loaded = sidecar
<1>1. CASE sidecar.there \/ header = 0
  <2>1. Loaded = sidecar
    BY <1>1 DEF Loaded, TypeOK
  <2> QED BY <1>1, <2>1 DEF TypeOK, Sidecars, LogInv
<1>2. CASE ~sidecar.there /\ header # 0
  <2>1. header \in Nat /\ header > 0 /\ header <= Len(log)
    BY <1>2 DEF TypeOK, LogInv
  <2>2. Loaded = [through |-> header, folded |-> {log[i].n : i \in 1..header}, there |-> TRUE]
    BY <1>2, <2>1 DEF Loaded
  <2>3. \A i \in 1..header : log[i] \in Messages
    BY <2>1 DEF TypeOK
  <2>4. {log[i].n : i \in 1..header} \subseteq 1..MaxMessages
    BY <2>3 DEF Messages
  <2> QED BY <1>2, <2>1, <2>2, <2>4 DEF Sidecars, LogInv
<1> QED BY <1>1, <1>2 DEF TypeOK, Sidecars

\* Loading once more what was saved yields the same.
LEMMA LoadedAgain ==
  ASSUME TypeOK, LogInv, sidecar' = Loaded, UNCHANGED <<log, header>>
  PROVE  Loaded' = Loaded
BY LoadedFacts DEF Loaded, TypeOK

\* An append changes nothing of what is loaded.
LEMMA LoadedAfterAppend ==
  ASSUME TypeOK, LogInv, NEW m \in Messages, log' = Append(log, m), UNCHANGED <<sidecar, header>>
  PROVE  Loaded' = Loaded
<1>1. \A i \in 1..header : log'[i] = log[i]
  BY DEF TypeOK, LogInv
<1>2. {log'[i].n : i \in 1..header} = {log[i].n : i \in 1..header}
  BY <1>1
<1> QED BY <1>2 DEF Loaded

\* Nor of what is accounted for.
LEMMA AccountsAfterAppend ==
  ASSUME TypeOK, NEW m \in Messages, log' = Append(log, m), NEW s \in Sidecars, NEW l \in Nat,
         Accounts(s, l)
  PROVE  /\ s.through <= Len(log') \/ s.through <= l
         /\ \A i \in (l + 1)..s.through :
               \/ log'[i].n \in s.folded
               \/ log'[i].role = "tool"
               \/ i > 1 /\ log'[i - 1].calls # {}
<1>1. s.through \in Nat /\ Len(log) \in Nat /\ Len(log') = Len(log) + 1
  BY DEF TypeOK, Sidecars
<1>2. \A i \in 1..Len(log) : log'[i] = log[i]
  BY DEF TypeOK
<1>0. s.through <= Len(log) \/ s.through <= l
  BY DEF Accounts
<1>3. ASSUME NEW i \in (l + 1)..s.through
      PROVE  \/ log'[i].n \in s.folded
             \/ log'[i].role = "tool"
             \/ i > 1 /\ log'[i - 1].calls # {}
  <2>1. i \in 1..Len(log) /\ (i > 1 => i - 1 \in 1..Len(log))
    BY <1>0, <1>1
  <2>2. log'[i] = log[i] /\ (i > 1 => log'[i - 1] = log[i - 1])
    BY <1>2, <2>1
  <2> QED BY <2>2 DEF Accounts
<1> QED BY <1>0, <1>1, <1>3

\* The higher the boundary an earlier log has left, the less is asked for.
LEMMA AccountsMore ==
  ASSUME NEW s \in Sidecars, NEW l \in Nat, NEW k \in Nat, l <= k, Accounts(s, l)
  PROVE  Accounts(s, k)
<1>1. s.through \in Nat
  BY DEF Sidecars
<1>2. \A i \in (k + 1)..s.through : i \in (l + 1)..s.through
  BY <1>1
<1>3. s.through <= Len(log) \/ s.through <= k
  <2>1. CASE s.through <= l
    BY <1>1, <2>1
  <2> QED BY <2>1 DEF Accounts
<1> QED BY <1>2, <1>3 DEF Accounts

\* Nothing is asked for of a boundary that an earlier log has left.
LEMMA AccountsLeft ==
  ASSUME NEW s \in Sidecars, NEW l \in Nat, s.through <= l
  PROVE  Accounts(s, l)
<1>1. (l + 1)..s.through = {}
  BY DEF Sidecars
<1> QED BY <1>1 DEF Accounts

\* What the memory files get of a summary.
LEMMA RememberFacts ==
  ASSUME TypeOK, NEW p \in Passes, NEW written, Remember(pass[p], written)
  PROVE  /\ memory' \subseteq 1..MaxMessages /\ entries' \subseteq 1..MaxMessages
         /\ torn' \subseteq 1..MaxMessages
         /\ entries \subseteq memory \cup torn /\ memory \subseteq pass[p].seen =>
               entries' \subseteq memory' \cup torn'
<1>1. pass[p].chunk \subseteq 1..MaxMessages /\ pass[p].seen \subseteq 1..MaxMessages
  BY PassTyped DEF PassTypes, PassRecord
<1>2. memory \subseteq 1..MaxMessages /\ entries \subseteq 1..MaxMessages
      /\ torn \subseteq 1..MaxMessages
  BY DEF TypeOK
<1>3. CASE written = "both"
  BY <1>1, <1>2, <1>3 DEF Remember
<1>4. CASE written # "both"
  BY <1>1, <1>2, <1>4 DEF Remember
<1> QED BY <1>3, <1>4

\* The chunk past a boundary ends in the log and has every message up to its end.
LEMMA ChunkFacts ==
  ASSUME TypeOK, NEW t \in Nat
  PROVE  /\ ChunkEnd(t) \in Nat /\ ChunkEnd(t) <= Len(log)
         /\ t <= Len(log) => t <= ChunkEnd(t)
         /\ {m.n : m \in ToSet(Slice(t, ChunkEnd(t)))} \subseteq 1..MaxMessages
         /\ \A i \in (t + 1)..ChunkEnd(t) : log[i].n \in {m.n : m \in ToSet(Slice(t, ChunkEnd(t)))}
<1> DEFINE e == ChunkEnd(t)
<1>1. /\ e \in Nat /\ e <= Len(log) /\ Len(log) \in Nat
      /\ t <= Len(log) => t <= e
  BY ConstantsAssumption DEF TypeOK, ChunkEnd
<1> HIDE DEF e
<1>2. Slice(t, e) = SubSeq(log, t + 1, e)
  BY <1>1 DEF Slice
<1>3. /\ DOMAIN SubSeq(log, t + 1, e) = 1..(IF t + 1 <= e THEN e - t ELSE 0)
      /\ \A i \in 1..(e - t) : SubSeq(log, t + 1, e)[i] = log[t + i]
  BY <1>1 DEF TypeOK
<1>4. \A m \in ToSet(Slice(t, e)) : \E i \in (t + 1)..e : m = log[i]
  <2> SUFFICES ASSUME NEW m \in ToSet(Slice(t, e)) PROVE \E i \in (t + 1)..e : m = log[i]
    OBVIOUS
  <2>1. PICK j \in DOMAIN SubSeq(log, t + 1, e) : m = SubSeq(log, t + 1, e)[j]
    BY <1>2 DEF ToSet
  <2>2. t + j \in (t + 1)..e /\ m = log[t + j]
    BY <1>1, <1>3, <2>1
  <2> QED BY <2>2
<1>5. \A i \in (t + 1)..e : log[i] \in ToSet(Slice(t, e))
  <2> SUFFICES ASSUME NEW i \in (t + 1)..e PROVE log[i] \in ToSet(Slice(t, e))
    OBVIOUS
  <2>1. i - t \in DOMAIN SubSeq(log, t + 1, e) /\ SubSeq(log, t + 1, e)[i - t] = log[i]
    BY <1>1, <1>3
  <2> QED BY <1>2, <2>1 DEF ToSet
<1>6. \A i \in (t + 1)..e : log[i] \in Messages
  BY <1>1 DEF TypeOK
<1>7. {m.n : m \in ToSet(Slice(t, e))} \subseteq 1..MaxMessages
  BY <1>4, <1>6 DEF Messages
<1>8. \A i \in (t + 1)..e : log[i].n \in {m.n : m \in ToSet(Slice(t, e))}
  BY <1>5
<1> QED BY <1>1, <1>7, <1>8 DEF e

-----------------------------------------------------------------------------
(* Three kinds of step, and what they keep *)

\* What an append, or a step that touches none of this, keeps.
LEMMA Appended ==
  ASSUME ConvInv,
         log' = log \/ \E m \in Messages : log' = Append(log, m),
         UNCHANGED <<header, sidecar, memory, entries, pass, clears, leftover, torn, overlap>>
  PROVE  PassInv' /\ BoundaryInv' /\ MemoryInv'
<1> USE DEF ConvInv
<1>1. PassInv'
  BY DEF PassInv
<1>2. MemoryInv'
  BY DEF MemoryInv
<1>3. BoundaryInv'
  <2>0. leftover \in Nat
    BY DEF TypeOK
  <2>1. CASE log' = log
    <3>1. Loaded' = Loaded
      BY <2>1 DEF Loaded
    <3> QED BY <2>1, <3>1 DEF BoundaryInv, Accounts
  <2>2. ASSUME NEW m \in Messages, log' = Append(log, m) PROVE BoundaryInv'
    <3>1. Loaded' = Loaded /\ Loaded \in Sidecars
      BY <2>2, LoadedAfterAppend, LoadedFacts
    <3>2. Accounts(Loaded, leftover)'
      <4>1. Accounts(Loaded, leftover)
        BY DEF BoundaryInv
      <4> QED BY <2>0, <2>2, <3>1, <4>1, AccountsAfterAppend DEF Accounts
    <3>3. ASSUME NEW p \in Passes, pass'[p].on, pass'[p].clears >= clears'
          PROVE  /\ Accounts(pass[p].loaded, leftover)'
                 /\ pass'[p].total <= Len(log')
                 /\ \A i \in (pass'[p].loaded.through + 1)..pass'[p].end :
                       log'[i].n \in pass'[p].chunk
      <4>1. /\ Accounts(pass[p].loaded, leftover)
            /\ pass[p].total <= Len(log)
            /\ \A i \in (pass[p].loaded.through + 1)..pass[p].end : log[i].n \in pass[p].chunk
        BY <3>3 DEF BoundaryInv
      <4>2. /\ pass[p].loaded \in Sidecars /\ pass[p].loaded.through \in Nat
            /\ pass[p].end \in Nat /\ pass[p].total \in Nat /\ pass[p].end <= pass[p].total
        BY PassTyped DEF PassTypes, PassRecord, Sidecars
      <4>3. Accounts(pass[p].loaded, leftover)'
        BY <2>0, <2>2, <4>1, <4>2, AccountsAfterAppend DEF Accounts
      <4>4. Len(log') = Len(log) + 1 /\ Len(log) \in Nat /\ \A i \in 1..Len(log) : log'[i] = log[i]
        BY <2>2 DEF TypeOK
      <4>5. \A i \in (pass[p].loaded.through + 1)..pass[p].end : i \in 1..Len(log)
        BY <4>1, <4>2, <4>4
      <4>6. \A i \in (pass[p].loaded.through + 1)..pass[p].end : log'[i].n \in pass[p].chunk
        BY <4>1, <4>4, <4>5
      <4>7. pass'[p].total <= Len(log')
        BY <4>1, <4>2, <4>4
      <4> QED BY <4>3, <4>6, <4>7
    <3> QED BY <3>2, <3>3 DEF BoundaryInv
  <2> QED BY <2>1, <2>2
<1> QED BY <1>1, <1>2, <1>3

\* What a step that loads the sidecar, and may begin a pass, keeps.
LEMMA Begun ==
  ASSUME ConvInv, sidecar' = Loaded,
         \/ UNCHANGED <<pass, overlap>>
         \/ \E p \in Passes : ~pass[p].on /\ Loaded.through <= Len(log) /\ BeginPass(p),
         UNCHANGED <<log, header, memory, entries, clears, leftover, torn>>
  PROVE  PassInv' /\ BoundaryInv' /\ MemoryInv'
<1> USE DEF ConvInv
<1>1. Loaded' = Loaded /\ Loaded \in Sidecars /\ Loaded.through \in Nat
  BY LoadedAgain, LoadedFacts DEF Sidecars
<1>2. \A q \in Passes : pass[q].on /\ ~pass[q].stale =>
         sidecar'.through <= pass[q].loaded.through /\ (sidecar'.there \/ header' = 0)
  BY LoadedFacts DEF PassInv
<1>3. CASE UNCHANGED <<pass, overlap>>
  <2>1. PassInv'
    BY <1>2, <1>3 DEF PassInv
  <2>2. BoundaryInv'
    BY <1>1, <1>3 DEF BoundaryInv, Accounts
  <2>3. MemoryInv'
    BY <1>3 DEF MemoryInv
  <2> QED BY <2>1, <2>2, <2>3
<1>4. ASSUME NEW p \in Passes, ~pass[p].on, Loaded.through <= Len(log), BeginPass(p)
      PROVE  PassInv' /\ BoundaryInv' /\ MemoryInv'
  <2> DEFINE chunk == {m.n : m \in ToSet(Slice(Loaded.through, ChunkEnd(Loaded.through)))}
             end == ChunkEnd(Loaded.through)
  <2>1. /\ \A q \in Passes \ {p} : pass'[q] = pass[q]
        /\ pass'[p] = [on |-> TRUE, loaded |-> Loaded, chunk |-> chunk, end |-> end,
                       total |-> Len(log), seen |-> memory, stale |-> FALSE, clears |-> clears]
    BY <1>4 DEF BeginPass, TypeOK
  <2>2. /\ Loaded.through <= end
        /\ \A i \in (Loaded.through + 1)..end : log[i].n \in chunk
    BY <1>1, <1>4, ChunkFacts
  <2> HIDE DEF chunk, end
  <2>3. PassInv'
    <3>1. clears <= clears'
      BY DEF TypeOK
    <3>2. sidecar'.through <= Loaded.through /\ (sidecar'.there \/ header' = 0)
      BY <1>1, LoadedFacts
    <3>3. ASSUME NEW q \in Passes, pass'[q].on
          PROVE  /\ pass'[q].loaded.through <= pass'[q].end
                 /\ pass'[q].clears <= clears'
                 /\ ~pass'[q].stale => /\ sidecar'.through <= pass'[q].loaded.through
                                       /\ sidecar'.there \/ header' = 0
      <4>1. CASE q = p
        BY <2>1, <2>2, <3>1, <3>2, <4>1
      <4>2. CASE q # p
        BY <1>2, <2>1, <3>3, <4>2 DEF PassInv
      <4> QED BY <4>1, <4>2
    <3> QED BY <3>3 DEF PassInv
  <2>4. BoundaryInv'
    <3>1. Accounts(Loaded, leftover) /\ Accounts(Loaded, leftover)'
      BY <1>1 DEF BoundaryInv, Accounts
    <3>2. ASSUME NEW q \in Passes, pass'[q].on, pass'[q].clears >= clears'
          PROVE  /\ Accounts(pass[q].loaded, leftover)'
                 /\ pass'[q].total <= Len(log')
                 /\ \A i \in (pass'[q].loaded.through + 1)..pass'[q].end :
                       log'[i].n \in pass'[q].chunk
      <4>1. CASE q = p
        <5>1. Accounts(pass[q].loaded, leftover)'
          BY <2>1, <3>1, <4>1 DEF Accounts
        <5>2. pass'[q].total <= Len(log')
          <6>1. pass'[q].total = Len(log) /\ Len(log) \in Nat
            BY <2>1, <4>1 DEF TypeOK
          <6> QED BY <6>1
        <5>3. \A i \in (pass'[q].loaded.through + 1)..pass'[q].end : log'[i].n \in pass'[q].chunk
          BY <2>1, <2>2, <4>1
        <5> QED BY <5>1, <5>2, <5>3
      <4>2. CASE q # p
        BY <2>1, <3>2, <4>2 DEF BoundaryInv, Accounts
      <4> QED BY <4>1, <4>2
    <3> QED BY <3>1, <3>2 DEF BoundaryInv
  <2>5. MemoryInv'
    <3>1. CASE overlap \/ \E q \in Passes \ {p} : pass[q].on
      BY <1>4, <3>1 DEF MemoryInv, BeginPass
    <3>2. CASE ~overlap /\ \A q \in Passes \ {p} : ~pass[q].on
      <4>1. \A q \in Passes : pass'[q].on => q = p
        BY <2>1, <3>2
      <4> QED BY <2>1, <3>2, <4>1 DEF MemoryInv
    <3> QED BY <3>1, <3>2
  <2> QED BY <2>3, <2>4, <2>5
<1> QED BY <1>3, <1>4

\* What the end of a pass keeps, if what it saves leaves nothing out.
LEMMA Ended ==
  ASSUME ConvInv, NEW p \in Passes, pass[p].on, NEW s \in Sidecars, s.there,
         sidecar' = s, EndPass(p),
         leftover' \in Nat, leftover <= leftover',
         pass[p].clears < clears => s.through <= leftover',
         BoundaryInv /\ pass[p].clears >= clears => Accounts(s, leftover),
         NEW written, Remember(pass[p], written),
         UNCHANGED <<log, header, clears, overlap>>
  PROVE  PassInv' /\ BoundaryInv' /\ MemoryInv'
<1> USE DEF ConvInv
<1>1. /\ pass'[p] = Off
      /\ \A q \in Passes \ {p} : pass'[q] = [pass[q] EXCEPT !.stale = (@ \/ pass[q].on)]
  BY DEF EndPass
<1>2. \A q \in Passes \ {p} : /\ pass'[q].on = pass[q].on
                              /\ pass'[q].loaded = pass[q].loaded
                              /\ pass'[q].chunk = pass[q].chunk
                              /\ pass'[q].end = pass[q].end
                              /\ pass'[q].total = pass[q].total
                              /\ pass'[q].seen = pass[q].seen
                              /\ pass'[q].clears = pass[q].clears
                              /\ pass[q].on => pass'[q].stale
  <2> SUFFICES ASSUME NEW q \in Passes \ {p}
               PROVE  /\ pass'[q].on = pass[q].on
                      /\ pass'[q].loaded = pass[q].loaded
                      /\ pass'[q].chunk = pass[q].chunk
                      /\ pass'[q].end = pass[q].end
                      /\ pass'[q].total = pass[q].total
                      /\ pass'[q].seen = pass[q].seen
                      /\ pass'[q].clears = pass[q].clears
                      /\ pass[q].on => pass'[q].stale
    OBVIOUS
  <2>1. pass'[q] = [pass[q] EXCEPT !.stale = (pass[q].stale \/ pass[q].on)]
    BY <1>1
  <2>2. pass[q] \in PassRecord
    BY PassTyped DEF PassTypes
  <2> QED BY <2>1, <2>2 DEF PassRecord
<1>3. ~pass'[p].on
  BY <1>1 DEF Off
<1>4. PassInv'
  <2>1. ASSUME NEW q \in Passes, pass'[q].on
        PROVE  /\ pass'[q].loaded.through <= pass'[q].end
               /\ pass'[q].clears <= clears'
               /\ pass'[q].stale
    BY <1>2, <1>3, <2>1 DEF PassInv
  <2> QED BY <2>1 DEF PassInv
<1>5. BoundaryInv'
  <2>0. leftover \in Nat /\ Loaded' = s
    BY DEF TypeOK, Loaded
  <2>1. Accounts(s, leftover')
    <3>1. CASE pass[p].clears < clears
      BY <3>1, AccountsLeft
    <3>2. CASE ~(pass[p].clears < clears)
      <4>1. pass[p].clears >= clears
        BY <3>2, PassTyped DEF TypeOK, PassTypes, PassRecord
      <4> QED BY <2>0, <4>1, AccountsMore
    <3> QED BY <3>1, <3>2
  <2>2. Accounts(Loaded, leftover)'
    BY <2>0, <2>1 DEF Accounts
  <2>3. ASSUME NEW q \in Passes, pass'[q].on, pass'[q].clears >= clears'
        PROVE  /\ Accounts(pass[q].loaded, leftover)'
               /\ pass'[q].total <= Len(log')
               /\ \A i \in (pass'[q].loaded.through + 1)..pass'[q].end :
                     log'[i].n \in pass'[q].chunk
    <3>1. q \in Passes \ {p}
      BY <1>3, <2>3
    <3>2. /\ Accounts(pass[q].loaded, leftover)
          /\ pass[q].total <= Len(log)
          /\ \A i \in (pass[q].loaded.through + 1)..pass[q].end : log[i].n \in pass[q].chunk
      BY <1>2, <2>3, <3>1 DEF BoundaryInv
    <3>3. pass[q].loaded \in Sidecars
      BY PassTyped DEF PassTypes, PassRecord
    <3>4. Accounts(pass[q].loaded, leftover')
      BY <2>0, <3>2, <3>3, AccountsMore
    <3>5. Accounts(pass[q].loaded, leftover)'
      BY <1>2, <3>1, <3>4 DEF Accounts
    <3> QED BY <1>2, <3>1, <3>2, <3>5
  <2> QED BY <2>2, <2>3 DEF BoundaryInv
<1>6. MemoryInv'
  <2>1. CASE overlap
    BY <2>1 DEF MemoryInv
  <2>2. CASE ~overlap
    <3>1. \A q \in Passes : ~pass'[q].on
      BY <1>2, <1>3, <2>2 DEF MemoryInv
    <3>2. entries \subseteq memory \cup torn /\ memory \subseteq pass[p].seen
      BY <2>2 DEF MemoryInv
    <3>3. entries' \subseteq memory' \cup torn'
      BY <3>2, RememberFacts
    <3> QED BY <3>1, <3>3 DEF MemoryInv
  <2> QED BY <2>1, <2>2
<1> QED BY <1>4, <1>5, <1>6

\* What a step keeps that ends passes and saves no sidecar, whatever one of them
\* has written of its summary.
LEMMA Stopped ==
  ASSUME ConvInv,
         \A q \in Passes : pass'[q].on => pass'[q] = pass[q],
         \/ UNCHANGED <<memory, entries, torn>>
         \/ \E p \in Passes : /\ pass[p].on /\ ~pass'[p].on
                              /\ \E written \in {"none", "entry", "both"} :
                                    Remember(pass[p], written),
         UNCHANGED <<log, header, sidecar, clears, leftover, overlap>>
  PROVE  PassInv' /\ BoundaryInv' /\ MemoryInv'
<1> USE DEF ConvInv
<1>1. PassInv'
  BY DEF PassInv
<1>2. BoundaryInv'
  <2>1. Loaded' = Loaded
    BY DEF Loaded
  <2> QED BY <2>1 DEF BoundaryInv, Accounts
<1>3. MemoryInv'
  <2>1. CASE overlap \/ UNCHANGED <<memory, entries, torn>>
    BY <2>1 DEF MemoryInv
  <2>2. ASSUME ~overlap, NEW p \in Passes, pass[p].on, ~pass'[p].on, NEW written,
               Remember(pass[p], written)
        PROVE  MemoryInv'
    <3>1. \A q \in Passes : ~pass'[q].on
      BY <2>2 DEF MemoryInv
    <3>2. entries \subseteq memory \cup torn /\ memory \subseteq pass[p].seen
      BY <2>2 DEF MemoryInv
    <3>3. entries' \subseteq memory' \cup torn'
      BY <2>2, <3>2, RememberFacts
    <3> QED BY <3>1, <3>3 DEF MemoryInv
  <2> QED BY <2>1, <2>2
<1> QED BY <1>1, <1>2, <1>3

\* The sidecar of a summary leaves nothing out but to keep a pair together.
LEMMA AdvancedFacts ==
  ASSUME ConvInv, NEW p \in Passes, pass[p].on
  PROVE  /\ Advanced(pass[p]) \in Sidecars /\ Advanced(pass[p]).there
         /\ pass[p].loaded.through <= Advanced(pass[p]).through
         /\ BoundaryInv /\ pass[p].clears >= clears => Accounts(Advanced(pass[p]), leftover)
<1> USE DEF ConvInv
<1> DEFINE w == pass[p]
           b == RepairBoundary(w.end, w.total)
<1>1. /\ w.loaded \in Sidecars /\ w.loaded.through \in Nat
      /\ w.loaded.folded \subseteq 1..MaxMessages /\ w.chunk \subseteq 1..MaxMessages
      /\ w.end \in Nat /\ w.total \in Nat /\ w.end <= w.total
  BY PassTyped DEF PassTypes, PassRecord, Sidecars
<1>2. log \in Seq(Messages)
  BY DEF TypeOK
<1>3. /\ b \in Nat /\ w.end <= b
      /\ w.total <= Len(log) => b <= Len(log)
      /\ \A i \in w.end..(b - 1) : \/ log[i + 1].role = "tool"
                                   \/ i \in DOMAIN log /\ log[i].calls # {}
  BY <1>1, <1>2, RepairFacts
<1>4. w.loaded.through <= w.end
  BY DEF PassInv
<1> HIDE DEF b
<1>5. Advanced(w) = [through |-> b, folded |-> w.loaded.folded \cup w.chunk, there |-> TRUE]
  BY DEF Advanced, b
<1>6. Advanced(w) \in Sidecars /\ Advanced(w).there
  BY <1>1, <1>3, <1>5 DEF Sidecars
<1>7. w.loaded.through <= Advanced(w).through
  BY <1>1, <1>3, <1>4, <1>5
<1>8. ASSUME BoundaryInv, w.clears >= clears
      PROVE  Accounts(Advanced(w), leftover)
  <2>0. leftover \in Nat
    BY DEF TypeOK
  <2>1. /\ Accounts(w.loaded, leftover) /\ w.total <= Len(log)
        /\ \A i \in (w.loaded.through + 1)..w.end : log[i].n \in w.chunk
    BY <1>8 DEF BoundaryInv
  <2>2. b <= Len(log)
    BY <1>3, <2>1
  <2>3. ASSUME NEW i \in (leftover + 1)..b
        PROVE  \/ log[i].n \in w.loaded.folded \cup w.chunk
               \/ log[i].role = "tool"
               \/ i > 1 /\ log[i - 1].calls # {}
    <3>1. CASE i <= w.loaded.through
      <4>1. i \in (leftover + 1)..w.loaded.through
        BY <1>1, <2>0, <3>1
      <4> QED BY <2>1, <4>1 DEF Accounts
    <3>2. CASE i > w.loaded.through /\ i <= w.end
      <4>1. i \in (w.loaded.through + 1)..w.end
        BY <1>1, <2>0, <3>2
      <4> QED BY <2>1, <4>1
    <3>3. CASE i > w.end
      <4>1. i - 1 \in w.end..(b - 1) /\ (i - 1) + 1 = i
        BY <1>1, <1>3, <2>0, <3>3
      <4>2. \/ log[i].role = "tool"
            \/ i - 1 \in DOMAIN log /\ log[i - 1].calls # {}
        BY <1>3, <4>1
      <4>3. i - 1 \in DOMAIN log => i > 1
        BY <1>2
      <4> QED BY <4>2, <4>3
    <3> QED BY <1>1, <1>3, <2>0, <3>1, <3>2, <3>3
  <2> QED BY <1>5, <2>2, <2>3 DEF Accounts
<1> QED BY <1>6, <1>7, <1>8

-----------------------------------------------------------------------------
(* Types, and the turn's hold on the log *)

Turns == [state : {"idle", "prompted", "open", "ending"}, owed : SUBSET CallIds, last : BOOLEAN]

\* An append, or a message dropped, keeps the types and LogInv.
LEMMA AppendTypes ==
  ASSUME TypeOK, LogInv, CanAppend, NEW next \in Turns, next.state # "idle",
         \/ \E m \in Messages : count < MaxMessages /\ AppendTo(m, next)
         \/ Dropped(next),
         UNCHANGED <<header, sidecar, memory, entries, redo, pass,
                     clears, crashes, leftover, torn, overlap>>
  PROVE  TypeOK' /\ LogInv' /\ (log' = log \/ \E m \in Messages : log' = Append(log, m))
<1>1. CASE Dropped(next)
  <2>1. turn' = [next EXCEPT !.last = FALSE] /\ log' = log /\ count' = count
    BY <1>1 DEF Dropped
  <2>2. turn' \in Turns /\ ~turn'.last
    BY <2>1 DEF Turns
  <2>3. TypeOK'
    BY <2>1, <2>2 DEF TypeOK, Turns
  <2>4. ~redo
    BY DEF CanAppend
  <2> QED BY <2>1, <2>2, <2>3, <2>4 DEF LogInv
<1>2. ASSUME NEW m \in Messages, count < MaxMessages, AppendTo(m, next)
      PROVE  TypeOK' /\ LogInv' /\ log' = Append(log, m)
  <2>1. turn' = [next EXCEPT !.last = TRUE] /\ log' = Append(log, m) /\ count' = count + 1
    BY <1>2 DEF AppendTo
  <2>2. turn' \in Turns /\ turn'.last /\ turn'.state # "idle"
    BY <2>1 DEF Turns
  <2>3. log' \in Seq(Messages) /\ Len(log') = Len(log) + 1 /\ Len(log) \in Nat /\ log' # <<>>
    <3>1. log \in Seq(Messages)
      BY DEF TypeOK
    <3> QED BY <2>1, <3>1
  <2>4. count' \in 0..MaxMessages
    BY <1>2, <2>1, ConstantsAssumption DEF TypeOK
  <2>5. TypeOK'
    BY <2>2, <2>3, <2>4 DEF TypeOK, Turns
  <2>6. header' <= Len(log')
    BY <2>3 DEF TypeOK, LogInv
  <2>7. ~redo'
    BY DEF CanAppend
  <2> QED BY <2>1, <2>2, <2>3, <2>5, <2>6, <2>7 DEF LogInv
<1> QED BY <1>1, <1>2

\* The messages a turn appends are messages.
LEMMA MessageTypes ==
  ASSUME NEW n \in 1..MaxMessages
  PROVE  /\ User(n) \in Messages /\ Reply(n) \in Messages
         /\ \A c \in CallIds : Tool(n, c) \in Messages
         /\ \A shape \in CallShapes :
               /\ Calls(n, shape.calls, shape.text) \in Messages
               /\ Calls(n, shape.calls, shape.text).calls \subseteq CallIds
<1>1. User(n) \in Messages /\ Reply(n) \in Messages
  BY DEF User, Reply, Messages
<1>2. \A c \in CallIds : Tool(n, c) \in Messages
  BY DEF User, Tool, Messages
<1>3. ASSUME NEW shape \in CallShapes
      PROVE  /\ Calls(n, shape.calls, shape.text) \in Messages
             /\ Calls(n, shape.calls, shape.text).calls \subseteq CallIds
  <2>1. shape.calls \in 1..2 /\ shape.text \in BOOLEAN
    BY ConstantsAssumption
  <2>2. (2 * n)..(2 * n + shape.calls - 1) \subseteq CallIds
    BY <2>1, ConstantsAssumption DEF CallIds
  <2> DEFINE ids == (2 * n)..(2 * n + shape.calls - 1)
  <2>3. Calls(n, shape.calls, shape.text) =
          [User(n) EXCEPT !.role = "assistant", !.calls = ids, !.text = shape.text]
    BY DEF Calls
  <2> HIDE DEF ids
  <2>4. ids \subseteq CallIds
    BY <2>2 DEF ids
  <2> QED BY <2>1, <2>3, <2>4 DEF User, Messages
<1> QED BY <1>1, <1>2, <1>3

\* Starting a pass keeps the types and LogInv.
LEMMA BeginTypes ==
  ASSUME TypeOK, LogInv, NEW p \in Passes, BeginPass(p)
  PROVE  /\ pass' \in [Passes -> PassRecord]
         /\ \A q \in Passes : pass'[q].end <= pass'[q].total
         /\ overlap' \in BOOLEAN
<1> DEFINE chunk == {m.n : m \in ToSet(Slice(Loaded.through, ChunkEnd(Loaded.through)))}
           end == ChunkEnd(Loaded.through)
           new == [on |-> TRUE, loaded |-> Loaded, chunk |-> chunk, end |-> end,
                   total |-> Len(log), seen |-> memory, stale |-> FALSE, clears |-> clears]
<1>1. Loaded \in Sidecars /\ Loaded.through \in Nat
  BY LoadedFacts DEF Sidecars
<1>2. end \in Nat /\ end <= Len(log) /\ chunk \subseteq 1..MaxMessages
  BY <1>1, ChunkFacts
<1>3. pass' = [pass EXCEPT ![p] = new]
  BY DEF BeginPass
<1> HIDE DEF chunk, end
<1>4. new \in PassRecord /\ new.end <= new.total
  <2>1. Len(log) \in Nat /\ memory \subseteq 1..MaxMessages /\ clears \in 0..MaxClears
    BY DEF TypeOK
  <2> QED BY <1>1, <1>2, <2>1 DEF PassRecord
<1> HIDE DEF new
<1>5. pass' \in [Passes -> PassRecord] /\ \A q \in Passes : pass'[q].end <= pass'[q].total
  BY <1>3, <1>4, PassTyped DEF PassTypes
<1>6. overlap' \in BOOLEAN
  BY DEF TypeOK, BeginPass
<1> QED BY <1>5, <1>6

\* Ending one does, too.
LEMMA EndTypes ==
  ASSUME TypeOK, NEW p \in Passes, EndPass(p)
  PROVE  /\ pass' \in [Passes -> PassRecord]
         /\ \A q \in Passes : pass'[q].end <= pass'[q].total
         /\ \A q \in Passes : pass'[q].on => pass[q].on
<1>1. PassTypes
  BY PassTyped
<1>2. Off \in PassRecord /\ Off.end <= Off.total /\ ~Off.on
  BY ConstantsAssumption DEF Off, PassRecord, NoSidecar, Sidecars
<1>3. ASSUME NEW q \in Passes
      PROVE  /\ pass'[q] \in PassRecord /\ pass'[q].end <= pass'[q].total
             /\ pass'[q].on => pass[q].on
  <2>1. CASE q = p
    BY <1>2, <2>1 DEF EndPass
  <2>2. CASE q # p
    <3>1. pass'[q] = [pass[q] EXCEPT !.stale = (pass[q].stale \/ pass[q].on)]
      BY <2>2 DEF EndPass
    <3>2. pass[q] \in PassRecord /\ pass[q].end <= pass[q].total
      BY <1>1 DEF PassTypes
    <3> QED BY <3>1, <3>2 DEF PassRecord
  <2> QED BY <2>1, <2>2
<1>4. pass' = [q \in Passes |-> pass'[q]]
  BY DEF EndPass
<1> QED BY <1>3, <1>4

-----------------------------------------------------------------------------
(* The invariant *)

\* The invariant holds at first: the session of an old version has its header.
LEMMA ConvInit == Init => ConvInv
<1> SUFFICES ASSUME Init PROVE ConvInv
  OBVIOUS
<1>1. header \in Nat /\ header <= MaxMessages /\ Len(log) = header
  BY ConstantsAssumption DEF Init
<1>2. log \in Seq(Messages)
  <2>1. \A i \in 1..header : User(i) \in Messages
    BY <1>1, MessageTypes, ConstantsAssumption
  <2> QED BY <1>1, <2>1 DEF Init
<1>3. Off \in PassRecord /\ Off.end <= Off.total /\ ~Off.on
  BY ConstantsAssumption DEF Off, PassRecord, NoSidecar, Sidecars
<1>4. pass \in [Passes -> PassRecord] /\ \A p \in Passes : pass[p].end <= pass[p].total /\ ~pass[p].on
  BY <1>3 DEF Init
<1>5. TypeOK
  <2>1. sidecar \in Sidecars /\ memory = {} /\ entries = {}
    BY DEF Init, NoSidecar, Sidecars
  <2>2. /\ turn \in [state : {"idle", "prompted", "open", "ending"}, owed : SUBSET CallIds,
                     last : BOOLEAN]
        /\ redo \in BOOLEAN
    BY DEF Init, Idle
  <2>3. count \in 0..MaxMessages /\ clears \in 0..MaxClears /\ crashes \in 0..MaxCrashes
    BY <1>1, ConstantsAssumption DEF Init
  <2>4. leftover \in Nat /\ torn \subseteq 1..MaxMessages /\ overlap \in BOOLEAN
    BY DEF Init
  <2> QED BY <1>1, <1>2, <1>4, <2>1, <2>2, <2>3, <2>4 DEF TypeOK, PassRecord
<1>6. LogInv
  BY <1>1, <1>4 DEF Init, LogInv, NoSidecar, Idle, Passes
<1>7. PassInv
  BY <1>4 DEF PassInv
<1>8. MemoryInv
  BY <1>4 DEF Init, MemoryInv
<1>9. BoundaryInv
  <2>1. Loaded \in Sidecars /\ Loaded.through = header
    BY <1>1, <1>5, <1>6, LoadedFacts DEF Init, Loaded, NoSidecar
  <2>2. \A i \in 1..Loaded.through : log[i].n \in Loaded.folded
    BY <1>1, <2>1 DEF Init, Loaded, NoSidecar
  <2>3. leftover = 0 /\ (0 + 1)..Loaded.through = 1..Loaded.through
    BY <1>1, <2>1 DEF Init
  <2>4. Accounts(Loaded, leftover)
    BY <1>1, <2>1, <2>2, <2>3 DEF Accounts
  <2> QED BY <1>4, <2>4 DEF BoundaryInv
<1> QED BY <1>5, <1>6, <1>7, <1>8, <1>9 DEF ConvInv

\* The turn's appends keep the invariant.
LEMMA AppendSteps ==
  ASSUME ConvInv, AppendUser \/ AppendCalls \/ AppendTool \/ AppendReply
  PROVE  ConvInv'
<1> USE DEF ConvInv
<1>1. turn \in Turns
  BY DEF TypeOK, Turns
<1>2. count < MaxMessages => count + 1 \in 1..MaxMessages
  BY ConstantsAssumption DEF TypeOK
<1>3. \E next \in Turns :
         /\ next.state # "idle"
         /\ \/ \E m \in Messages : count < MaxMessages /\ AppendTo(m, next)
            \/ Dropped(next)
  <2>1. CASE AppendUser
    <3>1. [turn EXCEPT !.state = "open"] \in Turns /\ [turn EXCEPT !.state = "open"].state # "idle"
      BY <1>1 DEF Turns
    <3>2. \/ count < MaxMessages /\ AppendTo(User(count + 1), [turn EXCEPT !.state = "open"])
          \/ Dropped([turn EXCEPT !.state = "open"])
      BY <2>1 DEF AppendUser
    <3> QED BY <1>2, <3>1, <3>2, MessageTypes
  <2>2. CASE AppendCalls
    <3>1. PICK shape \in CallShapes :
             AppendTo(Calls(count + 1, shape.calls, shape.text),
                      [turn EXCEPT !.owed = Calls(count + 1, shape.calls, shape.text).calls])
      BY <2>2 DEF AppendCalls
    <3> DEFINE m == Calls(count + 1, shape.calls, shape.text)
    <3>2. count < MaxMessages /\ turn.state = "open"
      BY <2>2 DEF AppendCalls
    <3>3. m \in Messages /\ m.calls \subseteq CallIds
      BY <1>2, <3>2, MessageTypes
    <3>4. AppendTo(m, [turn EXCEPT !.owed = m.calls])
      BY <3>1
    <3> HIDE DEF m
    <3>5. [turn EXCEPT !.owed = m.calls] \in Turns /\ [turn EXCEPT !.owed = m.calls].state # "idle"
      BY <1>1, <3>2, <3>3 DEF Turns
    <3> QED BY <3>2, <3>3, <3>4, <3>5
  <2>3. CASE AppendTool
    <3>1. PICK c \in turn.owed : AppendTo(Tool(count + 1, c), [turn EXCEPT !.owed = turn.owed \ {c}])
      BY <2>3 DEF AppendTool
    <3>2. count < MaxMessages /\ turn.state = "open"
      BY <2>3 DEF AppendTool
    <3>3. c \in CallIds /\ Tool(count + 1, c) \in Messages
      BY <1>1, <1>2, <3>2, MessageTypes DEF Turns
    <3>4. /\ [turn EXCEPT !.owed = turn.owed \ {c}] \in Turns
          /\ [turn EXCEPT !.owed = turn.owed \ {c}].state # "idle"
      BY <1>1, <3>2 DEF Turns
    <3> QED BY <3>1, <3>2, <3>3, <3>4
  <2>4. CASE AppendReply
    <3> DEFINE next == [turn EXCEPT !.state = "ending", !.owed = {}]
    <3>1. next \in Turns /\ next.state # "idle"
      BY <1>1 DEF Turns
    <3>2. \/ count < MaxMessages /\ AppendTo(Reply(count + 1), next)
          \/ Dropped(next)
      BY <2>4 DEF AppendReply
    <3> HIDE DEF next
    <3> QED BY <1>2, <3>1, <3>2, MessageTypes
  <2> QED BY <2>1, <2>2, <2>3, <2>4
<1>4. CanAppend /\ UNCHANGED <<header, sidecar, memory, entries, redo, pass,
                               clears, crashes, leftover, torn, overlap>>
  BY DEF AppendUser, AppendCalls, AppendTool, AppendReply
<1>5. TypeOK' /\ LogInv' /\ (log' = log \/ \E m \in Messages : log' = Append(log, m))
  BY <1>3, <1>4, AppendTypes
<1>6. PassInv' /\ BoundaryInv' /\ MemoryInv'
  BY <1>4, <1>5, Appended
<1> QED BY <1>5, <1>6

\* So does an append that is made again.
LEMMA AppendAgainStep ==
  ASSUME ConvInv, AppendAgain
  PROVE  ConvInv'
<1> USE DEF ConvInv
<1>1. log # <<>> /\ log \in Seq(Messages)
  BY DEF AppendAgain, LogInv, TypeOK
<1>2. Last(log) \in Messages
  BY <1>1 DEF Last
<1>3. log' = Append(log, Last(log)) /\ redo' = FALSE
      /\ UNCHANGED <<header, sidecar, memory, entries, turn, pass, history>>
  BY DEF AppendAgain
<1>4. log' \in Seq(Messages) /\ Len(log') = Len(log) + 1 /\ Len(log) \in Nat /\ log' # <<>>
  BY <1>1, <1>2, <1>3
<1>5. TypeOK'
  BY <1>3, <1>4 DEF TypeOK, history
<1>6. LogInv'
  BY <1>3, <1>4 DEF LogInv, TypeOK
<1>7. PassInv' /\ BoundaryInv' /\ MemoryInv'
  BY <1>2, <1>3, Appended DEF history
<1> QED BY <1>5, <1>6, <1>7

\* So do the steps that load the sidecar and may begin a pass.
LEMMA LoadSteps ==
  ASSUME ConvInv, BuildPrompt \/ PostTurn \/ Recover
  PROVE  ConvInv'
<1> USE DEF ConvInv
<1>1. Loaded \in Sidecars /\ Loaded.through \in Nat /\ (Loaded.there \/ Loaded.through = 0)
  BY LoadedFacts DEF Sidecars
<1>2. CASE BuildPrompt
  <2>1. /\ turn' = [state |-> "prompted", owed |-> {}, last |-> FALSE]
        /\ turn.state = "idle" /\ sidecar' = Loaded
        /\ UNCHANGED <<log, header, memory, entries, redo, pass, history>>
    BY <1>2 DEF BuildPrompt, Idle
  <2>2. TypeOK'
    BY <1>1, <2>1 DEF TypeOK, history
  <2>3. LogInv'
    BY <1>1, <2>1 DEF LogInv
  <2>4. PassInv' /\ BoundaryInv' /\ MemoryInv'
    BY <2>1, Begun DEF history
  <2> QED BY <2>2, <2>3, <2>4
<1>3. CASE PostTurn
  <2>1. /\ turn' = Idle /\ ~redo
        /\ UNCHANGED <<log, header, memory, entries, redo, count, clears, crashes, leftover,
                       torn>>
    BY <1>3 DEF PostTurn
  <2>2. \/ UNCHANGED <<sidecar, pass, overlap>>
        \/ sidecar' = Loaded /\ UNCHANGED <<pass, overlap>>
        \/ /\ sidecar' = Loaded /\ BeginPass("maintain") /\ ~pass["maintain"].on
           /\ ~(Len(log) - Loaded.through < Window)
    BY <1>3 DEF PostTurn, Maintain
  <2>3. ~(Len(log) - Loaded.through < Window) => Loaded.through <= Len(log)
    BY <1>1, ConstantsAssumption DEF TypeOK
  <2>4. /\ pass' \in [Passes -> PassRecord] /\ overlap' \in BOOLEAN
        /\ \A p \in Passes : pass'[p].end <= pass'[p].total
        /\ sidecar' \in Sidecars
        /\ sidecar'.there \/ sidecar'.through = 0
    <3>1. "maintain" \in Passes
      BY DEF Passes
    <3>2. /\ pass' \in [Passes -> PassRecord] /\ overlap' \in BOOLEAN
          /\ \A p \in Passes : pass'[p].end <= pass'[p].total
      BY <2>2, <3>1, PassTyped, BeginTypes DEF PassTypes, TypeOK
    <3>3. sidecar' \in Sidecars /\ (sidecar'.there \/ sidecar'.through = 0)
      BY <1>1, <2>2 DEF TypeOK, LogInv
    <3> QED BY <3>2, <3>3
  <2>5. TypeOK'
    BY <2>1, <2>4 DEF TypeOK, PassRecord, Idle
  <2>6. LogInv'
    BY <2>1, <2>4 DEF LogInv, Idle
  <2>7. PassInv' /\ BoundaryInv' /\ MemoryInv'
    <3>1. CASE UNCHANGED <<sidecar, pass, overlap>>
      BY <2>1, <3>1, Appended
    <3>2. CASE sidecar' = Loaded /\ UNCHANGED <<pass, overlap>>
      BY <2>1, <3>2, Begun
    <3>3. CASE sidecar' = Loaded /\ BeginPass("maintain") /\ ~pass["maintain"].on
               /\ ~(Len(log) - Loaded.through < Window)
      <4>1. "maintain" \in Passes
        BY DEF Passes
      <4> QED BY <2>1, <2>3, <3>3, <4>1, Begun
    <3> QED BY <2>2, <3>1, <3>2, <3>3
  <2> QED BY <2>5, <2>6, <2>7
<1>4. CASE Recover
  <2>1. /\ ~redo /\ ~pass["recover"].on /\ Len(log) > Loaded.through
        /\ sidecar' = Loaded /\ BeginPass("recover")
        /\ UNCHANGED <<log, header, memory, entries, turn, redo, count, clears, crashes,
                       leftover, torn>>
    BY <1>4 DEF Recover, CanAppend, journal
  <2>2. "recover" \in Passes
    BY DEF Passes
  <2>3. TypeOK'
    BY <1>1, <2>1, <2>2, BeginTypes DEF TypeOK, PassRecord
  <2>4. LogInv'
    BY <1>1, <2>1 DEF LogInv
  <2>5. Loaded.through <= Len(log)
    BY <1>1, <2>1 DEF TypeOK
  <2>6. PassInv' /\ BoundaryInv' /\ MemoryInv'
    BY <2>1, <2>2, <2>5, Begun
  <2> QED BY <2>3, <2>4, <2>6
<1> QED BY <1>2, <1>3, <1>4

\* So does the end of a pass that saves.
LEMMA EndSteps ==
  ASSUME ConvInv, (\E p \in Passes : Summarized(p)) \/ MaintainFails
  PROVE  ConvInv'
<1> USE DEF ConvInv
<1>0. leftover \in Nat
  BY DEF TypeOK
<1>1. \E p \in Passes, s \in Sidecars, written \in {"none", "entry", "both"} :
         /\ pass[p].on /\ s.there /\ sidecar' = s /\ EndPass(p)
         /\ leftover' = IF pass[p].clears < clears /\ s.through > leftover
                        THEN s.through ELSE leftover
         /\ BoundaryInv /\ pass[p].clears >= clears => Accounts(s, leftover)
         /\ Remember(pass[p], written)
  <2>1. ASSUME NEW p \in Passes, Summarized(p)
        PROVE  /\ pass[p].on /\ EndPass(p)
               /\ Advanced(pass[p]) \in Sidecars /\ Advanced(pass[p]).there
               /\ sidecar' = Advanced(pass[p])
               /\ leftover' = IF pass[p].clears < clears /\ Advanced(pass[p]).through > leftover
                              THEN Advanced(pass[p]).through ELSE leftover
               /\ BoundaryInv /\ pass[p].clears >= clears =>
                     Accounts(Advanced(pass[p]), leftover)
               /\ Remember(pass[p], "both")
    <3>1. pass[p].on /\ EndPass(p) /\ Saved(p, Advanced(pass[p])) /\ Remember(pass[p], "both")
      BY <2>1 DEF Summarized
    <3>2. /\ Advanced(pass[p]) \in Sidecars /\ Advanced(pass[p]).there
          /\ BoundaryInv /\ pass[p].clears >= clears => Accounts(Advanced(pass[p]), leftover)
      BY <3>1, AdvancedFacts
    <3>3. sidecar' = Advanced(pass[p])
      <4>1. sidecar' = [Advanced(pass[p]) EXCEPT !.there = TRUE]
        BY <3>1 DEF Saved
      <4> HIDE DEF ConvInv
      <4> QED BY <3>2, <4>1 DEF Sidecars
    <3> QED BY <3>1, <3>2, <3>3 DEF Saved
  <2>2. ASSUME MaintainFails
        PROVE  \E s \in Sidecars, written \in {"none", "entry"} :
                 /\ pass["maintain"].on /\ EndPass("maintain") /\ s.there /\ sidecar' = s
                 /\ leftover' = IF pass["maintain"].clears < clears /\ s.through > leftover
                                THEN s.through ELSE leftover
                 /\ BoundaryInv /\ pass["maintain"].clears >= clears => Accounts(s, leftover)
                 /\ Remember(pass["maintain"], written)
    <3> DEFINE w == pass["maintain"]
               s == [w.loaded EXCEPT !.there = TRUE]
    <3>1. w.on /\ EndPass("maintain") /\ Saved("maintain", w.loaded)
      BY <2>2 DEF MaintainFails
    <3>7. PICK written \in {"none", "entry"} : Remember(pass["maintain"], written)
      BY <2>2 DEF MaintainFails
    <3>2. w.loaded \in Sidecars
      BY PassTyped DEF PassTypes, PassRecord, Passes
    <3>3. s \in Sidecars /\ s.there /\ s.through = w.loaded.through /\ s.folded = w.loaded.folded
      BY <3>2 DEF Sidecars
    <3>4. ASSUME BoundaryInv, w.clears >= clears PROVE Accounts(w.loaded, leftover)
      BY <3>1, <3>4 DEF BoundaryInv, Passes
    <3>5. Accounts(w.loaded, leftover) => Accounts(s, leftover)
      BY <3>3 DEF Accounts
    <3>6. /\ sidecar' = s
          /\ leftover' = IF w.clears < clears /\ w.loaded.through > leftover
                         THEN w.loaded.through ELSE leftover
      BY <3>1 DEF Saved
    <3> HIDE DEF s
    <3> QED BY <3>1, <3>3, <3>4, <3>5, <3>6, <3>7
  <2>3. "maintain" \in Passes
    BY DEF Passes
  <2>4. CASE \E p \in Passes : Summarized(p)
    BY <2>1, <2>4
  <2>5. CASE MaintainFails
    BY <2>2, <2>3, <2>5
  <2> QED BY <2>4, <2>5
<1>2. UNCHANGED <<log, header, turn, redo, count, clears, crashes, overlap>>
  BY DEF Summarized, MaintainFails, journal
<1>3. PICK p \in Passes, s \in Sidecars, written \in {"none", "entry", "both"} :
         /\ pass[p].on /\ s.there /\ sidecar' = s /\ EndPass(p)
         /\ leftover' = IF pass[p].clears < clears /\ s.through > leftover
                        THEN s.through ELSE leftover
         /\ BoundaryInv /\ pass[p].clears >= clears => Accounts(s, leftover)
         /\ Remember(pass[p], written)
  BY <1>1
<1>l. /\ leftover' \in Nat /\ leftover <= leftover'
      /\ pass[p].clears < clears => s.through <= leftover'
  BY <1>0, <1>3 DEF Sidecars
<1>4. PassInv' /\ BoundaryInv' /\ MemoryInv'
  BY <1>2, <1>3, <1>l, Ended
<1>5. /\ pass' \in [Passes -> PassRecord]
      /\ \A q \in Passes : pass'[q].end <= pass'[q].total
      /\ \A q \in Passes : pass'[q].on => pass[q].on
  BY <1>3, EndTypes
<1>6. /\ memory' \subseteq 1..MaxMessages /\ entries' \subseteq 1..MaxMessages
      /\ torn' \subseteq 1..MaxMessages
  BY <1>3, RememberFacts
<1>7. leftover' \in Nat /\ sidecar' \in Sidecars /\ sidecar'.there
  BY <1>3, <1>l
<1>8. TypeOK'
  BY <1>2, <1>5, <1>6, <1>7 DEF TypeOK, PassRecord
<1>9. LogInv'
  BY <1>2, <1>5, <1>7 DEF LogInv, Passes
<1> QED BY <1>4, <1>8, <1>9

\* So does the end of a pass that saves no sidecar.
LEMMA StopSteps ==
  ASSUME ConvInv, RecoverFails \/ \E p \in Passes : SaveFails(p)
  PROVE  ConvInv'
<1> USE DEF ConvInv
<1>1. PICK p \in Passes, written \in {"none", "entry", "both"} :
         /\ pass[p].on /\ pass' = [pass EXCEPT ![p] = Off] /\ Remember(pass[p], written)
         /\ \/ turn' = turn /\ p = "maintain"
            \/ turn' = [turn EXCEPT !.state = "ending", !.last = FALSE] /\ p = "recover"
         /\ UNCHANGED <<log, header, sidecar, redo, count, clears, crashes, leftover, overlap>>
  <2>1. CASE RecoverFails
    BY <2>1 DEF RecoverFails, Passes
  <2>2. CASE \E p \in Passes : SaveFails(p)
    BY <2>2 DEF SaveFails, Passes
  <2> QED BY <2>1, <2>2
<1>2. Off \in PassRecord /\ Off.end <= Off.total /\ ~Off.on
  BY ConstantsAssumption DEF Off, PassRecord, NoSidecar, Sidecars
<1>3. /\ pass' \in [Passes -> PassRecord] /\ ~pass'[p].on
      /\ \A q \in Passes : /\ pass'[q].end <= pass'[q].total
                           /\ pass'[q].on => pass'[q] = pass[q]
  BY <1>1, <1>2, PassTyped DEF PassTypes
<1>4. /\ memory' \subseteq 1..MaxMessages /\ entries' \subseteq 1..MaxMessages
      /\ torn' \subseteq 1..MaxMessages
  BY <1>1, RememberFacts
<1>5. turn' \in Turns
  BY <1>1 DEF TypeOK, Turns
<1>6. TypeOK'
  BY <1>1, <1>3, <1>4, <1>5 DEF TypeOK, PassRecord, Turns
<1>7. LogInv'
  <2>1. CASE turn' = turn
    BY <1>1, <1>3, <2>1 DEF LogInv
  <2>2. CASE turn' = [turn EXCEPT !.state = "ending", !.last = FALSE] /\ p = "recover"
    <3>1. ~turn'.last /\ ~redo
      BY <1>1, <2>2 DEF TypeOK, LogInv
    <3> QED BY <1>1, <1>3, <3>1 DEF LogInv
  <2> QED BY <1>1, <2>1, <2>2
<1>8. PassInv' /\ BoundaryInv' /\ MemoryInv'
  BY <1>1, <1>3, Stopped
<1> QED BY <1>6, <1>7, <1>8

\* So does a clear, even if it is cut short: every pass in flight is from before
\* it, and the boundary is either gone or one that the earlier log has left.
LEMMA ClearStep ==
  ASSUME ConvInv, Clear \/ CrashInClear
  PROVE  ConvInv'
<1> USE DEF ConvInv
<1>0. sidecar \in Sidecars /\ sidecar.through \in Nat /\ NoSidecar \in Sidecars
  BY DEF TypeOK, NoSidecar, Sidecars
<1>1. /\ turn.state = "idle" /\ clears < MaxClears /\ clears' = clears + 1
      /\ log' = <<>> /\ header' = 0
      /\ \/ sidecar' = NoSidecar /\ leftover' = 0
         \/ sidecar' = sidecar /\ leftover' = sidecar.through
      /\ crashes' \in 0..MaxCrashes
      /\ UNCHANGED <<memory, entries, turn, redo, count, torn, overlap>>
  <2>1. CASE Clear
    BY <2>1 DEF Clear, ClearLog, journal, TypeOK
  <2>2. CASE CrashInClear
    BY <2>2, ConstantsAssumption DEF CrashInClear, ClearLog, Dies, journal, TypeOK
  <2> QED BY <2>1, <2>2
<1>2. ASSUME NEW q \in Passes
      PROVE  /\ pass'[q] \in PassRecord /\ pass'[q].end <= pass'[q].total
             /\ pass'[q].on => /\ pass[q].on /\ pass'[q].loaded = pass[q].loaded
                               /\ pass'[q].end = pass[q].end
                               /\ pass'[q].seen = pass[q].seen /\ pass'[q].clears = pass[q].clears
                               /\ pass'[q].stale
  <2>1. pass[q] \in PassRecord /\ pass[q].end <= pass[q].total
    BY PassTyped DEF PassTypes
  <2>2. CASE Clear
    <3>1. pass'[q] = [pass[q] EXCEPT !.stale = (pass[q].stale \/ pass[q].on)]
      BY <2>2 DEF Clear
    <3> QED BY <2>1, <3>1 DEF PassRecord
  <2>3. CASE CrashInClear
    <3>1. pass'[q] = Off
      BY <2>3 DEF CrashInClear, Dies
    <3>2. Off \in PassRecord /\ Off.end <= Off.total /\ ~Off.on
      BY ConstantsAssumption DEF Off, PassRecord, NoSidecar, Sidecars
    <3> QED BY <3>1, <3>2
  <2> QED BY <2>2, <2>3
<1>3. pass' \in [Passes -> PassRecord]
  <2>1. pass' = [q \in Passes |-> pass'[q]]
    BY DEF Clear, CrashInClear, Dies
  <2> QED BY <1>2, <2>1
<1>4. clears \in Nat /\ clears' \in 0..MaxClears
  BY <1>1, ConstantsAssumption DEF TypeOK
<1>5. TypeOK'
  <2>1. sidecar' \in Sidecars /\ log' \in Seq(Messages) /\ header' \in Nat /\ leftover' \in Nat
    BY <1>0, <1>1
  <2> QED BY <1>1, <1>2, <1>3, <1>4, <2>1 DEF TypeOK, PassRecord
<1>6. LogInv'
  <2>1. turn.last = FALSE /\ redo = FALSE
    BY <1>1 DEF LogInv, TypeOK
  <2>2. header' <= Len(log')
    BY <1>1
  <2> QED BY <1>1, <1>2, <2>1, <2>2 DEF LogInv, NoSidecar, Passes
<1>7. PassInv'
  <2>1. ASSUME NEW q \in Passes, pass'[q].on
        PROVE  /\ pass'[q].loaded.through <= pass'[q].end
               /\ pass'[q].clears <= clears' /\ pass'[q].stale
    <3>1. pass[q].clears \in Nat
      BY PassTyped DEF PassTypes, PassRecord
    <3> QED BY <1>1, <1>2, <1>4, <2>1, <3>1 DEF PassInv
  <2> QED BY <2>1 DEF PassInv
<1>8. BoundaryInv'
  <2>0. ~(header' > 0)
    BY <1>1
  <2>l. Loaded' = sidecar'
    BY <2>0 DEF Loaded
  <2>s. sidecar' \in Sidecars
    BY <1>0, <1>1
  <2>t. leftover' \in Nat /\ sidecar'.through <= leftover'
    <3>1. CASE sidecar' = NoSidecar /\ leftover' = 0
      BY <3>1 DEF NoSidecar
    <3>2. CASE sidecar' = sidecar /\ leftover' = sidecar.through
      BY <3>2, <1>0
    <3> QED BY <1>1, <3>1, <3>2
  <2>1. Loaded' = sidecar' /\ sidecar' \in Sidecars /\ leftover' \in Nat
        /\ sidecar'.through <= leftover'
    BY <2>l, <2>s, <2>t
  <2>2. Accounts(sidecar', leftover')
    BY <2>1, AccountsLeft
  <2>3. Accounts(Loaded, leftover)'
    <3>1. (leftover' + 1)..sidecar'.through = {}
      BY <2>1 DEF Sidecars
    <3> QED BY <2>1, <3>1 DEF Accounts
  <2>4. \A q \in Passes : pass'[q].on => ~(pass'[q].clears >= clears')
    <3>1. ASSUME NEW q \in Passes, pass'[q].on PROVE ~(pass'[q].clears >= clears')
      <4>1. pass[q].clears \in Nat /\ pass[q].clears <= clears
        BY <1>2, <3>1, PassTyped DEF PassTypes, PassRecord, PassInv
      <4> QED BY <1>1, <1>2, <1>4, <3>1, <4>1
    <3> QED BY <3>1
  <2> QED BY <2>3, <2>4 DEF BoundaryInv
<1>9. MemoryInv'
  BY <1>1, <1>2 DEF MemoryInv
<1> QED BY <1>5, <1>6, <1>7, <1>8, <1>9

\* So does a crash, which ends every pass.
LEMMA CrashStep ==
  ASSUME ConvInv, Crash
  PROVE  ConvInv'
<1> USE DEF ConvInv
<1>1. /\ crashes < MaxCrashes /\ crashes' = crashes + 1
      /\ pass' = [p \in Passes |-> Off] /\ redo' \in {redo, turn.last}
      /\ UNCHANGED <<log, header, sidecar, turn, count, clears, leftover, overlap>>
  BY DEF Crash, Dies
<1>m. \/ UNCHANGED <<memory, entries, torn>>
      \/ \E p \in Passes, written \in {"entry", "both"} :
            pass[p].on /\ Remember(pass[p], written)
  BY DEF Crash
<1>2. Off \in PassRecord /\ Off.end <= Off.total /\ ~Off.on
  BY ConstantsAssumption DEF Off, PassRecord, NoSidecar, Sidecars
<1>3. /\ pass' \in [Passes -> PassRecord]
      /\ \A q \in Passes : ~pass'[q].on /\ pass'[q].end <= pass'[q].total
  BY <1>1, <1>2
<1>4. crashes' \in 0..MaxCrashes /\ redo' \in BOOLEAN
  BY <1>1, ConstantsAssumption DEF TypeOK
<1>t. /\ memory' \subseteq 1..MaxMessages /\ entries' \subseteq 1..MaxMessages
      /\ torn' \subseteq 1..MaxMessages
  BY <1>m, RememberFacts DEF TypeOK
<1>5. TypeOK'
  BY <1>1, <1>3, <1>4, <1>t DEF TypeOK, PassRecord
<1>6. LogInv'
  BY <1>1, <1>3 DEF LogInv, Passes
<1>7. PassInv' /\ BoundaryInv' /\ MemoryInv'
  BY <1>1, <1>3, <1>m, Stopped
<1> QED BY <1>5, <1>6, <1>7

\* No step breaks the invariant.
LEMMA ConvStep == ConvInv /\ [Next]_vars => ConvInv'
<1> SUFFICES ASSUME ConvInv, [Next]_vars PROVE ConvInv'
  OBVIOUS
<1>1. CASE BuildPrompt \/ PostTurn \/ Recover
  BY <1>1, LoadSteps
<1>2. CASE AppendUser \/ AppendCalls \/ AppendTool \/ AppendReply
  BY <1>2, AppendSteps
<1>3. CASE AppendAgain
  BY <1>3, AppendAgainStep
<1>4. CASE (\E p \in Passes : Summarized(p)) \/ MaintainFails
  BY <1>4, EndSteps
<1>5. CASE RecoverFails \/ \E p \in Passes : SaveFails(p)
  BY <1>5, StopSteps
<1>6. CASE Clear \/ CrashInClear
  BY <1>6, ClearStep
<1>7. CASE Crash
  BY <1>7, CrashStep
<1>8. CASE UNCHANGED vars
  <2>1. UNCHANGED <<log, header, sidecar, memory, entries, turn, redo, pass, count, clears,
                    crashes, leftover, torn, overlap>>
    BY <1>8 DEF vars, files, journal, history
  <2>2. TypeOK' /\ LogInv'
    BY <2>1 DEF ConvInv, TypeOK, LogInv
  <2>3. PassInv' /\ BoundaryInv' /\ MemoryInv'
    BY <2>1, Appended
  <2> QED BY <2>2, <2>3 DEF ConvInv
<1> QED BY <1>1, <1>2, <1>3, <1>4, <1>5, <1>6, <1>7, <1>8 DEF Next, TurnStep

\* Every state has the invariant: what a pass in flight holds stays true of the
\* log and the files until it ends, or a history variable says why not.
THEOREM ConversationSafety == Spec => []ConvInv
<1>1. Init => ConvInv
  BY ConvInit
<1>2. ConvInv /\ [Next]_vars => ConvInv'
  BY ConvStep
<1> QED BY <1>1, <1>2, PTL DEF Spec

\* The log, the sidecar, the memory files, the turn and the passes in flight
\* have their types.
THEOREM ConversationTypes == Spec => []TypeOK
<1>1. ConvInv => TypeOK
  BY DEF ConvInv
<1> QED BY <1>1, ConversationSafety, PTL

\* Nothing before the boundary was left out of the summary but to keep a call
\* and its results together, or because it lies before a boundary that a clear
\* cut short, or a pass it overtook, has left of an earlier log: load_state, the
\* chunk and _repair_boundary agree.
THEOREM NothingLeftOut == Spec => []LeftOutOnlyByRepair
<1>1. ConvInv => LeftOutOnlyByRepair
  BY DEF ConvInv, BoundaryInv, Accounts, LeftOutOnlyByRepair
<1> QED BY <1>1, ConversationSafety, PTL

\* Every summarized message has its facts in MEMORY.md unless two passes
\* overlapped, or its pass ended between HISTORY.md and MEMORY.md, though each
\* pass rewrites the file from a reading it made before it awaited the model.
THEOREM MemoryKept == Spec => []RememberedUnlessOverlap
<1>1. ConvInv => RememberedUnlessOverlap
  BY DEF ConvInv, MemoryInv, RememberedUnlessOverlap
<1> QED BY <1>1, ConversationSafety, PTL

\* The boundary on disk moves back by a clear, or when a pass saves over a
\* sidecar it did not load.
THEOREM BoundaryMovesOn == Spec => BackOnlyIfStale
<1> DEFINE Back == sidecar'.through < sidecar.through =>
                      \/ log' = <<>>
                      \/ \E p \in Passes : pass[p].stale /\ ~pass'[p].on
<1>1. ConvInv /\ [Next]_vars => Back
  <2> SUFFICES ASSUME ConvInv, [Next]_vars, sidecar'.through < sidecar.through, log' # <<>>
               PROVE  \E p \in Passes : pass[p].stale /\ ~pass'[p].on
    OBVIOUS
  <2>1. sidecar.through \in Nat
    BY DEF ConvInv, TypeOK, Sidecars
  <2>2. sidecar' # sidecar
    BY <2>1
  <2>3. sidecar' # Loaded
    BY <2>1, LoadedFacts DEF ConvInv, Sidecars
  <2>4. (\E p \in Passes : Summarized(p)) \/ MaintainFails
    <3>1. ~(Clear \/ CrashInClear)
      BY DEF Clear, CrashInClear, ClearLog
    <3>2. ~(AppendUser \/ AppendCalls \/ AppendTool \/ AppendReply)
      BY <2>2 DEF AppendUser, AppendCalls, AppendTool, AppendReply
    <3>3. ~(BuildPrompt \/ PostTurn \/ Recover)
      BY <2>2, <2>3 DEF BuildPrompt, PostTurn, Maintain, Recover
    <3>4. ~(AppendAgain \/ RecoverFails \/ Crash \/ \E p \in Passes : SaveFails(p))
      BY <2>2 DEF AppendAgain, RecoverFails, Crash, SaveFails
    <3>5. ~UNCHANGED vars
      BY <2>2 DEF vars, files
    <3> QED BY <3>1, <3>2, <3>3, <3>4, <3>5 DEF Next, TurnStep
  <2>5. PICK p \in Passes : /\ pass[p].on /\ EndPass(p)
                            /\ pass[p].loaded.through <= sidecar'.through
    <3>1. ASSUME NEW p \in Passes, Summarized(p)
          PROVE  /\ pass[p].on /\ EndPass(p)
                 /\ pass[p].loaded.through <= sidecar'.through
      <4>1. pass[p].on /\ EndPass(p) /\ Saved(p, Advanced(pass[p]))
        BY <3>1 DEF Summarized
      <4>2. /\ Advanced(pass[p]) \in Sidecars
            /\ pass[p].loaded.through <= Advanced(pass[p]).through
        BY <4>1, AdvancedFacts
      <4>3. sidecar'.through = Advanced(pass[p]).through
        BY <4>1, <4>2 DEF Saved, Sidecars
      <4> QED BY <4>1, <4>2, <4>3
    <3>2. ASSUME MaintainFails
          PROVE  /\ pass["maintain"].on /\ EndPass("maintain")
                 /\ pass["maintain"].loaded.through <= sidecar'.through
      <4>1. /\ pass["maintain"].on /\ EndPass("maintain")
            /\ sidecar' = [pass["maintain"].loaded EXCEPT !.there = TRUE]
        BY <3>2 DEF MaintainFails, Saved
      <4>2. pass["maintain"].loaded \in Sidecars
        BY PassTyped DEF ConvInv, PassTypes, PassRecord, Passes
      <4>3. /\ sidecar'.through = pass["maintain"].loaded.through
            /\ sidecar'.through \in Nat
        BY <4>1, <4>2 DEF Sidecars
      <4> QED BY <4>1, <4>3
    <3>3. "maintain" \in Passes
      BY DEF Passes
    <3> QED BY <2>4, <3>1, <3>2, <3>3
  <2>6. pass[p].loaded.through \in Nat /\ pass[p].stale \in BOOLEAN
    BY PassTyped DEF ConvInv, PassTypes, PassRecord, Sidecars
  <2>7. pass[p].stale
    <3>1. ~pass[p].stale => sidecar.through <= pass[p].loaded.through
      BY <2>5 DEF ConvInv, PassInv
    <3>2. sidecar'.through \in Nat
      BY ConvStep DEF ConvInv, TypeOK, Sidecars
    <3> QED BY <2>1, <2>5, <2>6, <3>1, <3>2
  <2>8. ~pass'[p].on
    BY <2>5 DEF EndPass, Off
  <2> QED BY <2>7, <2>8
<1>2. ConvInv /\ [Next]_vars => [Back]_vars
  BY <1>1
<1> QED BY <1>2, ConversationSafety, PTL DEF Spec, BackOnlyIfStale

-----------------------------------------------------------------------------
(* Calls and results *)

\* Only assistant messages have calls, the ids of all calls are those given so
\* far, and a result stands behind every message that has its call.
PairInv ==
  /\ \A i \in DOMAIN log : log[i].calls # {} => log[i].role = "assistant"
  /\ \A i \in DOMAIN log : \A c \in log[i].calls : c <= 2 * count + 1
  /\ \A j \in DOMAIN log : log[j].re <= 2 * count + 1
  /\ \A c \in turn.owed : c <= 2 * count + 1
  /\ \A i, j \in DOMAIN log : log[j].role = "tool" /\ log[j].re \in log[i].calls => i < j

\* What holds of the ids given so far goes on holding.
LEMMA IdsGrow ==
  \A a, b, x \in Nat : 2 * a + 1 <= 2 * b + 1 /\ x <= 2 * a + 1 => x <= 2 * b + 1
OBVIOUS

\* A message is appended whose calls no result answers yet.
LEMMA PairsAppended ==
  ASSUME TypeOK, PairInv, NEW m \in Messages, log' = Append(log, m),
         count' \in {count, count + 1},
         m.calls # {} => m.role = "assistant",
         \A c \in m.calls : c <= 2 * count' + 1,
         m.re <= 2 * count' + 1,
         \A c \in turn'.owed : c <= 2 * count' + 1,
         \A j \in DOMAIN log : log[j].role = "tool" => log[j].re \notin m.calls
  PROVE  PairInv'
<1> DEFINE l == Len(log)
<1>1. /\ l \in Nat /\ DOMAIN log = 1..l /\ DOMAIN log' = 1..(l + 1)
      /\ log'[l + 1] = m /\ \A i \in 1..l : log'[i] = log[i]
      /\ \A i \in 1..l : log[i] \in Messages
  BY DEF TypeOK
<1> HIDE DEF l
<1>2. count \in Nat /\ count' \in Nat /\ 2 * count + 1 <= 2 * count' + 1
  BY DEF TypeOK
<1>3. \A i \in DOMAIN log' : log'[i].calls # {} => log'[i].role = "assistant"
  BY <1>1 DEF PairInv
<1>4. \A x \in Messages : x.re \in Nat /\ \A c \in x.calls : c \in Nat
  BY DEF Messages, CallIds
<1>m. \A x \in m.calls : x <= 2 * count' + 1
  OBVIOUS
<1>5. \A i \in DOMAIN log' : \A x \in log'[i].calls : x <= 2 * count' + 1
  <2>1. \A x \in log'[l + 1].calls : x <= 2 * count' + 1
    BY <1>1, <1>m
  <2>2. \A i \in 1..l : \A x \in log'[i].calls : x \in Nat /\ x <= 2 * count + 1
    BY <1>1, <1>4 DEF PairInv
  <2>n. \A x \in Nat : x <= 2 * count + 1 => x <= 2 * count' + 1
    BY <1>2, IdsGrow
  <2>3. \A i \in 1..l : \A x \in log'[i].calls : x <= 2 * count' + 1
    BY <2>2, <2>n
  <2>4. \A i \in DOMAIN log' : i = l + 1 \/ i \in 1..l
    BY <1>1
  <2> QED BY <2>1, <2>3, <2>4
<1>6. ASSUME NEW i \in DOMAIN log' PROVE log'[i].re <= 2 * count' + 1
  <2>1. CASE i = l + 1
    BY <1>1, <2>1
  <2>2. CASE i \in 1..l
    <3>1. log'[i].re = log[i].re /\ log[i].re \in Nat /\ log[i].re <= 2 * count + 1
      BY <1>1, <1>4, <2>2 DEF PairInv
    <3> QED BY <1>2, <3>1
  <2> QED BY <1>1, <2>1, <2>2
<1>7. ASSUME NEW i \in DOMAIN log', NEW j \in DOMAIN log',
             log'[j].role = "tool", log'[j].re \in log'[i].calls
      PROVE  i < j
  <2>1. CASE j = l + 1
    <3>1. i # l + 1
      BY <1>1, <1>7, <2>1
    <3> QED BY <1>1, <2>1, <3>1
  <2>2. CASE j \in 1..l /\ i = l + 1
    BY <1>1, <1>7, <2>2
  <2>3. CASE j \in 1..l /\ i \in 1..l
    BY <1>1, <1>7, <2>3 DEF PairInv
  <2> QED BY <1>1, <2>1, <2>2, <2>3
<1> QED BY <1>3, <1>5, <1>6, <1>7 DEF PairInv

\* Every append of a turn is of such a message.
LEMMA PairAppends ==
  ASSUME ConvInv, PairInv, AppendUser \/ AppendCalls \/ AppendTool \/ AppendReply
  PROVE  PairInv'
<1>0. TypeOK /\ turn \in Turns /\ count \in Nat
  BY DEF ConvInv, TypeOK, Turns
<1>o. \A c \in turn.owed : c \in Nat /\ c <= 2 * count + 1
  BY <1>0 DEF PairInv, Turns, CallIds
<1>r. \A j \in DOMAIN log : log[j].re \in Nat /\ log[j].re <= 2 * count + 1
  <2>1. \A j \in DOMAIN log : log[j] \in Messages
    BY <1>0 DEF TypeOK
  <2> QED BY <2>1 DEF PairInv, Messages, CallIds
<1>1. ASSUME NEW next \in Turns, next.owed \subseteq turn.owed, Dropped(next) PROVE PairInv'
  <2>1. log' = log /\ count' = count /\ turn'.owed = next.owed
    BY <1>1 DEF Dropped, Turns
  <2> QED BY <1>1, <2>1 DEF PairInv
<1>2. ASSUME NEW next \in Turns, next.owed \subseteq turn.owed, NEW m \in Messages,
             m.calls = {}, m.re = 0 \/ m.re \in turn.owed, AppendTo(m, next)
      PROVE  PairInv'
  <2>1. log' = Append(log, m) /\ count' = count + 1 /\ turn'.owed = next.owed
    BY <1>2 DEF AppendTo, Turns
  <2>2. \A c \in turn'.owed : c <= 2 * count' + 1
    BY <1>0, <1>o, <1>2, <2>1
  <2>3. m.re <= 2 * count' + 1
    BY <1>0, <1>o, <1>2, <2>1
  <2> QED BY <1>0, <1>2, <2>1, <2>2, <2>3, PairsAppended
<1>3. CASE AppendUser
  <2> DEFINE next == [turn EXCEPT !.state = "open"]
  <2>1. next \in Turns /\ next.owed = turn.owed
    BY <1>0 DEF Turns
  <2>2. (count < MaxMessages /\ AppendTo(User(count + 1), next)) \/ Dropped(next)
    BY <1>3 DEF AppendUser
  <2> HIDE DEF next
  <2>3. ASSUME count < MaxMessages PROVE User(count + 1) \in Messages
    BY <1>0, <2>3, MessageTypes, ConstantsAssumption
  <2>4. User(count + 1).calls = {} /\ User(count + 1).re = 0
    BY DEF User
  <2> QED BY <1>1, <1>2, <2>1, <2>2, <2>3, <2>4
<1>4. CASE AppendCalls
  <2>1. PICK shape \in CallShapes :
           AppendTo(Calls(count + 1, shape.calls, shape.text),
                    [turn EXCEPT !.owed = Calls(count + 1, shape.calls, shape.text).calls])
    BY <1>4 DEF AppendCalls
  <2> DEFINE ids == (2 * (count + 1))..(2 * (count + 1) + shape.calls - 1)
             m == Calls(count + 1, shape.calls, shape.text)
  <2>2. m.calls = ids /\ m.role = "assistant" /\ m.re = 0
    BY DEF Calls, User
  <2>3. m \in Messages
    <3>1. count + 1 \in 1..MaxMessages
      BY <1>0, <1>4, ConstantsAssumption DEF AppendCalls
    <3> QED BY <3>1, MessageTypes
  <2>4. log' = Append(log, m) /\ count' = count + 1 /\ turn'.owed = m.calls
    BY <1>0, <2>1 DEF AppendTo, Turns
  <2>5. shape.calls \in 1..2
    BY ConstantsAssumption
  <2>6. \A c \in ids : c \in Int /\ 2 * count + 1 < c /\ c <= 2 * (count + 1) + 1
    BY <1>0, <2>5
  <2> HIDE DEF ids, m
  <2>7. /\ \A c \in m.calls : c <= 2 * count' + 1
        /\ \A c \in turn'.owed : c <= 2 * count' + 1
        /\ m.re <= 2 * count' + 1
    BY <1>0, <2>2, <2>4, <2>6
  <2>8. \A j \in DOMAIN log : log[j].role = "tool" => log[j].re \notin m.calls
    BY <1>0, <1>r, <2>2, <2>6
  <2> QED BY <1>0, <2>2, <2>3, <2>4, <2>7, <2>8, PairsAppended
<1>5. CASE AppendTool
  <2>1. PICK c \in turn.owed : AppendTo(Tool(count + 1, c), [turn EXCEPT !.owed = turn.owed \ {c}])
    BY <1>5 DEF AppendTool
  <2> DEFINE next == [turn EXCEPT !.owed = turn.owed \ {c}]
             m == Tool(count + 1, c)
  <2>2. next \in Turns /\ next.owed \subseteq turn.owed
    BY <1>0 DEF Turns
  <2>3. m \in Messages
    <3>1. count + 1 \in 1..MaxMessages
      BY <1>0, <1>5, ConstantsAssumption DEF AppendTool
    <3>2. c \in CallIds
      BY <1>0 DEF Turns
    <3> QED BY <3>1, <3>2, MessageTypes
  <2>4. m.calls = {} /\ m.re = c
    BY DEF Tool, User
  <2>5. AppendTo(m, next)
    BY <2>1
  <2> HIDE DEF m, next
  <2> QED BY <1>2, <2>2, <2>3, <2>4, <2>5
<1>6. CASE AppendReply
  <2> DEFINE next == [turn EXCEPT !.state = "ending", !.owed = {}]
  <2>1. next \in Turns /\ next.owed = {}
    BY <1>0 DEF Turns
  <2>2. (count < MaxMessages /\ AppendTo(Reply(count + 1), next)) \/ Dropped(next)
    BY <1>6 DEF AppendReply
  <2> HIDE DEF next
  <2>3. ASSUME count < MaxMessages PROVE Reply(count + 1) \in Messages
    BY <1>0, <2>3, MessageTypes, ConstantsAssumption
  <2>4. Reply(count + 1).calls = {} /\ Reply(count + 1).re = 0
    BY DEF Reply, User
  <2> QED BY <1>1, <1>2, <2>1, <2>2, <2>3, <2>4
<1> QED BY <1>3, <1>4, <1>5, <1>6

\* So is one that is made again: the last message has no result behind it.
LEMMA PairAppendsAgain ==
  ASSUME ConvInv, PairInv, AppendAgain
  PROVE  PairInv'
<1>1. TypeOK /\ log # <<>> /\ log \in Seq(Messages)
  BY DEF AppendAgain, ConvInv, LogInv, TypeOK
<1> DEFINE l == Len(log)
           m == log[l]
<1>2. l \in DOMAIN log /\ m \in Messages /\ DOMAIN log = 1..l /\ l \in Nat
  BY <1>1
<1>3. log' = Append(log, m) /\ count' = count /\ turn' = turn
  BY DEF AppendAgain, Last, history
<1>4. \A j \in DOMAIN log : log[j].role = "tool" => log[j].re \notin m.calls
  BY <1>2 DEF PairInv
<1>5. /\ m.calls # {} => m.role = "assistant"
      /\ \A c \in m.calls : c <= 2 * count + 1
      /\ m.re <= 2 * count + 1
      /\ \A c \in turn.owed : c <= 2 * count + 1
  BY <1>2 DEF PairInv
<1> HIDE DEF m
<1> QED BY <1>1, <1>2, <1>3, <1>4, <1>5, PairsAppended

\* Every step keeps calls and results in order.
LEMMA PairKeeps == ConvInv /\ PairInv /\ [Next]_vars => PairInv'
<1> SUFFICES ASSUME ConvInv, PairInv, [Next]_vars PROVE PairInv'
  OBVIOUS
<1>0. turn \in Turns /\ count \in Nat
  BY DEF ConvInv, TypeOK, Turns
<1>1. ASSUME UNCHANGED <<log, count>>, turn'.owed \subseteq turn.owed PROVE PairInv'
  BY <1>1 DEF PairInv
<1>2. ASSUME BuildPrompt \/ PostTurn PROVE PairInv'
  <2>1. turn'.owed = {} /\ UNCHANGED <<log, count>>
    BY <1>2 DEF BuildPrompt, PostTurn, Idle, history
  <2> QED BY <1>1, <2>1
<1>3. ASSUME RecoverFails \/ \E p \in Passes : SaveFails(p) PROVE PairInv'
  <2>1. turn'.owed = turn.owed /\ UNCHANGED <<log, count>>
    BY <1>0, <1>3 DEF RecoverFails, SaveFails, Turns
  <2> QED BY <1>1, <2>1
<1>4. ASSUME Clear \/ CrashInClear PROVE PairInv'
  <2>1. log' = <<>> /\ UNCHANGED <<turn, count>>
    BY <1>4 DEF Clear, CrashInClear, ClearLog, journal
  <2>2. DOMAIN log' = {}
    BY <2>1
  <2> QED BY <2>1, <2>2 DEF PairInv
<1>5. ASSUME UNCHANGED <<log, count, turn>> PROVE PairInv'
  BY <1>5 DEF PairInv
<1> QED BY <1>2, <1>3, <1>4, <1>5, PairAppends, PairAppendsAgain
        DEF Next, TurnStep, Recover, Summarized, MaintainFails, Crash, vars, files, journal, history

-----------------------------------------------------------------------------
(* What the repair of a view keeps *)

\* s is what the first n messages of the view leave: those that are kept, in
\* their order, without the calls that are not valid.
Leaves(view, n, s) ==
  \E h \in [DOMAIN s -> 1..n] :
     /\ \A i \in DOMAIN s : /\ Keeps(view[h[i]], Valid(view))
                          /\ s[i] = [view[h[i]] EXCEPT !.calls = @ \cap Valid(view)]
     /\ \A i, j \in DOMAIN s : i < j => h[i] < h[j]
     /\ \A k \in 1..n : Keeps(view[k], Valid(view)) => \E i \in DOMAIN s : h[i] = k

\* What one message adds.
After(view, i, s) ==
  IF Keeps(view[i], Valid(view))
  THEN Append(s, [view[i] EXCEPT !.calls = @ \cap Valid(view)]) ELSE s

\* f is the repair of the first n messages, step by step.
RepairsTo(view, n, f) ==
  f = [i \in 0..n |-> IF i = 0 THEN <<>> ELSE After(view, i, f[i - 1])]

\* A number for which something fails has a least one before it for which it
\* fails; so what holds at 0 and goes on holds at all.
LEMMA UpTo ==
  ASSUME NEW L \in Nat, NEW S \in SUBSET (0..L), 0 \in S,
         \A n \in 0..L : n \in S /\ n + 1 \in 0..L => n + 1 \in S
  PROVE  S = 0..L
<1> SUFFICES ASSUME (0..L) \ S # {} PROVE FALSE
  OBVIOUS
<1>1. (0..L) \ S \in SUBSET Nat
  OBVIOUS
<1>2. PICK x \in (0..L) \ S : \A y \in (0..L) \ S : x <= y
  BY <1>1, LeastNatural
<1>3. x # 0 /\ x \in 0..L /\ x \notin S
  BY <1>2
<1>4. x - 1 \in 0..L /\ ~(x <= x - 1)
  BY <1>3
<1>5. x - 1 \in S
  BY <1>2, <1>4
<1>6. (x - 1) + 1 = x
  BY <1>3
<1> QED BY <1>3, <1>4, <1>5, <1>6

\* The repair is defined for every view.
LEMMA RepairExists ==
  ASSUME NEW view, NEW L \in Nat
  PROVE  \E f : RepairsTo(view, L, f)
<1> DEFINE S == {n \in 0..L : \E f : RepairsTo(view, n, f)}
<1>1. 0 \in S
  <2> DEFINE f == [i \in 0..0 |-> <<>>]
  <2>1. f = [i \in 0..0 |-> IF i = 0 THEN <<>> ELSE After(view, i, f[i - 1])]
    OBVIOUS
  <2>2. RepairsTo(view, 0, f)
    BY <2>1 DEF RepairsTo
  <2> HIDE DEF f
  <2> QED BY <2>2
<1>2. ASSUME NEW n \in 0..L, n \in S, n + 1 \in 0..L PROVE n + 1 \in S
  <2>1. PICK f : RepairsTo(view, n, f)
    BY <1>2
  <2>2. f = [i \in 0..n |-> IF i = 0 THEN <<>> ELSE After(view, i, f[i - 1])]
    BY <2>1 DEF RepairsTo
  <2> DEFINE g == [i \in 0..(n + 1) |-> IF i <= n THEN f[i] ELSE After(view, n + 1, f[n])]
  <2>3. ASSUME NEW i \in 0..(n + 1)
        PROVE  g[i] = IF i = 0 THEN <<>> ELSE After(view, i, g[i - 1])
    <3>1. CASE i = 0
      <4>1. 0 \in 0..n /\ g[0] = f[0]
        OBVIOUS
      <4>2. f[0] = <<>>
        BY <2>2, <4>1
      <4> QED BY <3>1, <4>1, <4>2
    <3>2. CASE i \in 1..n
      <4>1. i \in 0..n /\ i # 0 /\ g[i] = f[i] /\ i - 1 \in 0..n /\ g[i - 1] = f[i - 1]
        BY <3>2
      <4>2. f[i] = After(view, i, f[i - 1])
        BY <2>2, <4>1
      <4> QED BY <4>1, <4>2
    <3>3. CASE i = n + 1
      <4>1. i # 0 /\ i - 1 = n /\ g[n] = f[n] /\ g[i] = After(view, n + 1, f[n])
        BY <3>3
      <4> QED BY <3>3, <4>1
    <3> QED BY <3>1, <3>2, <3>3
  <2>4. g = [i \in 0..(n + 1) |-> g[i]]
    OBVIOUS
  <2> HIDE DEF g
  <2>5. g = [i \in 0..(n + 1) |-> IF i = 0 THEN <<>> ELSE After(view, i, g[i - 1])]
    BY <2>3, <2>4
  <2>6. RepairsTo(view, n + 1, g)
    BY <2>5 DEF RepairsTo
  <2> QED BY <1>2, <2>6
<1> HIDE DEF S
<1>3. S \in SUBSET (0..L)
  BY DEF S
<1>4. S = 0..L
  BY <1>1, <1>2, <1>3, UpTo
<1>5. L \in S
  BY <1>4
<1> QED BY <1>5 DEF S

\* One message more.
LEMMA LeavesMore ==
  ASSUME NEW view, NEW n \in Nat, NEW s \in Seq(Messages), Leaves(view, n, s),
         view[n + 1] \in Messages
  PROVE  After(view, n + 1, s) \in Seq(Messages) /\ Leaves(view, n + 1, After(view, n + 1, s))
<1>1. PICK h \in [DOMAIN s -> 1..n] :
         /\ \A i \in DOMAIN s : /\ Keeps(view[h[i]], Valid(view))
                              /\ s[i] = [view[h[i]] EXCEPT !.calls = @ \cap Valid(view)]
         /\ \A i, j \in DOMAIN s : i < j => h[i] < h[j]
         /\ \A k \in 1..n : Keeps(view[k], Valid(view)) => \E i \in DOMAIN s : h[i] = k
  BY DEF Leaves
<1>2. CASE ~Keeps(view[n + 1], Valid(view))
  <2>1. After(view, n + 1, s) = s
    BY <1>2 DEF After
  <2>2. h \in [DOMAIN s -> 1..(n + 1)]
    BY <1>1
  <2>3. \A k \in 1..(n + 1) : Keeps(view[k], Valid(view)) => \E i \in DOMAIN s : h[i] = k
    BY <1>1, <1>2
  <2>4. Leaves(view, n + 1, s)
    BY <1>1, <2>2, <2>3 DEF Leaves
  <2> QED BY <2>1, <2>4
<1>3. CASE Keeps(view[n + 1], Valid(view))
  <2> DEFINE m == [view[n + 1] EXCEPT !.calls = @ \cap Valid(view)]
             t == Append(s, m)
             l == Len(s)
             g == [i \in DOMAIN t |-> IF i <= l THEN h[i] ELSE n + 1]
  <2>1. After(view, n + 1, s) = t
    BY <1>3 DEF After
  <2>2. m \in Messages
    BY DEF Messages
  <2>m. m = [view[n + 1] EXCEPT !.calls = @ \cap Valid(view)]
    OBVIOUS
  <2> HIDE DEF m
  <2>3. /\ t \in Seq(Messages) /\ l \in Nat /\ DOMAIN s = 1..l /\ DOMAIN t = 1..(l + 1)
        /\ t[l + 1] = m /\ \A i \in 1..l : t[i] = s[i]
    BY <2>2
  <2> HIDE DEF l, t
  <2>4. /\ \A i \in 1..l : g[i] = h[i] /\ g[i] \in 1..n
        /\ g[l + 1] = n + 1
    <3>1. \A i \in 1..l : i <= l /\ i \in DOMAIN t
      BY <2>3
    <3>2. l + 1 \in DOMAIN t /\ ~(l + 1 <= l)
      BY <2>3
    <3> QED BY <1>1, <2>3, <3>1, <3>2
  <2>5. g \in [DOMAIN t -> 1..(n + 1)]
    <3> SUFFICES ASSUME NEW i \in DOMAIN t
                 PROVE  (IF i <= l THEN h[i] ELSE n + 1) \in 1..(n + 1)
      OBVIOUS
    <3> QED BY <1>1, <2>3
  <2> HIDE DEF g
  <2>6. ASSUME NEW i \in DOMAIN t
        PROVE  Keeps(view[g[i]], Valid(view)) /\ t[i] = [view[g[i]] EXCEPT !.calls = @ \cap Valid(view)]
    <3>1. CASE i \in 1..l
      BY <1>1, <2>3, <2>4, <3>1
    <3>2. CASE i = l + 1
      BY <1>3, <2>m, <2>3, <2>4, <3>2
    <3> QED BY <2>3, <3>1, <3>2
  <2>7. ASSUME NEW i \in DOMAIN t, NEW j \in DOMAIN t, i < j PROVE g[i] < g[j]
    <3>1. CASE j \in 1..l
      <4>1. i \in 1..l
        BY <2>3, <2>7, <3>1
      <4> QED BY <1>1, <2>3, <2>4, <2>7, <3>1, <4>1
    <3>2. CASE j = l + 1
      <4>1. i \in 1..l
        BY <2>3, <2>7, <3>2
      <4>2. g[i] \in 1..n /\ g[j] = n + 1
        BY <2>4, <3>2, <4>1
      <4> QED BY <4>2
    <3> QED BY <2>3, <3>1, <3>2
  <2>8. ASSUME NEW k \in 1..(n + 1), Keeps(view[k], Valid(view)) PROVE \E i \in DOMAIN t : g[i] = k
    <3>1. CASE k = n + 1
      BY <2>3, <2>4, <3>1
    <3>2. CASE k \in 1..n
      <4>1. PICK i \in DOMAIN s : h[i] = k
        BY <1>1, <2>8, <3>2
      <4>2. i \in 1..l /\ i \in DOMAIN t
        BY <2>3
      <4> QED BY <2>4, <4>1, <4>2
    <3> QED BY <3>1, <3>2
  <2>9. Leaves(view, n + 1, t)
    BY <2>5, <2>6, <2>7, <2>8 DEF Leaves
  <2> QED BY <2>1, <2>3, <2>9
<1> QED BY <1>2, <1>3

\* A repaired view is what its messages leave.
LEMMA RepairedLeaves ==
  ASSUME NEW view \in Seq(Messages)
  PROVE  Repaired(view) \in Seq(Messages) /\ Leaves(view, Len(view), Repaired(view))
<1> DEFINE L == Len(view)
           f == CHOOSE f : RepairsTo(view, L, f)
<1>1. L \in Nat /\ \A i \in 1..L : view[i] \in Messages
  OBVIOUS
<1>2. Repaired(view) = f[L]
  BY DEF Repaired, RepairsTo, After
<1>3. RepairsTo(view, L, f)
  BY <1>1, RepairExists
<1> HIDE DEF f, L
<1>4. f = [i \in 0..L |-> IF i = 0 THEN <<>> ELSE After(view, i, f[i - 1])]
  BY <1>3 DEF RepairsTo
<1> DEFINE S == {n \in 0..L : f[n] \in Seq(Messages) /\ Leaves(view, n, f[n])}
<1>5. 0 \in S
  <2>1. f[0] = <<>>
    BY <1>1, <1>4
  <2>2. Leaves(view, 0, <<>>)
    <3>1. <<>> \in [DOMAIN <<>> -> 1..0] /\ DOMAIN <<>> = {} /\ 1..0 = {}
      OBVIOUS
    <3> QED BY <3>1 DEF Leaves
  <2>3. 0 \in 0..L /\ f[0] \in Seq(Messages) /\ Leaves(view, 0, f[0])
    BY <1>1, <2>1, <2>2
  <2> QED BY <2>3
<1>6. ASSUME NEW n \in 0..L, n \in S, n + 1 \in 0..L PROVE n + 1 \in S
  <2>1. /\ n \in Nat /\ n + 1 # 0 /\ (n + 1) - 1 = n /\ n + 1 \in 1..L
    BY <1>1, <1>6
  <2>2. f[n + 1] = After(view, n + 1, f[n])
    <3>1. f[n + 1] = IF n + 1 = 0 THEN <<>> ELSE After(view, n + 1, f[(n + 1) - 1])
      BY <1>4, <1>6
    <3> QED BY <2>1, <3>1
  <2>3. f[n] \in Seq(Messages) /\ Leaves(view, n, f[n])
    BY <1>6
  <2>4. f[n + 1] \in Seq(Messages) /\ Leaves(view, n + 1, f[n + 1])
    BY <1>1, <2>1, <2>2, <2>3, LeavesMore
  <2> QED BY <1>6, <2>4
<1> HIDE DEF S
<1>7. S \in SUBSET (0..L)
  BY DEF S
<1>8. S = 0..L
  BY <1>1, <1>5, <1>6, <1>7, UpTo
<1>9. L \in S
  BY <1>1, <1>8
<1> QED BY <1>2, <1>9 DEF S, L

-----------------------------------------------------------------------------
(* Calls and results in a view *)

\* A tool message is kept when its call is valid, an assistant's calls are when
\* one of them is.
LEMMA KeepsTool ==
  ASSUME NEW m, m.role = "tool", NEW valid
  PROVE  Keeps(m, valid) <=> m.re \in valid
BY DEF Keeps

\* ... and a message with a valid call is kept.
LEMMA KeepsCalls ==
  ASSUME NEW m, m.role = "assistant", NEW valid, m.calls \cap valid # {}
  PROVE  Keeps(m, valid)
BY DEF Keeps

\* The tail of a log in which calls and results are in order is repaired to a
\* view in which they pair up.
LEMMA PairedView ==
  ASSUME TypeOK, LogInv, PairInv
  PROVE  ViewPairsUp
<1> DEFINE t == Loaded.through
           view == Tailed(t)
           v == View
           valid == Valid(view)
<1>0. Loaded \in Sidecars /\ log \in Seq(Messages)
  BY LoadedFacts DEF TypeOK
<1>1. t \in Nat /\ log \in Seq(Messages) /\ Len(log) \in Nat
  BY <1>0 DEF Sidecars
<1>2. v = Repaired(view)
  BY DEF View
<1>3. view = SubSeq(log, t + 1, Len(log))
  BY <1>1 DEF Tailed, Slice
<1> HIDE DEF t, v, view, valid
<1>4. /\ view \in Seq(Messages) /\ Len(view) \in Nat /\ DOMAIN view = 1..Len(view)
      /\ \A i \in DOMAIN view : t + i \in DOMAIN log /\ view[i] = log[t + i]
  <2>1. /\ SubSeq(log, t + 1, Len(log)) \in Seq(Messages)
        /\ Len(SubSeq(log, t + 1, Len(log))) = IF t + 1 <= Len(log) THEN Len(log) - t ELSE 0
        /\ \A i \in 1..(Len(log) - t) : SubSeq(log, t + 1, Len(log))[i] = log[t + i]
    BY <1>1
  <2>2. Len(view) = IF t + 1 <= Len(log) THEN Len(log) - t ELSE 0
    BY <1>3, <2>1
  <2>3. view \in Seq(Messages) /\ DOMAIN view = 1..Len(view)
    BY <1>3, <2>1
  <2>4. \A i \in DOMAIN view : i \in 1..(Len(log) - t) /\ t + i \in 1..Len(log)
    BY <1>1, <2>2, <2>3
  <2>5. Len(view) \in Nat
    BY <1>1, <2>2
  <2> QED BY <1>1, <1>3, <2>1, <2>3, <2>4, <2>5
<1>5. v \in Seq(Messages) /\ Len(v) \in Nat /\ DOMAIN v = 1..Len(v)
  BY <1>2, <1>4, RepairedLeaves
<1>l. Leaves(view, Len(view), v)
  BY <1>2, <1>4, RepairedLeaves
<1>v. valid = Valid(view)
  BY DEF valid
<1>6. PICK h \in [DOMAIN v -> 1..Len(view)] :
         /\ \A i \in DOMAIN v : /\ Keeps(view[h[i]], valid)
                              /\ v[i] = [view[h[i]] EXCEPT !.calls = @ \cap valid]
         /\ \A i, j \in DOMAIN v : i < j => h[i] < h[j]
         /\ \A k \in 1..Len(view) : Keeps(view[k], valid) => \E i \in DOMAIN v : h[i] = k
  BY <1>l, <1>v DEF Leaves
<1>7. \A i \in DOMAIN v : /\ h[i] \in DOMAIN view /\ v[i].role = view[h[i]].role
                         /\ v[i].re = view[h[i]].re /\ v[i].calls = view[h[i]].calls \cap valid
  <2> SUFFICES ASSUME NEW i \in DOMAIN v
               PROVE  /\ h[i] \in DOMAIN view /\ v[i].role = view[h[i]].role
                      /\ v[i].re = view[h[i]].re /\ v[i].calls = view[h[i]].calls \cap valid
    OBVIOUS
  <2>1. h[i] \in DOMAIN view /\ view[h[i]] \in Messages
    BY <1>4, <1>6
  <2>2. v[i] = [view[h[i]] EXCEPT !.calls = view[h[i]].calls \cap valid]
    BY <1>6
  <2> QED BY <2>1, <2>2 DEF Messages
<1>8. \A i, j \in DOMAIN v : h[i] < h[j] => i < j
  <2> SUFFICES ASSUME NEW i \in DOMAIN v, NEW j \in DOMAIN v, h[i] < h[j], ~(i < j) PROVE FALSE
    OBVIOUS
  <2>1. i \in Nat /\ j \in Nat /\ h[i] \in Nat /\ h[j] \in Nat
    BY <1>4, <1>5, <1>6
  <2>2. CASE i = j
    BY <2>1, <2>2
  <2>3. CASE j < i
    <3>1. h[j] < h[i]
      BY <1>6, <2>3
    <3> QED BY <2>1, <3>1
  <2> QED BY <2>1, <2>2, <2>3
<1>9. \A j, k \in DOMAIN view : view[k].role = "tool" /\ view[k].re \in view[j].calls => j < k
  <2> SUFFICES ASSUME NEW j \in DOMAIN view, NEW k \in DOMAIN view,
                      view[k].role = "tool", view[k].re \in view[j].calls
               PROVE  j < k
    OBVIOUS
  <2>1. t + j < t + k
    BY <1>4 DEF PairInv
  <2> QED BY <1>1, <1>4, <2>1
<1>10. /\ \A c \in valid : \E j \in DOMAIN view : c \in view[j].calls
       /\ \A c \in valid : \E k \in DOMAIN view : view[k].role = "tool" /\ view[k].re = c
  <2>1. valid = (UNION {m.calls : m \in ToSet(view)})
                  \cap {m.re : m \in {x \in ToSet(view) : x.role = "tool"}}
    BY <1>v DEF Valid
  <2>2. \A m \in ToSet(view) : \E j \in DOMAIN view : m = view[j]
    BY DEF ToSet
  <2> SUFFICES ASSUME NEW c \in valid
               PROVE  /\ \E j \in DOMAIN view : c \in view[j].calls
                      /\ \E k \in DOMAIN view : view[k].role = "tool" /\ view[k].re = c
    OBVIOUS
  <2>3. PICK m \in ToSet(view) : c \in m.calls
    BY <2>1
  <2>4. PICK x \in ToSet(view) : x.role = "tool" /\ c = x.re
    BY <2>1
  <2> QED BY <2>2, <2>3, <2>4
<1>11. ASSUME NEW i \in DOMAIN v, v[i].role = "tool"
       PROVE  \E j \in 1..(i - 1) : v[i].re \in v[j].calls
  <2>1. v[i].re \in valid
    <3>1. Keeps(view[h[i]], valid) /\ view[h[i]].role = "tool" /\ v[i].re = view[h[i]].re
      BY <1>6, <1>7, <1>11
    <3> QED BY <3>1, KeepsTool
  <2>2. PICK k \in DOMAIN view : v[i].re \in view[k].calls
    BY <1>10, <2>1
  <2>3. view[k].role = "assistant"
    <3>1. view[k].calls # {} /\ t + k \in DOMAIN log /\ view[k] = log[t + k]
      BY <1>4, <2>2
    <3> QED BY <3>1 DEF PairInv
  <2>4. Keeps(view[k], valid)
    <3>1. view[k].calls \cap valid # {}
      BY <2>1, <2>2
    <3> QED BY <2>3, <3>1, KeepsCalls
  <2>5. PICK j \in DOMAIN v : h[j] = k
    BY <1>4, <1>6, <2>4
  <2>6. v[i].re \in v[j].calls
    BY <1>7, <2>1, <2>2, <2>5
  <2>7. h[j] < h[i]
    BY <1>7, <1>9, <1>11, <2>2, <2>5
  <2>8. j < i
    BY <1>8, <2>7
  <2> QED BY <1>5, <2>6, <2>8
<1>12. ASSUME NEW i \in DOMAIN v, NEW c \in v[i].calls
       PROVE  \E j \in (i + 1)..Len(v) : v[j].re = c
  <2>1. c \in valid /\ c \in view[h[i]].calls /\ h[i] \in DOMAIN view
    BY <1>7, <1>12
  <2>2. PICK k \in DOMAIN view : view[k].role = "tool" /\ view[k].re = c
    BY <1>10, <2>1
  <2>3. Keeps(view[k], valid)
    BY <2>1, <2>2, KeepsTool
  <2>4. PICK j \in DOMAIN v : h[j] = k
    BY <1>4, <1>6, <2>3
  <2>5. v[j].re = c
    BY <1>7, <2>2, <2>4
  <2>6. h[i] < h[j]
    BY <1>9, <2>1, <2>2, <2>4
  <2>7. i < j
    BY <1>8, <2>6
  <2> QED BY <1>5, <2>5, <2>7
<1> QED BY <1>11, <1>12 DEF ViewPairsUp, v

\* Wherever the boundary, a crash or a turn in progress cut the log, the view
\* has no result without its call and no call without its result.
THEOREM ViewsPairUp == Spec => []ViewPairsUp
<1>1. ASSUME Init PROVE PairInv
  <2>1. /\ header \in Nat /\ log = [i \in 1..header |-> User(i)] /\ count = header /\ turn = Idle
    BY <1>1, ConstantsAssumption DEF Init
  <2>2. /\ DOMAIN log = 1..header
        /\ \A i \in 1..header : log[i].calls = {} /\ log[i].re = 0 /\ log[i].role = "user"
    BY <2>1 DEF User
  <2>3. turn.owed = {}
    BY <2>1 DEF Idle
  <2>4. 0 <= 2 * count + 1
    BY <2>1
  <2> QED BY <2>2, <2>3, <2>4 DEF PairInv
<1>2. ConvInv /\ PairInv => ViewPairsUp
  BY PairedView DEF ConvInv
<1> QED BY <1>1, <1>2, ConversationSafety, PairKeeps, PTL DEF Spec
=============================================================================
