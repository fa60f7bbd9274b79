------------------------ MODULE DurableBatch_proofs ------------------------
(***************************************************************************)
(* Proofs about DurableBatch, for any finite set of ids, any number of     *)
(* spawn calls and of crashes.                                             *)
(*                                                                         *)
(* What the sentinel promises rests on what holds while an announcement is *)
(* under way (FlightCovers) and on directories being removed only when     *)
(* everything in them was told (NobodyForgotten); that nothing is dropped  *)
(* rests, besides, on the last child to record being one that announces    *)
(* (SomebodyDecides).  A member that joins during an announcement breaks   *)
(* all of it, hence the premise ~raced.                                    *)
(***************************************************************************)
EXTENDS DurableBatch, FiniteSetTheorems, TLAPS

\* The parent's call under way is registered, and its workflow does not exist.
ParentInv ==
  /\ pc = "between" <=> current = NoId
  /\ pc # "between" => current \in minted \cap files /\ child[current] = "none"
  /\ \A i \in Ids : child[i] # "none" => i \in minted
  /\ files \subseteq minted

\* How far a child is past its journal.
ChildInv ==
  \A i \in Ids :
     /\ vol[i] = "wrote" => child[i] = "pending"
     /\ vol[i] \in {"published", "marked"} => child[i] = "decided" /\ snap[i] \subseteq told

\* A child that decided, will record, or was cancelled.
Unsettled(i) ==
  InFlight(i) \/ child[i] = "cancelled" \/ (child[i] = "pending" /\ vol[i] = "journal")

\* An announcement under way covers the whole directory, but for what was told.
FlightCovers ==
  \A i \in Ids : InFlight(i) =>
     i \in complete /\ files \subseteq complete /\ complete \subseteq told \cup snap[i]

\* So does the sentinel.
SentinelCovers ==
  /\ sentinel => files \subseteq complete /\ complete \subseteq told
  /\ \A i \in Ids : vol[i] = "marked" => sentinel

\* A directory is removed only when everything in it was told.
NobodyForgotten ==
  \A i \in Ids :
     /\ child[i] \in {"pending", "decided"} => i \in files \cup told
     /\ child[i] = "done" \/ vol[i] = "wrote" => i \in complete \cup told

\* A full directory without a sentinel has a child that still has to decide,
\* or has decided.
SomebodyDecides ==
  ~sentinel /\ files = complete /\ complete # {} => \E i \in complete : Unsettled(i)

BatchInv == FlightCovers /\ SentinelCovers /\ NobodyForgotten /\ SomebodyDecides

DurableInv ==
  TypeOK /\ ParentInv /\ ChildInv /\ OneGhostPerCrash /\ (~raced => BatchInv)

-----------------------------------------------------------------------------
(* Parent, children and their types *)

\* The invariant holds before the parent's first call.
THEOREM DurableInit == Init => DurableInv
<1> SUFFICES ASSUME Init PROVE DurableInv
  OBVIOUS
<1>1. TypeOK
  <2>1. /\ files \subseteq Ids /\ complete \subseteq files /\ handles \subseteq Ids
        /\ minted \subseteq Ids /\ told \subseteq Ids
        /\ sentinel \in BOOLEAN /\ raced \in BOOLEAN
    BY DEF Init
  <2>2. /\ committed \in [1..Calls -> Ids \cup {NoId}]
        /\ child \in [Ids -> Child] /\ vol \in [Ids -> Vol]
        /\ snap \in [Ids -> SUBSET Ids] /\ wants \in [Ids -> BOOLEAN]
    BY DEF Init, Child, Vol
  <2>3. /\ pc \in {"between", "body", "commit"} /\ current \in Ids \cup {NoId}
        /\ crashes \in 0..MaxCrashes
    BY ConstantsAssumption DEF Init
  <2> QED BY <2>1, <2>2, <2>3 DEF TypeOK
<1>2. ParentInv /\ ChildInv /\ BatchInv
  BY DEF Init, ParentInv, ChildInv, BatchInv, FlightCovers, SentinelCovers, NobodyForgotten,
         SomebodyDecides, InFlight
<1>3. {i \in Ids : Ghost(i)} = {}
  BY DEF Init, Ghost
<1>4. OneGhostPerCrash
  <2>1. Cardinality({i \in Ids : Ghost(i)}) = 0
    BY <1>3, FS_EmptySet
  <2>2. crashes = 0
    BY DEF Init
  <2> QED BY <2>1, <2>2 DEF OneGhostPerCrash
<1> QED BY <1>1, <1>2, <1>4 DEF DurableInv

\* Where SpawnCommit writes: the first call that is not in the journal.
LEMMA NextCall ==
  ASSUME TypeOK, SpawnCommit
  PROVE  committed' \in [1..Calls -> Ids \cup {NoId}]
BY DEF TypeOK, SpawnCommit

\* Every step keeps the types.
LEMMA TypeStep == TypeOK /\ ParentInv /\ [Next]_vars => TypeOK'
<1> SUFFICES ASSUME TypeOK, ParentInv, [Next]_vars PROVE TypeOK'
  OBVIOUS
<1> USE DEF TypeOK, Child, Vol
<1>1. ASSUME NEW i \in Ids, SpawnBody(i) PROVE TypeOK'
  BY <1>1 DEF SpawnBody, Register
<1>2. ASSUME SpawnCommit PROVE TypeOK'
  BY <1>2, NextCall DEF SpawnCommit
<1>3. ASSUME Dispatch PROVE TypeOK'
  BY <1>3 DEF Dispatch, ParentInv
<1>4. ASSUME NEW i \in Ids, RecordBody(i) PROVE TypeOK'
  BY <1>4 DEF RecordBody
<1>5. ASSUME NEW i \in Ids, RecordCommit(i) PROVE TypeOK'
  BY <1>5 DEF RecordCommit, Return
<1>6. ASSUME NEW i \in Ids, Publish(i) PROVE TypeOK'
  BY <1>6 DEF Publish, durable
<1>7. ASSUME NEW i \in Ids, MarkBody(i) PROVE TypeOK'
  BY <1>7 DEF MarkBody
<1>8. ASSUME NEW i \in Ids, MarkCommit(i) PROVE TypeOK'
  BY <1>8 DEF MarkCommit, Return
<1>9. ASSUME NEW i \in Ids, Cancel(i) PROVE TypeOK'
  BY <1>9 DEF Cancel
<1>10. ASSUME Crash PROVE TypeOK'
  BY <1>10, ConstantsAssumption DEF Crash, durable
<1>11. CASE UNCHANGED vars
  BY <1>11 DEF vars, durable, volatile
<1> QED BY <1>1, <1>2, <1>3, <1>4, <1>5, <1>6, <1>7, <1>8, <1>9, <1>10, <1>11
        DEF Next, ParentStep, ChildStep

\* Every step keeps what the parent's place says of its call and of the journal.
LEMMA ParentStays == TypeOK /\ ParentInv /\ [Next]_vars => ParentInv'
<1> SUFFICES ASSUME TypeOK, ParentInv, [Next]_vars PROVE ParentInv'
  OBVIOUS
<1> USE NoIdAssumption DEF TypeOK, ParentInv
<1>1. ASSUME NEW i \in Ids, SpawnBody(i) PROVE ParentInv'
  BY <1>1 DEF SpawnBody, Register
<1>2. ASSUME SpawnCommit PROVE ParentInv'
  BY <1>2 DEF SpawnCommit
<1>3. ASSUME Dispatch PROVE ParentInv'
  BY <1>3 DEF Dispatch
<1>4. ASSUME NEW i \in Ids, RecordBody(i) PROVE ParentInv'
  BY <1>4 DEF RecordBody
<1>5. ASSUME NEW i \in Ids, RecordCommit(i) \/ MarkCommit(i) \/ Cancel(i) PROVE ParentInv'
  <2>1. PICK x \in {"decided", "done", "cancelled"} : child' = [child EXCEPT ![i] = x]
    BY <1>5 DEF RecordCommit, MarkCommit, Cancel, Return
  <2>2. child[i] # "none" /\ UNCHANGED <<pc, current, minted, files>>
    BY <1>5 DEF RecordCommit, MarkCommit, Cancel, Return
  <2> QED BY <2>1, <2>2
<1>6. ASSUME Crash PROVE ParentInv'
  BY <1>6 DEF Crash, durable
<1>7. ASSUME UNCHANGED <<pc, current, child, minted, files>> PROVE ParentInv'
  BY <1>7
<1> QED BY <1>1, <1>2, <1>3, <1>4, <1>5, <1>6, <1>7
        DEF Next, ParentStep, ChildStep, Publish, MarkBody, vars, durable, volatile

\* Every step keeps what a child's place says of the files and of the bus.
LEMMA ChildStays == TypeOK /\ ParentInv /\ ChildInv /\ [Next]_vars => ChildInv'
<1> SUFFICES ASSUME TypeOK, ParentInv, ChildInv, [Next]_vars PROVE ChildInv'
  OBVIOUS
<1> USE DEF TypeOK, ChildInv
<1>1. ASSUME Dispatch PROVE ChildInv'
  BY <1>1 DEF Dispatch, ParentInv
<1>2. ASSUME NEW i \in Ids, RecordBody(i) PROVE ChildInv'
  BY <1>2 DEF RecordBody
<1>3. ASSUME NEW i \in Ids, RecordCommit(i) \/ MarkCommit(i) \/ Cancel(i) PROVE ChildInv'
  <2>1. /\ \A j \in Ids \ {i} : child'[j] = child[j] /\ vol'[j] = vol[j]
        /\ vol'[i] = "journal"
        /\ UNCHANGED <<snap, told>>
    BY <1>3 DEF RecordCommit, MarkCommit, Cancel, Return
  <2> QED BY <2>1
<1>4. ASSUME NEW i \in Ids, Publish(i) PROVE ChildInv'
  BY <1>4 DEF Publish, durable
<1>5. ASSUME NEW i \in Ids, MarkBody(i) PROVE ChildInv'
  BY <1>5 DEF MarkBody
<1>6. ASSUME Crash PROVE ChildInv'
  BY <1>6 DEF Crash, durable
<1>7. ASSUME UNCHANGED <<child, vol, snap, told>> PROVE ChildInv'
  BY <1>7
<1> QED BY <1>1, <1>2, <1>3, <1>4, <1>5, <1>6, <1>7
        DEF Next, ParentStep, ChildStep, SpawnBody, SpawnCommit, vars, durable, volatile

-----------------------------------------------------------------------------
(* Ghosts *)

\* Only a crash makes a ghost.
LEMMA GhostsStay == TypeOK /\ ParentInv /\ OneGhostPerCrash /\ [Next]_vars => OneGhostPerCrash'
<1> SUFFICES ASSUME TypeOK, ParentInv, OneGhostPerCrash, [Next]_vars PROVE OneGhostPerCrash'
  OBVIOUS
<1> DEFINE Ghosts == {i \in Ids : Ghost(i)}
           GhostsAfter == {i \in Ids : Ghost(i)'}
<1>1. IsFiniteSet(Ghosts) /\ Cardinality(Ghosts) \in Nat
  BY ConstantsAssumption, FS_Subset, FS_CardinalityType
<1>2. CASE Crash
  <2>1. GhostsAfter \subseteq Ghosts \cup {current}
    BY <1>2 DEF Crash, durable, Ghost
  <2>2. /\ IsFiniteSet(Ghosts \cup {current})
        /\ Cardinality(Ghosts \cup {current}) <= Cardinality(Ghosts) + 1
        /\ Cardinality(Ghosts \cup {current}) \in Nat
    <3> HIDE DEF Ghosts
    <3>1. CASE current \in Ghosts
      <4>1. Ghosts \cup {current} = Ghosts
        BY <3>1
      <4> QED BY <1>1, <4>1
    <3>2. CASE current \notin Ghosts
      <4>1. /\ IsFiniteSet(Ghosts \cup {current})
            /\ Cardinality(Ghosts \cup {current}) = Cardinality(Ghosts) + 1
        BY <1>1, <3>2, FS_AddElement
      <4> QED BY <1>1, <4>1
    <3> QED BY <3>1, <3>2
  <2>3. Cardinality(GhostsAfter) <= Cardinality(Ghosts \cup {current}) /\ IsFiniteSet(GhostsAfter)
    BY <2>1, <2>2, FS_Subset
  <2>4. Cardinality(GhostsAfter) \in Nat /\ crashes' = crashes + 1 /\ crashes \in Nat
    BY <1>2, <2>3, FS_CardinalityType DEF Crash, TypeOK
  <2>5. Cardinality(Ghosts) <= crashes
    BY DEF OneGhostPerCrash
  <2>6. Cardinality(GhostsAfter) <= crashes'
    BY <1>1, <2>2, <2>3, <2>4, <2>5
  <2> QED BY <2>6 DEF OneGhostPerCrash
<1>3. CASE ~Crash
  <2>1. ASSUME NEW i \in Ids, Ghost(i)' PROVE Ghost(i)
    <3>1. ASSUME NEW j \in Ids, SpawnBody(j) PROVE Ghost(i)
      BY <2>1, <3>1, NoIdAssumption DEF SpawnBody, ParentInv, Ghost
    <3>2. ASSUME Dispatch PROVE Ghost(i)
      BY <2>1, <3>2 DEF Dispatch, TypeOK, ParentInv, Ghost
    <3>3. ASSUME NEW j \in Ids, RecordCommit(j) \/ MarkCommit(j) \/ Cancel(j) PROVE Ghost(i)
      <4>1. PICK x \in {"decided", "done", "cancelled"} : child' = [child EXCEPT ![j] = x]
        BY <3>3 DEF RecordCommit, MarkCommit, Cancel, Return
      <4>2. UNCHANGED <<current, minted>>
        BY <3>3 DEF RecordCommit, MarkCommit, Cancel
      <4> QED BY <2>1, <4>1, <4>2 DEF TypeOK, Ghost
    <3>4. ASSUME UNCHANGED <<child, current, minted>> PROVE Ghost(i)
      BY <2>1, <3>4 DEF Ghost
    <3> QED BY <1>3, <3>1, <3>2, <3>3, <3>4
            DEF Next, ParentStep, ChildStep, SpawnCommit, RecordBody, Publish, MarkBody,
                vars, durable, volatile
  <2>2. GhostsAfter \subseteq Ghosts
    BY <2>1
  <2>3. Cardinality(GhostsAfter) <= Cardinality(Ghosts) /\ Cardinality(GhostsAfter) \in Nat
    BY <1>1, <2>2, FS_Subset, FS_CardinalityType
  <2>4. crashes' = crashes /\ crashes \in Nat
    BY <1>3 DEF Next, ParentStep, ChildStep, SpawnBody, SpawnCommit, Dispatch, RecordBody,
           RecordCommit, Publish, MarkBody, MarkCommit, Cancel, vars, TypeOK
  <2>5. Cardinality(Ghosts) <= crashes
    BY DEF OneGhostPerCrash
  <2>6. Cardinality(GhostsAfter) <= crashes'
    BY <1>1, <2>3, <2>4, <2>5
  <2> QED BY <2>6 DEF OneGhostPerCrash
<1> QED BY <1>2, <1>3

-----------------------------------------------------------------------------
(* The batch, as long as nobody joins during an announcement *)

\* The premises of every step below.
Settled == TypeOK /\ ParentInv /\ ChildInv /\ BatchInv

\* A registration: the race-free case has no announcement under way, so what a
\* removed directory held was told.
LEMMA JoinKeeps ==
  ASSUME Settled, NEW i \in Ids, SpawnBody(i), ~raced'
  PROVE  BatchInv'
<1>1. /\ UNCHANGED <<child, snap, wants, vol, told>> /\ sentinel' = FALSE
      /\ \A j \in Ids : ~InFlight(j)
  BY DEF SpawnBody, Register
<1>2. files' = (IF sentinel THEN {} ELSE files) \cup {i}
      /\ complete' = IF sentinel THEN {} ELSE complete
  BY DEF SpawnBody, Register
<1>3. FlightCovers'
  BY <1>1 DEF FlightCovers, InFlight
<1>4. SentinelCovers'
  <2>1. \A j \in Ids : vol[j] # "marked"
    BY <1>1 DEF Settled, ChildInv, InFlight
  <2> QED BY <1>1, <2>1 DEF SentinelCovers
<1>5. NobodyForgotten'
  BY <1>1, <1>2 DEF Settled, BatchInv, NobodyForgotten, SentinelCovers
<1>6. i \in files' /\ i \notin complete'
  BY <1>2 DEF Settled, TypeOK, ParentInv, SpawnBody
<1>7. SomebodyDecides'
  BY <1>6 DEF SomebodyDecides
<1> QED BY <1>3, <1>4, <1>5, <1>7 DEF BatchInv

\* The start of a child keeps the batch's books.
LEMMA DispatchKeeps ==
  ASSUME Settled, Dispatch
  PROVE  BatchInv'
<1>1. /\ UNCHANGED <<files, complete, sentinel, snap, wants, vol, told>>
      /\ current \in files /\ current \in Ids /\ child[current] = "none"
      /\ child' = [child EXCEPT ![current] = "pending"]
  BY DEF Dispatch, Settled, ParentInv, TypeOK
<1>2. \A j \in Ids : /\ InFlight(j)' <=> InFlight(j)
                     /\ Unsettled(j) => Unsettled(j)'
  BY <1>1 DEF Settled, TypeOK, InFlight, Unsettled
<1>3. NobodyForgotten'
  BY <1>1 DEF Settled, TypeOK, BatchInv, NobodyForgotten
<1>4. FlightCovers' /\ SentinelCovers'
  BY <1>1, <1>2 DEF Settled, BatchInv, FlightCovers, SentinelCovers
<1>5. SomebodyDecides'
  BY <1>1, <1>2 DEF Settled, TypeOK, BatchInv, SomebodyDecides
<1> QED BY <1>3, <1>4, <1>5 DEF BatchInv

\* A child that records adds nothing to a directory that is covered: it was in
\* it, or was told.
LEMMA RecordKeeps ==
  ASSUME Settled, NEW i \in Ids, RecordBody(i)
  PROVE  BatchInv'
<1>1. /\ child[i] = "pending" /\ vol[i] = "journal" /\ ~InFlight(i)
      /\ files' = files \cup {i} /\ complete' = complete \cup {i}
      /\ UNCHANGED <<sentinel, child, told>>
      /\ vol' = [vol EXCEPT ![i] = "wrote"]
  BY DEF RecordBody, InFlight
<1>2. /\ snap'[i] = complete'
      /\ wants'[i] <=> files' \subseteq complete' /\ ~sentinel
      /\ \A j \in Ids \ {i} : snap'[j] = snap[j] /\ wants'[j] = wants[j] /\ vol'[j] = vol[j]
  BY DEF RecordBody, Settled, TypeOK
<1>3. i \in files \cup told
  BY <1>1 DEF Settled, BatchInv, NobodyForgotten
<1>4. /\ \A j \in Ids \ {i} : InFlight(j)' <=> InFlight(j)
      /\ InFlight(i)' <=> wants'[i]
  BY <1>1, <1>2 DEF InFlight, Settled, TypeOK
<1>5. FlightCovers'
  BY <1>1, <1>2, <1>3, <1>4 DEF Settled, BatchInv, FlightCovers
<1>6. SentinelCovers'
  BY <1>1, <1>2, <1>3 DEF Settled, TypeOK, BatchInv, SentinelCovers
<1>7. NobodyForgotten'
  BY <1>1, <1>2 DEF Settled, BatchInv, NobodyForgotten
<1>8. ~sentinel' /\ files' = complete' => Unsettled(i)' /\ i \in complete'
  BY <1>1, <1>2, <1>4 DEF Unsettled
<1>9. SomebodyDecides'
  BY <1>8 DEF SomebodyDecides
<1> QED BY <1>5, <1>6, <1>7, <1>9 DEF BatchInv

\* The end of a record step: of a child that announces, or of one that leaves
\* it to another.
LEMMA RecordCommitKeeps ==
  ASSUME Settled, NEW i \in Ids, RecordCommit(i)
  PROVE  BatchInv'
<1>1. /\ child[i] = "pending" /\ vol[i] = "wrote"
      /\ UNCHANGED <<files, complete, sentinel, snap, wants, told>>
      /\ vol' = [vol EXCEPT ![i] = "journal"]
      /\ \A j \in Ids \ {i} : child'[j] = child[j] /\ vol'[j] = vol[j]
      /\ child'[i] = IF wants[i] THEN "decided" ELSE "done"
  BY DEF RecordCommit, Return, Settled, TypeOK
<1>2. \A j \in Ids : /\ InFlight(j)' <=> InFlight(j)
                     /\ Unsettled(j) => Unsettled(j)'
  BY <1>1 DEF Settled, TypeOK, InFlight, Unsettled
<1>3. FlightCovers' /\ SentinelCovers'
  BY <1>1, <1>2 DEF Settled, TypeOK, BatchInv, FlightCovers, SentinelCovers
<1>4. NobodyForgotten'
  BY <1>1 DEF Settled, TypeOK, BatchInv, NobodyForgotten
<1>5. SomebodyDecides'
  BY <1>1, <1>2 DEF Settled, TypeOK, BatchInv, SomebodyDecides
<1> QED BY <1>3, <1>4, <1>5 DEF BatchInv

\* So does a publication.
LEMMA PublishKeeps ==
  ASSUME Settled, NEW i \in Ids, Publish(i)
  PROVE  BatchInv'
<1>1. /\ child[i] = "decided" /\ vol[i] = "journal"
      /\ UNCHANGED <<files, complete, sentinel, child, snap, wants>>
      /\ told \subseteq told'
      /\ vol' = [vol EXCEPT ![i] = "published"]
  BY DEF Publish, durable
<1>2. \A j \in Ids : /\ InFlight(j)' <=> InFlight(j)
                     /\ Unsettled(j) => Unsettled(j)'
                     /\ vol'[j] \in {"wrote", "marked"} => vol'[j] = vol[j]
  BY <1>1 DEF Settled, TypeOK, InFlight, Unsettled
<1>3. FlightCovers' /\ SentinelCovers'
  BY <1>1, <1>2 DEF Settled, BatchInv, FlightCovers, SentinelCovers
<1>4. NobodyForgotten'
  BY <1>1, <1>2 DEF Settled, BatchInv, NobodyForgotten
<1>5. SomebodyDecides'
  BY <1>1, <1>2 DEF Settled, TypeOK, BatchInv, SomebodyDecides
<1> QED BY <1>3, <1>4, <1>5 DEF BatchInv

\* The sentinel appears after the publication that covers the directory.
LEMMA MarkKeeps ==
  ASSUME Settled, NEW i \in Ids, MarkBody(i)
  PROVE  BatchInv'
<1>1. /\ child[i] = "decided" /\ vol[i] = "published" /\ sentinel' = TRUE
      /\ UNCHANGED <<files, complete, child, snap, wants, told>>
      /\ vol' = [vol EXCEPT ![i] = "marked"]
  BY DEF MarkBody
<1>2. files \subseteq complete /\ complete \subseteq told
  BY <1>1 DEF Settled, ChildInv, BatchInv, FlightCovers, InFlight
<1>3. \A j \in Ids : /\ InFlight(j)' <=> InFlight(j)
                     /\ vol'[j] = "wrote" => vol[j] = "wrote"
  BY <1>1 DEF Settled, TypeOK, InFlight
<1>4. FlightCovers' /\ SentinelCovers'
  BY <1>1, <1>2, <1>3 DEF Settled, BatchInv, FlightCovers, SentinelCovers
<1>5. NobodyForgotten' /\ SomebodyDecides'
  BY <1>1, <1>3 DEF Settled, BatchInv, NobodyForgotten, SomebodyDecides
<1> QED BY <1>4, <1>5 DEF BatchInv

\* A child that ends: it has marked, or it is cancelled.
LEMMA EndKeeps ==
  ASSUME Settled, NEW i \in Ids, MarkCommit(i) \/ Cancel(i)
  PROVE  BatchInv'
<1>1. /\ UNCHANGED <<files, complete, sentinel, snap, wants, told>>
      /\ vol' = [vol EXCEPT ![i] = "journal"]
      /\ \/ child' = [child EXCEPT ![i] = "done"] /\ child[i] = "decided" /\ vol[i] = "marked"
         \/ child' = [child EXCEPT ![i] = "cancelled"]
  BY DEF MarkCommit, Cancel, Return
<1>2. \A j \in Ids \ {i} : child'[j] = child[j] /\ vol'[j] = vol[j]
  BY <1>1 DEF Settled, TypeOK
<1>3. vol'[i] = "journal" /\ child'[i] \in {"done", "cancelled"}
  BY <1>1 DEF Settled, TypeOK
<1>4. \A j \in Ids : InFlight(j)' => InFlight(j)
  BY <1>1, <1>2, <1>3 DEF InFlight
<1>5. FlightCovers' /\ SentinelCovers'
  BY <1>1, <1>2, <1>3, <1>4 DEF Settled, BatchInv, FlightCovers, SentinelCovers
<1>6. NobodyForgotten'
  <2>1. child'[i] = "done" => i \in complete
    BY <1>1, <1>3 DEF Settled, TypeOK, BatchInv, FlightCovers, InFlight
  <2> QED BY <1>1, <1>2, <1>3, <2>1 DEF Settled, BatchInv, NobodyForgotten
<1>7. SomebodyDecides'
  <2>1. CASE vol[i] = "marked"
    BY <1>1, <2>1 DEF Settled, BatchInv, SentinelCovers, SomebodyDecides
  <2>2. CASE vol[i] # "marked"
    <3>1. child'[i] = "cancelled"
      BY <1>1, <2>2 DEF Settled, TypeOK
    <3>2. \A j \in Ids : Unsettled(j) => Unsettled(j)'
      BY <1>1, <1>2, <3>1 DEF Unsettled, InFlight
    <3> QED BY <1>1, <3>2 DEF Settled, TypeOK, BatchInv, SomebodyDecides
  <2> QED BY <2>1, <2>2
<1> QED BY <1>5, <1>6, <1>7 DEF BatchInv

\* So does a crash, wherever it falls.
LEMMA CrashKeeps ==
  ASSUME Settled, Crash
  PROVE  BatchInv'
<1>1. /\ UNCHANGED <<files, complete, sentinel, child, snap, wants, told>>
      /\ \A i \in Ids : vol'[i] = "journal"
  BY DEF Crash, durable
<1>2. \A i \in Ids : /\ InFlight(i)' => InFlight(i)
                     /\ Unsettled(i) => Unsettled(i)'
  BY <1>1 DEF Settled, ChildInv, InFlight, Unsettled
<1>3. FlightCovers' /\ SentinelCovers'
  BY <1>1, <1>2 DEF Settled, BatchInv, FlightCovers, SentinelCovers
<1>4. NobodyForgotten'
  BY <1>1 DEF Settled, BatchInv, NobodyForgotten
<1>5. SomebodyDecides'
  BY <1>1, <1>2 DEF Settled, TypeOK, BatchInv, SomebodyDecides
<1> QED BY <1>3, <1>4, <1>5 DEF BatchInv

\* No step breaks the invariant: body, commit, dispatch, publication, mark and crash.
THEOREM DurableStep == DurableInv /\ [Next]_vars => DurableInv'
<1> SUFFICES ASSUME DurableInv, [Next]_vars PROVE DurableInv'
  OBVIOUS
<1>1. TypeOK' /\ ParentInv' /\ ChildInv' /\ OneGhostPerCrash'
  BY TypeStep, ParentStays, ChildStays, GhostsStay DEF DurableInv
<1>2. ASSUME ~raced' PROVE BatchInv'
  <2>1. ~raced
    BY <1>2 DEF Next, ParentStep, ChildStep, SpawnBody, SpawnCommit, Dispatch, RecordBody,
           RecordCommit, Publish, MarkBody, MarkCommit, Cancel, Crash, vars
  <2>2. Settled
    BY <2>1 DEF DurableInv, Settled
  <2>3. ASSUME UNCHANGED <<files, complete, sentinel, child, snap, wants, vol, told>>
        PROVE  BatchInv'
    BY <2>2, <2>3 DEF Settled, BatchInv, FlightCovers, SentinelCovers, NobodyForgotten,
           SomebodyDecides, Unsettled, InFlight
  <2> QED BY <1>2, <2>2, <2>3, JoinKeeps, DispatchKeeps, RecordKeeps, RecordCommitKeeps,
             PublishKeeps, MarkKeeps, EndKeeps, CrashKeeps
          DEF Next, ParentStep, ChildStep, SpawnCommit, vars, durable, volatile
<1> QED BY <1>1, <1>2 DEF DurableInv

-----------------------------------------------------------------------------
(* The theorems *)

\* Every state of the durable batch has the invariant.
THEOREM DurableSafety == Spec => []DurableInv
BY DurableInit, DurableStep, PTL DEF Spec

\* Every variable keeps its type, whatever crashes and replays come.
THEOREM DurableTypes == Spec => []TypeOK
<1>1. DurableInv => TypeOK
  BY DEF DurableInv
<1> QED BY <1>1, DurableSafety, PTL

\* The sentinel exists only when everything it covers was published.
THEOREM SentinelTells == Spec => []SentinelMeansTold
<1>1. DurableInv => SentinelMeansTold
  BY DEF DurableInv, BatchInv, SentinelCovers, SentinelMeansTold
<1> QED BY <1>1, DurableSafety, PTL

\* Across any number of crashes no recorded completion is dropped, unless a
\* member joined while an announcement was in flight.
THEOREM NothingLost == Spec => []DroppedOnlyIfRaced
<1>1. ASSUME DurableInv PROVE DroppedOnlyIfRaced
  <2> SUFFICES ASSUME NEW i \in Ids, Unreported(i), ~raced PROVE StillOwed(i)
    BY DEF DroppedOnlyIfRaced
  <2>1. TypeOK /\ BatchInv
    BY <1>1 DEF DurableInv
  <2>2. i \in complete /\ i \notin told
    BY <2>1 DEF Unreported, BatchInv, NobodyForgotten
  <2>3. ~sentinel
    BY <2>1, <2>2 DEF BatchInv, SentinelCovers
  <2>4. CASE files # complete
    BY <2>2, <2>3, <2>4 DEF StillOwed
  <2>5. CASE files = complete
    <3>1. PICK j \in complete : Unsettled(j)
      BY <2>1, <2>2, <2>3, <2>5 DEF BatchInv, SomebodyDecides
    <3>2. j \in Ids
      BY <2>1, <3>1 DEF TypeOK
    <3>3. CASE child[j] \in {"pending", "cancelled"}
      BY <2>2, <2>3, <3>1, <3>3 DEF StillOwed
    <3>4. CASE child[j] = "decided"
      <4>1. i \in snap[j]
        BY <2>1, <2>2, <3>2, <3>4 DEF BatchInv, FlightCovers, InFlight
      <4> QED BY <3>2, <3>4, <4>1 DEF StillOwed
    <3>5. child[j] \in {"pending", "cancelled", "decided"}
      BY <1>1, <3>1, <3>2 DEF DurableInv, ChildInv, Unsettled, InFlight
    <3> QED BY <3>3, <3>4, <3>5
  <2> QED BY <2>4, <2>5
<1> QED BY <1>1, DurableSafety, PTL

\* A crash leaves at most one member behind that no workflow will complete.
THEOREM GhostsBounded == Spec => []OneGhostPerCrash
<1>1. DurableInv => OneGhostPerCrash
  BY DEF DurableInv
<1> QED BY <1>1, DurableSafety, PTL
=============================================================================
