--------------------------- MODULE Steering_proofs ---------------------------
(***************************************************************************)
(* Proofs about Steering, for any finite set of deliveries and any number  *)
(* of crashes.                                                             *)
(*                                                                         *)
(* The inductive invariant SteeringInv adds three parts to the properties: *)
(* what a turn is doing (TurnInv), that the partition runs its workflows   *)
(* one at a time and only the first of it may have dispatched a turn       *)
(* (QueueInv), and where an accepted message is (KeptInv).  On top of it,  *)
(* OrderInv says what of the appended messages has been read and PlacesInv *)
(* bounds the places of a message; each is inductive with SteeringInv.     *)
(***************************************************************************)
EXTENDS Steering, FiniteSetTheorems, SequenceTheorems, TLAPS

Open(t) == turn[t] \in {"working", "ending", "published"}
Busy(w) == route[w] = "queue" /\ inbound[w] = "pending"

TurnInv ==
  /\ \A t \in sent : turn[t] = "ending"
  /\ \A t \in Deliveries : drain[t] # "idle" => t \in live /\ turn[t] = "working"
  /\ \A t \in Deliveries : drain[t] \in {"idle", "renamed", "both"} => taken[t] = <<>>

QueueInv ==
  /\ \A i, j \in DOMAIN queue : queue[i] = queue[j] => i = j
  /\ \A i \in DOMAIN queue : inbound[queue[i]] = "enqueued"
  /\ \A w \in Deliveries : inbound[w] = "enqueued" =>
        route[w] = "queue" /\ \E i \in DOMAIN queue : queue[i] = w
  /\ \A w \in Deliveries : inbound[w] # "none" => route[w] \in {"queue", "direct"}
  /\ \A w, x \in Deliveries : Busy(w) /\ Busy(x) => w = x
  /\ \A i \in DOMAIN queue : turn[queue[i]] # "none" => i = 1 /\ \A w \in Deliveries : ~Busy(w)
  /\ \A w \in Deliveries : body[w] # "off" => inbound[w] = "pending"
  /\ \A w \in Deliveries : body[w] \in {"storing", "appended"} => turn[w] = "none"
  /\ \A w \in Deliveries : Open(w) => inbound[w] \notin {"none", "done"}
  /\ \A w \in Deliveries : inbound[w] = "none" => turn[w] = "none"

\* Places(m) is not empty.
Kept(m) ==
  \/ \E t \in Deliveries : turn[t] # "none" /\ Original[t] = m
  \/ \E t \in Deliveries : m \in ToSet(given[t]) \cup ToSet(taken[t])
  \/ m \in ToSet(mailbox) \cup ToSet(draining)

KeptInv ==
  \A w \in Deliveries :
     /\ body[w] = "waiting" => turn[w] # "none"
     /\ inbound[w] \in {"done", "failed"} \/ body[w] = "appended" =>
           Kept(Original[w]) \/ Original[w] \in cut

SteeringInv == TypeOK /\ RegistryIsRight /\ TurnInv /\ QueueInv /\ KeptInv

-----------------------------------------------------------------------------
(* Sequences and sets *)

\* The turns whose body executes are finitely many.
LEMMA LiveFinite ==
  ASSUME NEW S \in SUBSET Deliveries
  PROVE  IsFiniteSet(S) /\ Cardinality(S) \in Nat
BY ConstantsAssumption, FS_Subset, FS_CardinalityType

\* Of no workflow, and of one.
LEMMA SetToSeqEmpty == SetToSeq({}) = <<>>
<1>1. <<>> \in [1..0 -> {}] /\ IsInjective(<<>>)
  BY DEF IsInjective
<1>2. Cardinality({}) = 0
  BY FS_EmptySet
<1>3. SetToSeq({}) \in [1..0 -> {}]
  BY <1>1, <1>2 DEF SetToSeq
<1> QED BY <1>3

\* A set of one as a sequence.
LEMMA SetToSeqOne ==
  ASSUME NEW w
  PROVE  SetToSeq({w}) = <<w>>
<1>1. <<w>> \in [1..1 -> {w}] /\ IsInjective(<<w>>)
  BY DEF IsInjective
<1>2. Cardinality({w}) = 1
  BY FS_Singleton
<1>3. SetToSeq({w}) \in [1..1 -> {w}]
  BY <1>1, <1>2 DEF SetToSeq
<1> QED BY <1>3

\* What an append makes of a sequence's elements.
LEMMA AppendHasBoth ==
  ASSUME NEW S, NEW s \in Seq(S), NEW x \in S
  PROVE  ToSet(Append(s, x)) = ToSet(s) \cup {x}
<1>1. ASSUME NEW e \in ToSet(Append(s, x)) PROVE e \in ToSet(s) \cup {x}
  BY DEF ToSet
<1>2. ASSUME NEW e \in ToSet(s) PROVE e \in ToSet(Append(s, x))
  <2>1. PICK i \in DOMAIN s : s[i] = e
    BY DEF ToSet
  <2>2. i \in DOMAIN Append(s, x) /\ Append(s, x)[i] = e
    BY <2>1
  <2> QED BY <2>2 DEF ToSet
<1>3. x \in ToSet(Append(s, x))
  <2>1. Len(s) + 1 \in DOMAIN Append(s, x) /\ Append(s, x)[Len(s) + 1] = x
    OBVIOUS
  <2> QED BY <2>1 DEF ToSet
<1> QED BY <1>1, <1>2, <1>3

\* What a concatenation has.
LEMMA ConcatHasBoth ==
  ASSUME NEW S, NEW s \in Seq(S), NEW t \in Seq(S)
  PROVE  ToSet(s \o t) = ToSet(s) \cup ToSet(t)
<1>1. ASSUME NEW e \in ToSet(s \o t) PROVE e \in ToSet(s) \cup ToSet(t)
  <2>1. PICK i \in DOMAIN (s \o t) : (s \o t)[i] = e
    BY DEF ToSet
  <2>2. CASE i <= Len(s)
    BY <2>1, <2>2 DEF ToSet
  <2>3. CASE i > Len(s)
    <3>1. i - Len(s) \in DOMAIN t /\ t[i - Len(s)] = e
      BY <2>1, <2>3
    <3> QED BY <3>1 DEF ToSet
  <2> QED BY <2>1, <2>2, <2>3
<1>2. ASSUME NEW e \in ToSet(s) PROVE e \in ToSet(s \o t)
  <2>1. PICK i \in DOMAIN s : s[i] = e
    BY DEF ToSet
  <2>2. i \in DOMAIN (s \o t) /\ (s \o t)[i] = e
    BY <2>1
  <2> QED BY <2>2 DEF ToSet
<1>3. ASSUME NEW e \in ToSet(t) PROVE e \in ToSet(s \o t)
  <2>1. PICK i \in DOMAIN t : t[i] = e
    BY DEF ToSet
  <2>2. Len(s) + i \in DOMAIN (s \o t) /\ (s \o t)[Len(s) + i] = e
    BY <2>1
  <2> QED BY <2>2 DEF ToSet
<1> QED BY <1>1, <1>2, <1>3

Requeued == {w \in Deliveries : inbound[w] = "pending" /\ route[w] = "queue"}

\* What a crash puts in front of the partition: nothing or one workflow.
LEMMA RequeuedFacts ==
  ASSUME QueueInv
  PROVE  \/ Requeued = {} /\ SetToSeq(Requeued) = <<>>
         \/ \E w \in Deliveries : Requeued = {w} /\ SetToSeq(Requeued) = <<w>>
<1>1. \A w, x \in Requeued : w = x
  BY DEF QueueInv, Busy, Requeued
<1>2. CASE Requeued = {}
  BY <1>2, SetToSeqEmpty
<1>3. CASE Requeued # {}
  <2>1. PICK w \in Requeued : TRUE
    BY <1>3
  <2>2. Requeued = {w} /\ w \in Deliveries
    BY <1>1, <2>1 DEF Requeued
  <2> QED BY <2>2, SetToSeqOne
<1> QED BY <1>2, <1>3

-----------------------------------------------------------------------------
(* Init, and each part of the invariant step by step *)

\* The invariant holds before the first message.
THEOREM SteeringInit == Init => SteeringInv
<1> SUFFICES ASSUME Init PROVE SteeringInv
  OBVIOUS
<1>1. TypeOK
  BY ConstantsAssumption DEF Init, TypeOK, Texts
<1>2. RegistryIsRight
  BY FS_EmptySet DEF Init, RegistryIsRight
<1>3. TurnInv /\ QueueInv /\ KeptInv
  BY DEF Init, TurnInv, QueueInv, KeptInv, Busy, Open
<1> QED BY <1>1, <1>2, <1>3 DEF SteeringInv

\* A turn that leaves the registry: the count goes down by one.
LEMMA LeavingFacts ==
  ASSUME TypeOK, RegistryIsRight, NEW t \in live
  PROVE  active - 1 = Cardinality(live \ {t}) /\ active - 1 \in Nat
<1>1. live \in SUBSET Deliveries /\ live \ {t} \in SUBSET Deliveries
  BY DEF TypeOK
<1>2. IsFiniteSet(live) /\ Cardinality(live) \in Nat /\ Cardinality(live \ {t}) \in Nat
  BY <1>1, LiveFinite
<1>3. Cardinality(live \ {t}) = Cardinality(live) - 1
  BY <1>2, FS_RemoveElement
<1> QED BY <1>2, <1>3 DEF RegistryIsRight

\* The registry.
LEMMA RegistryStep == SteeringInv /\ [Next]_vars => RegistryIsRight'
<1> SUFFICES ASSUME SteeringInv, [Next]_vars PROVE RegistryIsRight'
  OBVIOUS
<1>0. TypeOK /\ RegistryIsRight
  BY DEF SteeringInv
<1>1. ASSUME NEW t \in Deliveries, Activate(t) PROVE RegistryIsRight'
  <2>1. live \in SUBSET Deliveries /\ t \notin live
    BY <1>0, <1>1 DEF TypeOK, Activate
  <2>2. Cardinality(live \cup {t}) = Cardinality(live) + 1
    BY <2>1, LiveFinite, FS_AddElement
  <2> QED BY <1>0, <1>1, <2>2 DEF Activate, RegistryIsRight
<1>2. ASSUME NEW t \in Deliveries, Finish(t) \/ Fail(t) PROVE RegistryIsRight'
  BY <1>0, <1>2, LeavingFacts DEF Finish, Fail, RegistryIsRight
<1>3. ASSUME Crash PROVE RegistryIsRight'
  BY <1>3, FS_EmptySet DEF Crash, RegistryIsRight
<1>4. ASSUME UNCHANGED <<live, active>> PROVE RegistryIsRight'
  BY <1>0, <1>4 DEF RegistryIsRight
<1> QED BY <1>1, <1>2, <1>3, <1>4
        DEF Next, Channel, CallStep, InboundStep, TurnStep, Receive, StartDirectly, Enqueue,
            Dequeue, StoreIfActive, Dispatch, ReplayDiverges, AppendBody, Return, DrainOpen,
            DrainRead, DrainCommit, PublishBody, PublishCommit, vars

\* Types.
LEMMA TypeStep == SteeringInv /\ [Next]_vars => TypeOK'
<1> SUFFICES ASSUME SteeringInv, [Next]_vars PROVE TypeOK'
  OBVIOUS
<1>0. TypeOK /\ TurnInv
  BY DEF SteeringInv
<1> USE <1>0 DEF TypeOK, database, mail, drains, history
<1>1. ASSUME NEW d \in Deliveries, Receive(d) PROVE TypeOK'
  BY <1>1 DEF Receive
<1>2. ASSUME NEW d \in Deliveries, StartDirectly(d) PROVE TypeOK'
  <2>1. Original[d] \in Deliveries
    BY ConstantsAssumption
  <2>2. CASE inbound[Original[d]] = "none"
    <3>1. /\ inbound' = [inbound EXCEPT ![Original[d]] = "pending"]
          /\ route' = [route EXCEPT ![Original[d]] = "direct"]
          /\ body' = [body EXCEPT ![Original[d]] = "entered"]
      BY <1>2, <2>2 DEF StartDirectly, WorkflowId
    <3>2. call' \in [Deliveries -> {"new", "steer", "enqueue", "accepted"}]
      BY <1>2 DEF StartDirectly
    <3>3. /\ inbound' \in [Deliveries -> {"none", "enqueued", "pending", "done", "failed"}]
          /\ route' \in [Deliveries -> {"none", "queue", "direct"}]
      BY <2>1, <3>1
    <3>4. body' \in [Deliveries -> {"off", "entered", "storing", "appended", "waiting"}]
      BY <2>1, <3>1
    <3> QED BY <1>2, <3>2, <3>3, <3>4 DEF StartDirectly
  <2>3. CASE inbound[Original[d]] # "none"
    BY <1>2, <2>1, <2>3 DEF StartDirectly, WorkflowId
  <2> QED BY <2>2, <2>3
<1>3. ASSUME NEW d \in Deliveries, Enqueue(d) PROVE TypeOK'
  <2>1. Original[d] \in Deliveries
    BY ConstantsAssumption
  <2>2. CASE inbound[Original[d]] = "none"
    <3>1. /\ inbound' = [inbound EXCEPT ![Original[d]] = "enqueued"]
          /\ route' = [route EXCEPT ![Original[d]] = "queue"]
          /\ queue' = Append(queue, Original[d])
      BY <1>3, <2>2 DEF Enqueue, WorkflowId
    <3>2. call' \in [Deliveries -> {"new", "steer", "enqueue", "accepted"}]
      BY <1>3 DEF Enqueue
    <3>3. /\ inbound' \in [Deliveries -> {"none", "enqueued", "pending", "done", "failed"}]
          /\ route' \in [Deliveries -> {"none", "queue", "direct"}]
      BY <2>1, <3>1
    <3>4. queue' \in Seq(Deliveries)
      BY <2>1, <3>1
    <3> QED BY <1>3, <3>2, <3>3, <3>4 DEF Enqueue
  <2>3. CASE inbound[Original[d]] # "none"
    BY <1>3, <2>1, <2>3 DEF Enqueue, WorkflowId
  <2> QED BY <2>2, <2>3
<1>4. ASSUME Dequeue PROVE TypeOK'
  BY <1>4 DEF Dequeue
<1>5. ASSUME NEW w \in Deliveries, StoreIfActive(w) PROVE TypeOK'
  BY <1>5 DEF StoreIfActive
<1>6. ASSUME NEW w \in Deliveries, Dispatch(w) PROVE TypeOK'
  BY <1>6 DEF Dispatch
<1>7. ASSUME NEW w \in Deliveries, ReplayDiverges(w) PROVE TypeOK'
  BY <1>7 DEF ReplayDiverges
<1>8. ASSUME NEW w \in Deliveries, AppendBody(w) PROVE TypeOK'
  <2>1. Original[w] \in Texts
    BY DEF Texts
  <2>2. late' \subseteq Texts
    BY <1>8, <2>1 DEF AppendBody
  <2>3. mailbox' \in Seq(Texts) /\ arrivals' \in Seq(Texts)
    BY <1>8, <2>1 DEF AppendBody
  <2>4. body' \in [Deliveries -> {"off", "entered", "storing", "appended", "waiting"}]
    BY <1>8 DEF AppendBody
  <2> QED BY <1>8, <2>2, <2>3, <2>4 DEF AppendBody
<1>9. ASSUME NEW w \in Deliveries, Return(w) PROVE TypeOK'
  BY <1>9 DEF Return
<1>10. ASSUME NEW t \in Deliveries, Activate(t) PROVE TypeOK'
  BY <1>10 DEF Activate
<1>11. ASSUME NEW t \in Deliveries, DrainOpen(t) PROVE TypeOK'
  <2>1. drain' \in [Deliveries -> {"idle", "renamed", "both", "second", "read"}]
    <3>1. drain' = [drain EXCEPT ![t] = "renamed"] \/ drain' = [drain EXCEPT ![t] = "both"]
      BY <1>11 DEF DrainOpen
    <3> QED BY <3>1
  <2>2. mailbox' \in Seq(Texts) /\ draining' \in Seq(Texts)
    <3>1. <<>> \in Seq(Texts)
      OBVIOUS
    <3>2. /\ mailbox' = mailbox \/ mailbox' = <<>>
          /\ draining' = draining \/ draining' = mailbox
      BY <1>11 DEF DrainOpen, mail
    <3>3. mailbox' \in Seq(Texts)
      BY <3>1, <3>2
    <3>4. draining' \in Seq(Texts)
      BY <3>1, <3>2
    <3> QED BY <3>3, <3>4
  <2> QED BY <1>11, <2>1, <2>2 DEF DrainOpen
<1>12. ASSUME NEW t \in Deliveries, DrainRead(t) PROVE TypeOK'
  <2>1. taken' \in [Deliveries -> Seq(Texts)]
    <3>1. taken[t] \o mailbox \in Seq(Texts)
      OBVIOUS
    <3>2. \/ taken' = [taken EXCEPT ![t] = draining]
          \/ taken' = [taken EXCEPT ![t] = @ \o mailbox]
      BY <1>12 DEF DrainRead
    <3>3. taken \in [Deliveries -> Seq(Texts)] /\ draining \in Seq(Texts)
      OBVIOUS
    <3>4. PICK s \in Seq(Texts) : taken' = [taken EXCEPT ![t] = s]
      <4>1. CASE taken' = [taken EXCEPT ![t] = draining]
        BY <4>1, <3>3
      <4>2. CASE taken' = [taken EXCEPT ![t] = @ \o mailbox]
        BY <4>2, <3>1
      <4> QED BY <4>1, <4>2, <3>2
    <3> QED BY <3>3, <3>4
  <2>2. drain' \in [Deliveries -> {"idle", "renamed", "both", "second", "read"}]
    <3>1. PICK x \in {"second", "read"} : drain' = [drain EXCEPT ![t] = x]
      BY <1>12 DEF DrainRead
    <3> QED BY <3>1
  <2>3. mailbox' \in Seq(Texts) /\ draining' \in Seq(Texts)
    <3>1. <<>> \in Seq(Texts)
      OBVIOUS
    <3>2. (mailbox' = mailbox \/ mailbox' = <<>>) /\ (draining' = draining \/ draining' = <<>>)
      BY <1>12 DEF DrainRead
    <3>3. mailbox' \in Seq(Texts)
      BY <3>1, <3>2
    <3>4. draining' \in Seq(Texts)
      BY <3>1, <3>2
    <3> QED BY <3>3, <3>4
  <2> QED BY <1>12, <2>1, <2>2, <2>3 DEF DrainRead
<1>13. ASSUME NEW t \in Deliveries, DrainCommit(t) PROVE TypeOK'
  BY <1>13 DEF DrainCommit
<1>14. ASSUME NEW t \in Deliveries, PublishBody(t) PROVE TypeOK'
  BY <1>14 DEF PublishBody
<1>15. ASSUME NEW t \in Deliveries, PublishCommit(t) PROVE TypeOK'
  BY <1>15 DEF PublishCommit
<1>16. ASSUME NEW t \in Deliveries, Finish(t) PROVE TypeOK'
  <2>1. turn' \in [Deliveries -> {"none", "working", "ending", "published", "done", "failed"}]
    BY <1>16 DEF Finish
  <2>2. active' \in Nat
    BY <1>16, LeavingFacts DEF Finish, SteeringInv
  <2>3. /\ live' \subseteq {u \in Deliveries : turn'[u] \in {"working", "ending", "published"}}
        /\ sent' \subseteq live'
    BY <1>16 DEF Finish, TurnInv
  <2> QED BY <1>16, <2>1, <2>2, <2>3 DEF Finish
<1>17. ASSUME NEW t \in Deliveries, Fail(t) PROVE TypeOK'
  <2>1. turn' \in [Deliveries -> {"none", "working", "ending", "published", "done", "failed"}]
    BY <1>17 DEF Fail
  <2>2. active' \in Nat
    BY <1>17, LeavingFacts DEF Fail, SteeringInv
  <2>3. /\ live' \subseteq {u \in Deliveries : turn'[u] \in {"working", "ending", "published"}}
        /\ sent' \subseteq live'
    BY <1>17 DEF Fail, TurnInv
  <2>4. late' \subseteq Texts
    <3>1. draining \o mailbox \in Seq(Texts)
      OBVIOUS
    <3>2. ToSet(draining \o mailbox) \subseteq Texts
      BY <3>1 DEF ToSet
    <3> QED BY <1>17, <3>2 DEF Fail
  <2> QED BY <1>17, <2>1, <2>2, <2>3, <2>4 DEF Fail
<1>18. ASSUME Crash PROVE TypeOK'
  <2>1. queue' \in Seq(Deliveries)
    <3>1. SetToSeq(Requeued) = <<>> \/ \E w \in Deliveries : SetToSeq(Requeued) = <<w>>
      BY RequeuedFacts DEF SteeringInv
    <3>2. SetToSeq(Requeued) \in Seq(Deliveries)
      <4>1. CASE SetToSeq(Requeued) = <<>>
        BY <4>1
      <4>2. ASSUME NEW w \in Deliveries, SetToSeq(Requeued) = <<w>>
            PROVE  SetToSeq(Requeued) \in Seq(Deliveries)
        <5>1. <<w>> \in Seq(Deliveries)
          OBVIOUS
        <5> QED BY <4>2, <5>1
      <4> QED BY <3>1, <4>1, <4>2
    <3>3. queue' = SetToSeq(Requeued) \o queue
      BY <1>18 DEF Crash, Requeued
    <3> QED BY <3>2, <3>3
  <2>2. cut' \subseteq Texts
    <3>1. \A t \in Deliveries : ToSet(taken[t]) \subseteq Texts
      BY DEF ToSet
    <3> QED BY <1>18, <3>1 DEF Crash
  <2>3. /\ inbound' \in [Deliveries -> {"none", "enqueued", "pending", "done", "failed"}]
        /\ body' \in [Deliveries -> {"off", "entered", "storing", "appended", "waiting"}]
        /\ call' \in [Deliveries -> {"new", "steer", "enqueue", "accepted"}]
        /\ drain' \in [Deliveries -> {"idle", "renamed", "both", "second", "read"}]
        /\ taken' \in [Deliveries -> Seq(Texts)]
    BY <1>18 DEF Crash
  <2>4. active' \in Nat /\ crashes' \in 0..MaxCrashes /\ live' = {} /\ sent' = {}
    BY <1>18, ConstantsAssumption DEF Crash
  <2> QED BY <1>18, <2>1, <2>2, <2>3, <2>4 DEF Crash
<1>19. CASE UNCHANGED vars
  BY <1>19 DEF vars
<1> QED BY <1>1, <1>2, <1>3, <1>4, <1>5, <1>6, <1>7, <1>8, <1>9, <1>10, <1>11, <1>12, <1>13,
           <1>14, <1>15, <1>16, <1>17, <1>18, <1>19
        DEF Next, Channel, CallStep, InboundStep, TurnStep

\* What a turn is doing.
LEMMA TurnKeeps == SteeringInv /\ [Next]_vars => TurnInv'
<1> SUFFICES ASSUME SteeringInv, [Next]_vars PROVE TurnInv'
  OBVIOUS
<1>0. TypeOK /\ TurnInv
  BY DEF SteeringInv
<1> USE <1>0 DEF TypeOK, TurnInv
<1>1. ASSUME NEW w \in Deliveries, Dispatch(w) PROVE TurnInv'
  BY <1>1 DEF Dispatch, drains
<1>2. ASSUME NEW t \in Deliveries, Activate(t) PROVE TurnInv'
  BY <1>2 DEF Activate, database, drains
<1>3. ASSUME NEW t \in Deliveries, DrainOpen(t) PROVE TurnInv'
  <2>1. PICK x \in {"renamed", "both"} : drain' = [drain EXCEPT ![t] = x]
    BY <1>3 DEF DrainOpen
  <2> QED BY <1>3, <2>1 DEF DrainOpen, database
<1>4. ASSUME NEW t \in Deliveries, DrainRead(t) PROVE TurnInv'
  <2>1. PICK x \in {"second", "read"} : drain' = [drain EXCEPT ![t] = x]
    BY <1>4 DEF DrainRead
  <2>2. drain[t] # "idle" /\ UNCHANGED <<turn, live, sent>>
    BY <1>4 DEF DrainRead, database
  <2>3. \A u \in Deliveries \ {t} : taken'[u] = taken[u]
    BY <1>4 DEF DrainRead
  <2> QED BY <2>1, <2>2, <2>3
<1>5. ASSUME NEW t \in Deliveries, DrainCommit(t) PROVE TurnInv'
  <2>1. PICK x \in {"working", "ending"} : turn' = [turn EXCEPT ![t] = x]
    BY <1>5 DEF DrainCommit
  <2> QED BY <1>5, <2>1 DEF DrainCommit
<1>6. ASSUME NEW t \in Deliveries, PublishBody(t) PROVE TurnInv'
  BY <1>6 DEF PublishBody, database, drains
<1>7. ASSUME NEW t \in Deliveries, PublishCommit(t) PROVE TurnInv'
  BY <1>7 DEF PublishCommit, drains
<1>8. ASSUME NEW t \in Deliveries, Finish(t) PROVE TurnInv'
  BY <1>8 DEF Finish, drains
<1>9. ASSUME NEW t \in Deliveries, Fail(t) PROVE TurnInv'
  BY <1>9 DEF Fail, drains
<1>10. ASSUME Crash PROVE TurnInv'
  BY <1>10 DEF Crash
<1>11. ASSUME UNCHANGED <<turn, live, sent, drain, taken>> PROVE TurnInv'
  BY <1>11
<1> QED BY <1>1, <1>2, <1>3, <1>4, <1>5, <1>6, <1>7, <1>8, <1>9, <1>10, <1>11
        DEF Next, Channel, CallStep, InboundStep, TurnStep, Receive, StartDirectly, Enqueue,
            Dequeue, StoreIfActive, ReplayDiverges, AppendBody, Return, vars, database, drains

\* The partition.  A turn that goes on, ends or fails leaves it alone.
LEMMA QueueRests ==
  ASSUME QueueInv, UNCHANGED <<inbound, route, queue, body>>,
         \A w \in Deliveries : turn'[w] = "none" <=> turn[w] = "none",
         \A w \in Deliveries : Open(w)' => Open(w),
         TypeOK
  PROVE  QueueInv'
<1>1. \A i \in DOMAIN queue : queue[i] \in Deliveries
  BY DEF TypeOK
<1> QED BY <1>1 DEF QueueInv, Busy

\* What an inbound workflow does after it was started.
LEMMA QueueBodies ==
  ASSUME SteeringInv, NEW w \in Deliveries,
         StoreIfActive(w) \/ Dispatch(w) \/ ReplayDiverges(w) \/ AppendBody(w) \/ Return(w)
  PROVE  QueueInv'
<1>0. TypeOK /\ QueueInv /\ \A i \in DOMAIN queue : queue[i] \in Deliveries
  BY DEF SteeringInv, TypeOK
<1>1. inbound[w] = "pending" /\ queue' = queue /\ route' = route
      /\ \A i \in DOMAIN queue : queue[i] # w
  BY <1>0 DEF TypeOK, QueueInv, StoreIfActive, Dispatch, ReplayDiverges, AppendBody, Return, database
<1>2. CASE StoreIfActive(w)
  BY <1>0, <1>1, <1>2 DEF TypeOK, QueueInv, Busy, Open, StoreIfActive, database
<1>3. CASE Dispatch(w)
  BY <1>0, <1>1, <1>3 DEF TypeOK, QueueInv, Busy, Open, Dispatch
<1>4. CASE ReplayDiverges(w)
  BY <1>0, <1>1, <1>4 DEF TypeOK, QueueInv, Busy, Open, ReplayDiverges
<1>5. CASE AppendBody(w)
  BY <1>0, <1>1, <1>5 DEF TypeOK, QueueInv, Busy, Open, AppendBody, database
<1>6. CASE Return(w)
  BY <1>0, <1>1, <1>6 DEF TypeOK, QueueInv, Busy, Open, Return
<1> QED BY <1>2, <1>3, <1>4, <1>5, <1>6

\* The start of a queued turn keeps the queue's part.
LEMMA QueueStarts ==
  ASSUME SteeringInv, NEW d \in Deliveries, StartDirectly(d) \/ Enqueue(d)
  PROVE  QueueInv'
<1>0. TypeOK /\ QueueInv /\ \A i \in DOMAIN queue : queue[i] \in Deliveries
  BY DEF SteeringInv, TypeOK
<1> DEFINE w == Original[d]
<1>1. w \in Deliveries
  BY ConstantsAssumption
<1>2. CASE inbound[w] # "none"
  <2>1. UNCHANGED <<inbound, route, queue, body, turn>>
    BY <1>2 DEF StartDirectly, Enqueue, WorkflowId
  <2> QED BY <1>0, <2>1 DEF QueueInv, Busy, Open
<1>3. CASE inbound[w] = "none" /\ StartDirectly(d)
  <2>1. /\ inbound' = [inbound EXCEPT ![w] = "pending"]
        /\ route' = [route EXCEPT ![w] = "direct"]
        /\ body' = [body EXCEPT ![w] = "entered"]
        /\ UNCHANGED <<queue, turn>>
    BY <1>3 DEF StartDirectly, WorkflowId
  <2>2. turn[w] = "none" /\ \A i \in DOMAIN queue : queue[i] # w
    BY <1>0, <1>1, <1>3 DEF QueueInv
  <2> HIDE DEF w
  <2> QED BY <1>0, <1>1, <1>3, <2>1, <2>2 DEF TypeOK, QueueInv, Busy, Open
<1>4. CASE inbound[w] = "none" /\ Enqueue(d)
  <2>1. /\ inbound' = [inbound EXCEPT ![w] = "enqueued"]
        /\ route' = [route EXCEPT ![w] = "queue"]
        /\ queue' = Append(queue, w)
        /\ UNCHANGED <<turn, body>>
    BY <1>4 DEF Enqueue, WorkflowId
  <2>2. turn[w] = "none" /\ body[w] = "off" /\ \A i \in DOMAIN queue : queue[i] # w
    BY <1>0, <1>1, <1>4 DEF QueueInv, TypeOK
  <2> HIDE DEF w
  <2>3. /\ DOMAIN queue' = DOMAIN queue \cup {Len(queue) + 1}
        /\ Len(queue) + 1 \notin DOMAIN queue
        /\ \A i \in DOMAIN queue : queue'[i] = queue[i]
        /\ queue'[Len(queue) + 1] = w
    <3>1. queue \in Seq(Deliveries)
      BY <1>0 DEF TypeOK
    <3> QED BY <1>1, <2>1, <3>1
  <2>4. \A i \in DOMAIN queue' : turn[queue'[i]] # "none" => i \in DOMAIN queue
    BY <2>2, <2>3
  <2>5. \A i, j \in DOMAIN queue' : queue'[i] = queue'[j] => i = j
    <3>1. \A i, j \in DOMAIN queue : queue[i] = queue[j] => i = j
      BY <1>0 DEF QueueInv
    <3> QED BY <3>1, <2>2, <2>3
  <2>6. \A i \in DOMAIN queue' : inbound'[queue'[i]] = "enqueued"
    BY <1>0, <1>1, <2>1, <2>2, <2>3 DEF QueueInv, TypeOK
  <2>7. \A x \in Deliveries : inbound'[x] = "enqueued" =>
           route'[x] = "queue" /\ \E i \in DOMAIN queue' : queue'[i] = x
    BY <1>0, <1>1, <2>1, <2>2, <2>3 DEF QueueInv, TypeOK
  <2>8. \A x \in Deliveries : Busy(x)' <=> Busy(x)
    BY <1>0, <1>1, <1>4, <2>1 DEF TypeOK, Busy
  <2>9. \A i \in DOMAIN queue' :
           turn'[queue'[i]] # "none" => i = 1 /\ \A x \in Deliveries : ~Busy(x)'
    BY <1>0, <2>1, <2>3, <2>4, <2>8 DEF QueueInv
  <2>10. /\ \A x \in Deliveries : inbound'[x] # "none" => route'[x] \in {"queue", "direct"}
         /\ \A x \in Deliveries : inbound'[x] = "none" => turn'[x] = "none"
    BY <1>0, <1>1, <2>1, <2>2 DEF TypeOK, QueueInv
  <2>11. /\ \A x \in Deliveries : body'[x] # "off" => inbound'[x] = "pending"
         /\ \A x \in Deliveries : body'[x] \in {"storing", "appended"} => turn'[x] = "none"
    BY <1>0, <1>1, <2>1, <2>2 DEF TypeOK, QueueInv
  <2>12. \A x \in Deliveries : Open(x)' => inbound'[x] \notin {"none", "done"}
    BY <1>0, <1>1, <2>1, <2>2 DEF TypeOK, QueueInv, Open
  <2> QED BY <1>0, <2>5, <2>6, <2>7, <2>8, <2>9, <2>10, <2>11, <2>12 DEF QueueInv
<1> QED BY <1>2, <1>3, <1>4

\* So does taking a workflow off the queue.
LEMMA QueueDequeues ==
  ASSUME SteeringInv, Dequeue
  PROVE  QueueInv'
<1>0. TypeOK /\ QueueInv /\ \A i \in DOMAIN queue : queue[i] \in Deliveries
  BY DEF SteeringInv, TypeOK
<1> DEFINE w == Head(queue)
<1>1. /\ DOMAIN queue = 1..Len(queue) /\ Len(queue) \in Nat \ {0} /\ w = queue[1]
      /\ w \in Deliveries
      /\ DOMAIN queue' = 1..(Len(queue) - 1)
      /\ \A i \in DOMAIN queue' : i + 1 \in DOMAIN queue /\ queue'[i] = queue[i + 1]
  BY <1>0 DEF Dequeue, TypeOK
<1>2. \A i \in DOMAIN queue \ {1} : i - 1 \in DOMAIN queue' /\ queue'[i - 1] = queue[i]
  BY <1>1
<1>3. /\ inbound' = [inbound EXCEPT ![w] = "pending"]
      /\ body' = [body EXCEPT ![w] = "entered"]
      /\ UNCHANGED <<route, turn>>
      /\ \A x \in Deliveries : ~Busy(x)
  BY DEF Dequeue, Busy
<1> HIDE DEF w
<1>4. inbound[w] = "enqueued" /\ \A i \in DOMAIN queue' : queue'[i] # w /\ turn[queue'[i]] = "none"
  <2>1. inbound[w] = "enqueued"
    BY <1>0, <1>1 DEF QueueInv
  <2>2. ASSUME NEW i \in DOMAIN queue' PROVE queue'[i] # w /\ turn[queue'[i]] = "none"
    <3>1. i + 1 \in DOMAIN queue /\ queue'[i] = queue[i + 1] /\ i + 1 # 1 /\ 1 \in DOMAIN queue
      BY <1>1
    <3> QED BY <1>0, <1>1, <3>1 DEF QueueInv
  <2> QED BY <2>1, <2>2
<1>5. \A i, j \in DOMAIN queue' : queue'[i] = queue'[j] => i = j
  BY <1>0, <1>1 DEF QueueInv
<1>6. \A i \in DOMAIN queue' : inbound'[queue'[i]] = "enqueued"
  BY <1>0, <1>1, <1>3, <1>4 DEF QueueInv, TypeOK
<1>7. \A x \in Deliveries : inbound'[x] = "enqueued" =>
         route'[x] = "queue" /\ \E i \in DOMAIN queue' : queue'[i] = x
  <2>1. SUFFICES ASSUME NEW x \in Deliveries, inbound'[x] = "enqueued"
                 PROVE  route'[x] = "queue" /\ \E i \in DOMAIN queue' : queue'[i] = x
    OBVIOUS
  <2>2. x # w /\ inbound[x] = "enqueued"
    BY <1>0, <1>1, <1>3, <2>1 DEF TypeOK
  <2>3. route[x] = "queue" /\ \E i \in DOMAIN queue : queue[i] = x
    BY <1>0, <2>2 DEF QueueInv
  <2> QED BY <1>1, <1>2, <1>3, <2>2, <2>3
<1>8. \A x, y \in Deliveries : Busy(x)' /\ Busy(y)' => x = y
  BY <1>0, <1>1, <1>3 DEF Busy, TypeOK
<1> QED BY <1>0, <1>1, <1>3, <1>4, <1>5, <1>6, <1>7, <1>8 DEF QueueInv, Open, TypeOK

\* So does a crash, which puts the recovered one back at the head.
LEMMA QueueCrashes ==
  ASSUME SteeringInv, Crash
  PROVE  QueueInv'
<1>0. TypeOK /\ QueueInv /\ \A i \in DOMAIN queue : queue[i] \in Deliveries
  BY DEF SteeringInv, TypeOK
<1>1. /\ inbound' = [w \in Deliveries |-> IF w \in Requeued THEN "enqueued" ELSE inbound[w]]
      /\ queue' = SetToSeq(Requeued) \o queue
      /\ UNCHANGED <<route, turn>>
      /\ \A w \in Deliveries : body'[w] \in {"off", "entered"}
      /\ \A w \in Deliveries : body'[w] = "entered" => inbound'[w] = "pending"
  BY DEF Crash, Requeued
<1>2. \A w \in Deliveries : Requeued = {} \/ Requeued = {w} => (w \in Requeued <=> Busy(w))
  BY DEF Requeued, Busy
<1>3. \A w \in Deliveries : ~Busy(w)'
  BY <1>1 DEF Busy, Requeued
<1>4. CASE Requeued = {} /\ SetToSeq(Requeued) = <<>>
  <2>1. queue' = queue
    <3>1. queue \in Seq(Deliveries)
      BY <1>0 DEF TypeOK
    <3>2. <<>> \o queue = queue
      BY <3>1, ConcatEmptySeq
    <3> QED BY <1>1, <1>4, <3>2
  <2>2. inbound' = inbound
    BY <1>0, <1>1, <1>4 DEF TypeOK
  <2> QED BY <1>0, <1>1, <1>3, <2>1, <2>2 DEF QueueInv, Open
<1>5. ASSUME NEW w \in Deliveries, Requeued = {w}, SetToSeq(Requeued) = <<w>>
      PROVE  QueueInv'
  <2>1. queue' = <<w>> \o queue
    BY <1>1, <1>5
  <2>2. /\ DOMAIN queue' = 1..(Len(queue) + 1) /\ DOMAIN queue = 1..Len(queue)
        /\ Len(queue) \in Nat
        /\ queue'[1] = w
        /\ \A i \in DOMAIN queue : i + 1 \in DOMAIN queue' /\ queue'[i + 1] = queue[i]
    <3>1. queue \in Seq(Deliveries) /\ <<w>> \in Seq(Deliveries) /\ Len(<<w>>) = 1
      BY <1>0 DEF TypeOK
    <3>2. /\ Len(<<w>> \o queue) = 1 + Len(queue)
          /\ <<w>> \o queue \in Seq(Deliveries)
          /\ \A i \in 1..(1 + Len(queue)) :
                (<<w>> \o queue)[i] = IF i <= 1 THEN <<w>>[i] ELSE queue[i - 1]
      BY <3>1, ConcatProperties
    <3>3. Len(queue) \in Nat /\ DOMAIN queue = 1..Len(queue)
      BY <3>1
    <3>4. DOMAIN queue' = 1..(Len(queue) + 1)
      BY <2>1, <3>2, <3>3
    <3> QED BY <2>1, <3>2, <3>3, <3>4
  <2>3. \A i \in DOMAIN queue' : i # 1 => i - 1 \in DOMAIN queue /\ queue'[i] = queue[i - 1]
    BY <2>2
  <2>4. Busy(w) /\ inbound[w] = "pending" /\ route[w] = "queue"
    BY <1>5 DEF Requeued, Busy
  <2>5. \A i \in DOMAIN queue : queue[i] # w /\ turn[queue[i]] = "none"
    BY <1>0, <2>4 DEF QueueInv
  <2>6. \A i, j \in DOMAIN queue' : queue'[i] = queue'[j] => i = j
    <3> SUFFICES ASSUME NEW i \in DOMAIN queue', NEW j \in DOMAIN queue', queue'[i] = queue'[j]
                 PROVE  i = j
      OBVIOUS
    <3>1. CASE i = 1 \/ j = 1
      BY <2>2, <2>3, <2>5, <3>1
    <3>2. CASE i # 1 /\ j # 1
      <4>1. /\ i - 1 \in DOMAIN queue /\ j - 1 \in DOMAIN queue
            /\ queue[i - 1] = queue[j - 1]
        BY <2>3, <3>2
      <4>2. i - 1 = j - 1
        BY <1>0, <4>1 DEF QueueInv
      <4> QED BY <2>2, <4>2
    <3> QED BY <3>1, <3>2
  <2>7. /\ inbound'[w] = "enqueued"
        /\ \A x \in Deliveries \ {w} : inbound'[x] = inbound[x]
    BY <1>1, <1>5
  <2>8. \A i \in DOMAIN queue' : inbound'[queue'[i]] = "enqueued"
    BY <1>0, <2>2, <2>3, <2>5, <2>7 DEF QueueInv
  <2>9. \A x \in Deliveries : inbound'[x] = "enqueued" =>
           route'[x] = "queue" /\ \E i \in DOMAIN queue' : queue'[i] = x
    <3> SUFFICES ASSUME NEW x \in Deliveries, inbound'[x] = "enqueued"
                 PROVE  route'[x] = "queue" /\ \E i \in DOMAIN queue' : queue'[i] = x
      OBVIOUS
    <3>1. CASE x = w
      BY <1>1, <2>2, <2>4, <3>1
    <3>2. CASE x # w
      <4>1. route[x] = "queue" /\ \E i \in DOMAIN queue : queue[i] = x
        BY <1>0, <2>7, <3>2 DEF QueueInv
      <4>2. PICK i \in DOMAIN queue : queue[i] = x
        BY <4>1
      <4>3. i + 1 \in DOMAIN queue' /\ queue'[i + 1] = x
        BY <2>2, <4>2
      <4>4. route'[x] = "queue"
        BY <1>1, <4>1
      <4> QED BY <4>3, <4>4
    <3> QED BY <3>1, <3>2
  <2>10. \A i \in DOMAIN queue' : turn'[queue'[i]] # "none" => i = 1
    BY <1>1, <2>3, <2>5
  <2>11. \A x \in Deliveries : inbound'[x] # "none" => route'[x] \in {"queue", "direct"}
    BY <1>0, <1>1, <2>4, <2>7 DEF QueueInv
  <2>12. \A x \in Deliveries : Open(x)' => inbound'[x] \notin {"none", "done"}
    BY <1>0, <1>1, <2>4, <2>7 DEF QueueInv, Open
  <2>13. \A x \in Deliveries : inbound'[x] = "none" => turn'[x] = "none"
    BY <1>0, <1>1, <2>4, <2>7 DEF QueueInv
  <2> QED BY <1>1, <1>3, <2>6, <2>8, <2>9, <2>10, <2>11, <2>12, <2>13 DEF QueueInv
<1> QED BY <1>0, <1>4, <1>5, RequeuedFacts

\* Every step keeps the queue's part.
LEMMA QueueKeeps == SteeringInv /\ [Next]_vars => QueueInv'
<1> SUFFICES ASSUME SteeringInv, [Next]_vars PROVE QueueInv'
  OBVIOUS
<1>0. TypeOK /\ TurnInv /\ QueueInv
  BY DEF SteeringInv
<1>1. ASSUME NEW t \in Deliveries, DrainCommit(t) \/ PublishCommit(t) \/ Finish(t) \/ Fail(t)
      PROVE  QueueInv'
  <2>1. t \in Deliveries /\ Open(t)
    BY <1>0, <1>1 DEF TurnInv, TypeOK, Open, DrainCommit, PublishCommit, Finish, Fail
  <2>2. PICK x \in {"working", "ending", "published", "done", "failed"} : turn' = [turn EXCEPT ![t] = x]
    <3>1. CASE DrainCommit(t)
      <4>1. turn' = [turn EXCEPT ![t] = "ending"] \/ turn' = [turn EXCEPT ![t] = turn[t]]
        BY <3>1 DEF DrainCommit
      <4> QED BY <2>1, <4>1 DEF Open
    <3>2. CASE PublishCommit(t) \/ Finish(t) \/ Fail(t)
      BY <3>2 DEF PublishCommit, Finish, Fail
    <3> QED BY <1>1, <3>1, <3>2
  <2>3. UNCHANGED <<inbound, route, queue, body>>
    BY <1>1 DEF DrainCommit, PublishCommit, Finish, Fail
  <2>4. /\ \A w \in Deliveries : turn'[w] = "none" <=> turn[w] = "none"
        /\ \A w \in Deliveries : Open(w)' => Open(w)
    BY <1>0, <2>1, <2>2 DEF TypeOK, Open
  <2> QED BY <1>0, <2>3, <2>4, QueueRests
<1>2. ASSUME UNCHANGED <<inbound, route, queue, body, turn>> PROVE QueueInv'
  BY <1>0, <1>2 DEF QueueInv, Busy, Open
<1> QED BY <1>1, <1>2, QueueBodies, QueueStarts, QueueDequeues, QueueCrashes
        DEF Next, Channel, CallStep, InboundStep, TurnStep, Receive, Activate, DrainOpen,
            DrainRead, PublishBody, vars, database

-----------------------------------------------------------------------------
(* Where the messages are *)

Held(m) == Kept(m) \/ m \in cut

\* The empty sequence has no elements.
LEMMA EmptyHasNone == ToSet(<<>>) = {}
BY DEF ToSet

\* No step of a turn loses a message: what it takes out of one place it puts
\* into another.
LEMMA DrainsHold ==
  ASSUME SteeringInv, NEW t \in Deliveries, DrainOpen(t) \/ DrainRead(t) \/ DrainCommit(t),
         NEW m, Held(m)
  PROVE  Held(m)'
<1>0. TypeOK /\ TurnInv
  BY DEF SteeringInv
<1>1. /\ cut' = cut
      /\ \A u \in Deliveries : turn[u] # "none" => turn'[u] # "none"
  BY <1>0 DEF TypeOK, DrainOpen, DrainRead, DrainCommit, database, history
<1>2. CASE DrainOpen(t)
  <2>1. ToSet(mailbox) \cup ToSet(draining) = (ToSet(mailbox) \cup ToSet(draining))'
    BY <1>2, EmptyHasNone DEF DrainOpen, mail
  <2>2. UNCHANGED <<given, taken>>
    BY <1>2 DEF DrainOpen, database
  <2> QED BY <1>1, <2>1, <2>2 DEF Held, Kept
<1>3. CASE DrainRead(t)
  <2>1. /\ taken[t] \in Seq(Texts) /\ draining \in Seq(Texts) /\ mailbox \in Seq(Texts)
        /\ given' = given
        /\ \A u \in Deliveries \ {t} : taken'[u] = taken[u]
    BY <1>0, <1>3 DEF TypeOK, DrainRead, database
  <2>2. CASE taken' = [taken EXCEPT ![t] = draining] /\ mailbox' = mailbox /\ taken[t] = <<>>
    <3>1. ToSet(taken'[t]) = ToSet(draining) /\ ToSet(taken[t]) = {}
      BY <1>0, <2>2, EmptyHasNone DEF TypeOK
    <3> QED BY <1>1, <2>1, <2>2, <3>1 DEF Held, Kept
  <2>3. CASE taken' = [taken EXCEPT ![t] = @ \o mailbox] /\ draining' = draining
    <3>1. taken'[t] = taken[t] \o mailbox
      BY <1>0, <2>3 DEF TypeOK
    <3>2. ToSet(taken[t] \o mailbox) = ToSet(taken[t]) \cup ToSet(mailbox)
      BY <2>1, ConcatHasBoth
    <3> QED BY <1>1, <2>1, <2>3, <3>1, <3>2 DEF Held, Kept
  <2> QED BY <1>0, <1>3, <2>2, <2>3 DEF DrainRead, TurnInv
<1>4. CASE DrainCommit(t)
  <2>1. /\ taken[t] \in Seq(Texts) /\ given[t] \in Seq(Texts)
        /\ given' = [given EXCEPT ![t] = @ \o taken[t]]
        /\ \A u \in Deliveries \ {t} : taken'[u] = taken[u] /\ given'[u] = given[u]
        /\ UNCHANGED <<mailbox, draining>>
    BY <1>0, <1>4 DEF TypeOK, DrainCommit, mail
  <2>2. given'[t] = given[t] \o taken[t]
    BY <1>0, <2>1 DEF TypeOK
  <2>3. ToSet(given'[t]) = ToSet(given[t]) \cup ToSet(taken[t])
    <3>1. ToSet(given[t] \o taken[t]) = ToSet(given[t]) \cup ToSet(taken[t])
      BY <2>1, ConcatHasBoth
    <3> QED BY <2>2, <3>1
  <2> QED BY <1>1, <2>1, <2>3 DEF Held, Kept
<1> QED BY <1>2, <1>3, <1>4

\* A crash keeps what was accepted, but for what it cut from a drain.
LEMMA CrashHolds ==
  ASSUME SteeringInv, Crash, NEW m, Held(m)
  PROVE  Held(m)'
<1>1. UNCHANGED <<turn, given, mailbox, draining>>
  BY DEF Crash, mail
<1>2. cut' = cut \cup UNION {ToSet(taken[t]) : t \in Deliveries}
  BY DEF Crash
<1>3. CASE \E t \in Deliveries : m \in ToSet(taken[t])
  <2>1. m \in cut'
    BY <1>2, <1>3
  <2> QED BY <2>1 DEF Held
<1>4. CASE ~ \E t \in Deliveries : m \in ToSet(taken[t])
  BY <1>1, <1>2, <1>4 DEF Held, Kept
<1> QED BY <1>3, <1>4

\* What holds an accepted message is given up only for another place.
LEMMA HeldStays ==
  ASSUME SteeringInv, [Next]_vars, NEW m, Held(m)
  PROVE  Held(m)'
<1>0. TypeOK
  BY DEF SteeringInv
<1>1. ASSUME NEW w \in Deliveries, AppendBody(w) PROVE Held(m)'
  <2>1. mailbox \in Seq(Texts) /\ Original[w] \in Texts
    BY <1>0 DEF TypeOK, Texts
  <2>2. ToSet(mailbox') = ToSet(mailbox) \cup {Original[w]}
    BY <1>1, <2>1, AppendHasBoth DEF AppendBody
  <2> QED BY <1>1, <2>2 DEF AppendBody, Held, Kept, database, drains
<1>2. ASSUME NEW t \in Deliveries,
             Dispatch(t) \/ PublishCommit(t) \/ Finish(t) \/ Fail(t)
      PROVE  Held(m)'
  <2>1. PICK x \in {"working", "published", "done", "failed"} :
           turn' = [turn EXCEPT ![t] = x] \/ turn' = turn
    BY <1>0, <1>2 DEF Dispatch, PublishCommit, Finish, Fail, TypeOK
  <2>2. \A u \in Deliveries : turn[u] # "none" => turn'[u] # "none"
    BY <1>0, <2>1 DEF TypeOK
  <2>3. UNCHANGED <<given, taken, mailbox, draining, cut>>
    BY <1>2 DEF Dispatch, PublishCommit, Finish, Fail, mail, drains, history
  <2> QED BY <2>2, <2>3 DEF Held, Kept
<1>3. ASSUME UNCHANGED <<turn, given, taken, mailbox, draining, cut>> PROVE Held(m)'
  BY <1>3 DEF Held, Kept
<1> QED BY <1>1, <1>2, <1>3, DrainsHold, CrashHolds
        DEF Next, Channel, CallStep, InboundStep, TurnStep, Receive, StartDirectly, Enqueue,
            Dequeue, StoreIfActive, ReplayDiverges, Return, Activate, PublishBody,
            vars, database, mail, drains, history

\* Every step keeps every accepted message somewhere.
LEMMA KeptKeeps == SteeringInv /\ [Next]_vars => KeptInv'
<1> SUFFICES ASSUME SteeringInv, [Next]_vars PROVE KeptInv'
  OBVIOUS
<1>0. TypeOK /\ KeptInv /\ TurnInv
  BY DEF SteeringInv
<1> SUFFICES ASSUME NEW v \in Deliveries
             PROVE  /\ body'[v] = "waiting" => turn'[v] # "none"
                    /\ inbound'[v] \in {"done", "failed"} \/ body'[v] = "appended" =>
                          Held(Original[v])'
  BY DEF KeptInv, Held
<1>1. turn[v] # "none" => turn'[v] # "none"
  <2>1. ASSUME NEW t \in Deliveries, NEW x, x # "none", turn' = [turn EXCEPT ![t] = x]
        PROVE  turn[v] # "none" => turn'[v] # "none"
    <3>1. DOMAIN turn = Deliveries
      BY <1>0 DEF TypeOK
    <3> QED BY <2>1, <3>1
  <2>2. ASSUME NEW t \in Deliveries,
               Dispatch(t) \/ PublishCommit(t) \/ Finish(t) \/ Fail(t)
        PROVE  turn[v] # "none" => turn'[v] # "none"
    <3>1. PICK x \in {"working", "published", "done", "failed"} :
             turn' = [turn EXCEPT ![t] = x] \/ turn' = turn
      BY <1>0, <2>2 DEF Dispatch, PublishCommit, Finish, Fail, TypeOK
    <3> QED BY <2>1, <3>1
  <2>3. ASSUME NEW t \in Deliveries, DrainCommit(t)
        PROVE  turn[v] # "none" => turn'[v] # "none"
    <3>1. turn' = [turn EXCEPT ![t] = "ending"] \/ turn' = [turn EXCEPT ![t] = turn[t]]
      BY <2>3 DEF DrainCommit
    <3>2. turn \in [Deliveries -> {"none", "working", "ending", "published", "done", "failed"}]
      BY <1>0 DEF TypeOK
    <3> QED BY <3>1, <3>2
  <2>4. ASSUME turn' = turn PROVE turn[v] # "none" => turn'[v] # "none"
    BY <2>4
  <2> QED BY <2>2, <2>3, <2>4
          DEF Next, Channel, CallStep, InboundStep, TurnStep, Receive, StartDirectly, Enqueue,
              Dequeue, StoreIfActive, ReplayDiverges, AppendBody, Return, Activate, DrainOpen,
              DrainRead, PublishBody, Crash, vars, database
<1>3. ASSUME inbound[v] \in {"done", "failed"} \/ body[v] = "appended"
      PROVE  Held(Original[v])'
  BY <1>0, <1>3, HeldStays DEF KeptInv, Held
<1>4. ASSUME turn[v] # "none"
      PROVE  Held(Original[v])'
  BY <1>1, <1>4 DEF Held, Kept
<1>5. ASSUME AppendBody(v)
      PROVE  Held(Original[v])'
  <2>1. mailbox \in Seq(Texts) /\ Original[v] \in Texts
    BY <1>0 DEF TypeOK, Texts
  <2>2. Original[v] \in ToSet(mailbox')
    BY <1>5, <2>1, AppendHasBoth DEF AppendBody
  <2> QED BY <2>2 DEF Held, Kept
<1> DEFINE Came == /\ body'[v] = "waiting" => body[v] = "waiting" \/ turn'[v] # "none"
                   /\ inbound'[v] \in {"done", "failed"} \/ body'[v] = "appended" =>
                         \/ inbound[v] \in {"done", "failed"} \/ body[v] = "appended"
                         \/ turn[v] # "none" \/ AppendBody(v)
<1>6. Came
  <2>1. ASSUME NEW d \in Deliveries, StartDirectly(d) PROVE Came
    <3>1. Original[d] \in Deliveries
      BY ConstantsAssumption
    <3>2. /\ inbound' = inbound \/ inbound' = [inbound EXCEPT ![Original[d]] = "pending"]
          /\ body' = body \/ body' = [body EXCEPT ![Original[d]] = "entered"]
      BY <2>1 DEF StartDirectly, WorkflowId
    <3>3. DOMAIN inbound = Deliveries /\ DOMAIN body = Deliveries
      BY <1>0 DEF TypeOK
    <3>4. inbound'[v] \in {"done", "failed"} => inbound[v] \in {"done", "failed"}
      <4>1. CASE inbound' = inbound
        BY <4>1
      <4>2. CASE inbound' = [inbound EXCEPT ![Original[d]] = "pending"]
        BY <3>1, <3>3, <4>2
      <4> QED BY <3>2, <4>1, <4>2
    <3>5. body'[v] \in {"waiting", "appended"} => body'[v] = body[v]
      <4>1. CASE body' = body
        BY <4>1
      <4>2. CASE body' = [body EXCEPT ![Original[d]] = "entered"]
        BY <3>1, <3>3, <4>2
      <4> QED BY <3>2, <4>1, <4>2
    <3> QED BY <3>4, <3>5
  <2>2. ASSUME NEW d \in Deliveries, Enqueue(d) PROVE Came
    <3>1. Original[d] \in Deliveries /\ body' = body
      BY <2>2, ConstantsAssumption DEF Enqueue
    <3>2. inbound' = inbound \/ inbound' = [inbound EXCEPT ![Original[d]] = "enqueued"]
      BY <2>2 DEF Enqueue, WorkflowId
    <3> QED BY <1>0, <3>1, <3>2 DEF TypeOK
  <2>3. ASSUME Dequeue PROVE Came
    <3>1. Head(queue) \in Deliveries
      BY <1>0, <2>3 DEF TypeOK, Dequeue
    <3> QED BY <1>0, <2>3, <3>1 DEF TypeOK, Dequeue
  <2>4. ASSUME NEW w \in Deliveries, StoreIfActive(w) PROVE Came
    BY <1>0, <2>4 DEF TypeOK, StoreIfActive, database
  <2>5. ASSUME NEW w \in Deliveries, ReplayDiverges(w) PROVE Came
    BY <1>0, <2>5 DEF TypeOK, ReplayDiverges
  <2>6. ASSUME NEW w \in Deliveries, Dispatch(w) PROVE Came
    BY <1>0, <2>6 DEF TypeOK, Dispatch
  <2>7. ASSUME NEW w \in Deliveries, AppendBody(w) PROVE Came
    <3>1. inbound' = inbound /\ body' = [body EXCEPT ![w] = "appended"]
      BY <2>7 DEF AppendBody, database
    <3> QED BY <1>0, <2>7, <3>1 DEF TypeOK
  <2>8. ASSUME NEW w \in Deliveries, Return(w) PROVE Came
    BY <1>0, <2>8 DEF TypeOK, Return, KeptInv
  <2>9. ASSUME Crash PROVE Came
    BY <1>0, <2>9 DEF TypeOK, Crash
  <2>10. ASSUME UNCHANGED <<inbound, body>> PROVE Came
    BY <2>10
  <2> QED BY <2>1, <2>2, <2>3, <2>4, <2>5, <2>6, <2>7, <2>8, <2>9, <2>10
          DEF Next, Channel, CallStep, InboundStep, TurnStep, Receive, Activate, DrainOpen,
              DrainRead, DrainCommit, PublishBody, PublishCommit, Finish, Fail, vars, database
<1>2. body'[v] = "waiting" => turn'[v] # "none"
  BY <1>0, <1>1, <1>6 DEF KeptInv
<1> QED BY <1>2, <1>3, <1>4, <1>5, <1>6

-----------------------------------------------------------------------------
(* The order in which messages are read.  The first n arrivals have been read and
   each turn has some of them in their order; the rest lies in the two files, the
   interrupted drain's before the mailbox.  For this one drain at a time opens
   and reads them. *)

Locked(t) == drain[t] \in {"renamed", "both", "second"}

LockInv ==
  /\ \A t, u \in Deliveries : Locked(t) /\ Locked(u) => t = u
  /\ \A t \in Deliveries : drain[t] = "second" => draining = <<>>

\* s is part of the first n messages of a, in their order.
Embeds(s, a, n) ==
  \E f \in [DOMAIN s -> 1..n] :
     /\ \A i \in DOMAIN s : s[i] = a[f[i]]
     /\ \A i, j \in DOMAIN s : i < j => f[i] < f[j]

\* The first n arrivals have been read; the rest is in the files.
ReadUpTo(n) ==
  /\ n + Len(draining) + Len(mailbox) = Len(arrivals)
  /\ \A i \in DOMAIN draining : draining[i] = arrivals[n + i]
  /\ \A i \in DOMAIN mailbox : mailbox[i] = arrivals[n + Len(draining) + i]
  /\ \A t \in Deliveries : Embeds(given[t] \o taken[t], arrivals, n)

OrderInv == LockInv /\ \E n \in Nat : ReadUpTo(n)

\* The elements of a concatenation.
LEMMA ConcatElements ==
  ASSUME NEW S, NEW s \in Seq(S), NEW t \in Seq(S)
  PROVE  /\ s \o t \in Seq(S)
         /\ Len(s) \in Nat /\ DOMAIN s = 1..Len(s)
         /\ Len(t) \in Nat /\ DOMAIN t = 1..Len(t)
         /\ Len(s \o t) = Len(s) + Len(t)
         /\ DOMAIN (s \o t) = 1..(Len(s) + Len(t))
         /\ \A i \in 1..Len(s) : (s \o t)[i] = s[i]
         /\ \A i \in (Len(s) + 1)..(Len(s) + Len(t)) : (s \o t)[i] = t[i - Len(s)]
BY ConcatProperties, LenProperties

\* It does not matter which two of three parts are put together first.
LEMMA ThreeParts ==
  ASSUME NEW S, NEW s \in Seq(S), NEW t \in Seq(S), NEW r \in Seq(S)
  PROVE  (s \o t) \o r = s \o (t \o r)
BY ConcatAssociative

\* More arrivals leave what is embedded where it is.
LEMMA EmbedsStays ==
  ASSUME NEW S, NEW s \in Seq(S), NEW a \in Seq(S), NEW x \in S, NEW n \in Nat, n <= Len(a),
         Embeds(s, a, n)
  PROVE  Embeds(s, Append(a, x), n)
<1>1. PICK f \in [DOMAIN s -> 1..n] :
         /\ \A i \in DOMAIN s : s[i] = a[f[i]]
         /\ \A i, j \in DOMAIN s : i < j => f[i] < f[j]
  BY DEF Embeds
<1>2. \A k \in 1..n : Append(a, x)[k] = a[k]
  OBVIOUS
<1>3. \A i \in DOMAIN s : f[i] \in 1..n
  BY <1>1
<1>4. \A i \in DOMAIN s : s[i] = Append(a, x)[f[i]]
  BY <1>1, <1>2, <1>3
<1> QED BY <1>1, <1>4 DEF Embeds

\* What has been read grows by the block that follows.
LEMMA EmbedsBlock ==
  ASSUME NEW S, NEW s \in Seq(S), NEW t \in Seq(S), NEW a, NEW n \in Nat, NEW k \in Nat,
         Embeds(s, a, n), n + Len(t) <= k,
         \A i \in DOMAIN t : t[i] = a[n + i]
  PROVE  Embeds(s \o t, a, k)
<1>1. PICK f \in [DOMAIN s -> 1..n] :
         /\ \A i \in DOMAIN s : s[i] = a[f[i]]
         /\ \A i, j \in DOMAIN s : i < j => f[i] < f[j]
  BY DEF Embeds
<1> DEFINE l == Len(s)
           g == [i \in DOMAIN (s \o t) |-> IF i <= l THEN f[i] ELSE n + (i - l)]
<1>2. /\ l \in Nat /\ DOMAIN s = 1..l /\ Len(t) \in Nat /\ DOMAIN t = 1..Len(t)
      /\ DOMAIN (s \o t) = 1..(l + Len(t))
      /\ \A i \in 1..l : (s \o t)[i] = s[i]
      /\ \A i \in (l + 1)..(l + Len(t)) : (s \o t)[i] = t[i - l]
  BY ConcatElements
<1>3. \A i \in 1..l : f[i] \in 1..n
  BY <1>1, <1>2
<1>4. /\ \A i \in DOMAIN (s \o t) : i <= l => g[i] = f[i]
      /\ \A i \in DOMAIN (s \o t) : ~(i <= l) => g[i] = n + (i - l)
  OBVIOUS
<1> HIDE DEF l
<1>5. g \in [DOMAIN (s \o t) -> 1..k]
  <2> SUFFICES ASSUME NEW i \in DOMAIN (s \o t)
               PROVE  (IF i <= l THEN f[i] ELSE n + (i - l)) \in 1..k
    OBVIOUS
  <2> QED BY <1>2, <1>3
<1> HIDE DEF g
<1>6. \A i \in DOMAIN (s \o t) : (s \o t)[i] = a[g[i]]
  <2> SUFFICES ASSUME NEW i \in DOMAIN (s \o t) PROVE (s \o t)[i] = a[g[i]]
    OBVIOUS
  <2>1. CASE i <= l
    BY <1>1, <1>2, <1>4, <2>1
  <2>2. CASE ~(i <= l)
    <3>1. i - l \in DOMAIN t /\ (s \o t)[i] = t[i - l] /\ g[i] = n + (i - l)
      BY <1>2, <1>4, <2>2
    <3> QED BY <3>1
  <2> QED BY <1>2, <2>1, <2>2
<1>7. \A i, j \in DOMAIN (s \o t) : i < j => g[i] < g[j]
  <2> SUFFICES ASSUME NEW i \in DOMAIN (s \o t), NEW j \in DOMAIN (s \o t), i < j
               PROVE  g[i] < g[j]
    OBVIOUS
  <2>0. i \in Nat /\ j \in Nat /\ i >= 1 /\ ~(j <= i)
    BY <1>2
  <2>1. CASE j <= l
    <3>1. i \in 1..l /\ j \in 1..l
      BY <1>2, <2>0, <2>1
    <3>2. i <= l /\ j <= l
      BY <1>2, <3>1
    <3>3. g[i] = f[i] /\ g[j] = f[j]
      BY <1>4, <3>2
    <3> QED BY <1>1, <1>2, <3>1, <3>3
  <2>2. CASE i <= l /\ ~(j <= l)
    <3>1. g[i] = f[i] /\ g[j] = n + (j - l)
      BY <1>4, <2>2
    <3>2. f[i] \in 1..n
      BY <1>2, <1>3, <2>0, <2>2
    <3> QED BY <1>2, <2>0, <2>2, <3>1, <3>2
  <2>3. CASE ~(i <= l) /\ ~(j <= l)
    <3>1. g[i] = n + (i - l) /\ g[j] = n + (j - l)
      BY <1>4, <2>3
    <3> QED BY <1>2, <2>0, <3>1
  <2> QED BY <1>2, <2>0, <2>1, <2>2, <2>3
<1> QED BY <1>5, <1>6, <1>7 DEF Embeds

\* So does what one drain has read so far.
LEMMA EmbedsLast ==
  ASSUME NEW S, NEW s \in Seq(S), NEW r \in Seq(S), NEW t \in Seq(S), NEW a, NEW n \in Nat,
         NEW k \in Nat, n + Len(t) <= k
  PROVE  Embeds(s \o r, a, n) /\ (\A i \in DOMAIN t : t[i] = a[n + i])
            => Embeds(s \o (r \o t), a, k)
<1>1. (s \o r) \o t = s \o (r \o t)
  BY ThreeParts
<1>2. s \o r \in Seq(S)
  BY ConcatProperties
<1> QED BY <1>1, <1>2, EmbedsBlock

\* A drain that a crash cut short leaves what the turn was given.
LEMMA EmbedsPrefix ==
  ASSUME NEW S, NEW s \in Seq(S), NEW t \in Seq(S), NEW a, NEW n \in Nat,
         Embeds(s \o t, a, n)
  PROVE  Embeds(s, a, n)
<1>1. PICK f \in [DOMAIN (s \o t) -> 1..n] :
         /\ \A i \in DOMAIN (s \o t) : (s \o t)[i] = a[f[i]]
         /\ \A i, j \in DOMAIN (s \o t) : i < j => f[i] < f[j]
  BY DEF Embeds
<1>2. /\ \A i \in DOMAIN s : i \in DOMAIN (s \o t) /\ (s \o t)[i] = s[i]
  BY ConcatElements
<1> DEFINE g == [i \in DOMAIN s |-> f[i]]
<1>3. g \in [DOMAIN s -> 1..n]
  BY <1>1, <1>2
<1>4. /\ \A i \in DOMAIN s : s[i] = a[g[i]]
      /\ \A i, j \in DOMAIN s : i < j => g[i] < g[j]
  BY <1>1, <1>2
<1> QED BY <1>3, <1>4 DEF Embeds

\* The steps of drains and of other processes keep the lock.
LEMMA LockKeeps == SteeringInv /\ LockInv /\ [Next]_vars => LockInv'
<1> SUFFICES ASSUME SteeringInv, LockInv, [Next]_vars PROVE LockInv'
  OBVIOUS
<1>0. drain \in [Deliveries -> {"idle", "renamed", "both", "second", "read"}]
  BY DEF SteeringInv, TypeOK
<1> USE <1>0 DEF LockInv, Locked
<1>1. ASSUME NEW t \in Deliveries, DrainOpen(t) PROVE LockInv'
  <2>1. \A u \in Deliveries : ~Locked(u)
    BY <1>1 DEF DrainOpen, InboxLocked
  <2>2. PICK x \in {"renamed", "both"} : drain' = [drain EXCEPT ![t] = x]
    BY <1>1 DEF DrainOpen
  <2> QED BY <2>1, <2>2
<1>2. ASSUME NEW t \in Deliveries, DrainRead(t) PROVE LockInv'
  <2>1. Locked(t)
    BY <1>2 DEF DrainRead
  <2>2. PICK x \in {"second", "read"} :
           drain' = [drain EXCEPT ![t] = x] /\ (x = "second" => draining' = <<>>)
    BY <1>2 DEF DrainRead
  <2> QED BY <2>1, <2>2
<1>3. ASSUME NEW t \in Deliveries, DrainCommit(t) PROVE LockInv'
  BY <1>3 DEF DrainCommit, mail
<1>4. ASSUME Crash PROVE LockInv'
  BY <1>4 DEF Crash
<1>5. ASSUME UNCHANGED <<drain, draining>> PROVE LockInv'
  BY <1>5
<1> QED BY <1>1, <1>2, <1>3, <1>4, <1>5
        DEF Next, Channel, CallStep, InboundStep, TurnStep, Receive, StartDirectly, Enqueue,
            Dequeue, StoreIfActive, Dispatch, ReplayDiverges, AppendBody, Return, Activate,
            PublishBody, PublishCommit, Finish, Fail, vars, mail, drains

\* What has been read stays in order while the files and the turns change.
LEMMA ReadKeeps ==
  ASSUME SteeringInv, LockInv, NEW n \in Nat, ReadUpTo(n), [Next]_vars
  PROVE  \E k \in Nat : ReadUpTo(k)'
<1>0. TypeOK /\ TurnInv
  BY DEF SteeringInv
<1>t. /\ mailbox \in Seq(Texts) /\ draining \in Seq(Texts) /\ arrivals \in Seq(Texts)
      /\ given \in [Deliveries -> Seq(Texts)] /\ taken \in [Deliveries -> Seq(Texts)]
  BY <1>0 DEF TypeOK
<1>l. /\ Len(mailbox) \in Nat /\ DOMAIN mailbox = 1..Len(mailbox)
      /\ Len(draining) \in Nat /\ DOMAIN draining = 1..Len(draining)
      /\ Len(arrivals) \in Nat
  BY <1>t, LenProperties
<1>e. Len(<<>>) = 0 /\ DOMAIN <<>> = {} /\ <<>> \in Seq(Texts)
  OBVIOUS
<1>1. ASSUME NEW w \in Deliveries, AppendBody(w) PROVE ReadUpTo(n)'
  <2> DEFINE m == Original[w]
  <2>1. m \in Texts
    BY DEF Texts
  <2>2. /\ mailbox' = Append(mailbox, m) /\ arrivals' = Append(arrivals, m)
        /\ UNCHANGED <<draining, given, taken>>
    BY <1>1 DEF AppendBody, database, drains
  <2> HIDE DEF m
  <2>3. /\ Len(mailbox') = Len(mailbox) + 1 /\ DOMAIN mailbox' = 1..(Len(mailbox) + 1)
        /\ mailbox'[Len(mailbox) + 1] = m
        /\ \A i \in 1..Len(mailbox) : mailbox'[i] = mailbox[i]
    BY <1>t, <2>1, <2>2
  <2>4. /\ Len(arrivals') = Len(arrivals) + 1
        /\ arrivals'[Len(arrivals) + 1] = m
        /\ \A i \in 1..Len(arrivals) : arrivals'[i] = arrivals[i]
    BY <1>t, <2>1, <2>2
  <2>5. n + Len(draining') + Len(mailbox') = Len(arrivals')
    <3>1. n + Len(draining) + Len(mailbox) = Len(arrivals) /\ Len(draining') = Len(draining)
      BY <2>2 DEF ReadUpTo
    <3>2. Len(mailbox') = Len(mailbox) + 1 /\ Len(arrivals') = Len(arrivals) + 1
      BY <2>3, <2>4
    <3> QED BY <1>l, <3>1, <3>2
  <2>6. ASSUME NEW i \in DOMAIN draining' PROVE draining'[i] = arrivals'[n + i]
    <3>1. n + i \in 1..Len(arrivals) /\ draining[i] = arrivals[n + i]
      BY <1>l, <2>2 DEF ReadUpTo
    <3> QED BY <2>2, <2>4, <3>1
  <2>7. ASSUME NEW i \in DOMAIN mailbox' PROVE mailbox'[i] = arrivals'[n + Len(draining') + i]
    <3>1. CASE i <= Len(mailbox)
      <4>1. /\ n + Len(draining) + i \in 1..Len(arrivals) /\ mailbox'[i] = mailbox[i]
            /\ mailbox[i] = arrivals[n + Len(draining) + i]
        BY <1>l, <2>3, <3>1 DEF ReadUpTo
      <4> QED BY <2>2, <2>4, <4>1
    <3>2. CASE i = Len(mailbox) + 1
      <4>1. n + Len(draining) + i = Len(arrivals) + 1
        BY <1>l, <3>2 DEF ReadUpTo
      <4> QED BY <2>2, <2>3, <2>4, <3>2, <4>1
    <3> QED BY <1>l, <2>3, <3>1, <3>2
  <2>8. ASSUME NEW t \in Deliveries PROVE Embeds((given[t] \o taken[t])', arrivals', n)
    <3>1. given[t] \o taken[t] \in Seq(Texts)
      BY <1>t, ConcatProperties
    <3>2. Embeds(given[t] \o taken[t], arrivals, n) /\ n <= Len(arrivals)
      BY <1>l DEF ReadUpTo
    <3> QED BY <1>t, <2>1, <2>2, <3>1, <3>2, EmbedsStays
  <2> QED BY <2>5, <2>6, <2>7, <2>8 DEF ReadUpTo
<1>2. ASSUME NEW t \in Deliveries, DrainOpen(t) PROVE ReadUpTo(n)'
  <2>1. UNCHANGED <<arrivals, given, taken>>
    BY <1>2 DEF DrainOpen, database, history
  <2>2. CASE UNCHANGED <<mailbox, draining>>
    BY <2>1, <2>2 DEF ReadUpTo
  <2>3. CASE draining = <<>> /\ draining' = mailbox /\ mailbox' = <<>>
    <3>1. Len(draining) = 0 /\ Len(mailbox') = 0 /\ DOMAIN mailbox' = {}
      BY <1>e, <2>3
    <3>2. n + Len(draining') + Len(mailbox') = Len(arrivals')
      BY <1>l, <2>1, <2>3, <3>1 DEF ReadUpTo
    <3>3. \A i \in DOMAIN draining' : draining'[i] = arrivals'[n + i]
      <4>1. \A i \in DOMAIN mailbox : mailbox[i] = arrivals[n + Len(draining) + i]
        BY DEF ReadUpTo
      <4>2. \A i \in DOMAIN mailbox : n + Len(draining) + i = n + i
        BY <1>l, <3>1
      <4> QED BY <2>1, <2>3, <4>1, <4>2
    <3> QED BY <2>1, <3>1, <3>2, <3>3 DEF ReadUpTo
  <2> QED BY <1>2, <2>2, <2>3 DEF DrainOpen, mail
<1>3. ASSUME NEW t \in Deliveries, DrainRead(t) PROVE \E k \in Nat : ReadUpTo(k)'
  <2>1. UNCHANGED <<arrivals, given>>
    BY <1>3 DEF DrainRead, database, history
  <2>2. CASE /\ drain[t] \in {"renamed", "both"} /\ taken' = [taken EXCEPT ![t] = draining]
             /\ draining' = <<>> /\ mailbox' = mailbox
    <3>0. PICK k \in Nat : k = n + Len(draining)
      BY <1>l
    <3>1. k = n + Len(draining) /\ Len(draining') = 0 /\ DOMAIN draining' = {}
      BY <1>e, <1>l, <2>2, <3>0
    <3>2. k + Len(draining') + Len(mailbox') = Len(arrivals')
      BY <1>l, <2>1, <2>2, <3>1 DEF ReadUpTo
    <3>3. \A i \in DOMAIN mailbox' : mailbox'[i] = arrivals'[k + Len(draining') + i]
      <4>1. \A i \in DOMAIN mailbox : mailbox[i] = arrivals[n + Len(draining) + i]
        BY DEF ReadUpTo
      <4>2. \A i \in DOMAIN mailbox : n + Len(draining) + i = k + Len(draining') + i
        BY <1>l, <3>1
      <4> QED BY <2>1, <2>2, <4>1, <4>2
    <3>4. taken[t] = <<>>
      BY <1>0, <2>2 DEF TurnInv
    <3>5. ASSUME NEW u \in Deliveries PROVE Embeds((given[u] \o taken[u])', arrivals', k)
      <4>1. given[u] \in Seq(Texts) /\ given[u] \o taken[u] \in Seq(Texts)
        BY <1>t, ConcatProperties
      <4>2. Embeds(given[u] \o taken[u], arrivals, n)
        BY DEF ReadUpTo
      <4>3. CASE u = t
        <5>1. given[u] \o taken[u] = given[u]
          BY <3>4, <4>1, <4>3, ConcatEmptySeq
        <5>2. n + Len(draining) <= k /\ \A i \in DOMAIN draining : draining[i] = arrivals[n + i]
          BY <1>l, <3>1 DEF ReadUpTo
        <5>3. Embeds(given[u] \o draining, arrivals, k)
          BY <1>t, <3>1, <4>1, <4>2, <5>1, <5>2, EmbedsBlock
        <5> QED BY <1>t, <2>1, <2>2, <4>3, <5>3
      <4>4. CASE u # t
        <5>1. n + Len(<<>>) <= k
          BY <1>e, <1>l, <3>1
        <5>2. Embeds((given[u] \o taken[u]) \o <<>>, arrivals, k)
          BY <1>e, <3>1, <4>1, <4>2, <5>1, EmbedsBlock
        <5>3. (given[u] \o taken[u]) \o <<>> = given[u] \o taken[u]
          BY <4>1, ConcatEmptySeq
        <5>4. taken'[u] = taken[u]
          BY <1>t, <2>2, <4>4
        <5> QED BY <2>1, <5>2, <5>3, <5>4
      <4> QED BY <4>3, <4>4
    <3>6. ReadUpTo(k)'
      BY <3>1, <3>2, <3>3, <3>5 DEF ReadUpTo
    <3> QED BY <3>6
  <2>3. CASE /\ drain[t] = "second" /\ taken' = [taken EXCEPT ![t] = @ \o mailbox]
             /\ mailbox' = <<>> /\ draining' = draining
    <3>0. PICK k \in Nat : k = n + Len(mailbox)
      BY <1>l
    <3>1. /\ k = n + Len(mailbox) /\ Len(mailbox') = 0 /\ DOMAIN mailbox' = {}
          /\ draining = <<>> /\ Len(draining) = 0 /\ DOMAIN draining = {}
      BY <1>e, <1>l, <2>3, <3>0 DEF LockInv
    <3>2. k + Len(draining') + Len(mailbox') = Len(arrivals')
      BY <1>l, <2>1, <2>3, <3>1 DEF ReadUpTo
    <3>3. \A i \in DOMAIN mailbox : mailbox[i] = arrivals[n + i]
      <4>1. \A i \in DOMAIN mailbox : mailbox[i] = arrivals[n + Len(draining) + i]
        BY DEF ReadUpTo
      <4>2. \A i \in DOMAIN mailbox : n + Len(draining) + i = n + i
        BY <1>l, <3>1
      <4> QED BY <4>1, <4>2
    <3>4. ASSUME NEW u \in Deliveries PROVE Embeds((given[u] \o taken[u])', arrivals', k)
      <4>1. given[u] \in Seq(Texts) /\ taken[u] \in Seq(Texts) /\ given[u] \o taken[u] \in Seq(Texts)
        BY <1>t, ConcatProperties
      <4>2. Embeds(given[u] \o taken[u], arrivals, n)
        BY DEF ReadUpTo
      <4>3. CASE u = t
        <5>2. n + Len(mailbox) <= k
          BY <1>l, <3>1
        <5>3. Embeds(given[u] \o (taken[u] \o mailbox), arrivals, k)
          BY <1>t, <3>1, <3>3, <4>1, <4>2, <5>2, EmbedsLast
        <5> QED BY <1>t, <2>1, <2>3, <4>3, <5>3
      <4>4. CASE u # t
        <5>1. n + Len(<<>>) <= k
          BY <1>e, <1>l, <3>1
        <5>2. Embeds((given[u] \o taken[u]) \o <<>>, arrivals, k)
          BY <1>e, <3>1, <4>1, <4>2, <5>1, EmbedsBlock
        <5>3. (given[u] \o taken[u]) \o <<>> = given[u] \o taken[u]
          BY <4>1, ConcatEmptySeq
        <5>4. taken'[u] = taken[u]
          BY <1>t, <2>3, <4>4
        <5> QED BY <2>1, <5>2, <5>3, <5>4
      <4> QED BY <4>3, <4>4
    <3>5. ReadUpTo(k)'
      BY <2>3, <3>1, <3>2, <3>4 DEF ReadUpTo
    <3> QED BY <3>5
  <2> QED BY <1>3, <2>2, <2>3 DEF DrainRead
<1>4. ASSUME NEW t \in Deliveries, DrainCommit(t) PROVE ReadUpTo(n)'
  <2>1. /\ UNCHANGED <<arrivals, mailbox, draining>>
        /\ given' = [given EXCEPT ![t] = @ \o taken[t]]
        /\ taken' = [taken EXCEPT ![t] = <<>>]
    BY <1>4 DEF DrainCommit, mail, history
  <2>2. ASSUME NEW u \in Deliveries PROVE (given[u] \o taken[u])' = given[u] \o taken[u]
    <3>1. CASE u = t
      <4>1. given'[u] = given[u] \o taken[u] /\ taken'[u] = <<>>
        BY <1>t, <2>1, <3>1
      <4>2. given[u] \o taken[u] \in Seq(Texts)
        BY <1>t, ConcatProperties
      <4>3. (given[u] \o taken[u]) \o <<>> = given[u] \o taken[u]
        BY <4>2, ConcatEmptySeq
      <4> QED BY <4>1, <4>3
    <3>2. CASE u # t
      BY <1>t, <2>1, <3>2
    <3> QED BY <3>1, <3>2
  <2> QED BY <2>1, <2>2 DEF ReadUpTo
<1>5. ASSUME Crash PROVE ReadUpTo(n)'
  <2>1. UNCHANGED <<arrivals, mailbox, draining, given>> /\ taken' = [t \in Deliveries |-> <<>>]
    BY <1>5 DEF Crash, mail
  <2>2. ASSUME NEW u \in Deliveries PROVE Embeds((given[u] \o taken[u])', arrivals', n)
    <3>1. given[u] \in Seq(Texts) /\ taken[u] \in Seq(Texts) /\ taken'[u] = <<>>
      BY <1>t, <2>1
    <3>2. Embeds(given[u], arrivals, n)
      BY <3>1, EmbedsPrefix DEF ReadUpTo
    <3>3. given[u] \o <<>> = given[u]
      BY <3>1, ConcatEmptySeq
    <3> QED BY <2>1, <3>1, <3>2, <3>3
  <2> QED BY <2>1, <2>2 DEF ReadUpTo
<1>6. ASSUME UNCHANGED <<arrivals, mailbox, draining, given, taken>> PROVE ReadUpTo(n)'
  BY <1>6 DEF ReadUpTo
<1> QED BY <1>1, <1>2, <1>3, <1>4, <1>5, <1>6
        DEF Next, Channel, CallStep, InboundStep, TurnStep, Receive, StartDirectly, Enqueue,
            Dequeue, StoreIfActive, Dispatch, ReplayDiverges, Return, Activate,
            PublishBody, PublishCommit, Finish, Fail, vars, database, mail, drains, history

-----------------------------------------------------------------------------
(* How many places a message has: with the one that its workflow may still add,
   not more than one and one for each crash. *)

\* The workflow of the message m may still append it or dispatch its turn.
MayPlace(m) == inbound[m] \in {"none", "enqueued"} \/ body[m] \in {"entered", "storing"}

PlacesInv ==
  /\ \A w \in Deliveries : inbound[w] # "none" => Original[w] = w
  /\ \A m \in Texts :
        /\ IsFiniteSet(Places(m))
        /\ Cardinality(Places(m)) + (IF MayPlace(m) THEN 1 ELSE 0) <= 1 + crashes

\* The first workflow of a message is the only one it has.
LEMMA TextIsWorkflow == ASSUME NEW m \in Texts PROVE m \in Deliveries /\ Original[m] = m
BY ConstantsAssumption DEF Texts

\* Copies that move to the end of another place do not become more.
LEMMA MoveCopies ==
  ASSUME NEW S, NEW x \in Seq(S), NEW y \in Seq(S), NEW m, NEW R,
         NEW p1, NEW o1, NEW p2, NEW o2, <<p1, o1>> # <<p2, o2>>,
         \A i : <<p1, o1, i>> \notin R,
         IsFiniteSet(R \cup Copies(p1, o1, x, m) \cup Copies(p2, o2, y, m))
  PROVE  /\ IsFiniteSet(R \cup Copies(p2, o2, y \o x, m))
         /\ Cardinality(R \cup Copies(p2, o2, y \o x, m))
              <= Cardinality(R \cup Copies(p1, o1, x, m) \cup Copies(p2, o2, y, m))
<1> DEFINE A == R \cup Copies(p1, o1, x, m) \cup Copies(p2, o2, y, m)
           C == Copies(p2, o2, y \o x, m)
           B == R \cup C
           l == Len(y)
           Moves(p) == \E i \in Nat : i > l /\ p = <<p2, o2, i>> /\ p \in C
           f == [p \in B |-> IF Moves(p) THEN <<p1, o1, p[3] - l>> ELSE p]
<1>1. /\ l \in Nat /\ DOMAIN y = 1..l /\ Len(x) \in Nat /\ DOMAIN x = 1..Len(x)
      /\ DOMAIN (y \o x) = 1..(l + Len(x))
      /\ \A i \in 1..l : (y \o x)[i] = y[i]
      /\ \A i \in (l + 1)..(l + Len(x)) : (y \o x)[i] = x[i - l]
  BY ConcatProperties, LenProperties
<1> HIDE DEF l
<1>2. \A p \in C : \E i \in 1..(l + Len(x)) : p = <<p2, o2, i>> /\ (y \o x)[i] = m
  BY <1>1 DEF Copies
<1>3. ASSUME NEW p \in B, Moves(p) PROVE f[p] = <<p1, o1, p[3] - l>> /\ f[p] \in A
  <2>1. PICK i \in Nat : i > l /\ p = <<p2, o2, i>> /\ p \in C
    BY <1>3
  <2>2. PICK j \in 1..(l + Len(x)) : p = <<p2, o2, j>> /\ (y \o x)[j] = m
    BY <1>2, <2>1
  <2>3. i = j /\ p[3] = i
    BY <2>1, <2>2
  <2>4. i - l \in DOMAIN x /\ x[i - l] = m
    BY <1>1, <2>1, <2>2, <2>3
  <2>5. <<p1, o1, i - l>> \in Copies(p1, o1, x, m)
    BY <2>4 DEF Copies
  <2> QED BY <1>3, <2>3, <2>5
<1>4. ASSUME NEW p \in B, ~Moves(p) PROVE f[p] = p /\ p \in A /\ \A i : p # <<p1, o1, i>>
  <2>1. f[p] = p
    BY <1>4
  <2>2. CASE p \in R
    BY <2>1, <2>2
  <2>3. CASE p \in C
    <3>1. PICK j \in 1..(l + Len(x)) : p = <<p2, o2, j>> /\ (y \o x)[j] = m
      BY <1>2, <2>3
    <3>2. j <= l
      BY <1>1, <1>4, <2>3, <3>1
    <3>3. j \in DOMAIN y /\ y[j] = m
      BY <1>1, <3>1, <3>2
    <3>4. p \in Copies(p2, o2, y, m)
      BY <3>1, <3>3 DEF Copies
    <3> QED BY <2>1, <3>1, <3>4
  <2> QED BY <2>2, <2>3
<1>5. f \in [B -> A]
  BY <1>3, <1>4
<1>6. ASSUME NEW p \in B, NEW q \in B, f[p] = f[q] PROVE p = q
  <2>1. CASE Moves(p) /\ Moves(q)
    <3>1. PICK i \in Nat : i > l /\ p = <<p2, o2, i>>
      BY <2>1
    <3>2. PICK j \in Nat : j > l /\ q = <<p2, o2, j>>
      BY <2>1
    <3>3. <<p1, o1, i - l>> = <<p1, o1, j - l>>
      BY <1>3, <1>6, <2>1, <3>1, <3>2
    <3>4. i - l = j - l
      BY <3>3
    <3>5. i = j
      BY <1>1, <3>1, <3>2, <3>4
    <3> QED BY <3>1, <3>2, <3>5
  <2>2. CASE Moves(p) /\ ~Moves(q)
    BY <1>3, <1>4, <1>6, <2>2
  <2>3. CASE ~Moves(p) /\ Moves(q)
    BY <1>3, <1>4, <1>6, <2>3
  <2>4. CASE ~Moves(p) /\ ~Moves(q)
    BY <1>4, <1>6, <2>4
  <2> QED BY <2>1, <2>2, <2>3, <2>4
<1> HIDE DEF f
<1>7. f \in Injection(B, A)
  BY <1>5, <1>6 DEF Injection, IsInjective
<1> HIDE DEF A, B
<1>8. IsFiniteSet(A)
  BY DEF A
<1>9. IsFiniteSet(B) /\ Cardinality(B) <= Cardinality(A)
  BY <1>7, <1>8, FS_Injection
<1> QED BY <1>9 DEF A, B

\* The places of a message by kind, and those of one turn's part of them.
Turns(m) == {<<"turn", t, 0>> : t \in {t \in Deliveries : turn[t] # "none" /\ Original[t] = m}}
Givens(T, m) == UNION {Copies("given", t, given[t], m) : t \in T}
Takens(T, m) == UNION {Copies("taken", t, taken[t], m) : t \in T}

\* A place is not of two kinds.
LEMMA KindsDiffer ==
  ASSUME NEW T, NEW m, NEW o, NEW i
  PROVE  /\ <<"mailbox", o, i>> \notin Turns(m) \cup Givens(T, m) \cup Takens(T, m)
         /\ <<"draining", o, i>> \notin Turns(m) \cup Givens(T, m) \cup Takens(T, m)
         /\ <<"taken", o, i>> \notin Turns(m) \cup Givens(T, m)
         /\ \A s : <<"mailbox", o, i>> \notin Copies("draining", m, s, m)
         /\ \A s : <<"draining", o, i>> \notin Copies("mailbox", m, s, m)
         /\ \A s : <<"taken", o, i>> \notin Copies("draining", m, s, m) \cup Copies("mailbox", m, s, m)
         /\ o \notin T => <<"taken", o, i>> \notin Takens(T, m)
BY DEF Turns, Givens, Takens, Copies

\* The places of a message.
LEMMA PlacesByKind ==
  ASSUME NEW m
  PROVE  Places(m) = Turns(m) \cup Givens(Deliveries, m) \cup Takens(Deliveries, m)
                       \cup Copies("mailbox", m, mailbox, m) \cup Copies("draining", m, draining, m)
BY DEF Places, Turns, Givens, Takens

\* What one turn was given, or has taken, and what the others.
LEMMA OneAndOthers ==
  ASSUME NEW t \in Deliveries, NEW m
  PROVE  /\ Givens(Deliveries, m) = Givens(Deliveries \ {t}, m) \cup Copies("given", t, given[t], m)
         /\ Takens(Deliveries, m) = Takens(Deliveries \ {t}, m) \cup Copies("taken", t, taken[t], m)
BY DEF Givens, Takens

\* An empty sequence has no copies.
LEMMA NoCopies == ASSUME NEW place, NEW owner, NEW m PROVE Copies(place, owner, <<>>, m) = {}
BY DEF Copies

\* The opening of a drain does not add a place.
LEMMA OpenMoves ==
  ASSUME TypeOK, NEW t \in Deliveries, DrainOpen(t), NEW m, IsFiniteSet(Places(m))
  PROVE  IsFiniteSet(Places(m)') /\ Cardinality(Places(m)') <= Cardinality(Places(m))
<1>1. UNCHANGED <<turn, given, taken>>
  BY DEF DrainOpen, database
<1>2. CASE UNCHANGED <<mailbox, draining>>
  <2>1. Places(m)' = Places(m)
    BY <1>1, <1>2 DEF Places
  <2>2. Cardinality(Places(m)) \in Nat
    BY FS_CardinalityType
  <2> QED BY <2>1, <2>2
<1>3. CASE draining = <<>> /\ draining' = mailbox /\ mailbox' = <<>>
  <2> DEFINE R == Turns(m) \cup Givens(Deliveries, m) \cup Takens(Deliveries, m)
  <2>1. Places(m) = R \cup Copies("mailbox", m, mailbox, m) \cup Copies("draining", m, draining, m)
    BY PlacesByKind
  <2>2. Places(m)' = R \cup Copies("draining", m, draining \o mailbox, m)
    <3>1. mailbox \in Seq(Texts)
      BY DEF TypeOK
    <3>2. draining \o mailbox = mailbox
      BY <1>3, <3>1, ConcatEmptySeq
    <3>3. Places(m)' = R \cup Copies("mailbox", m, <<>>, m) \cup Copies("draining", m, mailbox, m)
      BY <1>1, <1>3 DEF Places, Turns, Givens, Takens
    <3> QED BY <3>2, <3>3, NoCopies
  <2>3. \A i : <<"mailbox", m, i>> \notin R
    BY KindsDiffer
  <2>4. mailbox \in Seq(Texts) /\ draining \in Seq(Texts) /\ <<"mailbox", m>> # <<"draining", m>>
    BY DEF TypeOK
  <2>5. IsFiniteSet(R \cup Copies("mailbox", m, mailbox, m) \cup Copies("draining", m, draining, m))
    BY <2>1
  <2> HIDE DEF R
  <2>6. /\ IsFiniteSet(R \cup Copies("draining", m, draining \o mailbox, m))
        /\ Cardinality(R \cup Copies("draining", m, draining \o mailbox, m))
             <= Cardinality(R \cup Copies("mailbox", m, mailbox, m) \cup Copies("draining", m, draining, m))
    BY <2>3, <2>4, <2>5, MoveCopies
  <2> QED BY <2>1, <2>2, <2>6
<1> QED BY <1>2, <1>3 DEF DrainOpen, mail

\* Nor does its reading.
LEMMA ReadMoves ==
  ASSUME TypeOK, TurnInv, NEW t \in Deliveries, DrainRead(t), NEW m, IsFiniteSet(Places(m))
  PROVE  IsFiniteSet(Places(m)') /\ Cardinality(Places(m)') <= Cardinality(Places(m))
<1>1. UNCHANGED <<turn, given>>
  BY DEF DrainRead, database
<1> DEFINE others == Deliveries \ {t}
<1>2. \A u \in others : taken'[u] = taken[u]
  BY DEF DrainRead, TypeOK
<1>t. /\ mailbox \in Seq(Texts) /\ draining \in Seq(Texts) /\ taken[t] \in Seq(Texts)
      /\ taken \in [Deliveries -> Seq(Texts)]
  BY DEF TypeOK
<1>3. Takens(others, m)' = Takens(others, m)
  BY <1>2 DEF Takens
<1>4. Turns(m)' = Turns(m) /\ Givens(Deliveries, m)' = Givens(Deliveries, m)
  BY <1>1 DEF Turns, Givens
<1>5. Places(m)' = Turns(m) \cup Givens(Deliveries, m) \cup Takens(others, m)
                    \cup Copies("taken", t, taken'[t], m)
                    \cup Copies("mailbox", m, mailbox', m) \cup Copies("draining", m, draining', m)
  <2>1. Places(m)' = Turns(m)' \cup Givens(Deliveries, m)' \cup Takens(Deliveries, m)'
                       \cup Copies("mailbox", m, mailbox', m) \cup Copies("draining", m, draining', m)
    BY DEF Places, Turns, Givens, Takens
  <2>2. Takens(Deliveries, m)' = Takens(others, m)' \cup Copies("taken", t, taken'[t], m)
    BY DEF Takens
  <2> QED BY <1>3, <1>4, <2>1, <2>2
<1>6. Places(m) = Turns(m) \cup Givens(Deliveries, m) \cup Takens(others, m)
                    \cup Copies("taken", t, taken[t], m)
                    \cup Copies("mailbox", m, mailbox, m) \cup Copies("draining", m, draining, m)
  <2>1. Places(m) = Turns(m) \cup Givens(Deliveries, m) \cup Takens(Deliveries, m)
                      \cup Copies("mailbox", m, mailbox, m) \cup Copies("draining", m, draining, m)
    BY PlacesByKind
  <2>2. Takens(Deliveries, m) = Takens(others, m) \cup Copies("taken", t, taken[t], m)
    BY OneAndOthers
  <2> QED BY <2>1, <2>2
<1>7. t \notin others
  OBVIOUS
<1> HIDE DEF others
<1>8. CASE /\ drain[t] \in {"renamed", "both"} /\ taken' = [taken EXCEPT ![t] = draining]
           /\ draining' = <<>> /\ mailbox' = mailbox
  <2> DEFINE R == Turns(m) \cup Givens(Deliveries, m) \cup Takens(others, m)
                    \cup Copies("mailbox", m, mailbox, m)
  <2>1. Places(m) = R \cup Copies("draining", m, draining, m) \cup Copies("taken", t, taken[t], m)
    BY <1>6
  <2>2. Places(m)' = R \cup Copies("taken", t, taken[t] \o draining, m)
    <3>1. taken[t] \o draining = draining
      <4>1. taken[t] = <<>>
        BY <1>8 DEF TurnInv
      <4> QED BY <1>t, <4>1, ConcatEmptySeq
    <3>2. taken'[t] = draining
      BY <1>t, <1>8
    <3>3. Copies("draining", m, draining', m) = {}
      BY <1>8, NoCopies
    <3>4. Places(m)' = Turns(m) \cup Givens(Deliveries, m) \cup Takens(others, m)
                        \cup Copies("taken", t, draining, m)
                        \cup Copies("mailbox", m, mailbox, m) \cup {}
      BY <1>5, <1>8, <3>2, <3>3
    <3> QED BY <3>1, <3>4
  <2>3. \A i : <<"draining", m, i>> \notin R
    BY KindsDiffer
  <2>4. <<"draining", m>> # <<"taken", t>>
    OBVIOUS
  <2>5. IsFiniteSet(R \cup Copies("draining", m, draining, m) \cup Copies("taken", t, taken[t], m))
    BY <2>1
  <2> HIDE DEF R
  <2>6. /\ IsFiniteSet(R \cup Copies("taken", t, taken[t] \o draining, m))
        /\ Cardinality(R \cup Copies("taken", t, taken[t] \o draining, m))
             <= Cardinality(R \cup Copies("draining", m, draining, m) \cup Copies("taken", t, taken[t], m))
    BY <1>t, <2>3, <2>4, <2>5, MoveCopies
  <2> QED BY <2>1, <2>2, <2>6
<1>9. CASE /\ drain[t] = "second" /\ taken' = [taken EXCEPT ![t] = @ \o mailbox]
           /\ mailbox' = <<>> /\ draining' = draining
  <2> DEFINE R == Turns(m) \cup Givens(Deliveries, m) \cup Takens(others, m)
                    \cup Copies("draining", m, draining, m)
  <2>1. Places(m) = R \cup Copies("mailbox", m, mailbox, m) \cup Copies("taken", t, taken[t], m)
    BY <1>6
  <2>2. Places(m)' = R \cup Copies("taken", t, taken[t] \o mailbox, m)
    <3>1. taken'[t] = taken[t] \o mailbox
      BY <1>t, <1>9
    <3>2. Copies("mailbox", m, mailbox', m) = {}
      BY <1>9, NoCopies
    <3>3. Places(m)' = Turns(m) \cup Givens(Deliveries, m) \cup Takens(others, m)
                        \cup Copies("taken", t, taken[t] \o mailbox, m)
                        \cup {} \cup Copies("draining", m, draining, m)
      BY <1>5, <1>9, <3>1, <3>2
    <3> QED BY <3>3
  <2>3. \A i : <<"mailbox", m, i>> \notin R
    BY KindsDiffer
  <2>4. <<"mailbox", m>> # <<"taken", t>>
    OBVIOUS
  <2>5. IsFiniteSet(R \cup Copies("mailbox", m, mailbox, m) \cup Copies("taken", t, taken[t], m))
    BY <2>1
  <2> HIDE DEF R
  <2>6. /\ IsFiniteSet(R \cup Copies("taken", t, taken[t] \o mailbox, m))
        /\ Cardinality(R \cup Copies("taken", t, taken[t] \o mailbox, m))
             <= Cardinality(R \cup Copies("mailbox", m, mailbox, m) \cup Copies("taken", t, taken[t], m))
    BY <1>t, <2>3, <2>4, <2>5, MoveCopies
  <2> QED BY <2>1, <2>2, <2>6
<1> QED BY <1>8, <1>9 DEF DrainRead

\* Nor does its journal entry.
LEMMA CommitMoves ==
  ASSUME TypeOK, TurnInv, NEW t \in Deliveries, DrainCommit(t), NEW m, IsFiniteSet(Places(m))
  PROVE  IsFiniteSet(Places(m)') /\ Cardinality(Places(m)') <= Cardinality(Places(m))
<1> DEFINE others == Deliveries \ {t}
<1>t. /\ given \in [Deliveries -> Seq(Texts)] /\ taken \in [Deliveries -> Seq(Texts)]
      /\ given[t] \in Seq(Texts) /\ taken[t] \in Seq(Texts)
  BY DEF TypeOK
<1>1. /\ given'[t] = given[t] \o taken[t] /\ taken'[t] = <<>>
      /\ \A u \in others : taken'[u] = taken[u] /\ given'[u] = given[u]
      /\ UNCHANGED <<mailbox, draining>>
  BY <1>t DEF DrainCommit, mail
<1>2. \A u \in Deliveries : turn'[u] = "none" <=> turn[u] = "none"
  <2>1. turn \in [Deliveries -> {"none", "working", "ending", "published", "done", "failed"}]
    BY DEF TypeOK
  <2>2. turn[t] # "none"
    BY DEF DrainCommit, TurnInv
  <2> QED BY <2>1, <2>2 DEF DrainCommit
<1>3. /\ Takens(others, m)' = Takens(others, m) /\ Givens(others, m)' = Givens(others, m)
      /\ Turns(m)' = Turns(m)
  BY <1>1, <1>2 DEF Takens, Givens, Turns
<1> DEFINE R == Turns(m) \cup Givens(others, m) \cup Takens(others, m)
                  \cup Copies("mailbox", m, mailbox, m) \cup Copies("draining", m, draining, m)
<1>4. Places(m) = R \cup Copies("taken", t, taken[t], m) \cup Copies("given", t, given[t], m)
  <2>1. Places(m) = Turns(m) \cup Givens(Deliveries, m) \cup Takens(Deliveries, m)
                      \cup Copies("mailbox", m, mailbox, m) \cup Copies("draining", m, draining, m)
    BY PlacesByKind
  <2>2. /\ Takens(Deliveries, m) = Takens(others, m) \cup Copies("taken", t, taken[t], m)
        /\ Givens(Deliveries, m) = Givens(others, m) \cup Copies("given", t, given[t], m)
    BY OneAndOthers
  <2> QED BY <2>1, <2>2
<1>5. Places(m)' = R \cup Copies("given", t, given[t] \o taken[t], m)
  <2>1. Places(m)' = Turns(m)' \cup Givens(Deliveries, m)' \cup Takens(Deliveries, m)'
                       \cup Copies("mailbox", m, mailbox', m) \cup Copies("draining", m, draining', m)
    BY DEF Places, Turns, Givens, Takens
  <2>2. /\ Takens(Deliveries, m)' = Takens(others, m)' \cup Copies("taken", t, taken'[t], m)
        /\ Givens(Deliveries, m)' = Givens(others, m)' \cup Copies("given", t, given'[t], m)
    BY DEF Takens, Givens
  <2>3. Copies("taken", t, taken'[t], m) = {}
    BY <1>1, NoCopies
  <2> QED BY <1>1, <1>3, <2>1, <2>2, <2>3
<1>6. \A i : <<"taken", t, i>> \notin R
  BY KindsDiffer
<1>7. <<"taken", t>> # <<"given", t>>
  OBVIOUS
<1>8. IsFiniteSet(R \cup Copies("taken", t, taken[t], m) \cup Copies("given", t, given[t], m))
  BY <1>4
<1> HIDE DEF R
<1>9. /\ IsFiniteSet(R \cup Copies("given", t, given[t] \o taken[t], m))
      /\ Cardinality(R \cup Copies("given", t, given[t] \o taken[t], m))
           <= Cardinality(R \cup Copies("taken", t, taken[t], m) \cup Copies("given", t, given[t], m))
  BY <1>t, <1>6, <1>7, <1>8, MoveCopies
<1> QED BY <1>4, <1>5, <1>9

\* Only the first delivery of a message has a workflow.
LEMMA OriginKeeps ==
  ASSUME SteeringInv, PlacesInv, [Next]_vars, NEW w \in Deliveries, inbound'[w] # "none"
  PROVE  Original[w] = w
<1>0. TypeOK /\ QueueInv
  BY DEF SteeringInv
<1>1. inbound[w] # "none" => Original[w] = w
  BY DEF PlacesInv
<1>2. ASSUME NEW d \in Deliveries, StartDirectly(d) \/ Enqueue(d)
      PROVE  inbound[w] # "none" \/ w = Original[d]
  <2>1. \/ inbound' = inbound
        \/ inbound' = [inbound EXCEPT ![Original[d]] = "pending"]
        \/ inbound' = [inbound EXCEPT ![Original[d]] = "enqueued"]
    BY <1>2 DEF StartDirectly, Enqueue, WorkflowId
  <2> QED BY <1>0, <2>1 DEF TypeOK
<1>3. ASSUME Dequeue PROVE inbound[w] # "none"
  <2>1. Head(queue) = queue[1] /\ 1 \in DOMAIN queue
    BY <1>0, <1>3 DEF Dequeue, TypeOK
  <2>2. inbound[Head(queue)] = "enqueued"
    BY <1>0, <2>1 DEF QueueInv
  <2> QED BY <1>0, <1>3, <2>2 DEF Dequeue, TypeOK
<1>4. ASSUME NEW v \in Deliveries, ReplayDiverges(v) \/ Return(v) PROVE inbound[w] # "none"
  <2>1. inbound[v] = "pending"
    BY <1>0, <1>4 DEF ReplayDiverges, Return, QueueInv
  <2> QED BY <1>0, <1>4, <2>1 DEF ReplayDiverges, Return, TypeOK
<1>5. ASSUME Crash PROVE inbound[w] # "none"
  BY <1>5 DEF Crash
<1>6. ASSUME inbound' = inbound PROVE inbound[w] # "none"
  BY <1>6
<1>7. \A d \in Deliveries : w = Original[d] => Original[w] = w
  BY ConstantsAssumption
<1> QED BY <1>1, <1>2, <1>3, <1>4, <1>5, <1>6, <1>7
        DEF Next, Channel, CallStep, InboundStep, TurnStep, Receive, StoreIfActive, Dispatch,
            AppendBody, Activate, DrainOpen, DrainRead, DrainCommit, PublishBody, PublishCommit,
            Finish, Fail, vars, database

\* A workflow that has appended or dispatched does so again only after a crash.
LEMMA MayPlaceFalls ==
  ASSUME SteeringInv, [Next]_vars, ~Crash, NEW m \in Deliveries, MayPlace(m)'
  PROVE  MayPlace(m)
<1>0. TypeOK /\ QueueInv
  BY DEF SteeringInv
<1> USE DEF MayPlace
<1>1. ASSUME NEW d \in Deliveries, StartDirectly(d) PROVE MayPlace(m)
  <2>1. Original[d] \in Deliveries
    BY ConstantsAssumption
  <2>2. \/ UNCHANGED <<inbound, body>>
        \/ /\ inbound[Original[d]] = "none"
           /\ inbound' = [inbound EXCEPT ![Original[d]] = "pending"]
           /\ body' = [body EXCEPT ![Original[d]] = "entered"]
    BY <1>1 DEF StartDirectly, WorkflowId
  <2>3. DOMAIN inbound = Deliveries /\ DOMAIN body = Deliveries
    BY <1>0 DEF TypeOK
  <2> QED BY <2>1, <2>2, <2>3
<1>2. ASSUME NEW d \in Deliveries, Enqueue(d) PROVE MayPlace(m)
  <2>1. Original[d] \in Deliveries
    BY ConstantsAssumption
  <2>2. /\ body' = body
        /\ \/ inbound' = inbound
           \/ /\ inbound[Original[d]] = "none"
              /\ inbound' = [inbound EXCEPT ![Original[d]] = "enqueued"]
    BY <1>2 DEF Enqueue, WorkflowId
  <2> QED BY <1>0, <2>1, <2>2 DEF TypeOK
<1>3. ASSUME Dequeue PROVE MayPlace(m)
  <2>1. Head(queue) = queue[1] /\ 1 \in DOMAIN queue
    BY <1>0, <1>3 DEF Dequeue, TypeOK
  <2>2. inbound[Head(queue)] = "enqueued"
    BY <1>0, <2>1 DEF QueueInv
  <2> QED BY <1>0, <1>3, <2>2 DEF Dequeue, TypeOK
<1>4. ASSUME NEW w \in Deliveries, StoreIfActive(w) PROVE MayPlace(m)
  BY <1>0, <1>4 DEF StoreIfActive, database, TypeOK
<1>5. ASSUME NEW w \in Deliveries, Dispatch(w) PROVE MayPlace(m)
  BY <1>0, <1>5 DEF Dispatch, TypeOK
<1>6. ASSUME NEW w \in Deliveries, ReplayDiverges(w) PROVE MayPlace(m)
  BY <1>0, <1>6 DEF ReplayDiverges, TypeOK
<1>7. ASSUME NEW w \in Deliveries, AppendBody(w) PROVE MayPlace(m)
  <2>1. inbound' = inbound /\ body' = [body EXCEPT ![w] = "appended"]
    BY <1>7 DEF AppendBody, database
  <2> QED BY <1>0, <2>1 DEF TypeOK
<1>8. ASSUME NEW w \in Deliveries, Return(w) PROVE MayPlace(m)
  BY <1>0, <1>8 DEF Return, TypeOK
<1>9. ASSUME UNCHANGED <<inbound, body>> PROVE MayPlace(m)
  BY <1>9
<1> QED BY <1>1, <1>2, <1>3, <1>4, <1>5, <1>6, <1>7, <1>8, <1>9
        DEF Next, Channel, CallStep, InboundStep, TurnStep, Receive, Activate, DrainOpen,
            DrainRead, DrainCommit, PublishBody, PublishCommit, Finish, Fail, vars, database

\* A dispatch adds the message's turn, and an append the message.
LEMMA WorkflowPlaces ==
  ASSUME SteeringInv, PlacesInv, NEW w \in Deliveries, Dispatch(w) \/ AppendBody(w),
         NEW m \in Texts
  PROVE  /\ IsFiniteSet(Places(m)')
         /\ \/ Cardinality(Places(m)') <= Cardinality(Places(m))
            \/ /\ MayPlace(m) /\ ~MayPlace(m)'
               /\ Cardinality(Places(m)') <= Cardinality(Places(m)) + 1
<1>0. TypeOK /\ QueueInv
  BY DEF SteeringInv
<1>1. IsFiniteSet(Places(m)) /\ Cardinality(Places(m)) \in Nat
  BY FS_CardinalityType DEF PlacesInv
<1>2. inbound[w] = "pending" /\ Original[w] = w
  <2>1. body[w] # "off"
    BY DEF Dispatch, AppendBody
  <2> QED BY <1>0, <2>1 DEF QueueInv, PlacesInv
<1>3. inbound'[w] = "pending" /\ body'[w] \in {"waiting", "appended"} /\ body[w] \in {"entered", "storing"}
  BY <1>0, <1>2 DEF Dispatch, AppendBody, database, TypeOK
<1>4. MayPlace(w) /\ ~MayPlace(w)'
  BY <1>3 DEF MayPlace
<1>5. PICK x : Places(m)' \subseteq Places(m) \cup (IF m = w THEN {x} ELSE {})
  <2>1. CASE Dispatch(w)
    <3>1. UNCHANGED <<given, taken, mailbox, draining>>
      BY <2>1 DEF Dispatch, mail, drains
    <3>2. \A t \in Deliveries : turn'[t] # "none" => turn[t] # "none" \/ t = w
      BY <1>0, <2>1 DEF Dispatch, TypeOK
    <3>3. Turns(m)' \subseteq Turns(m) \cup (IF m = w THEN {<<"turn", w, 0>>} ELSE {})
      BY <1>2, <3>2 DEF Turns
    <3>4. Places(m)' = Turns(m)' \cup Givens(Deliveries, m) \cup Takens(Deliveries, m)
                         \cup Copies("mailbox", m, mailbox, m) \cup Copies("draining", m, draining, m)
      BY <3>1 DEF Places, Turns, Givens, Takens
    <3> QED BY <3>3, <3>4, PlacesByKind
  <2>2. CASE AppendBody(w)
    <3>1. UNCHANGED <<turn, given, taken, draining>> /\ mailbox' = Append(mailbox, w)
      BY <1>2, <2>2 DEF AppendBody, database, drains
    <3> DEFINE l == Len(mailbox) + 1
    <3>2. /\ DOMAIN mailbox' = DOMAIN mailbox \cup {l} /\ mailbox'[l] = w
          /\ \A i \in DOMAIN mailbox : mailbox'[i] = mailbox[i]
      <4>1. mailbox \in Seq(Texts) /\ w \in Texts
        BY <1>0, <1>2 DEF TypeOK, Texts
      <4> QED BY <3>1, <4>1
    <3> HIDE DEF l
    <3>3. Copies("mailbox", m, mailbox', m)
            \subseteq Copies("mailbox", m, mailbox, m) \cup (IF m = w THEN {<<"mailbox", m, l>>} ELSE {})
      BY <3>2 DEF Copies
    <3>4. Places(m)' = Turns(m) \cup Givens(Deliveries, m) \cup Takens(Deliveries, m)
                         \cup Copies("mailbox", m, mailbox', m) \cup Copies("draining", m, draining, m)
      BY <3>1 DEF Places, Turns, Givens, Takens
    <3> QED BY <3>3, <3>4, PlacesByKind
  <2> QED BY <2>1, <2>2
<1>6. CASE m = w
  <2>1. /\ IsFiniteSet(Places(m) \cup {x})
        /\ Cardinality(Places(m) \cup {x}) <= Cardinality(Places(m)) + 1
        /\ Cardinality(Places(m) \cup {x}) \in Nat
    <3>1. /\ IsFiniteSet(Places(m) \cup {x})
          /\ Cardinality(Places(m) \cup {x}) =
                IF x \in Places(m) THEN Cardinality(Places(m)) ELSE Cardinality(Places(m)) + 1
      BY <1>1, FS_AddElement
    <3>2. Cardinality(Places(m) \cup {x}) \in Nat
      BY <3>1, FS_CardinalityType
    <3> QED BY <1>1, <3>1, <3>2
  <2>2. /\ IsFiniteSet(Places(m)')
        /\ Cardinality(Places(m)') <= Cardinality(Places(m) \cup {x})
    BY <1>5, <1>6, <2>1, FS_Subset
  <2>3. Cardinality(Places(m)') \in Nat
    BY <2>2, FS_CardinalityType
  <2>4. Cardinality(Places(m)') <= Cardinality(Places(m)) + 1
    BY <1>1, <2>1, <2>2, <2>3
  <2> QED BY <1>4, <1>6, <2>2, <2>4
<1>7. CASE m # w
  <2>1. Places(m)' \subseteq Places(m)
    BY <1>5, <1>7
  <2> QED BY <1>1, <2>1, FS_Subset
<1> QED BY <1>6, <1>7

\* What one step adds to the places of a message.
LEMMA PlacesStep ==
  ASSUME SteeringInv, PlacesInv, [Next]_vars, NEW m \in Texts
  PROVE  /\ IsFiniteSet(Places(m)')
         /\ \/ Cardinality(Places(m)') <= Cardinality(Places(m))
            \/ /\ MayPlace(m) /\ ~MayPlace(m)'
               /\ Cardinality(Places(m)') <= Cardinality(Places(m)) + 1
<1>0. TypeOK /\ TurnInv /\ QueueInv
  BY DEF SteeringInv
<1>1. IsFiniteSet(Places(m)) /\ Cardinality(Places(m)) \in Nat
  BY FS_CardinalityType DEF PlacesInv
<1> DEFINE Stays == IsFiniteSet(Places(m)') /\ Cardinality(Places(m)') <= Cardinality(Places(m))
<1>2. ASSUME NEW t \in Deliveries, DrainOpen(t) \/ DrainRead(t) \/ DrainCommit(t) PROVE Stays
  BY <1>0, <1>1, <1>2, OpenMoves, ReadMoves, CommitMoves
<1>3. ASSUME Crash PROVE Stays
  <2>1. UNCHANGED <<turn, given, mailbox, draining>> /\ taken' = [t \in Deliveries |-> <<>>]
    BY <1>3 DEF Crash, mail
  <2>2. Takens(Deliveries, m)' = {}
    BY <2>1, NoCopies DEF Takens
  <2>3. Places(m)' = Turns(m) \cup Givens(Deliveries, m) \cup Takens(Deliveries, m)'
                       \cup Copies("mailbox", m, mailbox, m) \cup Copies("draining", m, draining, m)
    BY <2>1 DEF Places, Turns, Givens, Takens
  <2>4. Places(m)' \subseteq Places(m)
    BY <2>2, <2>3, PlacesByKind
  <2> QED BY <1>1, <2>4, FS_Subset
<1>4. ASSUME UNCHANGED <<given, taken, mailbox, draining>>,
             \A t \in Deliveries : turn'[t] = "none" <=> turn[t] = "none"
      PROVE  Stays
  <2>1. Turns(m)' = Turns(m)
    BY <1>4 DEF Turns
  <2>2. Places(m)' = Turns(m)' \cup Givens(Deliveries, m) \cup Takens(Deliveries, m)
                       \cup Copies("mailbox", m, mailbox, m) \cup Copies("draining", m, draining, m)
    BY <1>4 DEF Places, Turns, Givens, Takens
  <2>3. Places(m)' = Places(m)
    BY <2>1, <2>2, PlacesByKind
  <2> QED BY <1>1, <2>3
<1>5. ASSUME NEW t \in Deliveries, PublishCommit(t) \/ Finish(t) \/ Fail(t) PROVE Stays
  <2>1. UNCHANGED <<given, taken, mailbox, draining>>
    BY <1>5 DEF PublishCommit, Finish, Fail, mail, drains
  <2>2. turn[t] # "none"
    BY <1>0, <1>5 DEF PublishCommit, Finish, Fail, TurnInv
  <2>3. PICK x \in {"published", "done", "failed"} : turn' = [turn EXCEPT ![t] = x]
    BY <1>5 DEF PublishCommit, Finish, Fail
  <2>4. \A u \in Deliveries : turn'[u] = "none" <=> turn[u] = "none"
    BY <1>0, <2>2, <2>3 DEF TypeOK
  <2> QED BY <1>4, <2>1, <2>4
<1>6. ASSUME UNCHANGED <<turn, given, taken, mailbox, draining>> PROVE Stays
  BY <1>4, <1>6
<1> HIDE DEF Stays
<1>7. \/ Stays
      \/ \E w \in Deliveries : Dispatch(w) \/ AppendBody(w)
  BY <1>2, <1>3, <1>5, <1>6
     DEF Next, Channel, CallStep, InboundStep, TurnStep, Receive, StartDirectly, Enqueue,
         Dequeue, StoreIfActive, ReplayDiverges, Return, Activate, PublishBody, vars, database,
         mail, drains
<1>8. ASSUME NEW w \in Deliveries, Dispatch(w) \/ AppendBody(w)
      PROVE  /\ IsFiniteSet(Places(m)')
             /\ \/ Cardinality(Places(m)') <= Cardinality(Places(m))
                \/ /\ MayPlace(m) /\ ~MayPlace(m)'
                   /\ Cardinality(Places(m)') <= Cardinality(Places(m)) + 1
  BY <1>8, WorkflowPlaces
<1> QED BY <1>7, <1>8 DEF Stays

\* Every step keeps the bound.
LEMMA PlacesKeeps == SteeringInv /\ PlacesInv /\ [Next]_vars => PlacesInv'
<1> SUFFICES ASSUME SteeringInv, PlacesInv, [Next]_vars PROVE PlacesInv'
  OBVIOUS
<1>1. ASSUME NEW m \in Texts
      PROVE  /\ IsFiniteSet(Places(m)')
             /\ Cardinality(Places(m)') + (IF MayPlace(m)' THEN 1 ELSE 0) <= 1 + crashes'
  <2>1. /\ IsFiniteSet(Places(m)') /\ Cardinality(Places(m)') \in Nat
        /\ Cardinality(Places(m)) \in Nat /\ crashes \in Nat
    <3>1. IsFiniteSet(Places(m)') /\ IsFiniteSet(Places(m))
      BY PlacesStep DEF PlacesInv
    <3>2. crashes \in Nat
      BY ConstantsAssumption DEF SteeringInv, TypeOK
    <3> QED BY <3>1, <3>2, FS_CardinalityType
  <2>2. /\ Cardinality(Places(m)) <= 1 + crashes
        /\ MayPlace(m) => Cardinality(Places(m)) + 1 <= 1 + crashes
    BY <2>1 DEF PlacesInv
  <2>3. \/ Cardinality(Places(m)') <= Cardinality(Places(m))
        \/ /\ MayPlace(m) /\ ~MayPlace(m)'
           /\ Cardinality(Places(m)') <= Cardinality(Places(m)) + 1
    BY PlacesStep
  <2>4. CASE Crash
    <3>1. crashes' = crashes + 1
      BY <2>4 DEF Crash
    <3>2. Cardinality(Places(m)') <= 1 + crashes
      BY <2>1, <2>2, <2>3
    <3> QED BY <2>1, <3>1, <3>2
  <2>5. CASE ~Crash
    <3>1. MayPlace(m)' => MayPlace(m)
      BY <2>5, MayPlaceFalls, TextIsWorkflow
    <3>2. crashes' = crashes
      BY <2>5 DEF Next, Channel, CallStep, InboundStep, TurnStep, Receive, StartDirectly, Enqueue,
            Dequeue, StoreIfActive, Dispatch, ReplayDiverges, AppendBody, Return, Activate,
            DrainOpen, DrainRead, DrainCommit, PublishBody, PublishCommit, Finish, Fail, vars, history
    <3> QED BY <2>1, <2>2, <2>3, <3>1, <3>2
  <2> QED BY <2>4, <2>5
<1> QED BY <1>1, OriginKeeps DEF PlacesInv

-----------------------------------------------------------------------------
(* The theorems *)

\* No step breaks the invariant.
THEOREM SteeringStep == SteeringInv /\ [Next]_vars => SteeringInv'
BY TypeStep, RegistryStep, TurnKeeps, QueueKeeps, KeptKeeps DEF SteeringInv

\* Every state of the session has the invariant.
THEOREM SteeringSafety == Spec => []SteeringInv
BY SteeringInit, SteeringStep, PTL DEF Spec

\* Every variable keeps its type, whatever deliveries, retries and crashes come.
THEOREM SteeringTypes == Spec => []TypeOK
<1>1. SteeringInv => TypeOK
  BY DEF SteeringInv
<1> QED BY <1>1, SteeringSafety, PTL

\* The registry counts the turns that are executing, through recoveries in any
\* order, turns that overlap and turns that raise.
THEOREM RegistryCounts == Spec => []RegistryIsRight
<1>1. SteeringInv => RegistryIsRight
  BY DEF SteeringInv
<1> QED BY <1>1, SteeringSafety, PTL

\* A place among the copies is a place in the sequence.
LEMMA CopiesOf ==
  ASSUME NEW place, NEW owner, NEW s, NEW m, m \in ToSet(s)
  PROVE  \E x : x \in Copies(place, owner, s, m)
<1>1. PICK i \in DOMAIN s : s[i] = m
  BY DEF ToSet
<1>2. <<place, owner, i>> \in Copies(place, owner, s, m)
  BY <1>1 DEF Copies
<1> QED BY <1>2

\* A message that is kept has a place.
LEMMA KeptHasPlace == ASSUME NEW m, Kept(m) PROVE Places(m) # {}
<1>1. ASSUME NEW t \in Deliveries, turn[t] # "none", Original[t] = m PROVE Places(m) # {}
  <2>1. <<"turn", t, 0>> \in Places(m)
    BY <1>1 DEF Places
  <2> QED BY <2>1
<1>2. ASSUME NEW t \in Deliveries, m \in ToSet(given[t]) PROVE Places(m) # {}
  <2>1. PICK x : x \in Copies("given", t, given[t], m)
    BY <1>2, CopiesOf
  <2>2. x \in Places(m)
    BY <2>1 DEF Places
  <2> QED BY <2>2
<1>3. ASSUME NEW t \in Deliveries, m \in ToSet(taken[t]) PROVE Places(m) # {}
  <2>1. PICK x : x \in Copies("taken", t, taken[t], m)
    BY <1>3, CopiesOf
  <2>2. x \in Places(m)
    BY <2>1 DEF Places
  <2> QED BY <2>2
<1>4. CASE m \in ToSet(mailbox)
  <2>1. PICK x : x \in Copies("mailbox", m, mailbox, m)
    BY <1>4, CopiesOf
  <2>2. x \in Places(m)
    BY <2>1 DEF Places
  <2> QED BY <2>2
<1>5. CASE m \in ToSet(draining)
  <2>1. PICK x : x \in Copies("draining", m, draining, m)
    BY <1>5, CopiesOf
  <2>2. x \in Places(m)
    BY <2>1 DEF Places
  <2> QED BY <2>2
<1> QED BY <1>1, <1>2, <1>3, <1>4, <1>5 DEF Kept

\* An accepted message is in the mailbox or in a turn, unless a crash cut short
\* the drain that read it.
THEOREM AcceptedStays == Spec => []AcceptedIsKept
<1>1. SteeringInv => AcceptedIsKept
  BY KeptHasPlace DEF SteeringInv, KeptInv, AcceptedIsKept
<1> QED BY <1>1, SteeringSafety, PTL

\* Turns of one session overlap only by the direct path or after the replay of
\* an inbound workflow has failed: the partition keeps all others apart.
THEOREM OverlapExplained == Spec => []OverlapOnlyIfDirect
<1>1. ASSUME SteeringInv PROVE OverlapOnlyIfDirect
  <2>0. TypeOK /\ QueueInv
    BY <1>1 DEF SteeringInv
  <2> SUFFICES ASSUME \A w \in Deliveries :
                         turn[w] # "none" => route[w] # "direct" /\ inbound[w] # "failed"
               PROVE  Cardinality(live) <= 1
    BY DEF OverlapOnlyIfDirect
  <2>1. \A t \in live : /\ t \in Deliveries /\ turn[t] # "none" /\ route[t] = "queue"
                        /\ inbound[t] \in {"enqueued", "pending"}
    <3> SUFFICES ASSUME NEW t \in live
                 PROVE  /\ t \in Deliveries /\ turn[t] # "none" /\ route[t] = "queue"
                        /\ inbound[t] \in {"enqueued", "pending"}
      OBVIOUS
    <3>1. t \in Deliveries /\ turn[t] # "none" /\ Open(t)
      BY <2>0 DEF TypeOK, Open
    <3>2. inbound[t] \in {"enqueued", "pending"}
      BY <2>0, <3>1 DEF QueueInv, TypeOK
    <3>3. route[t] = "queue"
      BY <2>0, <3>1, <3>2 DEF QueueInv
    <3> QED BY <3>1, <3>2, <3>3
  <2>2. ASSUME NEW t \in live, NEW u \in live PROVE t = u
    <3>1. CASE Busy(t) /\ Busy(u)
      BY <2>0, <2>1, <3>1 DEF QueueInv
    <3>2. CASE inbound[t] = "enqueued" \/ inbound[u] = "enqueued"
      <4>1. \A x \in live : inbound[x] = "enqueued" =>
               (\E i \in DOMAIN queue : i = 1 /\ queue[i] = x) /\ \A w \in Deliveries : ~Busy(w)
        BY <2>0, <2>1 DEF QueueInv
      <4>2. inbound[t] = "enqueued" /\ inbound[u] = "enqueued"
        BY <2>1, <3>2, <4>1 DEF Busy
      <4> QED BY <4>1, <4>2
    <3> QED BY <2>1, <3>1, <3>2 DEF Busy
  <2>3. CASE live = {}
    BY <2>3, FS_EmptySet
  <2>4. CASE live # {}
    <3>1. PICK t \in live : live = {t}
      BY <2>2, <2>4
    <3>2. Cardinality({t}) = 1
      BY FS_Singleton
    <3> QED BY <3>1, <3>2
  <2> QED BY <2>3, <2>4
<1> QED BY <1>1, SteeringSafety, PTL

\* Every turn is given its messages in the order in which they were appended,
\* across drains that a crash interrupts: by OrderInv.
THEOREM ArrivalOrder == Spec => []InArrivalOrder
<1>1. ASSUME Init PROVE OrderInv
  <2>1. /\ \A t \in Deliveries : given[t] \o taken[t] = <<>>
        /\ mailbox = <<>> /\ draining = <<>> /\ arrivals = <<>>
    BY <1>1 DEF Init
  <2>2. ASSUME NEW t \in Deliveries PROVE Embeds(given[t] \o taken[t], arrivals, 0)
    <3>1. <<>> \in [DOMAIN <<>> -> 1..0] /\ DOMAIN <<>> = {}
      OBVIOUS
    <3> QED BY <2>1, <3>1 DEF Embeds
  <2>3. ReadUpTo(0)
    <3>1. Len(<<>>) = 0 /\ DOMAIN <<>> = {}
      OBVIOUS
    <3> QED BY <2>1, <2>2, <3>1 DEF ReadUpTo
  <2>4. LockInv
    BY <1>1 DEF Init, LockInv, Locked
  <2> QED BY <2>3, <2>4 DEF OrderInv
<1>2. SteeringInv /\ OrderInv /\ [Next]_vars => OrderInv'
  BY LockKeeps, ReadKeeps DEF OrderInv
<1>3. ASSUME SteeringInv, OrderInv PROVE InArrivalOrder
  <2>1. PICK n \in Nat : ReadUpTo(n)
    BY <1>3 DEF OrderInv
  <2>2. /\ mailbox \in Seq(Texts) /\ draining \in Seq(Texts) /\ arrivals \in Seq(Texts)
    BY <1>3 DEF SteeringInv, TypeOK
  <2>3. 1..n \subseteq DOMAIN arrivals
    <3>1. /\ Len(mailbox) \in Nat /\ Len(draining) \in Nat /\ Len(arrivals) \in Nat
          /\ DOMAIN arrivals = 1..Len(arrivals)
      BY <2>2, LenProperties
    <3>2. n <= Len(arrivals)
      BY <2>1, <3>1 DEF ReadUpTo
    <3> QED BY <3>1, <3>2
  <2>4. ASSUME NEW t \in Deliveries
        PROVE  LET s == given[t] \o taken[t]
               IN \E f \in [DOMAIN s -> DOMAIN arrivals] :
                     /\ \A i \in DOMAIN s : s[i] = arrivals[f[i]]
                     /\ \A i, j \in DOMAIN s : i < j => f[i] < f[j]
    <3> DEFINE s == given[t] \o taken[t]
    <3>1. PICK f \in [DOMAIN s -> 1..n] :
             /\ \A i \in DOMAIN s : s[i] = arrivals[f[i]]
             /\ \A i, j \in DOMAIN s : i < j => f[i] < f[j]
      BY <2>1 DEF ReadUpTo, Embeds
    <3> HIDE DEF s
    <3>2. f \in [DOMAIN s -> DOMAIN arrivals]
      BY <2>3, <3>1
    <3>3. \E g \in [DOMAIN s -> DOMAIN arrivals] :
             /\ \A i \in DOMAIN s : s[i] = arrivals[g[i]]
             /\ \A i, j \in DOMAIN s : i < j => g[i] < g[j]
      BY <3>1, <3>2
    <3> QED BY <3>3 DEF s
  <2> QED BY <2>4 DEF InArrivalOrder
<1> QED BY <1>1, <1>2, <1>3, SteeringSafety, PTL DEF Spec

\* A message is in one place, a retry of its delivery included, and each crash
\* adds at most one: by PlacesInv.
THEOREM PlacesBounded == Spec => []OneMorePlacePerCrash
<1>1. ASSUME Init PROVE PlacesInv
  <2>1. ASSUME NEW m \in Texts PROVE Places(m) = {}
    <3>1. /\ \A t \in Deliveries : turn[t] = "none" /\ given[t] = <<>> /\ taken[t] = <<>>
          /\ mailbox = <<>> /\ draining = <<>>
      BY <1>1 DEF Init
    <3>2. Turns(m) = {}
      BY <3>1 DEF Turns
    <3>3. Givens(Deliveries, m) = {} /\ Takens(Deliveries, m) = {}
      BY <3>1, NoCopies DEF Givens, Takens
    <3> QED BY <3>1, <3>2, <3>3, NoCopies, PlacesByKind
  <2>2. crashes = 0 /\ \A w \in Deliveries : inbound[w] = "none"
    BY <1>1 DEF Init
  <2> QED BY <2>1, <2>2, FS_EmptySet DEF PlacesInv
<1>2. ASSUME SteeringInv, PlacesInv, NEW m \in Texts PROVE Cardinality(Places(m)) <= 1 + crashes
  <2>1. Cardinality(Places(m)) \in Nat
    BY <1>2, FS_CardinalityType DEF PlacesInv
  <2>2. crashes \in Nat
    BY <1>2, ConstantsAssumption DEF SteeringInv, TypeOK
  <2>3. Cardinality(Places(m)) + (IF MayPlace(m) THEN 1 ELSE 0) <= 1 + crashes
    BY <1>2 DEF PlacesInv
  <2> QED BY <2>1, <2>2, <2>3
<1>3. SteeringInv /\ PlacesInv => OneMorePlacePerCrash
  BY <1>2 DEF OneMorePlacePerCrash
<1> QED BY <1>1, <1>3, PlacesKeeps, SteeringSafety, PTL DEF Spec
=============================================================================
