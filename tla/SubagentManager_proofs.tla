----------------------- MODULE SubagentManager_proofs -----------------------
(***************************************************************************)
(* Proofs about SubagentManager, for any finite set of tasks, any batches  *)
(* and sessions and any concurrency cap.                                   *)
(*                                                                         *)
(* The first part, SafeInv, holds over every bus.  The second, NoRaceInv,  *)
(* is for a bus that does not suspend the announcing task and leads to     *)
(* NothingDropped and to the refinement of BatchContract.  The third,      *)
(* OwedInv, is for every bus again and says what is lost only when a batch *)
(* was joined during its announcement.                                     *)
(***************************************************************************)
EXTENDS SubagentManager, FiniteSetTheorems, TLAPS

\* A set of tasks is finite.
LEMMA FiniteTasks ==
  ASSUME NEW S \in SUBSET Tasks
  PROVE  IsFiniteSet(S) /\ Cardinality(S) \in Nat
BY ConstantsAssumption, FS_Subset, FS_CardinalityType

EnteredTasks == {t \in Tasks : Entered(t)}

-----------------------------------------------------------------------------
(* Types, counters, permits and handles *)

\* TypeOK with the bound on permits left to PermitsConserved.
TypeInv ==
  /\ total \in [Batches -> Nat]
  /\ completed \in [Batches -> Nat]
  /\ registered \in [Batches -> SUBSET Tasks]
  /\ finished \in [Batches -> SUBSET Tasks]
  /\ announced \subseteq Batches
  /\ pc \in [Tasks -> PC]
  /\ batchOf \in [Tasks -> Batches \cup {NoBatch}]
  /\ sessionOf \in [Tasks -> Sessions]
  /\ handles \subseteq Tasks
  /\ permits \in Nat
  /\ snapshot \in [Tasks -> SUBSET Tasks]
  /\ recorded \subseteq Tasks
  /\ reported \subseteq Tasks
  /\ raced \subseteq Batches

SafeInv == TypeInv /\ CountersAgree /\ PermitsConserved /\ LiveIsReachable

\* register keeps the store well-typed and its counters right.
LEMMA RegisterSafe ==
  ASSUME TypeInv, CountersAgree, NEW b \in Batches, NEW t \in Tasks, Register(b, t)
  PROVE  /\ total' \in [Batches -> Nat] /\ completed' \in [Batches -> Nat]
         /\ registered' \in [Batches -> SUBSET Tasks]
         /\ finished' \in [Batches -> SUBSET Tasks]
         /\ announced' \subseteq Batches
         /\ CountersAgree'
<1> DEFINE stale == b \in announced
           roster == IF stale THEN {} ELSE registered[b]
           size == IF stale THEN 0 ELSE total[b]
<1>1. /\ announced' = announced \ {b}
      /\ registered' = [registered EXCEPT ![b] = roster \cup {t}]
      /\ total' = [total EXCEPT ![b] = IF t \in roster THEN size ELSE size + 1]
      /\ completed' = [completed EXCEPT ![b] = IF stale THEN 0 ELSE @]
      /\ finished' = [finished EXCEPT ![b] = IF stale THEN {} ELSE @]
  BY DEF Register
<1>2. roster \in SUBSET Tasks /\ size \in Nat /\ size = Cardinality(roster)
  BY FS_EmptySet DEF TypeInv, CountersAgree
<1>3. Cardinality(roster \cup {t}) = IF t \in roster THEN size ELSE size + 1
  BY <1>2, FiniteTasks, FS_AddElement
<1>4. /\ total' \in [Batches -> Nat] /\ completed' \in [Batches -> Nat]
      /\ registered' \in [Batches -> SUBSET Tasks]
      /\ finished' \in [Batches -> SUBSET Tasks]
      /\ announced' \subseteq Batches
  BY <1>1, <1>2 DEF TypeInv
<1>5. ASSUME NEW c \in Batches
      PROVE  total'[c] = Cardinality(registered'[c]) /\ completed'[c] = Cardinality(finished'[c])
  <2>1. CASE c = b
    BY <1>1, <1>2, <1>3, <2>1, FS_EmptySet DEF TypeInv, CountersAgree
  <2>2. CASE c # b
    BY <1>1, <2>2 DEF TypeInv, CountersAgree
  <2> QED BY <2>1, <2>2
<1> QED BY <1>4, <1>5 DEF CountersAgree

\* So does the locked half of record_completion_and_maybe_announce.
LEMMA RecordSafe ==
  ASSUME TypeInv, CountersAgree, NEW b \in Batches, NEW t \in Tasks, RecordCompletion(b, t)
  PROVE  /\ total' \in [Batches -> Nat] /\ completed' \in [Batches -> Nat]
         /\ registered' \in [Batches -> SUBSET Tasks]
         /\ finished' \in [Batches -> SUBSET Tasks]
         /\ recorded' \subseteq Tasks
         /\ CountersAgree'
<1>1. /\ finished' = [finished EXCEPT ![b] = @ \cup {t}]
      /\ completed' = [completed EXCEPT ![b] = IF t \in finished[b] THEN @ ELSE @ + 1]
      /\ recorded' = recorded \cup {t}
      /\ total' = total /\ registered' = registered
  BY DEF RecordCompletion
<1>2. finished[b] \in SUBSET Tasks /\ completed[b] = Cardinality(finished[b])
  BY DEF TypeInv, CountersAgree
<1>3. Cardinality(finished[b] \cup {t}) = IF t \in finished[b] THEN completed[b] ELSE completed[b] + 1
  BY <1>2, FiniteTasks, FS_AddElement
<1>4. ASSUME NEW c \in Batches
      PROVE  total'[c] = Cardinality(registered'[c]) /\ completed'[c] = Cardinality(finished'[c])
  <2>1. CASE c = b
    BY <1>1, <1>3, <2>1 DEF TypeInv, CountersAgree
  <2>2. CASE c # b
    BY <1>1, <2>2 DEF TypeInv, CountersAgree
  <2> QED BY <2>1, <2>2
<1>5. /\ total' \in [Batches -> Nat] /\ completed' \in [Batches -> Nat]
      /\ registered' \in [Batches -> SUBSET Tasks]
      /\ finished' \in [Batches -> SUBSET Tasks]
      /\ recorded' \subseteq Tasks
  BY <1>1 DEF TypeInv
<1> QED BY <1>4, <1>5 DEF CountersAgree

\* Ending any set of tasks returns exactly the permits they held and forgets
\* no task that is still live.
LEMMA LeaveRunnerSafe ==
  ASSUME TypeInv, PermitsConserved, LiveIsReachable, NEW T \in SUBSET Tasks, LeaveRunner(T)
  PROVE  /\ pc' \in [Tasks -> PC] /\ handles' \subseteq Tasks /\ permits' \in Nat
         /\ PermitsConserved' /\ LiveIsReachable'
<1> DEFINE Left == {u \in T : Entered(u)}
<1>1. /\ pc' = [u \in Tasks |-> IF u \in T THEN "ended" ELSE pc[u]]
      /\ handles' = handles \ Left
      /\ permits' = permits + Cardinality(Left)
  BY DEF LeaveRunner
<1>2. EnteredTasks' = EnteredTasks \ Left
  BY <1>1 DEF EnteredTasks, Entered
<1>3. EnteredTasks \in SUBSET Tasks /\ Left \in SUBSET Tasks /\ EnteredTasks \cap Left = Left
  BY DEF EnteredTasks
<1>4. Cardinality(EnteredTasks') = Cardinality(EnteredTasks) - Cardinality(Left)
  BY <1>2, <1>3, FiniteTasks, FS_Difference
<1>5. Cardinality(EnteredTasks) \in Nat /\ Cardinality(Left) \in Nat
  BY <1>3, FiniteTasks
<1>6. permits \in Nat /\ Cap \in Nat /\ permits + Cardinality(EnteredTasks) = Cap
  BY ConstantsAssumption DEF TypeInv, PermitsConserved, EnteredTasks
<1>7. permits' \in Nat /\ permits' + Cardinality(EnteredTasks') = Cap
  <2> HIDE DEF Left
  <2> QED BY <1>1, <1>4, <1>5, <1>6
<1>8. pc' \in [Tasks -> PC] /\ handles' \subseteq Tasks
  BY <1>1 DEF TypeInv, PC
<1>9. LiveIsReachable'
  BY <1>1 DEF TypeInv, LiveIsReachable, Live
<1> QED BY <1>7, <1>8, <1>9 DEF PermitsConserved, EnteredTasks

\* A step that moves one task from one place to another inside or outside the
\* runner, handles and permits as they were.
LEMMA MoveSafe ==
  ASSUME TypeInv, PermitsConserved, LiveIsReachable, NEW t \in Tasks, NEW p \in PC,
         pc' = [pc EXCEPT ![t] = p], handles' = handles, permits' = permits,
         Live(t), p \notin {"idle", "ended"},
         Entered(t) <=> p \in {"running", "announcing", "published"}
  PROVE  pc' \in [Tasks -> PC] /\ PermitsConserved' /\ LiveIsReachable'
<1>1. EnteredTasks' = EnteredTasks
  BY DEF EnteredTasks, Entered, TypeInv
<1> QED BY <1>1 DEF TypeInv, PermitsConserved, LiveIsReachable, Live, EnteredTasks

\* The program starts in a safe state: nothing counted, every permit free.
THEOREM SafeInit == Init => SafeInv
<1> SUFFICES ASSUME Init PROVE SafeInv
  OBVIOUS
<1>1. TypeInv
  BY ConstantsAssumption DEF Init, TypeInv, PC
<1>2. CountersAgree
  BY FS_EmptySet DEF Init, CountersAgree
<1>3. EnteredTasks = {}
  BY DEF Init, EnteredTasks, Entered
<1>4. PermitsConserved
  <2>1. Cardinality(EnteredTasks) = 0
    BY <1>3, FS_EmptySet
  <2> QED BY <2>1, ConstantsAssumption DEF Init, PermitsConserved, EnteredTasks
<1>5. LiveIsReachable
  BY DEF Init, LiveIsReachable, Live
<1> QED BY <1>1, <1>2, <1>4, <1>5 DEF SafeInv

\* No step of the manager, the store or the spawner leaves the safe states:
\* counters, permits and handles follow every way a subagent can move or end.
THEOREM SafeStep == SafeInv /\ [Next]_vars => SafeInv'
<1> SUFFICES ASSUME SafeInv, [Next]_vars PROVE SafeInv'
  OBVIOUS
<1> USE DEF SafeInv
<1>1. ASSUME NEW t \in Tasks, NEW b \in Batches \cup {NoBatch}, NEW s \in Sessions, Spawn(t, b, s)
      PROVE  SafeInv'
  <2>1. /\ pc[t] = "idle" /\ pc' = [pc EXCEPT ![t] = "queued"]
        /\ batchOf' = [batchOf EXCEPT ![t] = b] /\ sessionOf' = [sessionOf EXCEPT ![t] = s]
        /\ handles' = handles \cup {t}
        /\ UNCHANGED <<permits, snapshot, recorded, reported>>
        /\ raced' \subseteq Batches
    BY <1>1 DEF Spawn, TypeInv
  <2>2. /\ total' \in [Batches -> Nat] /\ completed' \in [Batches -> Nat]
        /\ registered' \in [Batches -> SUBSET Tasks] /\ finished' \in [Batches -> SUBSET Tasks]
        /\ announced' \subseteq Batches /\ CountersAgree'
    <3>1. CASE b = NoBatch
      BY <1>1, <3>1 DEF Spawn, storeVars, TypeInv, CountersAgree
    <3>2. CASE b # NoBatch
      BY <1>1, <3>2, RegisterSafe DEF Spawn
    <3> QED BY <3>1, <3>2
  <2>3. TypeInv'
    BY <2>1, <2>2 DEF TypeInv, PC
  <2>4. EnteredTasks' = EnteredTasks
    BY <2>1 DEF EnteredTasks, Entered, TypeInv
  <2>5. PermitsConserved'
    BY <2>1, <2>4 DEF PermitsConserved, EnteredTasks
  <2>6. LiveIsReachable'
    BY <2>1 DEF LiveIsReachable, Live, TypeInv
  <2> QED BY <2>2, <2>3, <2>5, <2>6
<1>2. ASSUME NEW t \in Tasks, EnterRunner(t)
      PROVE  SafeInv'
  <2>1. /\ pc[t] = "queued" /\ permits > 0 /\ permits' = permits - 1
        /\ pc' = [pc EXCEPT ![t] = "running"]
        /\ UNCHANGED <<storeVars, batchOf, sessionOf, handles, snapshot, recorded, reported, raced>>
    BY <1>2 DEF EnterRunner
  <2>2. TypeInv'
    BY <2>1 DEF TypeInv, PC, storeVars
  <2>3. CountersAgree'
    BY <2>1 DEF CountersAgree, storeVars
  <2>4. EnteredTasks' = EnteredTasks \cup {t} /\ t \notin EnteredTasks /\ EnteredTasks \in SUBSET Tasks
    BY <2>1 DEF EnteredTasks, Entered, TypeInv
  <2>5. Cardinality(EnteredTasks') = Cardinality(EnteredTasks) + 1 /\ Cardinality(EnteredTasks) \in Nat
    BY <2>4, FiniteTasks, FS_AddElement
  <2>6. PermitsConserved'
    BY <2>1, <2>5 DEF TypeInv, PermitsConserved, EnteredTasks
  <2>7. LiveIsReachable'
    BY <2>1 DEF LiveIsReachable, Live, TypeInv
  <2> QED BY <2>2, <2>3, <2>6, <2>7
<1>3. ASSUME NEW t \in Tasks, CompleteMember(t)
      PROVE  SafeInv'
  <2> DEFINE b == batchOf[t]
  <2>1. /\ pc[t] = "running" /\ b \in Batches
        /\ RecordCompletion(b, t)
        /\ UNCHANGED <<batchOf, sessionOf, raced>>
    BY <1>3 DEF CompleteMember, TypeInv
  <2>2. /\ total' \in [Batches -> Nat] /\ completed' \in [Batches -> Nat]
        /\ registered' \in [Batches -> SUBSET Tasks] /\ finished' \in [Batches -> SUBSET Tasks]
        /\ recorded' \subseteq Tasks /\ CountersAgree'
    BY <2>1, RecordSafe
  <2>3. CASE BeginAnnounce(t, finished'[b])
    <3>1. pc' = [pc EXCEPT ![t] = "announcing"] /\ UNCHANGED <<announced, handles, permits, reported>>
          /\ snapshot' \in [Tasks -> SUBSET Tasks]
      BY <2>1, <2>2, <2>3 DEF BeginAnnounce, TypeInv
    <3>2. pc' \in [Tasks -> PC] /\ PermitsConserved' /\ LiveIsReachable'
      BY <2>1, <3>1, MoveSafe DEF PC, Live, Entered
    <3> QED BY <2>1, <2>2, <3>1, <3>2 DEF TypeInv
  <2>4. CASE AnnounceAtOnce(t, b, finished'[b])
    <3>1. LeaveRunner({t}) /\ UNCHANGED snapshot /\ reported' \subseteq Tasks /\ announced' \subseteq Batches
      BY <2>1, <2>2, <2>4 DEF AnnounceAtOnce, TypeInv
    <3>2. /\ pc' \in [Tasks -> PC] /\ handles' \subseteq Tasks /\ permits' \in Nat
          /\ PermitsConserved' /\ LiveIsReachable'
      BY <3>1, LeaveRunnerSafe
    <3> QED BY <2>1, <2>2, <3>1, <3>2 DEF TypeInv
  <2>5. CASE LeaveRunner({t}) /\ UNCHANGED <<announced, snapshot, reported>>
    <3>1. /\ pc' \in [Tasks -> PC] /\ handles' \subseteq Tasks /\ permits' \in Nat
          /\ PermitsConserved' /\ LiveIsReachable'
      BY <2>5, LeaveRunnerSafe
    <3> QED BY <2>1, <2>2, <2>5, <3>1 DEF TypeInv
  <2> QED BY <1>3, <2>3, <2>4, <2>5 DEF CompleteMember
<1>4. ASSUME NEW t \in Tasks, CompleteSingle(t)
      PROVE  SafeInv'
  <2>1. /\ pc[t] = "running"
        /\ UNCHANGED <<total, completed, registered, finished, batchOf, sessionOf, recorded, raced>>
    BY <1>4 DEF CompleteSingle
  <2>2. CountersAgree'
    BY <2>1 DEF CountersAgree
  <2>3. CASE BeginAnnounce(t, {t})
    <3>1. pc' = [pc EXCEPT ![t] = "announcing"] /\ UNCHANGED <<announced, handles, permits, reported>>
          /\ snapshot' \in [Tasks -> SUBSET Tasks]
      BY <2>3 DEF BeginAnnounce, TypeInv
    <3>2. pc' \in [Tasks -> PC] /\ PermitsConserved' /\ LiveIsReachable'
      BY <2>1, <3>1, MoveSafe DEF PC, Live, Entered
    <3> QED BY <2>1, <2>2, <3>1, <3>2 DEF TypeInv
  <2>4. CASE AnnounceAtOnce(t, NoBatch, {t})
    <3>1. LeaveRunner({t}) /\ UNCHANGED snapshot /\ reported' \subseteq Tasks /\ announced' \subseteq Batches
      BY <2>4 DEF AnnounceAtOnce, TypeInv
    <3>2. /\ pc' \in [Tasks -> PC] /\ handles' \subseteq Tasks /\ permits' \in Nat
          /\ PermitsConserved' /\ LiveIsReachable'
      BY <3>1, LeaveRunnerSafe
    <3> QED BY <2>1, <2>2, <3>1, <3>2 DEF TypeInv
  <2> QED BY <1>4, <2>3, <2>4 DEF CompleteSingle
<1>5. ASSUME NEW t \in Tasks, Publish(t)
      PROVE  SafeInv'
  <2>1. /\ pc[t] = "announcing" /\ pc' = [pc EXCEPT ![t] = "published"]
        /\ reported' = reported \cup snapshot[t]
        /\ UNCHANGED <<storeVars, batchOf, sessionOf, handles, permits, snapshot, recorded, raced>>
    BY <1>5 DEF Publish
  <2>2. pc' \in [Tasks -> PC] /\ PermitsConserved' /\ LiveIsReachable'
    BY <2>1, MoveSafe DEF PC, Live, Entered
  <2>3. CountersAgree'
    BY <2>1 DEF CountersAgree, storeVars
  <2> QED BY <2>1, <2>2, <2>3 DEF TypeInv, storeVars
<1>6. ASSUME NEW t \in Tasks, MarkAnnounced(t)
      PROVE  SafeInv'
  <2>1. /\ LeaveRunner({t}) /\ announced' \subseteq Batches
        /\ UNCHANGED <<total, completed, registered, finished, batchOf, sessionOf,
                       snapshot, recorded, reported, raced>>
    BY <1>6 DEF MarkAnnounced, TypeInv
  <2>2. /\ pc' \in [Tasks -> PC] /\ handles' \subseteq Tasks /\ permits' \in Nat
        /\ PermitsConserved' /\ LiveIsReachable'
    BY <2>1, LeaveRunnerSafe
  <2>3. CountersAgree'
    BY <2>1 DEF CountersAgree
  <2> QED BY <2>1, <2>2, <2>3 DEF TypeInv
<1>7. ASSUME NEW T \in SUBSET Tasks, LeaveRunner(T),
             UNCHANGED <<storeVars, batchOf, sessionOf, snapshot, recorded, reported, raced>>
      PROVE  SafeInv'
  <2>1. /\ pc' \in [Tasks -> PC] /\ handles' \subseteq Tasks /\ permits' \in Nat
        /\ PermitsConserved' /\ LiveIsReachable'
    BY <1>7, LeaveRunnerSafe
  <2>2. CountersAgree'
    BY <1>7 DEF CountersAgree, storeVars
  <2> QED BY <1>7, <2>1, <2>2 DEF TypeInv, storeVars
<1>8. ASSUME NEW t \in Tasks, WriteResultFails(t)
      PROVE  SafeInv'
  BY <1>7, <1>8 DEF WriteResultFails
<1>9. ASSUME NEW s \in Sessions, CancelBySession(s)
      PROVE  SafeInv'
  <2> DEFINE victims == {t \in handles : sessionOf[t] = s /\ Live(t)}
  <2>1. /\ victims \in SUBSET Tasks /\ LeaveRunner(victims)
        /\ UNCHANGED <<storeVars, batchOf, sessionOf, snapshot, recorded, reported, raced>>
    BY <1>9 DEF CancelBySession, TypeInv
  <2> QED BY <1>7, <2>1
<1>10. CASE UNCHANGED vars
  BY <1>10 DEF vars, storeVars, TypeInv, CountersAgree, PermitsConserved, LiveIsReachable,
               Live, Entered
<1> QED
  BY <1>1, <1>2, <1>3, <1>4, <1>5, <1>6, <1>8, <1>9, <1>10 DEF Next, TaskStep

\* With the permits conserved, the semaphore's value is within its bounds.
LEMMA SafeImplies == SafeInv /\ busSuspends \in BOOLEAN => TypeOK
<1> SUFFICES ASSUME SafeInv, busSuspends \in BOOLEAN PROVE TypeOK
  OBVIOUS
<1>1. EnteredTasks \in SUBSET Tasks
  BY DEF EnteredTasks
<1>2. Cardinality(EnteredTasks) \in Nat
  BY <1>1, FiniteTasks
<1>3. permits \in 0..Cap
  BY <1>2, ConstantsAssumption DEF SafeInv, TypeInv, PermitsConserved, EnteredTasks
<1> QED BY <1>3 DEF SafeInv, TypeInv, TypeOK

\* SafeInv is an invariant of the program.
THEOREM Safety == Spec => []SafeInv
BY SafeInit, SafeStep, PTL DEF Spec

\* Which bus it is never changes.
LEMMA BusStays == [Next]_vars => busSuspends' = busSuspends
BY DEF Next, TaskStep, Spawn, EnterRunner, CompleteMember, CompleteSingle, Publish, MarkAnnounced,
       WriteResultFails, CancelBySession, vars

\* Which bus it is keeps its type.
LEMMA BusCorrect == Spec => [](busSuspends \in BOOLEAN)
<1>1. Init => busSuspends \in BOOLEAN
  BY DEF Init
<1>2. busSuspends \in BOOLEAN /\ [Next]_vars => (busSuspends \in BOOLEAN)'
  BY BusStays
<1> QED BY <1>1, <1>2, PTL DEF Spec

\* Every variable keeps its type; the semaphore stays within its bounds.
THEOREM TypeCorrect == Spec => []TypeOK
BY Safety, BusCorrect, SafeImplies, PTL

\* The counters that the announce decision compares are the sizes of the sets
\* they stand for.
THEOREM CountersCorrect == Spec => []CountersAgree
<1>1. SafeInv => CountersAgree
  BY DEF SafeInv
<1> QED BY <1>1, Safety, PTL

\* The concurrency cap is neither exceeded nor eroded, however tasks end.
THEOREM PermitsCorrect == Spec => []PermitsConserved
<1>1. SafeInv => PermitsConserved
  BY DEF SafeInv
<1> QED BY <1>1, Safety, PTL

\* A session's cancellation reaches every subagent that can still act.
THEOREM ReachableCorrect == Spec => []LiveIsReachable
<1>1. SafeInv => LiveIsReachable
  BY DEF SafeInv
<1> QED BY <1>1, Safety, PTL

-----------------------------------------------------------------------------
(* Over a bus that does not suspend *)

\* The roster of a batch is made of tasks spawned into it, has every one of
\* them that is not over, and loses a member only when the batch was announced.
RosterInv ==
  /\ \A t \in Tasks : pc[t] \in {"idle", "queued", "running", "ended"}
  /\ \A b \in Batches : \A t \in registered[b] : batchOf[t] = b /\ pc[t] # "idle"
  /\ \A b \in Batches : \A t \in finished[b] : t \in registered[b] /\ pc[t] = "ended"
  /\ \A t \in Tasks : Live(t) /\ batchOf[t] # NoBatch => t \in registered[batchOf[t]]
  /\ \A t \in recorded : pc[t] = "ended" /\ batchOf[t] \in Batches
  /\ \A t \in reported : pc[t] = "ended"

NoRaceInv == RosterInv /\ AnnouncedIsComplete /\ NothingDropped

\* What a completion finds in the store.
LEMMA BeforeRecord ==
  ASSUME ~busSuspends, TypeInv, NoRaceInv, NEW t \in Tasks, pc[t] = "running", batchOf[t] # NoBatch
  PROVE  /\ batchOf[t] \in Batches
         /\ t \in registered[batchOf[t]] /\ t \notin finished[batchOf[t]]
         /\ batchOf[t] \notin announced
BY DEF TypeInv, NoRaceInv, RosterInv, AnnouncedIsComplete, Live

\* should_announce is right: it holds exactly when the completion just
\* recorded was the last one the roster waited for.
LEMMA DecisionIsRight ==
  ASSUME ~busSuspends, SafeInv, NoRaceInv,
         NEW t \in Tasks, pc[t] = "running", batchOf[t] # NoBatch, RecordCompletion(batchOf[t], t)
  PROVE  ShouldAnnounce(batchOf[t]) <=> registered[batchOf[t]] \ finished[batchOf[t]] = {t}
<1> DEFINE b == batchOf[t]
<1>1. /\ b \in Batches /\ t \in registered[b] /\ t \notin finished[b] /\ b \notin announced
  BY BeforeRecord DEF SafeInv
<1>2. finished'[b] = finished[b] \cup {t} /\ completed'[b] = completed[b] + 1
  BY <1>1 DEF RecordCompletion, SafeInv, TypeInv
<1>3. finished'[b] \in SUBSET registered[b] /\ registered[b] \in SUBSET Tasks
  BY <1>1, <1>2 DEF NoRaceInv, RosterInv, SafeInv, TypeInv
<1>4. IsFiniteSet(registered[b]) /\ Cardinality(registered[b]) \in Nat
  BY <1>3, FiniteTasks
<1>5. Cardinality(finished'[b]) = completed'[b] /\ completed'[b] \in Nat
  BY <1>1, RecordSafe DEF SafeInv, CountersAgree
<1>6. total[b] = Cardinality(registered[b])
  BY <1>1 DEF SafeInv, CountersAgree
<1>7. /\ Cardinality(finished'[b]) <= Cardinality(registered[b])
      /\ Cardinality(registered[b]) = Cardinality(finished'[b]) => registered[b] = finished'[b]
  BY <1>3, <1>4, FS_Subset
<1>8. completed'[b] >= total[b] <=> registered[b] = finished'[b]
  BY <1>4, <1>5, <1>6, <1>7
<1>9. registered[b] = finished'[b] <=> registered[b] \ finished[b] = {t}
  BY <1>1, <1>2, <1>3
<1> QED BY <1>1, <1>8, <1>9 DEF ShouldAnnounce

\* At the start nothing is registered, announced or recorded.
THEOREM NoRaceInit == Init => NoRaceInv
BY DEF Init, NoRaceInv, RosterInv, AnnouncedIsComplete, NothingDropped, Live

\* How a batch member ends over such a bus: everything the batch owes is
\* reported at once, or somebody is still waited for.
LEMMA MemberEnds ==
  ASSUME ~busSuspends, SafeInv, NoRaceInv, NEW t \in Tasks, CompleteMember(t)
  PROVE  LET b == batchOf[t]
         IN /\ pc[t] = "running" /\ b \in Batches /\ b \notin announced
            /\ t \in registered[b] /\ t \notin finished[b]
            /\ pc' = [pc EXCEPT ![t] = "ended"]
            /\ finished' = [finished EXCEPT ![b] = @ \cup {t}]
            /\ recorded' = recorded \cup {t}
            /\ UNCHANGED <<registered, batchOf>>
            /\ \/ /\ registered[b] \ finished[b] = {t}
                  /\ reported' = reported \cup finished'[b]
                  /\ announced' = announced \cup {b}
               \/ /\ registered[b] \ finished[b] # {t}
                  /\ UNCHANGED <<reported, announced>>
<1> DEFINE b == batchOf[t]
<1>1. pc[t] = "running" /\ b # NoBatch /\ RecordCompletion(b, t) /\ batchOf' = batchOf
  BY DEF CompleteMember
<1>2. b \in Batches /\ t \in registered[b] /\ t \notin finished[b] /\ b \notin announced
  BY <1>1, BeforeRecord DEF SafeInv
<1>3. ShouldAnnounce(b) <=> registered[b] \ finished[b] = {t}
  BY <1>1, DecisionIsRight
<1>4. CASE ShouldAnnounce(b)
  <2>1. AnnounceAtOnce(t, b, finished'[b])
    BY <1>4 DEF CompleteMember, BeginAnnounce
  <2>2. /\ reported' = reported \cup finished'[b] /\ announced' = announced \cup {b}
        /\ LeaveRunner({t})
    BY <1>2, <2>1 DEF AnnounceAtOnce
  <2> QED BY <1>1, <1>2, <1>3, <1>4, <2>2 DEF LeaveRunner, RecordCompletion, SafeInv, TypeInv
<1>5. CASE ~ShouldAnnounce(b)
  <2>1. LeaveRunner({t}) /\ UNCHANGED <<reported, announced>>
    BY <1>5 DEF CompleteMember
  <2> QED BY <1>1, <1>2, <1>3, <1>5, <2>1 DEF LeaveRunner, RecordCompletion, SafeInv, TypeInv
<1> QED BY <1>4, <1>5

\* How a subagent outside any batch ends over such a bus.
LEMMA SingleEnds ==
  ASSUME ~busSuspends, TypeInv, NEW t \in Tasks, CompleteSingle(t)
  PROVE  /\ batchOf[t] = NoBatch
         /\ pc' = [pc EXCEPT ![t] = "ended"]
         /\ reported' = reported \cup {t}
         /\ UNCHANGED <<total, completed, registered, finished, announced, batchOf, recorded>>
<1>1. AnnounceAtOnce(t, NoBatch, {t})
  BY DEF CompleteSingle, BeginAnnounce
<1>2. pc' = [pc EXCEPT ![t] = "ended"]
  BY <1>1 DEF AnnounceAtOnce, LeaveRunner, TypeInv
<1>3. reported' = reported \cup {t} /\ announced' = announced
  BY <1>1, ConstantsAssumption DEF AnnounceAtOnce
<1> QED BY <1>2, <1>3 DEF CompleteSingle

\* What register does to the roster of its batch, and to no other.
LEMMA RegisterEffect ==
  ASSUME TypeInv, NEW b \in Batches, NEW t \in Tasks, Register(b, t)
  PROVE  /\ registered' = [registered EXCEPT ![b] =
                             IF b \in announced THEN {t} ELSE @ \cup {t}]
         /\ finished' = [finished EXCEPT ![b] = IF b \in announced THEN {} ELSE @]
         /\ announced' = announced \ {b}
BY DEF Register, TypeInv

\* Without a suspension between the decision to announce and the mark, no
\* step breaks the rosters or drops a completion.
THEOREM NoRaceStep == ~busSuspends /\ SafeInv /\ NoRaceInv /\ [Next]_vars => NoRaceInv'
<1> SUFFICES ASSUME ~busSuspends, ~busSuspends', SafeInv, NoRaceInv, [Next]_vars
             PROVE  NoRaceInv'
  BY BusStays
<1>0. TypeInv /\ RosterInv /\ AnnouncedIsComplete /\ NothingDropped
  BY DEF SafeInv, NoRaceInv
<1>1. ASSUME NEW t \in Tasks, NEW b \in Batches \cup {NoBatch}, NEW s \in Sessions, Spawn(t, b, s)
      PROVE  NoRaceInv'
  <2>1. /\ pc[t] = "idle" /\ pc' = [pc EXCEPT ![t] = "queued"]
        /\ batchOf' = [batchOf EXCEPT ![t] = b]
        /\ UNCHANGED <<recorded, reported>>
    BY <1>1 DEF Spawn
  <2>2. t \notin recorded /\ t \notin reported /\ \A c \in Batches : t \notin registered[c]
    BY <1>0, <2>1 DEF RosterInv
  <2>3. CASE b = NoBatch
    <3>1. UNCHANGED <<registered, finished, announced>>
      BY <1>1, <2>3 DEF Spawn, storeVars
    <3>2. RosterInv'
      BY <1>0, <2>1, <2>2, <2>3, <3>1, ConstantsAssumption DEF TypeInv, RosterInv, Live
    <3>3. AnnouncedIsComplete' /\ NothingDropped'
      BY <1>0, <2>1, <2>2, <3>1 DEF TypeInv, AnnouncedIsComplete, NothingDropped
    <3> QED BY <3>2, <3>3 DEF NoRaceInv
  <2>4. CASE b \in Batches
    <3>1. /\ registered' = [registered EXCEPT ![b] =
                              IF b \in announced THEN {t} ELSE @ \cup {t}]
          /\ finished' = [finished EXCEPT ![b] = IF b \in announced THEN {} ELSE @]
          /\ announced' = announced \ {b}
      BY <1>0, <1>1, <2>4, RegisterEffect, ConstantsAssumption DEF Spawn
    <3>2. RosterInv'
      <4>1. \A u \in Tasks : pc'[u] \in {"idle", "queued", "running", "ended"}
        BY <1>0, <2>1 DEF RosterInv, TypeInv
      <4>2. \A c \in Batches : \A u \in registered'[c] : batchOf'[u] = c /\ pc'[u] # "idle"
        BY <1>0, <2>1, <2>2, <2>4, <3>1 DEF RosterInv, TypeInv
      <4>3. \A c \in Batches : \A u \in finished'[c] : u \in registered'[c] /\ pc'[u] = "ended"
        BY <1>0, <2>1, <2>2, <2>4, <3>1 DEF RosterInv, TypeInv
      <4>4. ASSUME NEW u \in Tasks, Live(u)', batchOf'[u] # NoBatch
            PROVE  u \in registered'[batchOf'[u]]
        <5>1. CASE u = t
          BY <1>0, <2>1, <2>4, <3>1, <5>1 DEF TypeInv
        <5>2. CASE u # t
          <6>1. Live(u) /\ batchOf'[u] = batchOf[u] /\ batchOf[u] \in Batches
            BY <1>0, <2>1, <4>4, <5>2 DEF Live, TypeInv
          <6>2. u \in registered[batchOf[u]] /\ u \notin finished[batchOf[u]]
            BY <1>0, <6>1, ConstantsAssumption DEF RosterInv, Live
          <6>3. batchOf[u] \notin announced
            BY <1>0, <6>2 DEF AnnouncedIsComplete
          <6> QED BY <1>0, <3>1, <6>1, <6>2, <6>3 DEF TypeInv
        <5> QED BY <5>1, <5>2
      <4>5. \A u \in recorded' : pc'[u] = "ended" /\ batchOf'[u] \in Batches
        BY <1>0, <2>1, <2>2 DEF RosterInv, TypeInv
      <4>6. \A u \in reported' : pc'[u] = "ended"
        BY <1>0, <2>1, <2>2 DEF RosterInv, TypeInv
      <4> QED BY <4>1, <4>2, <4>3, <4>4, <4>5, <4>6 DEF RosterInv
    <3>3. AnnouncedIsComplete'
      BY <1>0, <2>4, <3>1 DEF TypeInv, AnnouncedIsComplete
    <3>4. NothingDropped'
      BY <1>0, <2>1, <2>2, <2>4, <3>1 DEF TypeInv, RosterInv, NothingDropped
    <3> QED BY <3>2, <3>3, <3>4 DEF NoRaceInv
  <2> QED BY <2>3, <2>4
<1>2. ASSUME NEW t \in Tasks, EnterRunner(t)
      PROVE  NoRaceInv'
  <2>1. /\ pc[t] = "queued" /\ pc' = [pc EXCEPT ![t] = "running"]
        /\ UNCHANGED <<registered, finished, announced, batchOf, recorded, reported>>
    BY <1>2 DEF EnterRunner, storeVars
  <2> QED BY <1>0, <2>1
          DEF TypeInv, NoRaceInv, RosterInv, AnnouncedIsComplete, NothingDropped, Live
<1>3. ASSUME NEW t \in Tasks, CompleteMember(t)
      PROVE  NoRaceInv'
  <2> DEFINE b == batchOf[t]
  <2>1. /\ pc[t] = "running" /\ b \in Batches /\ b \notin announced
        /\ t \in registered[b] /\ t \notin finished[b]
        /\ pc' = [pc EXCEPT ![t] = "ended"]
        /\ finished' = [finished EXCEPT ![b] = @ \cup {t}]
        /\ recorded' = recorded \cup {t}
        /\ UNCHANGED <<registered, batchOf>>
        /\ \/ /\ registered[b] \ finished[b] = {t}
              /\ reported' = reported \cup finished'[b]
              /\ announced' = announced \cup {b}
           \/ /\ registered[b] \ finished[b] # {t}
              /\ UNCHANGED <<reported, announced>>
    BY <1>3, MemberEnds
  <2>2. RosterInv'
    BY <1>0, <2>1 DEF TypeInv, RosterInv, Live
  <2>3. AnnouncedIsComplete'
    BY <1>0, <2>1 DEF TypeInv, AnnouncedIsComplete
  <2>4. NothingDropped'
    <3> SUFFICES ASSUME NEW u \in recorded', u \notin reported'
                 PROVE  /\ batchOf[u] \notin announced'
                        /\ u \in finished'[batchOf[u]]
                        /\ ~(registered[batchOf[u]] \subseteq finished'[batchOf[u]])
      BY <2>1 DEF NothingDropped
    <3>1. /\ batchOf[u] \in Batches /\ u \in finished'[batchOf[u]]
          /\ batchOf[u] \notin announced
          /\ u # t => ~(registered[batchOf[u]] \subseteq finished[batchOf[u]])
      BY <1>0, <2>1 DEF TypeInv, RosterInv, NothingDropped
    <3>2. CASE batchOf[u] = b
      <4>1. registered[b] \ finished[b] # {t} /\ UNCHANGED announced
        BY <2>1, <3>1, <3>2
      <4>2. ~(registered[b] \subseteq finished[b] \cup {t})
        BY <2>1, <4>1
      <4> QED BY <1>0, <2>1, <3>1, <3>2, <4>1, <4>2 DEF TypeInv
    <3>3. CASE batchOf[u] # b
      BY <1>0, <2>1, <3>1, <3>3 DEF TypeInv
    <3> QED BY <3>2, <3>3
  <2> QED BY <2>2, <2>3, <2>4 DEF NoRaceInv
<1>4. ASSUME NEW t \in Tasks, CompleteSingle(t)
      PROVE  NoRaceInv'
  <2>1. /\ batchOf[t] = NoBatch /\ pc' = [pc EXCEPT ![t] = "ended"]
        /\ reported' = reported \cup {t}
        /\ UNCHANGED <<registered, finished, announced, batchOf, recorded>>
    BY <1>0, <1>4, SingleEnds
  <2> QED BY <1>0, <2>1
          DEF TypeInv, NoRaceInv, RosterInv, AnnouncedIsComplete, NothingDropped, Live
<1>5. ASSUME NEW t \in Tasks, Publish(t) \/ MarkAnnounced(t)
      PROVE  NoRaceInv'
  BY <1>0, <1>5 DEF Publish, MarkAnnounced, RosterInv
<1>6. ASSUME NEW T \in SUBSET Tasks, LeaveRunner(T), \A u \in T : pc[u] # "idle",
             UNCHANGED <<storeVars, batchOf, recorded, reported>>
      PROVE  NoRaceInv'
  <2>1. /\ pc' = [u \in Tasks |-> IF u \in T THEN "ended" ELSE pc[u]]
        /\ UNCHANGED <<registered, finished, announced, batchOf, recorded, reported>>
    BY <1>6 DEF LeaveRunner, storeVars
  <2>2. RosterInv'
    BY <1>0, <1>6, <2>1 DEF TypeInv, RosterInv, Live
  <2> QED BY <1>0, <2>1, <2>2 DEF NoRaceInv, AnnouncedIsComplete, NothingDropped
<1>7. ASSUME NEW t \in Tasks, WriteResultFails(t)
      PROVE  NoRaceInv'
  BY <1>6, <1>7 DEF WriteResultFails
<1>8. ASSUME NEW s \in Sessions, CancelBySession(s)
      PROVE  NoRaceInv'
  <2> DEFINE victims == {t \in handles : sessionOf[t] = s /\ Live(t)}
  <2>1. /\ victims \in SUBSET Tasks /\ LeaveRunner(victims) /\ \A u \in victims : pc[u] # "idle"
        /\ UNCHANGED <<storeVars, batchOf, recorded, reported>>
    BY <1>0, <1>8 DEF CancelBySession, TypeInv, Live
  <2> QED BY <1>6, <2>1
<1>9. CASE UNCHANGED vars
  BY <1>0, <1>9 DEF vars, storeVars, NoRaceInv, RosterInv, AnnouncedIsComplete,
                    NothingDropped, Live
<1> QED
  BY <1>1, <1>2, <1>3, <1>4, <1>5, <1>7, <1>8, <1>9 DEF Next, TaskStep

\* NoRaceInv holds throughout over such a bus.
FastInv == ~busSuspends => NoRaceInv

\* Over a bus that does not suspend, every state has NoRaceInv.
THEOREM NoRace == Spec => []FastInv
<1>1. Init => FastInv
  BY NoRaceInit DEF FastInv
<1>2. SafeInv /\ FastInv /\ [Next]_vars => FastInv'
  BY NoRaceStep, BusStays DEF FastInv
<1> QED BY <1>1, <1>2, Safety, PTL DEF Spec

\* The store never takes a batch for announced while a member of it is running.
THEOREM AnnouncedCorrect == Spec => []AnnouncedIsComplete
<1>1. FastInv => AnnouncedIsComplete
  BY DEF FastInv, NoRaceInv, AnnouncedIsComplete
<1> QED BY <1>1, NoRace, PTL

\* No recorded completion is dropped, whatever batches are reused, cancelled
\* or joined late.
THEOREM NothingDroppedCorrect == Spec => []NothingDropped
<1>1. FastInv => NothingDropped
  BY DEF FastInv, NoRaceInv, NothingDropped
<1> QED BY <1>1, NoRace, PTL

-----------------------------------------------------------------------------
(* Refinement: manager, store and spawner implement the batch contract *)

\* An empty store is the initial state of the contract.
THEOREM ContractInit == Init => Contract!Init
BY DEF Init, Contract!Init

\* Every step is a step of the contract or leaves its variables alone.
THEOREM ContractStep ==
  ASSUME ~busSuspends, SafeInv, NoRaceInv, [Next]_vars
  PROVE  [Contract!Next]_Contract!vars
<1> SUFFICES ASSUME ~busSuspends' PROVE [Contract!Next]_Contract!vars
  BY BusStays
<1>0. TypeInv /\ RosterInv /\ AnnouncedIsComplete /\ NothingDropped
  BY DEF SafeInv, NoRaceInv
<1> DEFINE pending == [b \in Batches |-> IF busSuspends THEN {} ELSE registered[b] \ finished[b]]
           owed == [b \in Batches |-> IF busSuspends \/ b \in announced THEN {} ELSE finished[b]]
           told == {t \in reported : ~busSuspends /\ batchOf[t] # NoBatch}
<1>1. ASSUME NEW t \in Tasks, NEW b \in Batches \cup {NoBatch}, NEW s \in Sessions, Spawn(t, b, s)
      PROVE  [Contract!Next]_Contract!vars
  <2>1. /\ pc[t] = "idle"
        /\ batchOf' = [batchOf EXCEPT ![t] = b]
        /\ reported' = reported
    BY <1>1 DEF Spawn
  <2>2. t \notin reported /\ \A c \in Batches : t \notin registered[c] /\ t \notin finished[c]
    BY <1>0, <2>1 DEF RosterInv
  <2>3. told' = told /\ t \notin told
    BY <1>0, <2>1, <2>2 DEF TypeInv
  <2>4. CASE b = NoBatch
    <3>1. UNCHANGED <<registered, finished, announced>>
      BY <1>1, <2>4 DEF Spawn, storeVars
    <3> QED BY <2>3, <3>1 DEF Contract!vars
  <2>5. CASE b \in Batches
    <3>1. /\ registered' = [registered EXCEPT ![b] =
                              IF b \in announced THEN {t} ELSE @ \cup {t}]
          /\ finished' = [finished EXCEPT ![b] = IF b \in announced THEN {} ELSE @]
          /\ announced' = announced \ {b}
      BY <1>0, <1>1, <2>5, RegisterEffect, ConstantsAssumption DEF Spawn
    <3>2. pending' = [pending EXCEPT ![b] = @ \cup {t}]
      <4>1. ASSUME NEW c \in Batches, c # b
            PROVE  registered'[c] = registered[c] /\ finished'[c] = finished[c]
        BY <1>0, <3>1, <4>1 DEF TypeInv
      <4>2. CASE b \in announced
        <5>1. registered'[b] = {t} /\ finished'[b] = {} /\ registered[b] \ finished[b] = {}
          BY <1>0, <2>5, <3>1, <4>2 DEF TypeInv, AnnouncedIsComplete
        <5> QED BY <4>1, <5>1
      <4>3. CASE b \notin announced
        <5>1. registered'[b] = registered[b] \cup {t} /\ finished'[b] = finished[b]
          BY <1>0, <2>5, <3>1, <4>3 DEF TypeInv
        <5>2. registered'[b] \ finished'[b] = (registered[b] \ finished[b]) \cup {t}
          BY <2>2, <2>5, <5>1
        <5> QED BY <4>1, <5>2
      <4> QED BY <4>2, <4>3
    <3>3. owed' = owed
      BY <1>0, <2>5, <3>1 DEF TypeInv
    <3>4. \A c \in Batches : t \notin pending[c] \cup owed[c]
      BY <2>2
    <3>5. Contract!Join(b, t)
      BY <2>3, <3>2, <3>3, <3>4 DEF Contract!Join
    <3> QED BY <2>5, <3>5 DEF Contract!Next
  <2> QED BY <2>4, <2>5
<1>2. ASSUME NEW t \in Tasks, CompleteMember(t)
      PROVE  [Contract!Next]_Contract!vars
  <2> DEFINE b == batchOf[t]
  <2>1. /\ b \in Batches /\ b \notin announced
        /\ t \in registered[b] /\ t \notin finished[b]
        /\ finished' = [finished EXCEPT ![b] = @ \cup {t}]
        /\ UNCHANGED <<registered, batchOf>>
        /\ \/ /\ registered[b] \ finished[b] = {t}
              /\ reported' = reported \cup finished'[b]
              /\ announced' = announced \cup {b}
           \/ /\ registered[b] \ finished[b] # {t}
              /\ UNCHANGED <<reported, announced>>
    BY <1>2, MemberEnds
  <2>2. pending' = [pending EXCEPT ![b] = @ \ {t}] /\ t \in pending[b] /\ pending[b] = registered[b] \ finished[b]
    BY <1>0, <2>1 DEF TypeInv
  <2>3. owed[b] = finished[b]
    BY <2>1
  <2>4. CASE registered[b] \ finished[b] = {t}
    <3>1. reported' = reported \cup finished[b] \cup {t} /\ announced' = announced \cup {b}
      BY <1>0, <2>1, <2>4 DEF TypeInv
    <3>2. \A u \in finished[b] \cup {t} : batchOf[u] = b /\ b # NoBatch
      BY <1>0, <2>1, ConstantsAssumption DEF RosterInv
    <3>3. told' = told \cup owed[b] \cup {t}
      BY <2>1, <2>3, <3>1, <3>2
    <3>4. owed' = [owed EXCEPT ![b] = {}]
      BY <1>0, <2>1, <3>1 DEF TypeInv
    <3>5. pending' = [pending EXCEPT ![b] = {}]
      BY <2>2, <2>4
    <3>6. Contract!FinishLast(b, t)
      BY <2>2, <2>4, <3>3, <3>4, <3>5 DEF Contract!FinishLast
    <3> QED BY <2>1, <3>6 DEF Contract!Next
  <2>5. CASE registered[b] \ finished[b] # {t}
    <3>1. UNCHANGED <<reported, announced>>
      BY <2>1, <2>5
    <3>2. told' = told
      BY <2>1, <3>1
    <3>3. owed' = [owed EXCEPT ![b] = @ \cup {t}]
      BY <1>0, <2>1, <3>1 DEF TypeInv
    <3>4. Contract!FinishEarly(b, t)
      BY <2>2, <2>5, <3>2, <3>3 DEF Contract!FinishEarly
    <3> QED BY <2>1, <3>4 DEF Contract!Next
  <2> QED BY <2>4, <2>5
<1>3. ASSUME NEW t \in Tasks, CompleteSingle(t)
      PROVE  [Contract!Next]_Contract!vars
  <2>1. /\ batchOf[t] = NoBatch
        /\ reported' = reported \cup {t}
        /\ UNCHANGED <<registered, finished, announced, batchOf>>
    BY <1>0, <1>3, SingleEnds
  <2>2. told' = told
    BY <2>1
  <2> QED BY <2>1, <2>2 DEF Contract!vars
<1>4. ASSUME NEW t \in Tasks, Publish(t) \/ MarkAnnounced(t)
      PROVE  [Contract!Next]_Contract!vars
  BY <1>0, <1>4 DEF Publish, MarkAnnounced, RosterInv
<1>5. ASSUME UNCHANGED <<registered, finished, announced, batchOf, reported>>
      PROVE  [Contract!Next]_Contract!vars
  BY <1>5 DEF Contract!vars
<1>6. ASSUME NEW t \in Tasks, EnterRunner(t) \/ WriteResultFails(t)
      PROVE  [Contract!Next]_Contract!vars
  BY <1>5, <1>6 DEF EnterRunner, WriteResultFails, storeVars
<1>7. ASSUME NEW s \in Sessions, CancelBySession(s)
      PROVE  [Contract!Next]_Contract!vars
  BY <1>5, <1>7 DEF CancelBySession, storeVars
<1>8. CASE UNCHANGED vars
  BY <1>5, <1>8 DEF vars, storeVars
<1> QED
  BY <1>1, <1>2, <1>3, <1>4, <1>6, <1>7, <1>8 DEF Next, TaskStep

\* Over the other bus the contract's state stays empty.
LEMMA ContractRests ==
  ASSUME busSuspends, [Next]_vars
  PROVE  UNCHANGED Contract!vars
<1>1. busSuspends'
  BY BusStays
<1> QED BY <1>1 DEF Contract!vars

\* Over a bus that does not suspend, the code keeps the promise of a batch
\* store: every member that finishes is reported once nobody is waited for.
THEOREM ContractImplemented == Spec => ImplementsContract
<1>1. SafeInv /\ FastInv /\ [Next]_vars => [Contract!Next]_Contract!vars
  BY ContractStep, ContractRests DEF FastInv
<1> QED BY <1>1, ContractInit, Safety, NoRace, PTL DEF Spec, ImplementsContract, Contract!Spec

-----------------------------------------------------------------------------
(* Over any bus: what a batch owes unless it was raced *)

\* A batch that nobody joined while an announcement of it was suspended: its
\* roster has every member that is still to record, and an announcement under
\* way, or made, waits for nobody.
CalmInv(b) ==
  /\ finished[b] \subseteq registered[b]
  /\ \A t \in Members(b) :
        /\ pc[t] \in {"queued", "running"} => t \in registered[b] \ finished[b]
        /\ pc[t] \in {"announcing", "published"} => registered[b] \subseteq finished[b]
  /\ b \in announced => registered[b] \subseteq finished[b]

RecordedInv ==
  /\ \A t \in recorded : batchOf[t] \in Batches /\ pc[t] \in {"announcing", "published", "ended"}
  /\ \A b \in Batches : finished[b] \subseteq recorded

OwedInv == RecordedInv /\ (\A b \in Batches \ raced : CalmInv(b)) /\ DroppedOnlyIfRaced

\* At the start nothing is registered or recorded.
LEMMA OwedInit == Init => OwedInv
BY DEF Init, OwedInv, RecordedInv, CalmInv, DroppedOnlyIfRaced, Members

\* The comparison of counters is right for a batch that was not raced.
LEMMA CalmDecision ==
  ASSUME SafeInv, OwedInv, NEW t \in Tasks, pc[t] = "running", batchOf[t] # NoBatch,
         RecordCompletion(batchOf[t], t), batchOf[t] \notin raced
  PROVE  /\ batchOf[t] \notin announced
         /\ t \in registered[batchOf[t]] \ finished[batchOf[t]]
         /\ ShouldAnnounce(batchOf[t]) <=> registered[batchOf[t]] \subseteq finished'[batchOf[t]]
<1> DEFINE b == batchOf[t]
<1>1. b \in Batches /\ t \in Members(b)
  BY DEF SafeInv, TypeInv, Members
<1>2. CalmInv(b)
  BY <1>1 DEF OwedInv
<1>3. t \in registered[b] \ finished[b] /\ finished[b] \subseteq registered[b] /\ b \notin announced
  BY <1>1, <1>2 DEF CalmInv
<1>4. finished'[b] = finished[b] \cup {t}
  BY <1>1 DEF RecordCompletion, SafeInv, TypeInv
<1>5. finished'[b] \in SUBSET registered[b] /\ registered[b] \in SUBSET Tasks
  BY <1>1, <1>3, <1>4 DEF SafeInv, TypeInv
<1>6. IsFiniteSet(registered[b]) /\ Cardinality(registered[b]) \in Nat
  BY <1>5, FiniteTasks
<1>7. Cardinality(finished'[b]) = completed'[b] /\ completed'[b] \in Nat
  BY <1>1, RecordSafe DEF SafeInv, CountersAgree
<1>8. total[b] = Cardinality(registered[b])
  BY <1>1 DEF SafeInv, CountersAgree
<1>9. /\ Cardinality(finished'[b]) <= Cardinality(registered[b])
      /\ Cardinality(registered[b]) = Cardinality(finished'[b]) => registered[b] = finished'[b]
  BY <1>5, <1>6, FS_Subset
<1>10. completed'[b] >= total[b] <=> registered[b] = finished'[b]
  BY <1>6, <1>7, <1>8, <1>9
<1>11. registered[b] = finished'[b] <=> registered[b] \subseteq finished'[b]
  BY <1>5
<1> QED BY <1>3, <1>10, <1>11 DEF ShouldAnnounce

\* What a spawn keeps: it races the batches it would disturb.
LEMMA SpawnOwes ==
  ASSUME SafeInv, OwedInv, NEW t \in Tasks, NEW b \in Batches \cup {NoBatch}, NEW s \in Sessions,
         Spawn(t, b, s)
  PROVE  OwedInv'
<1> USE DEF SafeInv
<1>1. /\ pc[t] = "idle" /\ pc' = [pc EXCEPT ![t] = "queued"]
      /\ batchOf' = [batchOf EXCEPT ![t] = b]
      /\ raced' = IF \E u \in Members(b) : pc[u] \in {"announcing", "published"}
                  THEN raced \cup ({b} \cap Batches) ELSE raced
      /\ UNCHANGED <<recorded, reported, snapshot>>
  BY DEF Spawn
<1>2. t \notin recorded /\ \A c \in Batches : t \notin finished[c]
  BY <1>1 DEF OwedInv, RecordedInv
<1>3. \A u \in Tasks \ {t} : pc'[u] = pc[u] /\ batchOf'[u] = batchOf[u]
  BY <1>1 DEF TypeInv
<1>4. pc'[t] = "queued" /\ batchOf'[t] = b
  BY <1>1 DEF TypeInv
<1>5. \A c \in Batches : c # b =>
         /\ registered'[c] = registered[c] /\ finished'[c] = finished[c]
         /\ c \in announced' <=> c \in announced
  <2>1. CASE b = NoBatch
    BY <2>1, ConstantsAssumption DEF Spawn, storeVars
  <2>2. CASE b # NoBatch
    BY <2>2, RegisterEffect DEF Spawn, TypeInv
  <2> QED BY <2>1, <2>2
<1>6. b \in Batches =>
         /\ registered'[b] = IF b \in announced THEN {t} ELSE registered[b] \cup {t}
         /\ finished'[b] = IF b \in announced THEN {} ELSE finished[b]
         /\ b \notin announced'
  <2> SUFFICES ASSUME b \in Batches
               PROVE  /\ registered'[b] = IF b \in announced THEN {t} ELSE registered[b] \cup {t}
                      /\ finished'[b] = IF b \in announced THEN {} ELSE finished[b]
                      /\ b \notin announced'
    OBVIOUS
  <2>1. Register(b, t)
    BY ConstantsAssumption DEF Spawn
  <2>2. /\ registered' = [registered EXCEPT ![b] =
                            IF b \in announced THEN {t} ELSE registered[b] \cup {t}]
        /\ finished' = [finished EXCEPT ![b] = IF b \in announced THEN {} ELSE finished[b]]
        /\ announced' = announced \ {b}
    BY <2>1, RegisterEffect
  <2> QED BY <2>2 DEF TypeInv
<1>7. RecordedInv'
  <2>1. \A u \in recorded' : batchOf'[u] \in Batches /\ pc'[u] \in {"announcing", "published", "ended"}
    BY <1>1, <1>2, <1>3 DEF OwedInv, RecordedInv, TypeInv
  <2>2. \A c \in Batches : finished'[c] \subseteq recorded'
    BY <1>1, <1>5, <1>6 DEF OwedInv, RecordedInv
  <2> QED BY <2>1, <2>2 DEF RecordedInv
<1>8. ASSUME NEW c \in Batches, c \notin raced'
      PROVE  CalmInv(c)'
  <2>1. c \notin raced /\ CalmInv(c)
    BY <1>1, <1>8 DEF OwedInv
  <2>2. CASE c # b
    BY <1>3, <1>4, <1>5, <2>1, <2>2 DEF CalmInv, Members
  <2>3. CASE c = b
    <3>1. \A u \in Members(b) : pc[u] \notin {"announcing", "published"}
      BY <1>1, <1>8, <2>3
    <3>2. finished'[b] \subseteq registered'[b]
      BY <1>6, <2>1, <2>3 DEF CalmInv
    <3>3. ASSUME NEW u \in Tasks, batchOf'[u] = b, pc'[u] \in {"queued", "running"}
          PROVE  u \in registered'[b] \ finished'[b]
      <4>1. CASE u = t
        BY <1>2, <1>6, <2>3, <4>1
      <4>2. CASE u # t
        <5>1. u \in registered[b] \ finished[b] /\ b \notin announced
          BY <1>3, <2>1, <2>3, <3>3, <4>2 DEF CalmInv, Members
        <5> QED BY <1>6, <2>3, <5>1
      <4> QED BY <4>1, <4>2
    <3>4. \A u \in Members(b)' : pc'[u] \notin {"announcing", "published"}
      BY <1>3, <1>4, <3>1 DEF Members
    <3>5. b \notin announced'
      BY <1>6, <2>3
    <3> QED BY <2>3, <3>2, <3>3, <3>4, <3>5 DEF CalmInv, Members
  <2> QED BY <2>2, <2>3
<1>9. ASSUME NEW u \in recorded', u \notin reported', batchOf'[u] \notin raced'
      PROVE  AccountedFor(u)'
  <2>1. u \in recorded \ reported /\ u # t /\ u \in Tasks /\ batchOf[u] \in Batches
    BY <1>1, <1>2, <1>9 DEF OwedInv, RecordedInv, TypeInv
  <2>2. PICK c \in Batches : c = batchOf[u]
    BY <2>1
  <2>3. /\ u \in recorded \ reported /\ u # t /\ u \in Tasks
        /\ batchOf[u] = c /\ batchOf'[u] = c /\ c \notin raced
    BY <1>1, <1>3, <1>9, <2>1, <2>2
  <2>4. AccountedFor(u)
    BY <2>3 DEF OwedInv, DroppedOnlyIfRaced
  <2>5. CASE \E v \in Members(c) : pc[v] \in {"announcing", "ended"} /\ u \in snapshot[v]
    <3>1. PICK v \in Members(c) : pc[v] \in {"announcing", "ended"} /\ u \in snapshot[v]
      BY <2>5
    <3>2. v \in Tasks /\ v # t /\ batchOf[v] = c
      BY <1>1, <3>1 DEF Members
    <3>3. v \in Members(c)' /\ pc'[v] \in {"announcing", "ended"} /\ u \in snapshot'[v]
      BY <1>1, <1>3, <3>1, <3>2 DEF Members
    <3> QED BY <2>3, <3>3 DEF AccountedFor
  <2>6. CASE c \notin announced /\ u \in finished[c] /\ ~(registered[c] \subseteq finished[c])
    <3>1. c \notin announced' /\ u \in finished'[c] /\ ~(registered'[c] \subseteq finished'[c])
      <4>1. CASE c # b
        BY <1>5, <2>3, <2>6, <4>1
      <4>2. CASE c = b
        BY <1>6, <2>3, <2>6, <4>2
      <4> QED BY <4>1, <4>2
    <3> QED BY <2>3, <3>1 DEF AccountedFor
  <2> QED BY <2>3, <2>4, <2>5, <2>6 DEF AccountedFor
<1> QED BY <1>7, <1>8, <1>9 DEF OwedInv, DroppedOnlyIfRaced

\* What a completion keeps: the last one a calm batch waits for finds the
\* counters equal, and no other does.
LEMMA CompletionOwes ==
  ASSUME SafeInv, OwedInv, NEW t \in Tasks, CompleteMember(t)
  PROVE  OwedInv'
<1> USE DEF SafeInv
<1>1. PICK b \in Batches : b = batchOf[t]
  BY DEF CompleteMember, TypeInv
<1>2. /\ pc[t] = "running" /\ b # NoBatch /\ RecordCompletion(b, t)
      /\ UNCHANGED <<batchOf, raced>>
  BY <1>1 DEF CompleteMember
<1>3. /\ recorded' = recorded \cup {t} /\ registered' = registered
      /\ finished' = [finished EXCEPT ![b] = finished[b] \cup {t}]
  BY <1>2 DEF RecordCompletion
<1>4. finished'[b] = finished[b] \cup {t} /\ \A c \in Batches \ {b} : finished'[c] = finished[c]
  BY <1>3 DEF TypeInv
<1>5. \/ /\ ShouldAnnounce(b) /\ pc' = [pc EXCEPT ![t] = "announcing"]
         /\ snapshot' = [snapshot EXCEPT ![t] = finished'[b]]
         /\ UNCHANGED <<announced, reported>>
      \/ /\ ShouldAnnounce(b) /\ pc' = [pc EXCEPT ![t] = "ended"] /\ snapshot' = snapshot
         /\ reported' = reported \cup finished'[b] /\ announced' = announced \cup {b}
      \/ /\ ~ShouldAnnounce(b) /\ pc' = [pc EXCEPT ![t] = "ended"]
         /\ UNCHANGED <<announced, reported, snapshot>>
  BY <1>1 DEF CompleteMember, BeginAnnounce, AnnounceAtOnce, LeaveRunner, TypeInv
<1>6. /\ \A u \in Tasks \ {t} : pc'[u] = pc[u] /\ snapshot'[u] = snapshot[u]
      /\ pc'[t] \in {"announcing", "ended"}
      /\ pc'[t] = "announcing" => ShouldAnnounce(b)
  BY <1>5 DEF TypeInv
<1>7. b \notin raced =>
         /\ b \notin announced /\ t \in registered[b] \ finished[b]
         /\ ShouldAnnounce(b) <=> registered[b] \subseteq finished'[b]
  BY <1>1, <1>2, CalmDecision
<1>8. RecordedInv'
  <2>1. \A u \in recorded' : batchOf'[u] \in Batches /\ pc'[u] \in {"announcing", "published", "ended"}
    BY <1>1, <1>2, <1>3, <1>6 DEF OwedInv, RecordedInv, TypeInv
  <2>2. \A c \in Batches : finished'[c] \subseteq recorded'
    BY <1>3, <1>4 DEF OwedInv, RecordedInv
  <2> QED BY <2>1, <2>2 DEF RecordedInv
<1>9. ASSUME NEW c \in Batches, c \notin raced'
      PROVE  CalmInv(c)'
  <2>1. c \notin raced /\ CalmInv(c)
    BY <1>2, <1>9 DEF OwedInv
  <2>2. CASE c # b
    <3>1. t \notin Members(c) /\ Members(c)' = Members(c)
      BY <1>1, <1>2, <2>2 DEF Members
    <3>2. \A u \in Members(c) : pc'[u] = pc[u]
      BY <1>6, <3>1 DEF Members
    <3>3. c \in announced' => c \in announced
      BY <1>5, <2>2
    <3> QED BY <1>3, <1>4, <2>1, <2>2, <3>1, <3>2, <3>3 DEF CalmInv
  <2>3. CASE c = b
    <3>1. finished'[b] \subseteq registered'[b]
      BY <1>3, <1>4, <1>7, <2>1, <2>3 DEF CalmInv
    <3>2. ASSUME NEW u \in Tasks, batchOf'[u] = b
          PROVE  /\ pc'[u] \in {"queued", "running"} => u \in registered'[b] \ finished'[b]
                 /\ pc'[u] \in {"announcing", "published"} => registered'[b] \subseteq finished'[b]
      <4>1. CASE u = t
        BY <1>3, <1>6, <1>7, <2>1, <2>3, <4>1
      <4>2. CASE u # t
        BY <1>2, <1>3, <1>4, <1>6, <2>1, <2>3, <3>2, <4>2 DEF CalmInv, Members
      <4> QED BY <4>1, <4>2
    <3>3. b \in announced' => registered'[b] \subseteq finished'[b]
      BY <1>3, <1>5, <1>7, <2>1, <2>3
    <3> QED BY <2>3, <3>1, <3>2, <3>3 DEF CalmInv, Members
  <2> QED BY <2>2, <2>3
<1>10. ASSUME NEW u \in recorded', u \notin reported', batchOf'[u] \notin raced'
       PROVE  AccountedFor(u)'
  <2>1. u \notin reported /\ (u \in recorded \/ u = t) /\ u \in Tasks
    BY <1>3, <1>5, <1>10 DEF TypeInv
  <2>2. PICK c \in Batches : c = batchOf[u]
    BY <1>1, <2>1 DEF OwedInv, RecordedInv
  <2>3. batchOf[u] = c /\ batchOf'[u] = c /\ c \notin raced /\ Members(c)' = Members(c)
    BY <1>2, <1>10, <2>2 DEF Members
  <2>4. u # t => AccountedFor(u)
    BY <2>1, <2>3 DEF OwedInv, DroppedOnlyIfRaced
  <2>5. CASE \E v \in Members(c) : pc[v] \in {"announcing", "ended"} /\ u \in snapshot[v]
    <3>1. PICK v \in Members(c) : pc[v] \in {"announcing", "ended"} /\ u \in snapshot[v]
      BY <2>5
    <3>2. v \in Tasks /\ v # t
      BY <1>2, <3>1 DEF Members
    <3> QED BY <1>6, <2>3, <3>1, <3>2 DEF AccountedFor
  <2>6. CASE \/ u = t
             \/ c \notin announced /\ u \in finished[c] /\ ~(registered[c] \subseteq finished[c])
    <3>1. CASE c # b
      BY <1>1, <1>3, <1>4, <1>5, <2>3, <2>6, <3>1 DEF AccountedFor
    <3>2. CASE c = b
      <4>1. u \in finished'[b]
        BY <1>4, <2>6, <3>2
      <4>2. CASE ShouldAnnounce(b)
        <5>1. pc' = [pc EXCEPT ![t] = "announcing"] /\ snapshot' = [snapshot EXCEPT ![t] = finished'[b]]
          BY <1>5, <1>10, <4>1, <4>2
        <5>2. pc'[t] = "announcing" /\ snapshot'[t] = finished'[b]
          BY <5>1 DEF TypeInv
        <5>3. t \in Members(c)' /\ u \in snapshot'[t]
          BY <1>1, <2>3, <3>2, <4>1, <5>2 DEF Members
        <5>4. \E v \in Members(c)' : pc'[v] \in {"announcing", "ended"} /\ u \in snapshot'[v]
          BY <5>2, <5>3
        <5> QED BY <2>3, <5>4 DEF AccountedFor
      <4>3. CASE ~ShouldAnnounce(b)
        <5>1. b \notin announced'
          BY <1>5, <1>7, <2>3, <3>2, <4>3
        <5>2. ~(registered'[b] \subseteq finished'[b])
          BY <1>3, <1>7, <2>3, <3>2, <4>3
        <5> QED BY <2>3, <3>2, <4>1, <5>1, <5>2 DEF AccountedFor
      <4> QED BY <4>2, <4>3
    <3> QED BY <3>1, <3>2
  <2>7. \/ u = t
        \/ \E v \in Members(c) : pc[v] \in {"announcing", "ended"} /\ u \in snapshot[v]
        \/ c \notin announced /\ u \in finished[c] /\ ~(registered[c] \subseteq finished[c])
    BY <2>3, <2>4 DEF AccountedFor
  <2> QED BY <2>5, <2>6, <2>7
<1> QED BY <1>8, <1>9, <1>10 DEF OwedInv, DroppedOnlyIfRaced

\* What a step keeps that changes neither the rosters nor what is recorded and
\* lets tasks go on.
LEMMA MoveOwes ==
  ASSUME SafeInv, OwedInv, pc' \in [Tasks -> PC],
         UNCHANGED <<registered, finished, batchOf, recorded, raced>>,
         reported \subseteq reported',
         \A u \in Tasks :
            \/ pc'[u] = pc[u] /\ snapshot'[u] = snapshot[u]
            \/ pc[u] = "queued" /\ pc'[u] = "running"
            \/ pc[u] = "running" /\ pc'[u] \in {"announcing", "ended"} /\ batchOf[u] = NoBatch
            \/ pc[u] = "announcing" /\ pc'[u] = "published" /\ snapshot[u] \subseteq reported'
            \/ pc[u] # "idle" /\ pc'[u] = "ended" /\ snapshot'[u] = snapshot[u],
         \A b \in announced' \ announced :
            b \in Batches /\ \E u \in Members(b) : pc[u] = "published",
         announced \subseteq announced'
  PROVE  OwedInv'
<1> USE DEF SafeInv
<1>1. RecordedInv'
  BY DEF OwedInv, RecordedInv, TypeInv
<1>2. ASSUME NEW c \in Batches, c \notin raced
      PROVE  CalmInv(c)'
  <2>1. CalmInv(c) /\ Members(c)' = Members(c) /\ NoBatch \notin Batches
    BY <1>2, ConstantsAssumption DEF OwedInv, Members
  <2>2. c \in announced' => registered[c] \subseteq finished[c]
    BY <2>1 DEF CalmInv
  <2>3. ASSUME NEW u \in Members(c)
        PROVE  /\ pc'[u] \in {"queued", "running"} => u \in registered[c] \ finished[c]
               /\ pc'[u] \in {"announcing", "published"} => registered[c] \subseteq finished[c]
    <3>1. u \in Tasks /\ batchOf[u] = c
      BY DEF Members
    <3> QED BY <2>1, <3>1 DEF CalmInv
  <2> QED BY <2>1, <2>2, <2>3 DEF CalmInv
<1>3. ASSUME NEW u \in recorded, u \notin reported', batchOf[u] \notin raced
      PROVE  AccountedFor(u)'
  <2>1. PICK c \in Batches : c = batchOf[u]
    BY DEF OwedInv, RecordedInv
  <2>2. /\ u \notin reported /\ u \in Tasks /\ CalmInv(c) /\ Members(c)' = Members(c)
        /\ NoBatch \notin Batches
    BY <1>3, <2>1, ConstantsAssumption DEF OwedInv, TypeInv, Members
  <2>3. AccountedFor(u)
    BY <1>3, <2>2 DEF OwedInv, DroppedOnlyIfRaced
  <2>4. CASE \E v \in Members(c) : pc[v] \in {"announcing", "ended"} /\ u \in snapshot[v]
    <3>1. PICK v \in Members(c) : pc[v] \in {"announcing", "ended"} /\ u \in snapshot[v]
      BY <2>4
    <3>2. v \in Tasks
      BY <3>1 DEF Members
    <3>3. pc'[v] \in {"announcing", "ended"} /\ u \in snapshot'[v]
      BY <1>3, <3>1, <3>2
    <3> QED BY <2>1, <2>2, <3>1, <3>3 DEF AccountedFor
  <2>5. CASE c \notin announced /\ u \in finished[c] /\ ~(registered[c] \subseteq finished[c])
    <3>1. c \notin announced'
      BY <2>2, <2>5 DEF CalmInv
    <3> QED BY <2>1, <2>5, <3>1 DEF AccountedFor
  <2> QED BY <2>1, <2>3, <2>4, <2>5 DEF AccountedFor
<1> QED BY <1>1, <1>2, <1>3 DEF OwedInv, DroppedOnlyIfRaced

\* No step makes a batch that was not raced forget a completion.
LEMMA OwedStep == SafeInv /\ OwedInv /\ [Next]_vars => OwedInv'
<1> SUFFICES ASSUME SafeInv, OwedInv, [Next]_vars PROVE OwedInv'
  OBVIOUS
<1> USE DEF SafeInv
<1>1. pc' \in [Tasks -> PC]
  BY SafeStep DEF TypeInv
<1>2. ASSUME NEW t \in Tasks, EnterRunner(t) \/ Publish(t)
      PROVE  OwedInv'
  BY <1>1, <1>2, MoveOwes DEF EnterRunner, Publish, TypeInv, storeVars
<1>3. ASSUME NEW t \in Tasks, CompleteSingle(t)
      PROVE  OwedInv'
  <2>1. /\ batchOf[t] = NoBatch /\ pc[t] = "running"
        /\ UNCHANGED <<registered, finished, batchOf, recorded, raced>>
    BY <1>3 DEF CompleteSingle
  <2>2. /\ pc' = [pc EXCEPT ![t] = "announcing"] \/ pc' = [pc EXCEPT ![t] = "ended"]
        /\ \A u \in Tasks \ {t} : snapshot'[u] = snapshot[u]
        /\ announced' = announced /\ reported \subseteq reported'
    <3>1. CASE BeginAnnounce(t, {t})
      BY <3>1 DEF BeginAnnounce, TypeInv
    <3>2. CASE AnnounceAtOnce(t, NoBatch, {t})
      <4>1. pc' = [pc EXCEPT ![t] = "ended"]
        BY <3>2 DEF AnnounceAtOnce, LeaveRunner, TypeInv
      <4> QED BY <3>2, <4>1, ConstantsAssumption DEF AnnounceAtOnce
    <3> QED BY <1>3, <3>1, <3>2 DEF CompleteSingle
  <2>3. \A u \in Tasks :
            \/ pc'[u] = pc[u] /\ snapshot'[u] = snapshot[u]
            \/ pc[u] = "running" /\ pc'[u] \in {"announcing", "ended"} /\ batchOf[u] = NoBatch
    BY <2>1, <2>2 DEF TypeInv
  <2> QED BY <1>1, <2>1, <2>2, <2>3, MoveOwes
<1>4. ASSUME NEW t \in Tasks, MarkAnnounced(t)
      PROVE  OwedInv'
  <2>1. /\ pc[t] = "published" /\ announced' = announced \cup ({batchOf[t]} \cap Batches)
        /\ pc' = [u \in Tasks |-> IF u \in {t} THEN "ended" ELSE pc[u]]
        /\ UNCHANGED <<registered, finished, batchOf, recorded, raced, reported, snapshot>>
    BY <1>4 DEF MarkAnnounced, LeaveRunner
  <2>2. \A b \in announced' \ announced :
            b \in Batches /\ \E u \in Members(b) : pc[u] = "published"
    BY <2>1 DEF Members
  <2> QED BY <1>1, <2>1, <2>2, MoveOwes
<1>5. ASSUME NEW T \in SUBSET Tasks, LeaveRunner(T), \A u \in T : pc[u] # "idle",
             UNCHANGED <<storeVars, batchOf, snapshot, recorded, reported, raced>>
      PROVE  OwedInv'
  <2>1. pc' = [u \in Tasks |-> IF u \in T THEN "ended" ELSE pc[u]]
    BY <1>5 DEF LeaveRunner
  <2> QED BY <1>1, <1>5, <2>1, MoveOwes DEF storeVars
<1>6. ASSUME NEW t \in Tasks, WriteResultFails(t)
      PROVE  OwedInv'
  BY <1>5, <1>6 DEF WriteResultFails
<1>7. ASSUME NEW s \in Sessions, CancelBySession(s)
      PROVE  OwedInv'
  <2> DEFINE victims == {t \in handles : sessionOf[t] = s /\ Live(t)}
  <2>1. /\ victims \in SUBSET Tasks /\ LeaveRunner(victims) /\ \A u \in victims : pc[u] # "idle"
        /\ UNCHANGED <<storeVars, batchOf, snapshot, recorded, reported, raced>>
    BY <1>7 DEF CancelBySession, TypeInv, Live
  <2> QED BY <1>5, <2>1
<1>8. CASE UNCHANGED vars
  BY <1>1, <1>8, MoveOwes DEF vars, storeVars
<1> QED
  BY <1>2, <1>3, <1>4, <1>6, <1>7, <1>8, SpawnOwes, CompletionOwes DEF Next, TaskStep

\* Over any bus, a recorded completion that is not reported is still going to
\* be, or its announcement was cut short with its task, unless a member joined
\* the batch between a decision to announce and the mark.
THEOREM DroppedOnlyByRace == Spec => []DroppedOnlyIfRaced
<1>1. OwedInv => DroppedOnlyIfRaced
  BY DEF OwedInv
<1> QED BY <1>1, OwedInit, OwedStep, Safety, PTL DEF Spec
=============================================================================
