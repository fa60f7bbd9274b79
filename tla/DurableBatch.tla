--------------------------- MODULE DurableBatch ---------------------------
(***************************************************************************)
(* exoclaw-executor-dbos: one batch of subagents under DBOSExecutor,       *)
(* DBOSSubagentSpawner and DBOSBatchStore, in a process that may crash.    *)
(*                                                                         *)
(* A parent turn workflow makes spawn calls one after the other.  A call   *)
(* runs the tool in a DBOS step (its body mints a task id, registers it in *)
(* the batch directory and queues an intent in memory), the step commits   *)
(* to the journal, and only then the executor starts the child workflow.   *)
(* A child runs its agent loop, then the record step, the announcement and *)
(* the mark step.  A step body and its commit are two steps here: a crash  *)
(* between them makes recovery run the body again, a crash after the       *)
(* commit makes recovery skip it and use the journaled result.             *)
(* Files and the DBOS database survive a crash, everything else is lost.   *)
(***************************************************************************)
EXTENDS Integers, FiniteSets

CONSTANTS
  Ids,         \* task ids os.urandom may return
  Calls,       \* number of spawn calls the parent turn makes
  MaxCrashes   \* bound on crashes

ASSUME ConstantsAssumption ==
  /\ IsFiniteSet(Ids)
  /\ Calls \in Nat \ {0}
  /\ MaxCrashes \in Nat

NoId == "none"
ASSUME NoIdAssumption == NoId \notin Ids

VARIABLES
  \* <workspace>/batches/<batch>/
  files,       \* ids with a <task>.json, "registered" or not
  complete,    \* those of them whose status is no longer "registered"
  sentinel,    \* the .announced file exists
  \* DBOS database
  committed,   \* committed[k]: task id in the journaled result of call k
  child,       \* status and journal of each child workflow
  snap,        \* members in the snapshot of a child's record step
  wants,       \* should_announce of a child's record step
  \* process memory
  pc,          \* where the parent is within its current call
  current,     \* the task id of the call under way (and its intent)
  vol,         \* a child's progress past its journal
  handles,     \* SubagentManager._handles
  \* what an observer has seen
  minted,      \* task ids used so far
  told,        \* task ids reported by a published announcement
  raced,       \* a member joined while an announcement was in flight
  crashes

durable == <<files, complete, sentinel, committed, child, snap, wants>>
volatile == <<pc, current, vol, handles>>
vars == <<durable, volatile, minted, told, raced, crashes>>

Child == {"none",       \* no such workflow
          "pending",    \* started, record step not journaled
          "decided",    \* record step journaled with should_announce
          "done", "cancelled"}

Vol == {"journal",      \* nothing done past the journal
        "wrote",        \* record step body ran
        "published",    \* announce() returned
        "marked"}       \* mark step body ran

TypeOK ==
  /\ files \subseteq Ids
  /\ complete \subseteq files
  /\ sentinel \in BOOLEAN
  /\ committed \in [1..Calls -> Ids \cup {NoId}]
  /\ child \in [Ids -> Child]
  /\ snap \in [Ids -> SUBSET Ids]
  /\ wants \in [Ids -> BOOLEAN]
  /\ pc \in {"between", "body", "commit"}
  /\ current \in Ids \cup {NoId}
  /\ vol \in [Ids -> Vol]
  /\ handles \subseteq Ids
  /\ minted \subseteq Ids
  /\ told \subseteq Ids
  /\ raced \in BOOLEAN
  /\ crashes \in 0..MaxCrashes

Init ==
  /\ files = {} /\ complete = {} /\ sentinel = FALSE
  /\ committed = [k \in 1..Calls |-> NoId]
  /\ child = [i \in Ids |-> "none"]
  /\ snap = [i \in Ids |-> {}]
  /\ wants = [i \in Ids |-> FALSE]
  /\ pc = "between" /\ current = NoId
  /\ vol = [i \in Ids |-> "journal"]
  /\ handles = {}
  /\ minted = {} /\ told = {} /\ raced = FALSE /\ crashes = 0

-----------------------------------------------------------------------------
(* The parent turn *)

\* Calls whose tool step is journaled; replay goes on after them.
Replayed == {k \in 1..Calls : committed[k] # NoId}

\* The announcement of i is decided and its mark step not journaled.
InFlight(i) == child[i] = "decided" \/ (vol[i] = "wrote" /\ wants[i])

\* (Seeded bug: only the sentinel is removed from a reused directory.)
RegisterKeepsStatus(i) ==
  /\ files' = (IF sentinel THEN {} ELSE files) \cup {i}
  /\ sentinel' = FALSE
  /\ UNCHANGED complete

\* _register_step.  A directory that holds the sentinel is removed first.
Register(i) ==
  /\ files' = (IF sentinel THEN {} ELSE files) \cup {i}
  /\ complete' = IF sentinel THEN {} ELSE complete
  /\ sentinel' = FALSE

\* The body of _tool_step for the next spawn call: mint, register, queue the
\* intent, keep the handle.
SpawnBody(i) ==
  /\ pc = "between"
  /\ Replayed # 1..Calls
  /\ i \notin minted
  /\ Register(i)
  /\ minted' = minted \cup {i}
  /\ current' = i
  /\ handles' = handles \cup {i}
  /\ raced' = (raced \/ \E j \in Ids : InFlight(j))
  /\ pc' = "body"
  /\ UNCHANGED <<committed, child, snap, wants, vol, told, crashes>>

\* DBOS journals the result of the tool step.
SpawnCommit ==
  /\ pc = "body"
  /\ LET k == CHOOSE k \in 1..Calls \ Replayed : 1..(k - 1) \subseteq Replayed
     IN committed' = [committed EXCEPT ![k] = current]
  /\ pc' = "commit"
  /\ UNCHANGED <<files, complete, sentinel, child, snap, wants, current, vol,
                 handles, minted, told, raced, crashes>>

\* (Seeded bug: no second dispatch while a member of the batch is running.)
DispatchUnlessBusy ==
  /\ pc = "commit"
  /\ child' = [child EXCEPT ![current] =
                 IF \E j \in Ids : child[j] = "pending" THEN @ ELSE "pending"]
  /\ pc' = "between"
  /\ current' = NoId
  /\ UNCHANGED <<files, complete, sentinel, committed, snap, wants, vol,
                 handles, minted, told, raced, crashes>>

\* execute_tool: back in workflow context, _dispatch_intents.  A workflow id
\* that exists already is not started again.
Dispatch ==
  /\ pc = "commit"
  /\ child' = [child EXCEPT ![current] = IF @ = "none" THEN "pending" ELSE @]
  /\ pc' = "between"
  /\ current' = NoId
  /\ UNCHANGED <<files, complete, sentinel, committed, snap, wants, vol,
                 handles, minted, told, raced, crashes>>

-----------------------------------------------------------------------------
(* A child workflow *)

\* (Seeded bug: a repeated completion is taken for a duplicate.)
RecordBodyOnce(i) ==
  /\ child[i] = "pending"
  /\ vol[i] = "journal"
  /\ files' = files \cup {i}
  /\ complete' = complete \cup {i}
  /\ snap' = [snap EXCEPT ![i] = complete']
  /\ wants' = [wants EXCEPT ![i] = files' \subseteq complete' /\ ~sentinel /\ i \notin complete]
  /\ vol' = [vol EXCEPT ![i] = "wrote"]
  /\ UNCHANGED <<sentinel, committed, child, pc, current, handles,
                 minted, told, raced, crashes>>

\* (Seeded bug: the directory is scanned before the own file is written.)
RecordBodyScansFirst(i) ==
  /\ child[i] = "pending"
  /\ vol[i] = "journal"
  /\ files' = files \cup {i}
  /\ complete' = complete \cup {i}
  /\ snap' = [snap EXCEPT ![i] = complete']
  /\ wants' = [wants EXCEPT ![i] = files \subseteq complete /\ ~sentinel]
  /\ vol' = [vol EXCEPT ![i] = "wrote"]
  /\ UNCHANGED <<sentinel, committed, child, pc, current, handles,
                 minted, told, raced, crashes>>

\* Body of _record_completion_and_decide_step (after the agent loop and
\* _write_result).
RecordBody(i) ==
  /\ child[i] = "pending"
  /\ vol[i] = "journal"
  /\ files' = files \cup {i}
  /\ complete' = complete \cup {i}
  /\ snap' = [snap EXCEPT ![i] = complete']
  /\ wants' = [wants EXCEPT ![i] = files' \subseteq complete' /\ ~sentinel]
  /\ vol' = [vol EXCEPT ![i] = "wrote"]
  /\ UNCHANGED <<sentinel, committed, child, pc, current, handles,
                 minted, told, raced, crashes>>

\* The workflow of i returns: _runner's finally drops the handle.
Return(i) ==
  /\ child' = [child EXCEPT ![i] = "done"]
  /\ vol' = [vol EXCEPT ![i] = "journal"]
  /\ handles' = handles \ {i}

\* The record step is journaled; without an announcement to make, that was
\* the last step.
RecordCommit(i) ==
  /\ child[i] = "pending"
  /\ vol[i] = "wrote"
  /\ IF wants[i]
     THEN /\ child' = [child EXCEPT ![i] = "decided"]
          /\ vol' = [vol EXCEPT ![i] = "journal"]
          /\ UNCHANGED handles
     ELSE Return(i)
  /\ UNCHANGED <<files, complete, sentinel, committed, snap, wants, pc, current,
                 minted, told, raced, crashes>>

\* await announce(snapshot): the system message is durably enqueued.
Publish(i) ==
  /\ child[i] = "decided"
  /\ vol[i] = "journal"
  /\ told' = told \cup snap[i]
  /\ vol' = [vol EXCEPT ![i] = "published"]
  /\ UNCHANGED <<durable, pc, current, handles, minted, raced, crashes>>

\* (Seeded bug: announced is marked before the publish.)
MarkBodyFirst(i) ==
  /\ child[i] = "decided"
  /\ vol[i] = "journal"
  /\ sentinel' = TRUE
  /\ vol' = [vol EXCEPT ![i] = "marked"]
  /\ UNCHANGED <<files, complete, committed, child, snap, wants, pc, current,
                 handles, minted, told, raced, crashes>>

\* Body of _mark_announced_step.
MarkBody(i) ==
  /\ child[i] = "decided"
  /\ vol[i] = "published"
  /\ sentinel' = TRUE
  /\ vol' = [vol EXCEPT ![i] = "marked"]
  /\ UNCHANGED <<files, complete, committed, child, snap, wants, pc, current,
                 handles, minted, told, raced, crashes>>

\* The mark step is journaled and the child returns.
MarkCommit(i) ==
  /\ child[i] = "decided"
  /\ vol[i] = "marked"
  /\ Return(i)
  /\ UNCHANGED <<files, complete, sentinel, committed, snap, wants, pc, current,
                 minted, told, raced, crashes>>

\* cancel_by_session reaches a started child through its handle.
Cancel(i) ==
  /\ i \in handles
  /\ child[i] \in {"pending", "decided"}
  /\ child' = [child EXCEPT ![i] = "cancelled"]
  /\ handles' = handles \ {i}
  /\ vol' = [vol EXCEPT ![i] = "journal"]
  /\ UNCHANGED <<files, complete, sentinel, committed, snap, wants, pc, current,
                 minted, told, raced, crashes>>

-----------------------------------------------------------------------------
\* The process dies and comes back; DBOS re-enters every pending workflow,
\* which replays its journal.  An intent that was not dispatched is gone.
Crash ==
  /\ crashes < MaxCrashes
  /\ crashes' = crashes + 1
  /\ pc' = "between"
  /\ current' = NoId
  /\ vol' = [i \in Ids |-> "journal"]
  /\ handles' = {}
  /\ UNCHANGED <<durable, minted, told, raced>>

ParentStep == (\E i \in Ids : SpawnBody(i)) \/ SpawnCommit \/ Dispatch
ChildStep(i) == RecordBody(i) \/ RecordCommit(i) \/ Publish(i) \/ MarkBody(i) \/ MarkCommit(i)

Next == ParentStep \/ (\E i \in Ids : ChildStep(i) \/ Cancel(i)) \/ Crash

Spec == Init /\ [][Next]_vars

\* DBOS resumes every pending workflow and every agent loop ends.
FairSpec == Spec /\ WF_vars(ParentStep) /\ \A i \in Ids : WF_vars(ChildStep(i))

-----------------------------------------------------------------------------
(* Properties *)

\* The sentinel suppresses every later announcement of the batch, so it may
\* only exist once everything it covers was published: "publish FIRST, mark
\* announced AFTER".  (Joins during an announcement are the exception.)
SentinelMeansTold == sentinel /\ ~raced => complete \subseteq told

\* A child that returned without its completion being published yet.
Unreported(i) == child[i] = "done" /\ i \notin told

\* It still will be: by a child that decided to announce a snapshot with i in
\* it (or was cancelled having decided so), or by a decision that is yet to
\* be made, because the roster that holds i waits for a member or because a
\* record step whose body ran was not journaled and will decide again.
StillOwed(i) ==
  \/ \E j \in Ids : child[j] \in {"decided", "cancelled"} /\ i \in snap[j]
  \/ /\ i \in complete
     /\ ~sentinel
     /\ files # complete \/ \E j \in complete : child[j] \in {"pending", "cancelled"}

\* batch_store.py, "preferable to a silent drop": across crashes and replays
\* no recorded completion is dropped, unless a member joined while an
\* announcement was in flight.
DroppedOnlyIfRaced == \A i \in Ids : Unreported(i) => raced \/ StillOwed(i)

\* A member that the batch waits for and that no workflow will ever complete.
Ghost(i) == i \in minted /\ child[i] = "none" /\ i # current

\* Each crash leaves at most one such member behind.
OneGhostPerCrash == Cardinality({i \in Ids : Ghost(i)}) <= crashes

\* A completed child is reported in the end, unless a member was cancelled,
\* is a ghost, or joined while an announcement was in flight.
EventuallyTold ==
  \A i \in Ids :
     (child[i] = "pending") ~> \/ i \in told
                               \/ raced
                               \/ \E j \in Ids : Ghost(j) \/ child[j] = "cancelled"

\* executor.py on _dispatch_intents: "retry safety is automatic".  A spawn
\* call whose result the parent has ("Subagent started") has its workflow.
CommittedIsStarted ==
  \A k \in Replayed : child[committed[k]] # "none" \/ current = committed[k]
=============================================================================
