-------------------------- MODULE SubagentManager --------------------------
(***************************************************************************)
(* exoclaw-subagent: SubagentManager over the default InMemoryBatchStore   *)
(* and AsyncioSpawner, all in one asyncio event loop.                      *)
(*                                                                         *)
(* A step is what runs between two suspension points.  The store's lock is *)
(* never held across an await, so it is never contended: register is one   *)
(* step, and so is recording a completion together with the decision to    *)
(* announce.  Whether "await announce(...)" suspends depends on the bus:   *)
(* with an unbounded in-memory queue it does not (~busSuspends) and        *)
(* decide, publish and mark are one step; with a bus that awaits I/O they  *)
(* are three.                                                              *)
(***************************************************************************)
EXTENDS Integers, FiniteSets

CONSTANTS
  Tasks,        \* task ids, one per spawn (os.urandom, never repeated)
  Batches,      \* batch ids an agent may pass to spawn
  NoBatch,      \* batch=None
  Sessions,     \* parent session keys
  Cap           \* max_concurrent; a Cap >= |Tasks| stands for None

ASSUME ConstantsAssumption ==
  /\ IsFiniteSet(Tasks)
  /\ NoBatch \notin Batches
  /\ Cap \in Nat \ {0}

VARIABLES
  busSuspends,  \* whether publish_inbound suspends its caller: which bus it is
  \* InMemoryBatchStore
  total,        \* total[b], snap.total (0: no snapshot under b)
  completed,    \* completed[b], snap.completed
  registered,   \* _registered[b]
  finished,     \* _completed[b]
  announced,    \* _announced
  \* SubagentManager and AsyncioSpawner
  pc,           \* where each asyncio task is
  batchOf,      \* the batch argument each task was spawned with
  sessionOf,    \* _sessions, for tasks in handles
  handles,      \* domain of _handles
  permits,      \* value of the spawner's semaphore
  \* what an observer has seen
  snapshot,     \* members listed in the announcement a task is publishing
  recorded,     \* tasks whose completion the store was told of
  reported,     \* tasks that an announcement on the bus reports
  raced         \* batches that were joined while an announcement of theirs
                \* was suspended

storeVars == <<total, completed, registered, finished, announced>>
vars == <<busSuspends, storeVars, pc, batchOf, sessionOf, handles, permits,
          snapshot, recorded, reported, raced>>

PC == {"idle",        \* not spawned
       "queued",      \* asyncio task exists, runner not entered
       "running",     \* holds a permit, inside process_direct
       "announcing",  \* suspended in announce(), nothing published yet
       "published",   \* still suspended, the message is on the bus
       "ended"}       \* task.done()

Live(t) == pc[t] \notin {"idle", "ended"}
Entered(t) == pc[t] \in {"running", "announcing", "published"}
Members(b) == {t \in Tasks : batchOf[t] = b}

TypeOK ==
  /\ busSuspends \in BOOLEAN
  /\ total \in [Batches -> Nat]
  /\ completed \in [Batches -> Nat]
  /\ registered \in [Batches -> SUBSET Tasks]
  /\ finished \in [Batches -> SUBSET Tasks]
  /\ announced \subseteq Batches
  /\ pc \in [Tasks -> PC]
  /\ batchOf \in [Tasks -> Batches \cup {NoBatch}]
  /\ sessionOf \in [Tasks -> Sessions]
  /\ handles \subseteq Tasks
  /\ permits \in 0..Cap
  /\ snapshot \in [Tasks -> SUBSET Tasks]
  /\ recorded \subseteq Tasks
  /\ reported \subseteq Tasks
  /\ raced \subseteq Batches

Init ==
  /\ busSuspends \in BOOLEAN
  /\ total = [b \in Batches |-> 0]
  /\ completed = [b \in Batches |-> 0]
  /\ registered = [b \in Batches |-> {}]
  /\ finished = [b \in Batches |-> {}]
  /\ announced = {}
  /\ pc = [t \in Tasks |-> "idle"]
  /\ batchOf = [t \in Tasks |-> NoBatch]
  /\ sessionOf \in {[t \in Tasks |-> s] : s \in Sessions}
  /\ handles = {}
  /\ permits = Cap
  /\ snapshot = [t \in Tasks |-> {}]
  /\ recorded = {}
  /\ reported = {}
  /\ raced = {}

-----------------------------------------------------------------------------
(* InMemoryBatchStore *)

\* (Seeded bug: the reset of a reused batch id keeps the completed counter.)
RegisterKeepsCount(b, t) ==
  LET stale == b \in announced
      roster == IF stale THEN {} ELSE registered[b]
  IN /\ announced' = announced \ {b}
     /\ registered' = [registered EXCEPT ![b] = roster \cup {t}]
     /\ total' = [total EXCEPT ![b] = IF stale THEN 1 ELSE @ + 1]
     /\ finished' = [finished EXCEPT ![b] = IF stale THEN {} ELSE @]
     /\ UNCHANGED completed

\* (Seeded bug: a reused batch id is not reset.)
RegisterNoReset(b, t) ==
  /\ registered' = [registered EXCEPT ![b] = @ \cup {t}]
  /\ total' = [total EXCEPT ![b] = @ + 1]
  /\ UNCHANGED <<completed, finished, announced>>

\* register.  A batch id whose previous run was announced starts over.
Register(b, t) ==
  LET stale == b \in announced
      roster == IF stale THEN {} ELSE registered[b]
      size == IF stale THEN 0 ELSE total[b]
  IN /\ announced' = announced \ {b}
     /\ registered' = [registered EXCEPT ![b] = roster \cup {t}]
     /\ total' = [total EXCEPT ![b] = IF t \in roster THEN size ELSE size + 1]
     /\ completed' = [completed EXCEPT ![b] = IF stale THEN 0 ELSE @]
     /\ finished' = [finished EXCEPT ![b] = IF stale THEN {} ELSE @]

\* The locked half of record_completion_and_maybe_announce.
RecordCompletion(b, t) ==
  /\ finished' = [finished EXCEPT ![b] = @ \cup {t}]
  /\ completed' = [completed EXCEPT ![b] = IF t \in finished[b] THEN @ ELSE @ + 1]
  /\ recorded' = recorded \cup {t}
  /\ UNCHANGED <<total, registered>>

\* (Seeded bugs: off by one, in both directions.)
ShouldAnnounceLate(b) == completed'[b] > total[b] /\ b \notin announced
ShouldAnnounceEarly(b) == completed'[b] + 1 >= total[b] /\ b \notin announced

ShouldAnnounce(b) == completed'[b] >= total[b] /\ b \notin announced

-----------------------------------------------------------------------------
(* SubagentManager and AsyncioSpawner *)

\* (Seeded bugs: the permit of a task that raises is not returned, or one is
\* returned for a task that never held one.)
LeaveRunnerKeepsPermit(T) ==
  /\ pc' = [u \in Tasks |-> IF u \in T THEN "ended" ELSE pc[u]]
  /\ handles' = handles \ {u \in T : Entered(u)}
  /\ UNCHANGED permits
LeaveRunnerReturnsAll(T) ==
  /\ pc' = [u \in Tasks |-> IF u \in T THEN "ended" ELSE pc[u]]
  /\ handles' = handles \ {u \in T : Entered(u)}
  /\ permits' = permits + Cardinality(T)

\* The runner's "finally" and the semaphore's __aexit__ when the asyncio
\* task t, already inside the runner, comes to its end.
LeaveRunner(T) ==
  /\ pc' = [u \in Tasks |-> IF u \in T THEN "ended" ELSE pc[u]]
  /\ handles' = handles \ {u \in T : Entered(u)}
  /\ permits' = permits + Cardinality({u \in T : Entered(u)})

\* (Seeded bug: one handle for each session instead of each task.)
SpawnReplacesHandle(t, b, s) ==
  /\ pc[t] = "idle"
  /\ IF b = NoBatch THEN UNCHANGED storeVars ELSE Register(b, t)
  /\ pc' = [pc EXCEPT ![t] = "queued"]
  /\ batchOf' = [batchOf EXCEPT ![t] = b]
  /\ sessionOf' = [sessionOf EXCEPT ![t] = s]
  /\ handles' = {u \in handles : sessionOf[u] # s} \cup {t}
  /\ UNCHANGED <<busSuspends, permits, snapshot, recorded, reported, raced>>

\* spawn: register, create the asyncio task, remember its handle.  Nothing in
\* between suspends.
Spawn(t, b, s) ==
  /\ pc[t] = "idle"
  /\ IF b = NoBatch THEN UNCHANGED storeVars ELSE Register(b, t)
  /\ pc' = [pc EXCEPT ![t] = "queued"]
  /\ batchOf' = [batchOf EXCEPT ![t] = b]
  /\ sessionOf' = [sessionOf EXCEPT ![t] = s]
  /\ handles' = handles \cup {t}
  /\ raced' = IF \E u \in Members(b) : pc[u] \in {"announcing", "published"}
              THEN raced \cup ({b} \cap Batches) ELSE raced
  /\ UNCHANGED <<busSuspends, permits, snapshot, recorded, reported>>

\* _gated gets a permit and enters the runner.
EnterRunner(t) ==
  /\ pc[t] = "queued"
  /\ permits > 0
  /\ permits' = permits - 1
  /\ pc' = [pc EXCEPT ![t] = "running"]
  /\ UNCHANGED <<busSuspends, storeVars, batchOf, sessionOf, handles, snapshot, recorded,
                 reported, raced>>

\* (Seeded bug: the snapshot is taken before the completion is recorded.)
BeginAnnounceWithoutSelf(t, list) ==
  /\ busSuspends
  /\ pc' = [pc EXCEPT ![t] = "announcing"]
  /\ snapshot' = [snapshot EXCEPT ![t] = list \ {t}]
  /\ UNCHANGED <<announced, handles, permits, reported>>

\* Suspend in announce() with this list of members to report...
BeginAnnounce(t, list) ==
  /\ busSuspends
  /\ pc' = [pc EXCEPT ![t] = "announcing"]
  /\ snapshot' = [snapshot EXCEPT ![t] = list]
  /\ UNCHANGED <<announced, handles, permits, reported>>

\* ...or publish, mark and return without suspending.
AnnounceAtOnce(t, b, list) ==
  /\ ~busSuspends
  /\ reported' = reported \cup list
  /\ announced' = announced \cup ({b} \cap Batches)
  /\ LeaveRunner({t})
  /\ UNCHANGED snapshot

\* process_direct returned (or raised an Exception, which becomes the
\* result), the result file is written; a member of a batch records itself.
CompleteMember(t) ==
  LET b == batchOf[t]
  IN /\ pc[t] = "running"
     /\ b # NoBatch
     /\ RecordCompletion(b, t)
     /\ IF ShouldAnnounce(b)
        THEN \/ BeginAnnounce(t, finished'[b])
             \/ AnnounceAtOnce(t, b, finished'[b])
        ELSE /\ LeaveRunner({t})
             /\ UNCHANGED <<announced, snapshot, reported>>
     /\ UNCHANGED <<busSuspends, batchOf, sessionOf, raced>>

\* The same for a subagent outside any batch: _announce_single.
CompleteSingle(t) ==
  /\ pc[t] = "running"
  /\ batchOf[t] = NoBatch
  /\ \/ BeginAnnounce(t, {t})
     \/ AnnounceAtOnce(t, NoBatch, {t})
  /\ UNCHANGED <<busSuspends, total, completed, registered, finished, batchOf, sessionOf,
                 recorded, raced>>

\* The suspended publish puts the message on the bus.
Publish(t) ==
  /\ pc[t] = "announcing"
  /\ pc' = [pc EXCEPT ![t] = "published"]
  /\ reported' = reported \cup snapshot[t]
  /\ UNCHANGED <<busSuspends, storeVars, batchOf, sessionOf, handles, permits, snapshot,
                 recorded, raced>>

\* announce() returns: the batch is marked announced and the task ends.
MarkAnnounced(t) ==
  /\ pc[t] = "published"
  /\ announced' = announced \cup ({batchOf[t]} \cap Batches)
  /\ LeaveRunner({t})
  /\ UNCHANGED <<busSuspends, total, completed, registered, finished, batchOf, sessionOf,
                 snapshot, recorded, reported, raced>>

\* _write_result raises (OSError): it is called outside the inner try, so the
\* task dies and its completion is never recorded.
WriteResultFails(t) ==
  /\ pc[t] = "running"
  /\ LeaveRunner({t})
  /\ UNCHANGED <<busSuspends, storeVars, batchOf, sessionOf, snapshot, recorded, reported,
                 raced>>

\* cancel_by_session: CancelledError is no Exception, so _run records
\* nothing; a task cancelled while still queued never enters the runner and
\* leaves its handle behind.
CancelBySession(s) ==
  LET victims == {t \in handles : sessionOf[t] = s /\ Live(t)}
  IN /\ victims # {}
     /\ LeaveRunner(victims)
     /\ UNCHANGED <<busSuspends, storeVars, batchOf, sessionOf, snapshot, recorded, reported,
                 raced>>

TaskStep(t) == EnterRunner(t) \/ CompleteMember(t) \/ CompleteSingle(t)
                 \/ Publish(t) \/ MarkAnnounced(t)

Next ==
  \/ \E t \in Tasks :
        \/ \E b \in Batches \cup {NoBatch}, s \in Sessions : Spawn(t, b, s)
        \/ TaskStep(t)
        \/ WriteResultFails(t)
  \/ \E s \in Sessions : CancelBySession(s)

Spec == Init /\ [][Next]_vars

\* The event loop runs every ready task and every subagent's work ends.
FairSpec == Spec /\ \A t \in Tasks : WF_vars(TaskStep(t))

-----------------------------------------------------------------------------
(* Properties *)

\* The counters agree with the sets they count, whatever registrations,
\* completions and resets happened (total is what the announce decision
\* compares against, so a drift would announce early or never).
CountersAgree ==
  \A b \in Batches : /\ total[b] = Cardinality(registered[b])
                     /\ completed[b] = Cardinality(finished[b])

\* Every task that can still do something is in _handles, so that
\* cancel_by_session and get_running_count see it.
LiveIsReachable == \A t \in Tasks : Live(t) => t \in handles

\* No permit is lost or invented by any way a task can end.
PermitsConserved == permits + Cardinality({t \in Tasks : Entered(t)}) = Cap

\* Over a bus that does not suspend, a batch marked announced has nobody left
\* to wait for.
AnnouncedIsComplete ==
  ~busSuspends => \A b \in announced : registered[b] \subseteq finished[b]

\* batch_store.py, "never a silent drop": a recorded completion is reported,
\* or it is in the roster the next announcement will list and that roster
\* still has a member to wait for.  (Over a bus that suspends, see
\* DroppedOnlyIfRaced.)
NothingDropped ==
  ~busSuspends => \A t \in recorded \ reported :
     LET b == batchOf[t]
     IN /\ b \notin announced
        /\ t \in finished[b]
        /\ ~(registered[b] \subseteq finished[b])

\* t's completion is still going to be reported: an announcement that lists it
\* is under way (or was cut short with its task), or the roster that holds it
\* still has a member to wait for.
AccountedFor(t) ==
  LET b == batchOf[t]
  IN \/ \E u \in Members(b) : pc[u] \in {"announcing", "ended"} /\ t \in snapshot[u]
     \/ /\ b \notin announced
        /\ t \in finished[b]
        /\ ~(registered[b] \subseteq finished[b])

\* The only window in which a completion can be dropped: a member that joins
\* while an announcement of its batch is suspended between the decision to
\* announce and the mark.
DroppedOnlyIfRaced ==
  \A t \in recorded \ reported : batchOf[t] \in raced \/ AccountedFor(t)

\* A member that will never record its completion, since it ended without doing
\* so, or that was cut while the announcement it had to make was suspended.
Dead(t) ==
  /\ pc[t] = "ended"
  /\ t \notin recorded \cup reported \/ ~(snapshot[t] \subseteq reported)

\* manager.py: "A single announcement fires when all subagents in the batch
\* complete".  A spawned subagent is reported, unless itself or another
\* member of its batch was cancelled (perhaps with an announcement half made) or
\* failed to write its result, or one joined its batch while an announcement was
\* suspended.
EventuallyReported ==
  \A t \in Tasks :
     (pc[t] = "queued") ~> (t \in reported
                             \/ Dead(t) \/ batchOf[t] \in raced
                             \/ \E u \in Members(batchOf[t]) : Dead(u) /\ batchOf[t] # NoBatch)

\* spawn_tool.py tells the model that results "are held until all subagents
\* with the same batch ID complete": when a member has recorded its completion
\* and was not cut itself, somebody still runs who will have it announced.
NoStrandedBatch ==
  \A t \in recorded \ reported : Dead(t) \/ \E u \in Members(batchOf[t]) : Live(u)

\* The contract's state; over a bus that suspends, one in which nothing happens.
Contract == INSTANCE BatchContract WITH
  pending <- [b \in Batches |-> IF busSuspends THEN {} ELSE registered[b] \ finished[b]],
  owed <- [b \in Batches |-> IF busSuspends \/ b \in announced THEN {} ELSE finished[b]],
  told <- {t \in reported : ~busSuspends /\ batchOf[t] # NoBatch}

\* Over a bus that does not suspend, manager, store and spawner together
\* implement the batch contract.
ImplementsContract == Contract!Spec
=============================================================================
