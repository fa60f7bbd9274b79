----------------------------- MODULE Heartbeat -----------------------------
(***************************************************************************)
(* The heartbeat service of exoclaw-channel-heartbeat.  A beat reads       *)
(* HEARTBEAT.md, asks the model whether there is something to do, and has  *)
(* the agent do it.  A loop makes beats one by one; trigger_now makes one  *)
(* beside it; start and stop come at any time, a stop within a beat too.   *)
(***************************************************************************)
EXTENDS Naturals

CONSTANTS
  MaxLoops,       \* times the heartbeat is started
  MaxTriggers,    \* calls of trigger_now
  MaxServed       \* executions that end

ASSUME HeartbeatAssumption == MaxLoops \in Nat /\ MaxTriggers \in Nat /\ MaxServed \in Nat

VARIABLES
  beatOn,      \* _running
  beatTask,    \* _task: the loop it holds, 0 for none
  beats,       \* a loop or a trigger, and how many were served when it read
  tasksFile,   \* HEARTBEAT.md is there and has something in it
  served,      \* executions that ended
  again        \* a beat executed what another had served since it read

beatVars == <<beatOn, beatTask, beats, tasksFile, served, again>>

Loops == 1..MaxLoops
Triggers == MaxLoops + 1..MaxLoops + MaxTriggers
NoBeat == [at |-> "none", cut |-> FALSE, read |-> 0]

\* (Seeded bug: a second start makes a second loop.)
StartsAlways == TRUE

MayStart == ~beatOn

\* start.
StartBeat ==
  \E i \in Loops :
    /\ beats[i].at = "none" /\ MayStart
    /\ beatOn' = TRUE /\ beatTask' = i
    /\ beats' = [beats EXCEPT ![i].at = "asleep"]
    /\ UNCHANGED <<tasksFile, served, again>>

\* stop: the task is cancelled and sees that when it next runs.
StopBeat ==
  /\ beatOn /\ beatOn' = FALSE /\ beatTask' = 0
  /\ beats' = IF beatTask = 0 THEN beats ELSE [beats EXCEPT ![beatTask].cut = TRUE]
  /\ UNCHANGED <<tasksFile, served, again>>

Beat(i, at) == beats' = [beats EXCEPT ![i].at = at]
\* A loop goes back to sleep, a trigger is over.
Rests(i) == IF i \in Loops THEN "asleep" ELSE "over"

\* _run_loop: a cancelled loop ends wherever it is.
LoopBreaks(i) ==
  /\ beats[i].cut /\ beats[i].at # "over" /\ Beat(i, "over")
  /\ UNCHANGED <<beatOn, beatTask, tasksFile, served, again>>

\* The interval is over, or trigger_now is called: the file is read.
ReadsTasks(i) ==
  /\ ~beats[i].cut /\ beats[i].at = IF i \in Loops THEN "asleep" ELSE "none"
  /\ tasksFile
  /\ beats' = [beats EXCEPT ![i].at = "deciding", ![i].read = served]
  /\ UNCHANGED <<beatOn, beatTask, tasksFile, served, again>>

\* _decide says skip, or raises.
Skips(i) ==
  /\ ~beats[i].cut /\ beats[i].at = "deciding" /\ Beat(i, Rests(i))
  /\ UNCHANGED <<beatOn, beatTask, tasksFile, served, again>>

\* _decide says run.
Executes(i) ==
  /\ ~beats[i].cut /\ beats[i].at = "deciding" /\ Beat(i, "executing")
  /\ again' = (again \/ beats[i].read # served)
  /\ UNCHANGED <<beatOn, beatTask, tasksFile, served>>

\* The agent is done, and may have taken its task out of the file.
Served(i) ==
  /\ ~beats[i].cut /\ beats[i].at = "executing" /\ served < MaxServed
  /\ Beat(i, Rests(i)) /\ served' = served + 1 /\ tasksFile' \in BOOLEAN
  /\ UNCHANGED <<beatOn, beatTask, again>>

\* on_execute raises: a tick logs it, trigger_now's caller gets it.
ExecuteFails(i) ==
  /\ ~beats[i].cut /\ beats[i].at = "executing" /\ Beat(i, Rests(i))
  /\ UNCHANGED <<beatOn, beatTask, tasksFile, served, again>>

EditTasks ==
  /\ ~tasksFile /\ tasksFile' = TRUE
  /\ UNCHANGED <<beatOn, beatTask, beats, served, again>>

BeatStep(i) ==
  LoopBreaks(i) \/ ReadsTasks(i) \/ Skips(i) \/ Executes(i) \/ Served(i) \/ ExecuteFails(i)

HeartbeatInit ==
  /\ beatOn = FALSE /\ beatTask = 0 /\ beats = [i \in Loops \cup Triggers |-> NoBeat]
  /\ tasksFile \in BOOLEAN /\ served = 0 /\ again = FALSE

HeartbeatNext ==
  StartBeat \/ StopBeat \/ EditTasks \/ \E i \in Loops \cup Triggers : BeatStep(i)

HeartbeatSpec == HeartbeatInit /\ [][HeartbeatNext]_beatVars

-----------------------------------------------------------------------------
(* Properties *)

\* However often the heartbeat is started and stopped, one loop at most goes on,
\* and it is the one that stop would cancel.
OneLoop ==
  \A i \in Loops : beats[i].at \notin {"none", "over"} /\ ~beats[i].cut => beatOn /\ beatTask = i

\* What a beat found in the file is executed twice only if trigger_now made a
\* beat beside the loop's: trigger_now knows nothing of the tick under way.
AgainOnlyIfTriggered == again => \E t \in Triggers : beats[t].at # "none"

HeartbeatRight == OneLoop /\ AgainOnlyIfTriggered
=============================================================================
