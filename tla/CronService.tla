---------------------------- MODULE CronService ----------------------------
(***************************************************************************)
(* exoclaw-tools-cron: CronService (service.py), one event loop, a JSON    *)
(* file, a timer task, a heartbeat task and API calls from agent turns.    *)
(*                                                                         *)
(* Time is abstract: a job's next run is "none", in the "future" or "due", *)
(* and the clock makes future runs due.  A step is what runs between two   *)
(* suspension points; the only ones with state at stake are the awaits of  *)
(* on_job, in the timer's tick, in a heartbeat flush and in run_job.  The  *)
(* API calls are synchronous, take no lock, and may come from anywhere:    *)
(* also from the turn that a job's own on_job is running.  A schedule      *)
(* keeps its kind: an update_job that changes it is left out.              *)
(***************************************************************************)
EXTENDS Integers, FiniteSets

CONSTANTS
  Jobs,          \* job ids, each added once
  OneShots,      \* jobs whose schedule.kind is "at" (the others recur)
  DeleteAfter,   \* jobs with delete_after_run
  NoJob,
  Lazy,          \* bound: the jobs that may be given wake_mode "next-heartbeat"
  MaxAdded,      \* bound on how many of them are added
  MaxDeferred,   \* bound on how often one job is queued in _deferred
  MaxStops,      \* bound on stops and crashes
  MaxEdits,      \* bound on edits of cron.json by somebody else
  MaxTrouble     \* bound on both together

ASSUME ConstantsAssumption ==
  /\ IsFiniteSet(Jobs)
  /\ OneShots \subseteq Jobs /\ DeleteAfter \subseteq Jobs /\ Lazy \subseteq Jobs
  /\ NoJob \notin Jobs
  /\ MaxAdded \in Nat /\ MaxDeferred \in Nat \ {0} /\ MaxStops \in Nat /\ MaxEdits \in Nat
  /\ MaxTrouble \in Nat

VARIABLES
  mem,        \* _store.jobs
  disk,       \* cron.json
  apart,      \* "mtime": the file's is not _last_mtime, so that every load reads it;
              \* "payload": a job's in memory is not the file's; "no": neither
  added,      \* ids given out by add_job
  past,       \* one-shots whose at_ms has passed
  running,    \* _running
  alarm,      \* _timer_task: "off", asleep ("set"), sleep over ("rung")
  covers,     \* the jobs the sleeping timer was armed for
  tick,       \* _on_timer under way: jobs still to do, job whose on_job is
              \* awaited, whether its job objects left the store (a reload)
  flush,      \* flush_deferred under way: batch still to do, current job, whether
              \* the host awaits it or the heartbeat task
  deferred,   \* how often each job is in _deferred
  manual,     \* run_job under way: its job, whether that object is stale
  reentered,  \* the on_job that _lock's holder awaits waits for _lock itself
  stops, edits,
  \* what an observer has seen, since the job's run last fell due or the API
  \* gave it another one:
  started,    \* jobs whose on_job the timer started
  cut,        \* jobs whose on_job was cancelled half way
  lost,       \* jobs whose run left no trace: a reload took it back, or it went
              \* to an object that a reload had replaced
  repeats,    \* jobs whose on_job the timer started more than once
  ghosts,     \* jobs the timer started while removed or disabled in its own store
  owed        \* one-shots that fell due in a running service and have neither
              \* run since nor been rescheduled, disabled or removed

files == <<disk, apart>>
Reloads == apart = "mtime"
exec == <<tick, flush, deferred, manual, reentered>>
seen == <<repeats, ghosts>>
observed == <<started, cut, lost, seen, owed>>
vars == <<mem, files, added, past, running, alarm, covers, exec, stops, edits, observed>>

Wakes == {"now", "next-heartbeat"}
WakesOf(j) == IF j \in Lazy THEN Wakes ELSE {"now"}
Absent == [here |-> FALSE, enabled |-> FALSE, next |-> "none", wake |-> "now"]
JobState ==
  {Absent} \cup [here : {TRUE}, enabled : BOOLEAN, next : {"none", "future", "due"}, wake : Wakes]
Counts == [Jobs -> 0..MaxDeferred]
NoTick == [todo |-> {}, cur |-> NoJob, stale |-> FALSE]
NoFlush == [todo |-> [j \in Jobs |-> 0], cur |-> NoJob, host |-> FALSE]
NoManual == [cur |-> NoJob, stale |-> FALSE]

TypeOK ==
  /\ mem \in [Jobs -> JobState] /\ disk \in [Jobs -> JobState]
  /\ apart \in {"no", "payload", "mtime"} /\ running \in BOOLEAN /\ reentered \in BOOLEAN
  /\ added \subseteq Jobs /\ past \subseteq OneShots
  /\ alarm \in {"off", "set", "rung"} /\ covers \subseteq Jobs
  /\ tick \in [todo : SUBSET Jobs, cur : Jobs \cup {NoJob}, stale : BOOLEAN]
  /\ flush \in [todo : Counts, cur : Jobs \cup {NoJob}, host : BOOLEAN]
  /\ deferred \in Counts
  /\ manual \in [cur : Jobs \cup {NoJob}, stale : BOOLEAN]
  /\ stops \in 0..MaxStops /\ edits \in 0..MaxEdits
  /\ started \subseteq Jobs /\ cut \subseteq Jobs /\ lost \subseteq Jobs /\ repeats \subseteq Jobs
  /\ ghosts \subseteq Jobs /\ owed \subseteq OneShots

Init ==
  /\ mem = [j \in Jobs |-> Absent] /\ disk = mem
  /\ apart = "no" /\ added = {} /\ past = {} /\ running = FALSE
  /\ alarm = "off" /\ covers = {}
  /\ tick = NoTick /\ flush = NoFlush /\ manual = NoManual
  /\ deferred = [j \in Jobs |-> 0] /\ reentered = FALSE
  /\ stops = 0 /\ edits = 0
  /\ started = {} /\ cut = {} /\ lost = {} /\ repeats = {} /\ ghosts = {} /\ owed = {}

-----------------------------------------------------------------------------
(* The store, the schedule and the timer *)

\* _lock is held by a tick or a flush that awaits on_job.
Locked == tick.cur # NoJob \/ flush.cur # NoJob

\* _load_store: memory, or the file when its mtime is not the one of the last
\* save.  Only a save notes the mtime: until the next one every load reads the file.
Loaded == IF Reloads THEN disk ELSE mem

\* After a reload, a job object held by an await in progress is no longer the
\* store's...
Stale(obj) == obj.cur # NoJob /\ (obj.stale \/ Reloads)

\* (Seeded bug: the mtime of the file just written is not noted.)
SaveUnnoted == disk' = mem' /\ apart' = "mtime"

\* _save_store, which notes the mtime
Save == disk' = mem' /\ apart' = "no"

\* _compute_next_run; a one-shot whose time has passed has no next run.
NextRun(j) == IF j \in OneShots \cap past THEN "none" ELSE "future"

Scheduled(store) == {j \in Jobs : store[j].here /\ store[j].enabled /\ store[j].next # "none"}
Due(store) == {j \in Scheduled(store) : store[j].next = "due"}
Coalesced(store) == {j \in Jobs : store[j].wake = "next-heartbeat"}

\* ...and so are the schedules of jobs that ran and have not been saved.
TakenBack == IF Reloads THEN started \cap Due(disk) ELSE {}

\* (Seeded bug: a wake time that has passed is no reason for a timer.)
ArmFutureOnly(store, up) ==
  /\ covers' = Scheduled(store) \ Due(store)
  /\ alarm' = IF ~up \/ Scheduled(store) \ Due(store) = {} THEN "off" ELSE "set"

\* _arm_timer, without its cancel: a new task asleep until the next wake, if
\* the service runs (up).
Arm(store, up) ==
  /\ covers' = Scheduled(store)
  /\ alarm' = IF ~up \/ Scheduled(store) = {} THEN "off"
              ELSE IF Due(store) # {} THEN "rung" ELSE "set"

\* (Seeded bug: no cancel at all.)
CancelNothing(J) == cut' = cut \ J /\ UNCHANGED <<tick, reentered>>

\* The cancel in _arm_timer, called from outside the tick: whatever
\* _timer_task is doing ends with CancelledError, on_job included.  (The runs
\* of the jobs in J are of the past.)
CancelTick(J) ==
  /\ tick' = NoTick
  /\ cut' = (cut \cup ({tick.cur} \cap Jobs)) \ J
  /\ reentered' = (reentered /\ tick.cur = NoJob)

\* _defer_job on the jobs in S: queued, and their schedule advanced.
Postponed(store, S) ==
  [j \in Jobs |-> IF j \notin S THEN store[j]
                  ELSE IF j \in OneShots
                  THEN [store[j] EXCEPT !.enabled = FALSE, !.next = "none"]
                  ELSE [store[j] EXCEPT !.next = NextRun(j)]]

\* (Seeded bug: the schedule of a recurring job is not advanced.)
ExecutedInPlace(store, j) ==
  IF ~store[j].here \/ j \notin OneShots THEN store
  ELSE IF j \in DeleteAfter THEN [store EXCEPT ![j] = Absent]
  ELSE [store EXCEPT ![j].enabled = FALSE, ![j].next = "none"]

\* (Seeded bug: a job removed while it ran is put back.)
ExecutedUpserting(store, j) ==
  IF j \notin OneShots THEN [store EXCEPT ![j].next = NextRun(j)]
  ELSE IF j \in DeleteAfter THEN [store EXCEPT ![j] = Absent]
  ELSE [store EXCEPT ![j].enabled = FALSE, ![j].next = "none"]

\* The end of _execute_job for a job object that is in the store...
Executed(store, j) ==
  IF ~store[j].here THEN store
  ELSE IF j \notin OneShots THEN [store EXCEPT ![j].next = NextRun(j)]
  ELSE IF j \in DeleteAfter THEN [store EXCEPT ![j] = Absent]
  ELSE [store EXCEPT ![j].enabled = FALSE, ![j].next = "none"]

\* ...and for one that a reload has replaced: only the removal, which goes by
\* id, reaches the store.
ExecutedStale(store, j) ==
  IF j \in OneShots \cap DeleteAfter THEN [store EXCEPT ![j] = Absent] ELSE store

Ran(obj) == IF obj.stale THEN ExecutedStale(mem, obj.cur) ELSE Executed(mem, obj.cur)
Untraced(obj) == IF obj.stale THEN {obj.cur} ELSE {}

-----------------------------------------------------------------------------
(* The timer's tick: _on_timer, in pieces between its awaits of on_job *)

\* (Seeded bug: the schedule is advanced, the job not queued.)
DeferWithoutQueue(store, S, stale) ==
  /\ \A d \in S : deferred[d] < MaxDeferred
  /\ mem' = IF stale THEN store ELSE Postponed(store, S)
  /\ UNCHANGED deferred

\* The coalesced jobs S of the due list are deferred.
Defer(store, S, stale) ==
  /\ \A d \in S : deferred[d] < MaxDeferred
  /\ mem' = IF stale THEN store ELSE Postponed(store, S)
  /\ deferred' = [d \in Jobs |-> IF d \in S THEN deferred[d] + 1 ELSE deferred[d]]

\* Go on with the due jobs todo, the store as given: some coalesced jobs are
\* deferred on the way to the next on_job, which is then awaited...
TickAwaits(store, todo, stale) ==
  \E S \in SUBSET (todo \cap Coalesced(store)), j \in todo \ Coalesced(store) :
     /\ Defer(store, S, stale)
     /\ tick' = [todo |-> todo \ (S \cup {j}), cur |-> j, stale |-> stale]
     /\ started' = started \cup {j}
     /\ repeats' = repeats \cup ({j} \cap started)
     /\ ghosts' = ghosts \cup (IF stale \/ (store[j].here /\ store[j].enabled) THEN {} ELSE {j})
     /\ UNCHANGED <<alarm, covers, disk, apart>>

\* ...or the rest of them is deferred, the store saved and the timer armed.
TickEnds(store, todo, stale) ==
  /\ todo \subseteq Coalesced(store)
  /\ Defer(store, todo, stale)
  /\ tick' = NoTick
  /\ Save
  /\ Arm(mem', TRUE)
  /\ UNCHANGED <<started, seen>>

\* The sleep is over and the lock is free.
TickBegins ==
  /\ alarm = "rung" /\ running /\ ~Locked
  /\ \/ TickAwaits(Loaded, Due(Loaded), FALSE)
     \/ TickEnds(Loaded, Due(Loaded), FALSE)
  /\ manual' = [manual EXCEPT !.stale = Stale(manual)]
  /\ lost' = lost \cup TakenBack
  /\ UNCHANGED <<added, past, running, flush, reentered, stops, edits, cut, owed>>

\* on_job of the current job returns or raises an Exception.
TickContinues ==
  /\ tick.cur # NoJob /\ ~reentered
  /\ \/ TickAwaits(Ran(tick), tick.todo, tick.stale)
     \/ TickEnds(Ran(tick), tick.todo, tick.stale)
  /\ owed' = owed \ {tick.cur}
  /\ lost' = lost \cup Untraced(tick)
  /\ UNCHANGED <<added, past, running, flush, manual, reentered, stops, edits, cut>>

-----------------------------------------------------------------------------
(* flush_deferred, called by the heartbeat or by the host *)

FlushBegins ==
  /\ ~Locked
  /\ \E j \in Jobs, host \in BOOLEAN :
        /\ deferred[j] > 0 /\ (running \/ host)
        /\ flush' = [todo |-> [deferred EXCEPT ![j] = @ - 1], cur |-> j, host |-> host]
  /\ deferred' = [j \in Jobs |-> 0]
  /\ mem' = Loaded
  /\ lost' = lost \cup TakenBack
  /\ manual' = [manual EXCEPT !.stale = Stale(manual)]
  /\ UNCHANGED <<disk, apart, added, past, running, alarm, covers, tick, reentered,
                 stops, edits, started, cut, seen, owed>>

\* on_job of the current job returns or raises an Exception.  The next job of
\* the batch is taken, or the store is saved and the call returns.
FlushContinues ==
  /\ flush.cur # NoJob /\ ~reentered
  /\ mem' = ExecutedStale(mem, flush.cur)
  /\ \/ \E j \in Jobs :
           /\ flush.todo[j] > 0
           /\ flush' = [flush EXCEPT !.todo[j] = @ - 1, !.cur = j]
           /\ UNCHANGED files
     \/ /\ \A j \in Jobs : flush.todo[j] = 0
        /\ flush' = NoFlush
        /\ Save
  /\ owed' = owed \ {flush.cur}
  /\ UNCHANGED <<added, past, running, alarm, covers, tick, deferred, manual, reentered,
                 stops, edits, started, cut, lost, seen>>

\* The on_job that the lock's holder awaits calls flush_deferred itself: it
\* waits for the lock, which is not reentrant.
Reenter ==
  /\ Locked /\ ~reentered
  /\ reentered' = TRUE
  /\ UNCHANGED <<mem, files, added, past, running, alarm, covers, tick, flush, deferred,
                 manual, stops, edits, observed>>

-----------------------------------------------------------------------------
(* The public API *)

\* (Seeded bug: no re-arming.)
MutateWithoutArm(store, J) ==
  /\ mem' = store
  /\ Save
  /\ CancelNothing(J)
  /\ manual' = [manual EXCEPT !.stale = Stale(manual)]
  /\ lost' = (lost \cup TakenBack) \ J
  /\ owed' = owed \ J /\ started' = started \ J /\ repeats' = repeats \ J
  /\ UNCHANGED <<running, alarm, covers, flush, deferred, stops, edits, ghosts>>

\* Load, change the store, save, re-arm: what add, remove, update and enable
\* have in common.  The runs of the jobs in J are settled by the caller.
Mutate(store, J) ==
  /\ mem' = store
  /\ Save
  /\ Arm(store, running)
  /\ CancelTick(J)
  /\ manual' = [manual EXCEPT !.stale = Stale(manual)]
  /\ lost' = (lost \cup TakenBack) \ J
  /\ owed' = owed \ J /\ started' = started \ J /\ repeats' = repeats \ J
  /\ UNCHANGED <<running, flush, deferred, stops, edits, ghosts>>

\* Every job gets an id of its own.  (A one-shot whose time has passed is kept
\* without a run.)
AddJob(j, wake) ==
  /\ j \notin added /\ Cardinality(added) < MaxAdded /\ wake \in WakesOf(j)
  /\ added' = added \cup {j}
  /\ Mutate([Loaded EXCEPT ![j] = [here |-> TRUE, enabled |-> TRUE, next |-> NextRun(j),
                                   wake |-> wake]], {})
  /\ UNCHANGED past

RemoveJob(j) ==
  /\ Loaded[j].here
  /\ Mutate([Loaded EXCEPT ![j] = Absent], {j})
  /\ UNCHANGED <<added, past>>

EnableJob(j, on) ==
  /\ Loaded[j].here
  /\ Mutate([Loaded EXCEPT ![j].enabled = on,
                           ![j].next = IF on THEN NextRun(j) ELSE "none"], {j})
  /\ UNCHANGED <<added, past>>

\* update_job.  A new schedule gives a new next run, even to a disabled job.
UpdateJob(j, wake, next) ==
  /\ Loaded[j].here
  /\ wake \in WakesOf(j) /\ (next = "none" => j \in OneShots)
  /\ past' = CASE next = "same" -> past
               [] next = "none" -> past \cup {j}
               [] OTHER -> past \ {j}
  /\ Mutate([Loaded EXCEPT ![j].wake = wake, ![j].next = IF next = "same" THEN @ ELSE next],
            IF next = "same" THEN {} ELSE {j})
  /\ UNCHANGED added

\* What a call that only loads the store does.
Load ==
  /\ mem' = Loaded
  /\ tick' = [tick EXCEPT !.stale = Stale(tick)]
  /\ lost' = lost \cup TakenBack
  /\ UNCHANGED <<disk, added, past, running, alarm, covers, flush, deferred, reentered,
                 stops, edits, started, cut, seen, owed>>

\* update_job with a payload and a schedule it refuses: the payload is changed
\* before the schedule is validated, nothing is saved.
UpdateRefused(j) ==
  /\ Loaded[j].here
  /\ Load
  /\ apart' = IF Reloads THEN apart ELSE "payload"
  /\ manual' = [manual EXCEPT !.stale = Stale(manual)]

\* list_jobs, get_job, status; also a call that names no job or that add_job refuses
ReadJobs ==
  /\ Reloads
  /\ Load /\ UNCHANGED apart
  /\ manual' = [manual EXCEPT !.stale = Stale(manual)]

\* run_job up to its await of on_job; no lock.
RunJobBegins(j) ==
  /\ manual.cur = NoJob
  /\ Loaded[j].here
  /\ Load /\ UNCHANGED apart
  /\ manual' = [cur |-> j, stale |-> FALSE]

\* on_job returns; the store is saved and the timer re-armed.
RunJobContinues ==
  /\ manual.cur # NoJob
  /\ mem' = Ran(manual)
  /\ Save
  /\ Arm(mem', running)
  /\ CancelTick({})
  /\ manual' = NoManual
  /\ owed' = owed \ {manual.cur}
  /\ lost' = lost \cup Untraced(manual)
  /\ UNCHANGED <<added, past, running, flush, deferred, stops, edits, started, seen>>

-----------------------------------------------------------------------------
(* Life cycle and environment *)

\* start: load, recompute the next run of every enabled job, save, arm.
Start ==
  /\ ~running
  /\ running' = TRUE
  /\ mem' = [j \in Jobs |-> IF Loaded[j].enabled
                            THEN [Loaded[j] EXCEPT !.next = NextRun(j)] ELSE Loaded[j]]
  /\ Save
  /\ Arm(mem', TRUE)
  /\ manual' = [manual EXCEPT !.stale = Stale(manual)]
  /\ lost' = lost \cup TakenBack
  /\ UNCHANGED <<added, past, tick, flush, deferred, reentered, stops, edits, started, cut,
                 seen, owed>>

\* stop: both tasks are cancelled, whatever they await; a flush the host awaits
\* goes on.
Stop ==
  /\ running /\ stops < MaxStops /\ stops + edits < MaxTrouble
  /\ running' = FALSE
  /\ stops' = stops + 1
  /\ alarm' = "off"
  /\ tick' = NoTick /\ flush' = (IF flush.host THEN flush ELSE NoFlush)
  /\ cut' = cut \cup ({tick.cur} \cap Jobs)
  /\ reentered' = (reentered /\ flush.host)
  /\ UNCHANGED <<mem, files, added, past, covers, deferred, manual, edits,
                 started, lost, seen, owed>>

\* The process dies.  The next one loads what is on disk, and until its first
\* save it has no mtime to compare with.
Crash ==
  /\ stops < MaxStops /\ stops + edits < MaxTrouble
  /\ stops' = stops + 1
  /\ running' = FALSE /\ alarm' = "off" /\ covers' = {}
  /\ mem' = disk /\ apart' = "mtime"
  /\ tick' = NoTick /\ flush' = NoFlush /\ manual' = NoManual
  /\ cut' = cut \cup ({tick.cur} \cap Jobs)
  /\ deferred' = [j \in Jobs |-> 0]
  /\ reentered' = FALSE
  /\ UNCHANGED <<disk, added, past, edits, started, lost, seen, owed>>

\* Somebody else enables or disables a job in cron.json.
Edit(j) ==
  /\ edits < MaxEdits /\ stops + edits < MaxTrouble
  /\ edits' = edits + 1
  /\ disk[j].here
  /\ disk' = [disk EXCEPT ![j].enabled = ~@]
  /\ apart' = "mtime"
  /\ UNCHANGED <<mem, added, past, running, alarm, covers, exec, stops, observed>>

\* Time passes: the next run of job j, or its at_ms, is reached.
Clock(j) ==
  LET Reach(store) == IF store[j].next = "future" THEN [store EXCEPT ![j].next = "due"] ELSE store
  IN /\ mem[j].next = "future" \/ disk[j].next = "future"
     /\ deferred[j] < MaxDeferred
     /\ mem' = Reach(mem)
     /\ disk' = Reach(disk)
     /\ past' = past \cup ({j} \cap OneShots)
     /\ alarm' = IF alarm = "set" /\ j \in covers THEN "rung" ELSE alarm
     /\ owed' = IF j \in OneShots \cap Scheduled(mem) /\ running THEN owed \cup {j} ELSE owed
     /\ started' = started \ {j} /\ cut' = cut \ {j} /\ lost' = lost \ {j}
     /\ repeats' = repeats \ {j}
     /\ UNCHANGED <<apart, added, running, covers, exec, stops, edits, ghosts>>

Tick == TickBegins \/ TickContinues
Api == \/ \E j \in Jobs : RemoveJob(j) \/ UpdateRefused(j) \/ RunJobBegins(j)
       \/ \E j \in Jobs, wake \in Wakes : AddJob(j, wake)
       \/ \E j \in Jobs, on \in BOOLEAN : EnableJob(j, on)
       \/ \E j \in Jobs, wake \in Wakes, next \in {"same", "none", "future"} :
             UpdateJob(j, wake, next)
       \/ ReadJobs
       \/ RunJobContinues
Environment == \/ Reenter \/ Start \/ Stop \/ Crash
               \/ \E j \in Jobs : Edit(j) \/ Clock(j)

Next == Tick \/ FlushBegins \/ FlushContinues \/ Api \/ Environment

Spec == Init /\ [][Next]_vars

\* asyncio runs what is ready, and every on_job that does not wait for the
\* lock itself ends.
FairSpec == Spec /\ WF_vars(Tick) /\ WF_vars(FlushContinues)

-----------------------------------------------------------------------------
(* Properties.  edits = 0 says that nobody else has written cron.json. *)

\* No lost wakeup: while the service runs, a scheduled job has a timer that
\* will ring for it, unless a tick is under way that re-arms at its end.
\* Every path that changes a next run has to re-arm.
TimerCovers ==
  running /\ edits = 0 /\ tick.cur = NoJob =>
     \A j \in Scheduled(mem) : IF mem[j].next = "due" THEN alarm = "rung"
                               ELSE alarm = "rung" \/ (alarm = "set" /\ j \in covers)

\* While the service runs, what is in memory is on disk, except for what a
\* tick or a flush under way still has to save, for an edit by somebody else
\* that no save has written over yet, and for the payload of a job whose update
\* was refused half way.  And unless somebody edited the file or the service was
\* ended, what a run leaves in its job is not lost: no reload comes in between.
DiskIsCurrent ==
  /\ running /\ ~Reloads /\ ~Locked => disk = mem
  /\ edits = 0 /\ stops = 0 => lost = {}

\* The timer never starts a job that was removed or disabled meanwhile: the
\* due list is computed once, before the awaits, and only the cancel in
\* _arm_timer keeps a dead entry of it from running.  (After a reload the list
\* holds objects of the former store, whatever the new one says of them.)
NoGhostRun == ghosts = {}

\* The timer starts on_job again for the same scheduled run only after a first
\* attempt was cancelled by an API call, a stop or a crash, or after a reload,
\* caused by an edit of somebody else, took its effect on the job back.
RepeatsOnlyIfCut ==
  /\ repeats \subseteq cut \cup lost
  /\ edits = 0 => repeats \subseteq cut

\* A one-shot that fell due is not forgotten while the service keeps running:
\* it is due, deferred, or in a batch that some task is working on.
OneShotKept ==
  edits = 0 /\ stops = 0 =>
     \A j \in owed : \/ j \in Due(mem) \/ j = tick.cur
                     \/ deferred[j] > 0 \/ j = flush.cur \/ flush.todo[j] > 0

\* Once the API is left alone, every job that is due is started or advanced,
\* unless the service stops: no tick or flush holds the lock for ever, and a
\* cancelled tick leaves a timer behind.
DueIsServed ==
  ([](edits = 0 /\ ~reentered) /\ <>[][~Api]_vars) =>
     \A j \in Jobs : [](j \in Due(mem) /\ running =>
                          <>(j \notin Due(mem) \/ j \in started \/ ~running))

\* flush_deferred's docstring: "clears the queue before invoking callbacks so
\* re-entry from within on_job won't see the same jobs twice".  The re-entrant
\* call would have to return; the lock it waits for is its own caller's.
ReentryReturns == reentered ~> ~reentered
=============================================================================
