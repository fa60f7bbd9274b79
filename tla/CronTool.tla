------------------------------ MODULE CronTool ------------------------------
(***************************************************************************)
(* The cron tool of exoclaw-tools-cron over its local backend, and the     *)
(* callback with which exoclaw-nanobot runs a due job as an agent turn.    *)
(* Turns of chats, the turn of the job that runs, and callers without a    *)
(* context use the one tool; its destination and its mark "within a cron   *)
(* job" are per task.  Of time a job keeps whether it has a next run and   *)
(* whether its time has passed; CronService has the clock and the timer.   *)
(***************************************************************************)
EXTENDS Integers

CONSTANTS
  Homes,      \* the chats: a channel and an address
  Nowhere,    \* no context
  JobIds,
  AddCalls, UpdateCalls    \* the arguments of the two actions

ASSUME CronToolAssumption ==
  /\ \A a \in AddCalls : a.every \in Int
  /\ \A u \in UpdateCalls : u.to \in Homes \cup {Nowhere}

VARIABLES
  marks,      \* whether the host calls set_cron_context around a job
  cronJobs,   \* the store
  cronRun,    \* the job whose turn runs, with the destination it was started for
  strayed     \* an answer went elsewhere than its job delivers, unredirected

cronToolVars == <<marks, cronJobs, cronRun, strayed>>

NoJobHere == [there |-> FALSE]
NotRunning == [on |-> FALSE]

Stored == {j \in JobIds : cronJobs[j].there}

\* A call comes from a chat's turn, from the running job's turn, or from a
\* caller whose task never had a context.  SKILL.md says of the tool "Cannot
\* schedule new jobs from within a cron job execution"; that holds where a host
\* marks its jobs, and neither application of the repository does, so that
\* there a job's turn adds jobs, which deliver where it was started for.
Callers ==
  {[home |-> h, inCron |-> FALSE] : h \in Homes \cup {Nowhere}}
    \cup (IF cronRun.on
          THEN {[home |-> cronRun.home, inCron |-> marks]} ELSE {})

-----------------------------------------------------------------------------
(* CronTool *)

\* The schedule of an add: the interval comes before the expression, and that
\* before the time; the zone is dropped with an interval.
ScheduleOf(a) ==
  CASE a.every # 0  -> [kind |-> "every", ok |-> a.every > 0]
    [] a.expr # ""  -> [kind |-> "cron", ok |-> a.expr = "good"]
    [] OTHER        -> [kind |-> "at", ok |-> a.at = "future"]

\* What execute and _add_job refuse.
Refused(c, a) ==
  \/ c.inCron
  \/ ~a.message
  \/ c.home = Nowhere
  \/ a.tz # "" /\ (a.expr = "" \/ a.tz = "bad")
  \/ a.every = 0 /\ a.expr = "" /\ a.at \in {"", "bad"}
  \/ a.wake = "bad"

AddJobCall(c, a, j) ==
  /\ j \notin Stored /\ ~(cronRun.on /\ cronRun.job = j)     \* a new id
  /\ ~Refused(c, a)
  /\ cronJobs' = [cronJobs EXCEPT ![j] =
       [there |-> TRUE, schedule |-> ScheduleOf(a), next |-> ScheduleOf(a).ok, on |-> TRUE,
        home |-> c.home, deliver |-> TRUE]]
  /\ UNCHANGED <<marks, cronRun, strayed>>

RemoveJobCall(j) ==
  /\ j \in Stored
  /\ cronJobs' = [cronJobs EXCEPT ![j] = NoJobHere]
  /\ UNCHANGED <<marks, cronRun, strayed>>

\* The running job's object is the stored one.
Redirects(j, u) ==
  IF cronRun.on /\ cronRun.job = j
  THEN [cronRun EXCEPT !.redirected = @ \/ u.to # Nowhere,
                       !.deliver = IF u.deliver = "keep" THEN @ ELSE u.deliver = "yes"]
  ELSE cronRun

\* What an update makes of a job.
Updated(job, u) ==
  [job EXCEPT !.home = IF u.to = Nowhere THEN @ ELSE u.to,
              !.deliver = IF u.deliver = "keep" THEN @ ELSE u.deliver = "yes",
              !.schedule = IF u.expr = "" THEN @ ELSE [kind |-> "cron", ok |-> u.expr = "good"],
              !.next = IF u.expr = "" THEN @ ELSE u.expr = "good"]

\* _update_job: only a cron expression changes the schedule, and it changes it
\* for a disabled job as well.
UpdateJobCall(j, u) ==
  /\ j \in Stored
  /\ ~(u.tz # "" /\ (u.expr = "" \/ u.tz = "bad")) /\ u.wake # "bad"
  /\ cronJobs' = [cronJobs EXCEPT ![j] = Updated(@, u)]
  /\ cronRun' = Redirects(j, u)
  /\ UNCHANGED <<marks, strayed>>

\* (Seeded bug: enabling leaves the next run as it was.)
NextIfOld(j, on) == on /\ cronJobs[j].next

\* enable_job computes the next run anew, disable_job clears it.
NextIf(j, on) == on /\ cronJobs[j].schedule.ok

EnableJobCall(j, on) ==
  /\ j \in Stored
  /\ cronJobs' = [cronJobs EXCEPT ![j].on = on, ![j].next = NextIf(j, on)]
  /\ UNCHANGED <<marks, cronRun, strayed>>

-----------------------------------------------------------------------------
(* The job's turn *)

\* The time of a one-time job that is switched off passes.
TimePasses(j) ==
  /\ j \in Stored /\ cronJobs[j].schedule.kind = "at" /\ ~cronJobs[j].on
  /\ cronJobs' = [cronJobs EXCEPT ![j].schedule.ok = FALSE]
  /\ UNCHANGED <<marks, cronRun, strayed>>

\* _on_cron_job up to process_direct: the destination is read here.
OnCronJob(j) ==
  /\ ~cronRun.on /\ j \in Stored /\ cronJobs[j].on /\ cronJobs[j].next
  /\ cronRun' = [on |-> TRUE, job |-> j, home |-> cronJobs[j].home, redirected |-> FALSE,
                 deliver |-> cronJobs[j].deliver]
  /\ cronJobs' = [cronJobs EXCEPT ![j].schedule.ok = @ /\ cronJobs[j].schedule.kind # "at"]
  /\ UNCHANGED <<marks, strayed>>

\* _execute_job after the callback: a one-time job goes, whatever became of it.
AfterRun(j) ==
  IF j \notin Stored THEN cronJobs
  ELSE IF cronJobs[j].schedule.kind = "at" THEN [cronJobs EXCEPT ![j] = NoJobHere]
  ELSE [cronJobs EXCEPT ![j].next = cronJobs[j].schedule.ok]

\* The answer, if there is one and the job delivers by now, goes where the job
\* delivered when it was started.
CronJobEnds(answered) ==
  /\ cronRun.on
  /\ strayed' = (strayed \/ /\ answered /\ cronRun.deliver /\ ~cronRun.redirected
                            /\ cronRun.job \in Stored
                            /\ cronJobs[cronRun.job].home # cronRun.home)
  /\ cronJobs' = AfterRun(cronRun.job)
  /\ cronRun' = NotRunning
  /\ UNCHANGED marks

CronToolInit ==
  /\ marks \in BOOLEAN
  /\ cronJobs = [j \in JobIds |-> NoJobHere]
  /\ cronRun = NotRunning /\ strayed = FALSE

CronToolNext ==
  \/ \E c \in Callers, a \in AddCalls, j \in JobIds : AddJobCall(c, a, j)
  \/ \E j \in JobIds :
       \/ RemoveJobCall(j) \/ TimePasses(j) \/ OnCronJob(j)
       \/ \E u \in UpdateCalls : UpdateJobCall(j, u)
       \/ \E on \in BOOLEAN : EnableJobCall(j, on)
  \/ \E answered \in BOOLEAN : CronJobEnds(answered)

CronToolSpec == CronToolInit /\ [][CronToolNext]_cronToolVars

-----------------------------------------------------------------------------
(* Properties *)

\* A job that is on has a next run, or can never have one: an interval below
\* zero, a time that is past, an expression croniter refuses; the tool says
\* "Created" and "Enabled" of those as well.  One that is off has none, but for
\* a recurring one that was updated, or switched off while it ran.
EnabledRuns ==
  \A j \in Stored :
    /\ cronJobs[j].on /\ ~cronJobs[j].next => ~cronJobs[j].schedule.ok
    /\ ~cronJobs[j].on /\ cronJobs[j].next => cronJobs[j].schedule.kind # "at"

\* An answer goes where its job delivers, unless the job was redirected while
\* it ran.
AnswersGoHome == ~strayed

\* Nobody without a context makes a job, and every job has a home.
EveryJobHasAHome == \A j \in Stored : cronJobs[j].home \in Homes

CronToolRight == EnabledRuns /\ AnswersGoHome /\ EveryJobHasAHome
=============================================================================
