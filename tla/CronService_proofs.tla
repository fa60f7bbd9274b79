------------------------- MODULE CronService_proofs -------------------------
(***************************************************************************)
(* Proofs about CronService, for any finite set of jobs, whatever their    *)
(* kinds, and any bounds.                                                  *)
(*                                                                         *)
(* The inductive invariant CronInv adds to the checked properties what     *)
(* they rest on: without outside edits a running service does not read the *)
(* file again (NoEdit), a tick and a flush exclude each other (LockInv),   *)
(* what a tick still has to do is due unless its objects are stale         *)
(* (TickInv), every job in memory or on disk was added (Known), and a job  *)
(* started and not cut is no longer due, or its run was lost (RanInv,      *)
(* TodoInv).                                                               *)
(***************************************************************************)
EXTENDS CronService, TLAPS

Stores == [Jobs -> JobState]
TickType == [todo : SUBSET Jobs, cur : Jobs \cup {NoJob}, stale : BOOLEAN]
FlushType == [todo : Counts, cur : Jobs \cup {NoJob}, host : BOOLEAN]
ManualType == [cur : Jobs \cup {NoJob}, stale : BOOLEAN]

NoEdit ==
  edits = 0 => /\ ~tick.stale
               /\ Reloads => ~running /\ stops # 0
               /\ stops = 0 => ~manual.stale

LockInv ==
  /\ tick.cur = NoJob => tick.todo = {}
  /\ flush.cur = NoJob => flush = NoFlush
  /\ tick.cur # NoJob => running /\ flush.cur = NoJob
  /\ tick.cur \notin tick.todo

TickInv == ~tick.stale => tick.todo \cup ({tick.cur} \cap Jobs) \subseteq Due(mem)

TodoInv == tick.todo \cap started \subseteq cut \cup lost

Known ==
  /\ \A j \in Jobs : mem[j].here \/ disk[j].here => j \in added
  /\ owed \subseteq added

RanInv ==
  running =>
     \A j \in started : /\ j \in cut \cup lost \/ j = tick.cur \/ j \notin Due(mem)
                        /\ edits = 0 => j \in cut \/ j = tick.cur \/ j \notin Due(mem)

IdleInv == stops = 0 /\ ~running => owed = {}

CronInv ==
  /\ TypeOK /\ NoEdit /\ LockInv /\ TickInv /\ TodoInv /\ Known /\ RanInv /\ IdleInv
  /\ TimerCovers /\ DiskIsCurrent /\ NoGhostRun /\ RepeatsOnlyIfCut /\ OneShotKept

-----------------------------------------------------------------------------
(* The store and its changes *)

\* What a reload from the file yields, and what it takes back.
LEMMA LoadedFacts ==
  ASSUME CronInv
  PROVE  /\ Loaded \in Stores
         /\ ~Reloads => Loaded = mem /\ TakenBack = {}
         /\ TakenBack \subseteq Jobs
         /\ started \cap Due(Loaded) \subseteq Due(mem) \cup TakenBack
         /\ \A j \in Jobs : Loaded[j].here => j \in added
         /\ edits = 0 /\ (running \/ stops = 0) => ~Reloads
BY DEF CronInv, TypeOK, Stores, Loaded, NoEdit, TakenBack, Known

\* A job of the store is there, or it is nothing at all.
LEMMA StoreFacts ==
  ASSUME NEW store \in Stores, NEW j \in Jobs
  PROVE  /\ store[j] \in JobState /\ Absent \in JobState /\ ~Absent.here
         /\ store[j] = Absent \/ store[j].here
         /\ store[j].here => store[j] \in
               [here : {TRUE}, enabled : BOOLEAN, next : {"none", "future", "due"}, wake : Wakes]
         /\ store[j].enabled \/ store[j].next # "none" \/ store[j].wake # "now" => store[j].here
<1>1. store[j] \in JobState
  BY DEF Stores
<1>2. CASE store[j] = Absent
  BY <1>2 DEF JobState, Absent
<1>3. CASE store[j] \in
             [here : {TRUE}, enabled : BOOLEAN, next : {"none", "future", "due"}, wake : Wakes]
  BY <1>3 DEF JobState, Absent
<1> QED BY <1>1, <1>2, <1>3 DEF JobState

\* What the end of _execute_job does to the store: nothing but to its own job,
\* which is not due afterwards.
LEMMA ExecutedFacts ==
  ASSUME NEW store \in Stores, NEW j \in Jobs
  PROVE  /\ Executed(store, j) \in Stores
         /\ \A i \in Jobs : i # j => Executed(store, j)[i] = store[i]
         /\ Executed(store, j)[j].here => store[j].here
         /\ ~(Executed(store, j)[j].here /\ Executed(store, j)[j].next = "due")
<1>1. /\ store[j] \in JobState /\ Absent \in JobState /\ ~Absent.here
      /\ store[j].here => store[j] \in
            [here : {TRUE}, enabled : BOOLEAN, next : {"none", "future", "due"}, wake : Wakes]
  BY StoreFacts
<1>2. CASE ~store[j].here
  BY <1>1, <1>2 DEF Executed, Stores
<1>3. CASE store[j].here /\ j \notin OneShots
  BY <1>1, <1>3 DEF Executed, Stores, JobState, NextRun
<1>4. CASE store[j].here /\ j \in OneShots /\ j \in DeleteAfter
  BY <1>1, <1>4 DEF Executed, Stores
<1>5. CASE store[j].here /\ j \in OneShots /\ j \notin DeleteAfter
  BY <1>1, <1>5 DEF Executed, Stores, JobState
<1> QED BY <1>2, <1>3, <1>4, <1>5

\* When the job's object was replaced meanwhile, only its removal gets through.
LEMMA ExecutedStaleFacts ==
  ASSUME NEW store \in Stores, NEW j \in Jobs
  PROVE  /\ ExecutedStale(store, j) \in Stores
         /\ \A i \in Jobs : i # j => ExecutedStale(store, j)[i] = store[i]
         /\ ExecutedStale(store, j)[j] \in {store[j], Absent}
BY DEF ExecutedStale, Stores, JobState, Absent

\* Either way no other job changes, none appears and none falls due.
LEMMA RanFacts ==
  ASSUME TypeOK, NEW obj \in ManualType \cup TickType, obj.cur \in Jobs
  PROVE  /\ Ran(obj) \in Stores
         /\ \A i \in Jobs : i # obj.cur => Ran(obj)[i] = mem[i]
         /\ \A i \in Jobs : Ran(obj)[i].here => mem[i].here
         /\ Due(Ran(obj)) \subseteq Due(mem)
         /\ ~obj.stale => obj.cur \notin Due(Ran(obj))
<1>1. mem \in Stores
  BY DEF TypeOK, Stores
<1>2. CASE obj.stale
  BY <1>1, <1>2, ExecutedStaleFacts DEF Ran, Due, Scheduled, Absent
<1>3. CASE ~obj.stale
  BY <1>1, <1>3, ExecutedFacts DEF Ran, Due, Scheduled
<1> QED BY <1>2, <1>3

\* _defer_job leaves none of the jobs it defers due, and the others alone.
LEMMA PostponedFacts ==
  ASSUME NEW store \in Stores, NEW S \in SUBSET Jobs, S \subseteq Coalesced(store)
  PROVE  /\ Postponed(store, S) \in Stores
         /\ \A j \in Jobs \ S : Postponed(store, S)[j] = store[j]
         /\ \A j \in S : Postponed(store, S)[j].next # "due"
         /\ \A j \in Jobs : Postponed(store, S)[j].here = store[j].here
<1>1. ASSUME NEW j \in Jobs
      PROVE  /\ Postponed(store, S)[j] \in JobState
             /\ j \notin S => Postponed(store, S)[j] = store[j]
             /\ j \in S => Postponed(store, S)[j].next # "due"
             /\ Postponed(store, S)[j].here = store[j].here
  <2>1. store[j] \in JobState
    BY DEF Stores
  <2>2. CASE j \notin S
    BY <2>1, <2>2 DEF Postponed
  <2>0. j \in S => store[j] \in
            [here : {TRUE}, enabled : BOOLEAN, next : {"none", "future", "due"}, wake : Wakes]
    BY StoreFacts DEF Coalesced
  <2>3. CASE j \in S /\ j \in OneShots
    BY <2>0, <2>3 DEF Postponed, JobState
  <2>4. CASE j \in S /\ j \notin OneShots
    BY <2>0, <2>4 DEF Postponed, JobState, NextRun
  <2> QED BY <2>2, <2>3, <2>4
<1> QED BY <1>1 DEF Postponed, Stores

-----------------------------------------------------------------------------
(* What the actions have in common *)

\* A piece of the timer's tick: _on_timer goes on with the jobs todo of store.
TickWork(store, todo, stale) ==
  /\ store \in Stores /\ todo \in SUBSET Jobs /\ stale \in BOOLEAN
  /\ running /\ flush.cur = NoJob
  /\ TickAwaits(store, todo, stale) \/ TickEnds(store, todo, stale)
  /\ manual' \in ManualType
  /\ owed' = owed \ {tick.cur}
  /\ lost' \subseteq Jobs /\ lost \subseteq lost'
  /\ \A j \in Jobs : store[j].here => j \in added
  /\ tick.cur \notin todo
  /\ ~stale => todo \subseteq Due(store)
  /\ \A j \in started : j \in Due(store) \/ j \in todo => j \in cut \cup lost'
  /\ edits = 0 => /\ ~stale /\ Due(store) = Due(mem) \ {tick.cur}
                  /\ stops = 0 => ~manual'.stale /\ lost' = {}
  /\ UNCHANGED <<added, past, running, flush, reentered, stops, edits, cut>>

\* Both steps of a tick are of the form TickWork.
LEMMA TickWorks ==
  ASSUME CronInv, TickBegins \/ TickContinues
  PROVE  \E store \in Stores, todo \in SUBSET Jobs, stale \in BOOLEAN : TickWork(store, todo, stale)
<1>0. /\ TypeOK /\ manual \in ManualType /\ tick \in TickType /\ lost \subseteq Jobs
      /\ stops = 0 /\ edits = 0 => lost = {}
  BY DEF CronInv, TypeOK, ManualType, TickType, DiskIsCurrent
<1>1. CASE TickBegins
  <2>1. /\ Loaded \in Stores /\ (~Reloads => Loaded = mem /\ TakenBack = {})
        /\ TakenBack \subseteq Jobs
        /\ started \cap Due(Loaded) \subseteq Due(mem) \cup TakenBack
        /\ \A j \in Jobs : Loaded[j].here => j \in added
        /\ edits = 0 /\ (running \/ stops = 0) => ~Reloads
    BY LoadedFacts
  <2>2. /\ tick.cur = NoJob /\ flush.cur = NoJob /\ running
        /\ TickAwaits(Loaded, Due(Loaded), FALSE) \/ TickEnds(Loaded, Due(Loaded), FALSE)
        /\ manual' = [manual EXCEPT !.stale = Stale(manual)] /\ lost' = lost \cup TakenBack
        /\ UNCHANGED <<added, past, running, flush, reentered, stops, edits, cut, owed>>
    BY <1>1 DEF TickBegins, Locked
  <2>3. Due(Loaded) \in SUBSET Jobs /\ tick.cur \notin Due(Loaded) /\ owed' = owed \ {tick.cur}
    BY <2>2, ConstantsAssumption DEF Due, Scheduled, CronInv, TypeOK
  <2>4. edits = 0 => /\ Due(Loaded) = Due(mem) \ {tick.cur}
                     /\ stops = 0 => lost' = {}
    BY <1>0, <2>1, <2>2, <2>3
  <2>5. manual' \in ManualType /\ (edits = 0 /\ stops = 0 => ~manual'.stale)
    BY <1>0, <2>1, <2>2 DEF Stale, CronInv, NoEdit, ManualType
  <2>6. \A j \in started : j \in Due(Loaded) => j \in cut \cup lost'
    BY <2>1, <2>2, ConstantsAssumption DEF CronInv, RanInv, TypeOK
  <2>7. TickWork(Loaded, Due(Loaded), FALSE)
    BY <1>0, <2>1, <2>2, <2>3, <2>4, <2>5, <2>6 DEF TickWork
  <2> QED BY <2>1, <2>3, <2>7
<1>2. CASE TickContinues
  <2> DEFINE store == Ran(tick)
  <2>1. /\ tick.cur \in Jobs /\ tick.cur # NoJob /\ tick.todo \in SUBSET Jobs
        /\ tick.stale \in BOOLEAN
    BY <1>0, <1>2 DEF TickContinues, TickType
  <2>2. /\ store \in Stores /\ \A i \in Jobs : i # tick.cur => store[i] = mem[i]
        /\ \A i \in Jobs : store[i].here => mem[i].here
        /\ Due(store) \subseteq Due(mem) /\ (~tick.stale => tick.cur \notin Due(store))
    BY <1>0, <2>1, RanFacts
  <2>4. edits = 0 => ~tick.stale /\ (stops = 0 => ~manual.stale)
    BY DEF CronInv, NoEdit
  <2>6. ~tick.stale => Due(store) = Due(mem) \ {tick.cur}
    BY <2>1, <2>2 DEF Due, Scheduled
  <2>7. tick.cur \notin tick.todo /\ (~tick.stale => tick.todo \subseteq Due(store))
    BY <2>6 DEF CronInv, LockInv, TickInv
  <2>8. \A j \in Jobs : store[j].here => j \in added
    BY <2>1, <2>2 DEF CronInv, Known
  <2>9. running /\ flush.cur = NoJob
    BY <2>1 DEF CronInv, LockInv
  <2>10. /\ TickAwaits(store, tick.todo, tick.stale) \/ TickEnds(store, tick.todo, tick.stale)
         /\ owed' = owed \ {tick.cur} /\ manual' = manual /\ lost' = lost \cup Untraced(tick)
         /\ UNCHANGED <<added, past, running, flush, reentered, stops, edits, cut>>
    BY <1>2 DEF TickContinues
  <2>11. lost' \subseteq Jobs /\ lost \subseteq lost' /\ (tick.stale => tick.cur \in lost')
         /\ (~tick.stale => lost' = lost)
    BY <1>0, <2>1, <2>10 DEF Untraced
  <2>12. \A j \in started : j \in Due(store) \/ j \in tick.todo => j \in cut \cup lost'
    BY <2>2, <2>9, <2>11 DEF CronInv, RanInv, TodoInv
  <2>13. edits = 0 => ~tick.stale /\ (stops = 0 => ~manual'.stale /\ lost' = {})
    BY <1>0, <2>4, <2>10, <2>11
  <2>14. TickWork(store, tick.todo, tick.stale)
    <3> HIDE DEF store
    <3> QED BY <1>0, <2>1, <2>2, <2>6, <2>7, <2>8, <2>9, <2>10, <2>11, <2>12, <2>13 DEF TickWork
  <2> QED BY <2>1, <2>2, <2>14
<1> QED BY <1>1, <1>2

\* What add, remove, enable and update have in common, and the end of run_job:
\* the store is saved, a new timer armed and the tick under way cancelled.
ApiWork(store, J, K) ==
  /\ store \in Stores /\ J \in SUBSET (Jobs \cup {NoJob}) /\ K \subseteq Jobs
  /\ mem' = store /\ Save /\ Arm(store, running) /\ CancelTick(K)
  /\ manual' \in ManualType
  /\ owed' = owed \ J
  /\ lost' \subseteq Jobs /\ lost \ K \subseteq lost'
  /\ started' = started \ K /\ repeats' = repeats \ K
  /\ added \subseteq added' /\ added' \subseteq Jobs /\ past' \subseteq OneShots
  /\ \A j \in Jobs : store[j].here => j \in added'
  /\ \A j \in started' : j \in Due(store) => j \in Due(mem) \cup lost'
  /\ edits = 0 /\ running => Due(store) \subseteq Due(mem)
  /\ edits = 0 /\ stops = 0 => /\ ~manual'.stale /\ lost' = {}
                              /\ \A j \in owed \ J : j \in Due(mem) => j \in Due(store)
  /\ UNCHANGED <<running, flush, deferred, stops, edits, ghosts>>

\* A change of one job j by an API call is such work.
LEMMA MutateWorks ==
  ASSUME CronInv, NEW store \in Stores, NEW J \in SUBSET Jobs, NEW j \in Jobs, Mutate(store, J),
         \A i \in Jobs : i # j => store[i] = Loaded[i],
         \/ j \in Due(store) <=> j \in Due(Loaded)
         \/ j \notin Due(store) /\ j \notin owed \ J,
         store[j].here => j \in added',
         added \subseteq added', added' \subseteq Jobs, past' \subseteq OneShots
  PROVE  ApiWork(store, J, J)
<1>0. /\ manual \in ManualType /\ lost \subseteq Jobs /\ (stops = 0 /\ edits = 0 => lost = {})
      /\ owed \subseteq Jobs
  BY ConstantsAssumption DEF CronInv, TypeOK, ManualType, DiskIsCurrent
<1>1. /\ Loaded \in Stores /\ (~Reloads => Loaded = mem /\ TakenBack = {})
      /\ TakenBack \subseteq Jobs
      /\ started \cap Due(Loaded) \subseteq Due(mem) \cup TakenBack
      /\ \A i \in Jobs : Loaded[i].here => i \in added
      /\ edits = 0 /\ (running \/ stops = 0) => ~Reloads
  BY LoadedFacts
<1>2. /\ mem' = store /\ Save /\ Arm(store, running) /\ CancelTick(J) /\ owed' = owed \ J
      /\ manual' = [manual EXCEPT !.stale = Stale(manual)] /\ lost' = (lost \cup TakenBack) \ J
      /\ started' = started \ J /\ repeats' = repeats \ J
      /\ UNCHANGED <<running, flush, deferred, stops, edits, ghosts>>
  BY DEF Mutate
<1>3. manual' \in ManualType /\ (edits = 0 /\ stops = 0 => ~manual'.stale)
  BY <1>0, <1>1, <1>2 DEF Stale, CronInv, NoEdit, ManualType
<1>4. /\ \A i \in Jobs : i # j => (i \in Due(store) <=> i \in Due(Loaded))
      /\ Due(store) \subseteq Due(Loaded)
  BY DEF Due, Scheduled
<1>5. /\ \A i \in started' : i \in Due(store) => i \in Due(mem) \cup lost'
      /\ edits = 0 /\ running => Due(store) \subseteq Due(mem)
  BY <1>1, <1>2, <1>4
<1>6. edits = 0 /\ stops = 0 => /\ lost' = {}
                               /\ \A i \in owed \ J : i \in Due(mem) => i \in Due(store)
  BY <1>0, <1>1, <1>2, <1>4
<1>7. \A i \in Jobs : store[i].here => i \in added'
  BY <1>1
<1> QED BY <1>0, <1>1, <1>2, <1>3, <1>5, <1>6, <1>7 DEF ApiWork

ApiCall(j) ==
  \/ RemoveJob(j) \/ \E wake \in Wakes : AddJob(j, wake)
  \/ \E on \in BOOLEAN : EnableJob(j, on)
  \/ \E wake \in Wakes, next \in {"same", "none", "future"} : UpdateJob(j, wake, next)

\* Every call of the API that saves, and the end of a run_job, is of the form
\* ApiWork.
LEMMA ApiWorks ==
  ASSUME CronInv, (\E j \in Jobs : ApiCall(j)) \/ RunJobContinues
  PROVE  \E store \in Stores, J \in SUBSET (Jobs \cup {NoJob}), K \in SUBSET Jobs :
            ApiWork(store, J, K)
<1>0. /\ TypeOK /\ manual \in ManualType /\ lost \subseteq Jobs
      /\ stops = 0 /\ edits = 0 => lost = {}
  BY DEF CronInv, TypeOK, ManualType, DiskIsCurrent
<1>1. Loaded \in Stores
  BY LoadedFacts
<1>2. \A i \in Jobs : Loaded[i].here => i \in added
  BY LoadedFacts
<1>3. added \subseteq Jobs /\ past \subseteq OneShots /\ OneShots \subseteq Jobs
  BY ConstantsAssumption DEF CronInv, TypeOK
<1>4. ASSUME NEW j \in Jobs, NEW wake \in Wakes, AddJob(j, wake)
      PROVE  \E store \in Stores, J \in SUBSET Jobs : ApiWork(store, J, J)
  <2> DEFINE store == [Loaded EXCEPT ![j] = [here |-> TRUE, enabled |-> TRUE,
                                             next |-> NextRun(j), wake |-> wake]]
  <2> DEFINE new == [here |-> TRUE, enabled |-> TRUE, next |-> NextRun(j), wake |-> wake]
  <2>0. new \in JobState /\ new.next # "due"
    BY DEF JobState, NextRun
  <2>1. store \in Stores /\ j \notin Due(store)
    <3>1. store = [Loaded EXCEPT ![j] = new]
      OBVIOUS
    <3> HIDE DEF store, new
    <3> QED BY <1>1, <2>0, <3>1 DEF Stores, Due, Scheduled
  <2>2. j \notin owed /\ added' = added \cup {j} /\ past' = past /\ Mutate(store, {})
    <3>1. j \notin added /\ added' = added \cup {j} /\ past' = past
      BY <1>4 DEF AddJob
    <3>2. Mutate(store, {})
      BY <1>4, Zenon DEF AddJob
    <3> QED BY <3>1, <3>2 DEF CronInv, Known
  <2>3. \A i \in Jobs : i # j => store[i] = Loaded[i]
    BY <1>1 DEF Stores
  <2>4. ApiWork(store, {}, {})
    <3> HIDE DEF store
    <3> QED BY <1>3, <2>1, <2>2, <2>3, MutateWorks
  <2> QED BY <2>1, <2>4
<1>5. ASSUME NEW j \in Jobs, RemoveJob(j)
      PROVE  \E store \in Stores, J \in SUBSET Jobs : ApiWork(store, J, J)
  <2> DEFINE store == [Loaded EXCEPT ![j] = Absent]
  <2>1. store \in Stores /\ j \notin Due(store) /\ ~store[j].here
    BY <1>1 DEF Stores, JobState, Absent, Due, Scheduled
  <2>2. added' = added /\ past' = past /\ Mutate(store, {j})
    BY <1>5 DEF RemoveJob
  <2>3. \A i \in Jobs : i # j => store[i] = Loaded[i]
    BY <1>1 DEF Stores
  <2>4. ApiWork(store, {j}, {j})
    <3> HIDE DEF store
    <3> QED BY <1>3, <2>1, <2>2, <2>3, MutateWorks
  <2> QED BY <2>1, <2>4
<1>7. ASSUME NEW j \in Jobs, NEW on \in BOOLEAN, EnableJob(j, on)
      PROVE  \E store \in Stores, J \in SUBSET Jobs : ApiWork(store, J, J)
  <2> DEFINE store == [Loaded EXCEPT ![j].enabled = on,
                                     ![j].next = IF on THEN NextRun(j) ELSE "none"]
  <2>2. added' = added /\ past' = past /\ Mutate(store, {j}) /\ Loaded[j].here
    BY <1>7 DEF EnableJob
  <2>0. Loaded[j] \in
          [here : {TRUE}, enabled : BOOLEAN, next : {"none", "future", "due"}, wake : Wakes]
    BY <1>1, <2>2, StoreFacts
  <2>1. store \in Stores /\ j \notin Due(store) /\ store[j].here = Loaded[j].here
    BY <1>1, <2>0 DEF Stores, JobState, NextRun, Due, Scheduled
  <2>3. \A i \in Jobs : i # j => store[i] = Loaded[i]
    BY <1>1 DEF Stores
  <2>4. ApiWork(store, {j}, {j})
    <3> HIDE DEF store
    <3> QED BY <1>2, <1>3, <2>1, <2>2, <2>3, MutateWorks
  <2> QED BY <2>1, <2>4
<1>8. ASSUME NEW j \in Jobs, NEW wake \in Wakes, NEW next \in {"same", "none", "future"},
             UpdateJob(j, wake, next)
      PROVE  \E store \in Stores, J \in SUBSET Jobs : ApiWork(store, J, J)
  <2> DEFINE store == [Loaded EXCEPT ![j].wake = wake,
                                     ![j].next = IF next = "same" THEN @ ELSE next]
             settled == IF next = "same" THEN {} ELSE {j}
  <2>2. added' = added /\ past' \subseteq OneShots /\ Mutate(store, settled) /\ Loaded[j].here
    BY <1>3, <1>8 DEF UpdateJob
  <2>0. Loaded[j] \in
          [here : {TRUE}, enabled : BOOLEAN, next : {"none", "future", "due"}, wake : Wakes]
    BY <1>1, <2>2, StoreFacts
  <2>1. /\ store \in Stores /\ store[j].here = Loaded[j].here
        /\ store[j].enabled = Loaded[j].enabled
        /\ store[j].next = IF next = "same" THEN Loaded[j].next ELSE next
    BY <1>1, <2>0 DEF Stores, JobState
  <2>3. \A i \in Jobs : i # j => store[i] = Loaded[i]
    BY <1>1 DEF Stores
  <2>5. \/ j \in Due(store) <=> j \in Due(Loaded)
        \/ j \notin Due(store) /\ j \notin owed \ settled
    <3> HIDE DEF store
    <3>1. CASE next = "same"
      BY <2>1, <3>1 DEF Due, Scheduled
    <3>2. CASE next # "same"
      BY <2>1, <3>2 DEF Due, Scheduled
    <3> QED BY <3>1, <3>2
  <2>6. settled \in SUBSET Jobs
    OBVIOUS
  <2>4. ApiWork(store, settled, settled)
    <3> HIDE DEF store, settled
    <3> QED BY <1>2, <1>3, <2>1, <2>2, <2>3, <2>5, <2>6, MutateWorks
  <2> QED BY <2>1, <2>4, <2>6
<1>9. ASSUME RunJobContinues
      PROVE  \E store \in Stores, J \in SUBSET (Jobs \cup {NoJob}), K \in SUBSET Jobs :
            ApiWork(store, J, K)
  <2> DEFINE store == Ran(manual)
  <2>1. manual.cur \in Jobs
    BY <1>0, <1>9 DEF RunJobContinues, ManualType
  <2>2. /\ store \in Stores /\ \A i \in Jobs : i # manual.cur => store[i] = mem[i]
        /\ \A i \in Jobs : store[i].here => mem[i].here
        /\ Due(store) \subseteq Due(mem)
    BY <1>0, <2>1, RanFacts
  <2>5. \A i \in Jobs : i # manual.cur /\ i \in Due(mem) => i \in Due(store)
    BY <2>2 DEF Due, Scheduled
  <2>6. \A i \in Jobs : store[i].here => i \in added
    BY <2>1, <2>2 DEF CronInv, Known
  <2>7. NoManual \in ManualType /\ ~NoManual.stale
    BY DEF NoManual, ManualType
  <2>8. /\ mem' = store /\ Save /\ Arm(store, running) /\ CancelTick({}) /\ manual' = NoManual
        /\ owed' = owed \ {manual.cur} /\ added' = added /\ past' = past
        /\ lost' = lost \cup Untraced(manual)
        /\ UNCHANGED <<running, flush, deferred, stops, edits, started, seen>>
    BY <1>9 DEF RunJobContinues
  <2>10. lost' \subseteq Jobs /\ lost \subseteq lost' /\ (edits = 0 /\ stops = 0 => lost' = {})
    BY <1>0, <2>1, <2>8 DEF Untraced, CronInv, NoEdit
  <2>11. owed \subseteq Jobs /\ started \subseteq Jobs
    BY ConstantsAssumption DEF CronInv, TypeOK
  <2>12. /\ started' = started \ {} /\ repeats' = repeats \ {} /\ lost \ {} \subseteq lost'
         /\ ghosts' = ghosts
    BY <2>8, <2>10 DEF seen
  <2>9. ApiWork(store, {manual.cur}, {})
    <3> HIDE DEF store
    <3> QED BY <1>3, <2>1, <2>2, <2>5, <2>6, <2>7, <2>8, <2>10, <2>11, <2>12 DEF ApiWork
  <2> QED BY <2>1, <2>2, <2>9
<1> QED BY <1>4, <1>5, <1>7, <1>8, <1>9 DEF ApiCall

-----------------------------------------------------------------------------
(* The invariant, piece by piece *)

\* CronInv holds before anything happens.
THEOREM CronInit == Init => CronInv
<1> SUFFICES ASSUME Init PROVE CronInv
  OBVIOUS
<1>1. TypeOK
  <2>1. Absent \in JobState
    BY DEF Absent, JobState
  <2>2. NoTick \in TickType
    BY DEF NoTick, TickType
  <2>3. [j \in Jobs |-> 0] \in Counts
    BY ConstantsAssumption DEF Counts
  <2>4. NoFlush \in FlushType
    BY <2>3 DEF NoFlush, FlushType
  <2>5. NoManual \in ManualType
    BY DEF NoManual, ManualType
  <2>6. 0 \in 0..MaxStops /\ 0 \in 0..MaxEdits
    BY ConstantsAssumption
  <2> QED BY <2>1, <2>2, <2>3, <2>4, <2>5, <2>6
          DEF Init, TypeOK, TickType, FlushType, ManualType
<1>2. NoEdit /\ LockInv /\ TickInv /\ TodoInv /\ Known /\ RanInv /\ IdleInv
  BY ConstantsAssumption
     DEF Init, NoEdit, Reloads, LockInv, TickInv, TodoInv, Known, RanInv, IdleInv, Absent, NoTick,
         NoManual
<1>3. TimerCovers /\ DiskIsCurrent /\ NoGhostRun /\ RepeatsOnlyIfCut /\ OneShotKept
  BY DEF Init, TimerCovers, DiskIsCurrent, NoGhostRun, RepeatsOnlyIfCut, OneShotKept
<1> QED BY <1>1, <1>2, <1>3 DEF CronInv

\* Arming covers every scheduled job.
LEMMA ArmFacts ==
  ASSUME NEW store \in Stores, NEW up \in BOOLEAN, Arm(store, up)
  PROVE  /\ alarm' \in {"off", "set", "rung"} /\ covers' \subseteq Jobs
         /\ up => \A j \in Scheduled(store) :
                     IF store[j].next = "due" THEN alarm' = "rung"
                     ELSE alarm' = "rung" \/ (alarm' = "set" /\ j \in covers')
BY DEF Arm, Scheduled, Due

\* Deferring advances the schedule of the jobs it queues.
LEMMA DeferFacts ==
  ASSUME TypeOK, NEW store \in Stores, NEW S \in SUBSET Jobs, NEW stale \in BOOLEAN, ~stale,
         S \subseteq Coalesced(store), Defer(store, S, stale)
  PROVE  /\ mem' \in Stores /\ deferred' \in Counts
         /\ Due(mem') = Due(store) \ S
         /\ \A j \in Jobs \ S : mem'[j] = store[j] /\ deferred'[j] = deferred[j]
         /\ \A j \in S : deferred'[j] > 0
         /\ \A j \in Jobs : mem'[j].here = store[j].here
<1>1. mem' = Postponed(store, S)
  BY DEF Defer
<1>2. deferred \in Counts /\ MaxDeferred \in Nat
  BY ConstantsAssumption DEF TypeOK
<1>3. /\ \A j \in S : deferred'[j] = deferred[j] + 1 /\ deferred[j] < MaxDeferred
      /\ \A j \in Jobs \ S : deferred'[j] = deferred[j]
      /\ deferred' = [d \in Jobs |-> IF d \in S THEN deferred[d] + 1 ELSE deferred[d]]
  BY DEF Defer
<1>4. deferred' \in Counts /\ \A j \in S : deferred'[j] > 0
  <2>1. ASSUME NEW j \in Jobs
        PROVE  deferred'[j] \in 0..MaxDeferred /\ (j \in S => deferred'[j] > 0)
    <3>1. deferred[j] \in 0..MaxDeferred
      BY <1>2 DEF Counts
    <3>2. CASE j \in S
      BY <1>2, <1>3, <3>1, <3>2
    <3>3. CASE j \notin S
      BY <1>3, <3>1, <3>3
    <3> QED BY <3>2, <3>3
  <2> QED BY <1>3, <2>1 DEF Counts
<1>5. Due(mem') = Due(store) \ S
  BY <1>1, PostponedFacts DEF Due, Scheduled
<1> QED BY <1>1, <1>3, <1>4, <1>5, PostponedFacts

\* Putting jobs off keeps the types, and no job appears or disappears.
LEMMA DeferTypes ==
  ASSUME TypeOK, NEW store \in Stores, NEW S \in SUBSET Jobs, NEW stale \in BOOLEAN,
         S \subseteq Coalesced(store), Defer(store, S, stale)
  PROVE  /\ mem' \in Stores /\ deferred' \in Counts
         /\ \A j \in Jobs : mem'[j].here = store[j].here
<1>0. deferred' \in Counts
  <2>1. ASSUME NEW j \in Jobs
        PROVE  (IF j \in S THEN deferred[j] + 1 ELSE deferred[j]) \in 0..MaxDeferred
    <3>1. deferred[j] \in 0..MaxDeferred /\ MaxDeferred \in Nat
      BY ConstantsAssumption DEF TypeOK, Counts
    <3>2. j \in S => deferred[j] < MaxDeferred
      BY DEF Defer
    <3> QED BY <3>1, <3>2
  <2> QED BY <2>1 DEF Defer, Counts
<1>1. CASE stale
  <2>1. mem' = store
    BY <1>1 DEF Defer
  <2> QED BY <1>0, <2>1
<1>2. CASE ~stale
  BY <1>2, DeferFacts
<1> QED BY <1>1, <1>2

\* A piece of a tick preserves the invariant.
LEMMA TickKeeps ==
  ASSUME CronInv, NEW store \in Stores, NEW todo \in SUBSET Jobs, NEW stale \in BOOLEAN,
         TickWork(store, todo, stale)
  PROVE  CronInv'
<1>1. TypeOK
  BY DEF CronInv
<1>4. /\ running /\ flush.cur = NoJob /\ manual' \in ManualType /\ owed' = owed \ {tick.cur}
      /\ lost' \subseteq Jobs /\ lost \subseteq lost' /\ tick.cur \notin todo
      /\ \A j \in Jobs : store[j].here => j \in added
      /\ ~stale => todo \subseteq Due(store)
      /\ \A j \in started : j \in Due(store) \/ j \in todo => j \in cut \cup lost'
      /\ edits = 0 => /\ ~stale /\ Due(store) = Due(mem) \ {tick.cur}
                      /\ stops = 0 => ~manual'.stale /\ lost' = {}
      /\ running' = running /\ flush' = flush /\ stops' = stops /\ edits' = edits /\ cut' = cut
      /\ UNCHANGED <<added, past, reentered>>
  BY DEF TickWork
<1>5. edits = 0 => \A j \in started : j \in Due(store) => j \in cut
  BY <1>4 DEF CronInv, RanInv
<1>2. CASE TickAwaits(store, todo, stale)
  <2>1. PICK S \in SUBSET (todo \cap Coalesced(store)), j \in todo \ Coalesced(store) :
             /\ Defer(store, S, stale)
             /\ tick' = [todo |-> todo \ (S \cup {j}), cur |-> j, stale |-> stale]
             /\ started' = started \cup {j}
             /\ repeats' = repeats \cup ({j} \cap started)
             /\ ghosts' = ghosts \cup (IF stale \/ (store[j].here /\ store[j].enabled) THEN {} ELSE {j})
             /\ UNCHANGED <<alarm, covers, disk, apart>>
    BY <1>2 DEF TickAwaits
  <2>2. S \in SUBSET Jobs /\ j \in Jobs /\ j \notin S /\ j # NoJob /\ S \subseteq Coalesced(store)
    BY <2>1, ConstantsAssumption
  <2>3. /\ mem' \in Stores /\ deferred' \in Counts
        /\ \A i \in Jobs : mem'[i].here = store[i].here
    BY <1>1, <2>1, <2>2, DeferTypes
  <2>4. tick'.cur = j /\ tick'.todo = todo \ (S \cup {j}) /\ tick'.stale = stale /\ tick' \in TickType
    BY <2>1, <2>2 DEF TickType
  <2>5. /\ ~stale => /\ Due(mem') = Due(store) \ S
                     /\ \A i \in S : deferred'[i] > 0
                     /\ \A i \in Jobs \ S : deferred'[i] = deferred[i]
        /\ stale => mem' = store
    BY <1>1, <2>1, <2>2, DeferFacts DEF Defer
  <2>6. TypeOK'
    BY <1>1, <1>4, <2>1, <2>2, <2>3, <2>4 DEF TypeOK, Stores, TickType, ManualType
  <2>7. NoEdit'
    BY <1>4, <2>1, <2>4 DEF NoEdit, Reloads, CronInv
  <2>8. LockInv'
    BY <1>4, <2>2, <2>4 DEF LockInv, CronInv
  <2>9. TickInv'
    BY <1>4, <2>1, <2>2, <2>4, <2>5 DEF TickInv
  <2>17. TodoInv'
    BY <1>4, <2>1, <2>4 DEF TodoInv
  <2>10. Known'
    BY <1>4, <2>1, <2>3 DEF Known, CronInv
  <2>11. RanInv'
    <3>1. Due(mem') \subseteq Due(store)
      BY <2>5
    <3> QED BY <1>4, <1>5, <2>1, <2>4, <3>1 DEF RanInv
  <2>12. IdleInv'
    BY <1>4 DEF IdleInv, CronInv
  <2>13. TimerCovers' /\ DiskIsCurrent'
    BY <1>4, <2>2, <2>4 DEF TimerCovers, DiskIsCurrent, Locked
  <2>14. NoGhostRun'
    BY <1>4, <2>1 DEF NoGhostRun, CronInv, Due, Scheduled
  <2>15. RepeatsOnlyIfCut'
    <3>1. j \in started => j \in cut \cup lost' /\ (edits = 0 => j \in cut)
      BY <1>4, <1>5, <2>1
    <3> QED BY <1>4, <2>1, <3>1 DEF RepeatsOnlyIfCut, CronInv
  <2>16. OneShotKept'
    <3> SUFFICES ASSUME edits = 0, stops = 0, NEW i \in owed', i \notin Due(mem'), i # j
                 PROVE  deferred'[i] > 0 \/ i = flush.cur \/ flush.todo[i] > 0
      BY <1>4, <2>4 DEF OneShotKept
    <3>1. i \in owed /\ i # tick.cur /\ i \in Jobs
      BY <1>1, <1>4, ConstantsAssumption DEF TypeOK
    <3>2. CASE i \in Due(mem)
      BY <1>4, <2>5, <3>1, <3>2
    <3>3. CASE i \notin Due(mem)
      BY <1>4, <2>5, <3>1, <3>3 DEF OneShotKept, CronInv
    <3> QED BY <3>2, <3>3
  <2> QED BY <2>6, <2>7, <2>8, <2>9, <2>10, <2>11, <2>12, <2>13, <2>14, <2>15, <2>16, <2>17
          DEF CronInv
<1>3. CASE TickEnds(store, todo, stale)
  <2>1. /\ Defer(store, todo, stale) /\ tick' = NoTick /\ disk' = mem' /\ Arm(mem', TRUE)
        /\ apart' = "no" /\ todo \subseteq Coalesced(store)
        /\ UNCHANGED <<started, repeats, ghosts>>
    BY <1>3 DEF TickEnds, Save, seen
  <2>2. /\ mem' \in Stores /\ deferred' \in Counts
        /\ \A i \in Jobs : mem'[i].here = store[i].here
    BY <1>1, <2>1, DeferTypes
  <2>3. NoTick \in TickType /\ NoTick.todo = {} /\ NoTick.cur = NoJob /\ ~NoTick.stale
    BY DEF NoTick, TickType
  <2>4. /\ ~stale => /\ Due(mem') = Due(store) \ todo
                     /\ \A i \in todo : deferred'[i] > 0
                     /\ \A i \in Jobs \ todo : deferred'[i] = deferred[i]
        /\ stale => mem' = store
    BY <1>1, <2>1, DeferFacts DEF Defer
  <2>5. /\ alarm' \in {"off", "set", "rung"} /\ covers' \subseteq Jobs
        /\ \A j \in Scheduled(mem') :
                     IF mem'[j].next = "due" THEN alarm' = "rung"
                     ELSE alarm' = "rung" \/ (alarm' = "set" /\ j \in covers')
    BY <2>1, <2>2, ArmFacts
  <2>6. TypeOK'
    BY <1>1, <1>4, <2>1, <2>2, <2>3, <2>5 DEF TypeOK, Stores, TickType, ManualType
  <2>7. NoEdit'
    BY <1>4, <2>1, <2>3 DEF NoEdit, Reloads
  <2>8. LockInv'
    BY <1>4, <2>1, <2>3 DEF LockInv, CronInv
  <2>9. TickInv' /\ TodoInv'
    BY <2>1, <2>3, ConstantsAssumption DEF TickInv, TodoInv
  <2>10. Known'
    BY <1>4, <2>1, <2>2 DEF Known, CronInv
  <2>11. RanInv'
    <3>1. Due(mem') \subseteq Due(store)
      BY <2>4
    <3> QED BY <1>4, <1>5, <2>1, <3>1 DEF RanInv
  <2>12. IdleInv'
    BY <1>4 DEF IdleInv, CronInv
  <2>13. TimerCovers' /\ DiskIsCurrent'
    BY <1>4, <2>1, <2>5 DEF TimerCovers, DiskIsCurrent
  <2>14. NoGhostRun' /\ RepeatsOnlyIfCut'
    BY <1>4, <2>1 DEF NoGhostRun, RepeatsOnlyIfCut, CronInv
  <2>15. OneShotKept'
    <3> SUFFICES ASSUME edits = 0, stops = 0, NEW i \in owed', i \notin Due(mem')
                 PROVE  deferred'[i] > 0 \/ i = flush.cur \/ flush.todo[i] > 0
      BY <1>4 DEF OneShotKept
    <3>1. i \in owed /\ i # tick.cur /\ i \in Jobs
      BY <1>1, <1>4, ConstantsAssumption DEF TypeOK
    <3>2. CASE i \in Due(mem)
      BY <1>4, <2>4, <3>1, <3>2
    <3>3. CASE i \notin Due(mem)
      BY <1>4, <2>4, <3>1, <3>3 DEF OneShotKept, CronInv, TypeOK, Counts
    <3> QED BY <3>2, <3>3
  <2> QED BY <2>6, <2>7, <2>8, <2>9, <2>10, <2>11, <2>12, <2>13, <2>14, <2>15 DEF CronInv
<1> QED BY <1>2, <1>3 DEF TickWork

\* So does whatever the API does to the store.
LEMMA ApiKeeps ==
  ASSUME CronInv, NEW store \in Stores, NEW J \in SUBSET (Jobs \cup {NoJob}),
         NEW K \in SUBSET Jobs, ApiWork(store, J, K)
  PROVE  CronInv'
<1>1. TypeOK
  BY DEF CronInv
<1>2. /\ mem' = store /\ disk' = store /\ apart' = "no"
      /\ tick' = NoTick /\ cut' = (cut \cup ({tick.cur} \cap Jobs)) \ K
      /\ reentered' = (reentered /\ tick.cur = NoJob)
      /\ owed' = owed \ J /\ manual' \in ManualType /\ lost' \subseteq Jobs /\ lost \ K \subseteq lost'
      /\ started' = started \ K /\ repeats' = repeats \ K
      /\ added \subseteq added' /\ added' \subseteq Jobs /\ past' \subseteq OneShots
      /\ \A j \in Jobs : store[j].here => j \in added'
      /\ UNCHANGED <<running, flush, deferred, stops, edits, ghosts>>
  BY DEF ApiWork, Save, CancelTick, seen
<1>12. /\ \A j \in started' : j \in Due(store) => j \in Due(mem) \cup lost'
       /\ edits = 0 /\ running => Due(store) \subseteq Due(mem)
       /\ edits = 0 /\ stops = 0 => /\ ~manual'.stale /\ lost' = {}
                                    /\ \A j \in owed \ J : j \in Due(mem) => j \in Due(store)
  BY DEF ApiWork
<1>3. NoTick \in TickType /\ NoTick.todo = {} /\ NoTick.cur = NoJob /\ ~NoTick.stale
  BY DEF NoTick, TickType
<1>4. /\ alarm' \in {"off", "set", "rung"} /\ covers' \subseteq Jobs
      /\ running => \A j \in Scheduled(store) :
                       IF store[j].next = "due" THEN alarm' = "rung"
                       ELSE alarm' = "rung" \/ (alarm' = "set" /\ j \in covers')
  <2>1. running \in BOOLEAN /\ Arm(store, running)
    BY <1>1 DEF TypeOK, ApiWork
  <2> QED BY <2>1, ArmFacts
<1>5. TypeOK'
  BY <1>1, <1>2, <1>3, <1>4 DEF TypeOK, Stores, TickType, ManualType
<1>6. NoEdit' /\ LockInv' /\ TickInv' /\ TodoInv'
  BY <1>2, <1>3, <1>12, ConstantsAssumption
     DEF NoEdit, Reloads, LockInv, TickInv, TodoInv, CronInv
<1>7. Known' /\ IdleInv'
  BY <1>2 DEF Known, IdleInv, CronInv
<1>8. RanInv'
  BY <1>1, <1>2, <1>12 DEF RanInv, CronInv, TypeOK
<1>9. TimerCovers' /\ DiskIsCurrent'
  BY <1>2, <1>4, <1>12 DEF TimerCovers, DiskIsCurrent
<1>10. NoGhostRun' /\ RepeatsOnlyIfCut'
  BY <1>2 DEF NoGhostRun, RepeatsOnlyIfCut, CronInv
<1>11. OneShotKept'
  <2> SUFFICES ASSUME edits = 0, stops = 0, NEW i \in owed', i \notin Due(mem')
               PROVE  deferred[i] > 0 \/ i = flush.cur \/ flush.todo[i] > 0
    BY <1>2 DEF OneShotKept
  <2>1. i \in owed \ J /\ i \in Jobs /\ i \notin Due(mem)
    BY <1>1, <1>2, <1>12, ConstantsAssumption DEF TypeOK
  <2>2. i # tick.cur
    BY <2>1 DEF CronInv, TickInv, NoEdit
  <2> QED BY <2>1, <2>2 DEF OneShotKept, CronInv
<1> QED BY <1>5, <1>6, <1>7, <1>8, <1>9, <1>10, <1>11 DEF CronInv

\* A flush takes the whole queue.
LEMMA FlushBeginsKeeps == CronInv /\ FlushBegins => CronInv'
<1> SUFFICES ASSUME CronInv, FlushBegins PROVE CronInv'
  OBVIOUS
<1>1. TypeOK /\ manual \in ManualType
  BY DEF CronInv, TypeOK, ManualType
<1>2. PICK j \in Jobs, host \in BOOLEAN :
         /\ deferred[j] > 0
         /\ flush' = [todo |-> [deferred EXCEPT ![j] = @ - 1], cur |-> j, host |-> host]
  BY DEF FlushBegins
<1>3. /\ tick.cur = NoJob /\ flush.cur = NoJob /\ deferred' = [i \in Jobs |-> 0]
      /\ mem' = Loaded /\ manual' = [manual EXCEPT !.stale = Stale(manual)]
      /\ lost' = lost \cup TakenBack
      /\ UNCHANGED <<disk, apart, added, past, running, alarm, covers, tick, reentered, stops,
                     edits, started, cut, repeats, ghosts, owed>>
  BY DEF FlushBegins, Locked, seen
<1>4. /\ Loaded \in Stores /\ (~Reloads => Loaded = mem /\ TakenBack = {})
      /\ TakenBack \subseteq Jobs
      /\ started \cap Due(Loaded) \subseteq Due(mem) \cup TakenBack
      /\ \A i \in Jobs : Loaded[i].here => i \in added
      /\ edits = 0 /\ (running \/ stops = 0) => ~Reloads
  BY LoadedFacts
<1>5. [deferred EXCEPT ![j] = @ - 1] \in Counts /\ [i \in Jobs |-> 0] \in Counts
  <2>1. \A i \in Jobs : deferred[i] \in 0..MaxDeferred
    BY <1>1 DEF TypeOK, Counts
  <2>2. deferred[j] - 1 \in 0..MaxDeferred /\ 0 \in 0..MaxDeferred
    BY <1>2, <2>1, ConstantsAssumption
  <2> QED BY <1>1, <2>1, <2>2 DEF TypeOK, Counts
<1>6. manual' \in ManualType /\ (edits = 0 /\ stops = 0 => ~manual'.stale)
  BY <1>1, <1>3, <1>4 DEF ManualType, Stale, CronInv, NoEdit
<1>7. flush' \in FlushType /\ flush'.cur = j /\ j # NoJob
      /\ \A i \in Jobs : i # j => flush'.todo[i] = deferred[i]
  BY <1>1, <1>2, <1>5, ConstantsAssumption DEF TypeOK, Counts, FlushType
<1>8. TypeOK'
  BY <1>1, <1>3, <1>4, <1>5, <1>6, <1>7 DEF TypeOK, Stores, FlushType, ManualType
<1>9. NoEdit' /\ LockInv' /\ TodoInv'
  BY <1>3, <1>6, <1>7 DEF NoEdit, Reloads, LockInv, TodoInv, CronInv
<1>10. TickInv' /\ Known' /\ IdleInv'
  BY <1>3, <1>4, ConstantsAssumption DEF TickInv, Known, IdleInv, CronInv, LockInv
<1>14. RanInv'
  BY <1>1, <1>3, <1>4 DEF RanInv, CronInv, TypeOK
<1>11. TimerCovers' /\ NoGhostRun' /\ RepeatsOnlyIfCut'
  BY <1>3, <1>4 DEF TimerCovers, NoGhostRun, RepeatsOnlyIfCut, CronInv
<1>12. DiskIsCurrent'
  BY <1>3, <1>4, <1>7 DEF DiskIsCurrent, Locked, CronInv
<1>13. OneShotKept'
  <2> SUFFICES ASSUME edits = 0, stops = 0, NEW i \in owed, i \notin Due(mem)
               PROVE  i = j \/ flush'.todo[i] > 0
    BY <1>3, <1>4, <1>7 DEF OneShotKept
  <2>1. i \in Jobs /\ i # NoJob
    BY <1>1, ConstantsAssumption DEF TypeOK
  <2>2. flush = NoFlush /\ NoFlush.todo[i] = 0
    BY <1>3, <2>1 DEF CronInv, LockInv, NoFlush
  <2>3. deferred[i] > 0
    BY <1>3, <2>1, <2>2 DEF OneShotKept, CronInv
  <2> QED BY <1>7, <2>1, <2>3
<1> QED BY <1>8, <1>9, <1>10, <1>11, <1>12, <1>13, <1>14 DEF CronInv

\* Its next job, or its end.
LEMMA FlushContinuesKeeps == CronInv /\ FlushContinues => CronInv'
<1> SUFFICES ASSUME CronInv, FlushContinues PROVE CronInv'
  OBVIOUS
<1>1. TypeOK /\ flush \in FlushType
  BY DEF CronInv, TypeOK, FlushType
<1> DEFINE Next1(j) == /\ flush.todo[j] > 0
                       /\ flush' = [flush EXCEPT !.todo[j] = @ - 1, !.cur = j]
                       /\ disk' = disk /\ apart' = apart
           Last == /\ \A j \in Jobs : flush.todo[j] = 0
                   /\ flush' = NoFlush /\ disk' = mem' /\ apart' = "no"
<1>2. /\ flush.cur # NoJob /\ flush.cur \in Jobs /\ mem \in Stores
      /\ mem' = ExecutedStale(mem, flush.cur) /\ owed' = owed \ {flush.cur}
      /\ (\E j \in Jobs : Next1(j)) \/ Last
      /\ UNCHANGED <<added, past, running, alarm, covers, tick, deferred, manual, reentered,
                     stops, edits, started, cut, lost, repeats, ghosts>>
  BY <1>1 DEF FlushContinues, Save, files, seen, TypeOK, Stores
<1>3. /\ mem' \in Stores /\ \A i \in Jobs : i # flush.cur => mem'[i] = mem[i]
      /\ mem'[flush.cur] \in {mem[flush.cur], Absent} /\ ~Absent.here
  BY <1>2, ExecutedStaleFacts DEF Absent
<1>4. \A i \in Jobs : /\ i \in Scheduled(mem') => i \in Scheduled(mem) /\ mem'[i] = mem[i]
                      /\ i \in Due(mem') => i \in Due(mem)
                      /\ mem'[i].here => mem[i].here
                      /\ i # flush.cur /\ i \in Due(mem) => i \in Due(mem')
  BY <1>2, <1>3 DEF Scheduled, Due
<1>5. tick.cur = NoJob /\ tick.todo = {}
  BY <1>2 DEF CronInv, LockInv
<1>6. /\ flush' \in FlushType
      /\ flush'.cur = NoJob => flush' = NoFlush
      /\ \A i \in Jobs : flush.todo[i] > 0 => i = flush'.cur \/ flush'.todo[i] > 0
  <2>1. \A i \in Jobs : flush.todo[i] \in 0..MaxDeferred
    BY <1>1 DEF TypeOK, Counts
  <2>2. ASSUME NEW j \in Jobs, Next1(j)
        PROVE  /\ flush' \in FlushType
               /\ flush'.cur # NoJob
               /\ \A i \in Jobs : flush.todo[i] > 0 => i = flush'.cur \/ flush'.todo[i] > 0
    <3>1. flush.todo[j] - 1 \in 0..MaxDeferred
      BY <2>1, <2>2, ConstantsAssumption
    <3>2. [flush.todo EXCEPT ![j] = @ - 1] \in Counts
      BY <1>1, <3>1 DEF FlushType, Counts
    <3>3. flush' = [todo |-> [flush.todo EXCEPT ![j] = @ - 1], cur |-> j, host |-> flush.host]
      BY <1>1, <2>2 DEF FlushType
    <3>4. \A i \in Jobs : i # j => flush'.todo[i] = flush.todo[i]
      BY <1>1, <3>3 DEF FlushType, Counts
    <3> QED BY <1>1, <3>2, <3>3, <3>4, ConstantsAssumption DEF FlushType
  <2>3. CASE Last
    <3>1. [j \in Jobs |-> 0] \in Counts
      BY ConstantsAssumption DEF Counts
    <3>2. NoFlush \in FlushType
      BY <3>1 DEF NoFlush, FlushType
    <3> QED BY <2>3, <3>2
  <2> QED BY <1>2, <2>2, <2>3
<1>7. disk' \in Stores /\ apart' \in {apart, "no"}
  <2>1. disk \in Stores
    BY <1>1 DEF TypeOK, Stores
  <2>2. CASE \E j \in Jobs : Next1(j)
    BY <2>1, <2>2
  <2>3. CASE Last
    BY <1>3, <2>3
  <2> QED BY <1>2, <2>2, <2>3
<1>8. TypeOK'
  BY <1>1, <1>2, <1>3, <1>6, <1>7 DEF TypeOK, Stores, FlushType
<1>9. NoEdit' /\ LockInv' /\ TickInv' /\ TodoInv'
  BY <1>2, <1>5, <1>6, <1>7, ConstantsAssumption
     DEF NoEdit, Reloads, LockInv, TickInv, TodoInv, CronInv, TypeOK
<1>10. Known' /\ IdleInv' /\ RanInv'
  <2>1. \A i \in Jobs : disk'[i].here => i \in added
    BY <1>2, <1>4 DEF Known, CronInv
  <2> QED BY <1>1, <1>2, <1>4, <2>1 DEF Known, IdleInv, RanInv, CronInv, TypeOK
<1>11. TimerCovers'
  BY <1>2, <1>4 DEF TimerCovers, CronInv, Scheduled
<1>12. DiskIsCurrent'
  <2>1. CASE \E j \in Jobs : Next1(j)
    BY <1>1, <1>2, <2>1, ConstantsAssumption DEF DiskIsCurrent, Locked, FlushType, CronInv
  <2>2. CASE Last
    BY <1>2, <2>2 DEF DiskIsCurrent, CronInv
  <2> QED BY <1>2, <2>1, <2>2
<1>13. NoGhostRun' /\ RepeatsOnlyIfCut'
  BY <1>2 DEF NoGhostRun, RepeatsOnlyIfCut, CronInv
<1>14. OneShotKept'
  <2> SUFFICES ASSUME edits = 0, stops = 0, NEW i \in owed', i \notin Due(mem')
               PROVE  deferred[i] > 0 \/ i = flush'.cur \/ flush'.todo[i] > 0
    BY <1>2 DEF OneShotKept
  <2>1. i \in owed /\ i # flush.cur /\ i \in Jobs /\ i # NoJob
    BY <1>1, <1>2, ConstantsAssumption DEF TypeOK
  <2>2. i \notin Due(mem) /\ i # tick.cur
    BY <1>4, <1>5, <2>1
  <2> QED BY <1>6, <2>1, <2>2 DEF OneShotKept, CronInv
<1> QED BY <1>8, <1>9, <1>10, <1>11, <1>12, <1>13, <1>14 DEF CronInv

\* The calls that only load the store: a reload makes the objects that a tick
\* holds stale.
LEMMA ReadKeeps ==
  ASSUME CronInv, ReadJobs \/ \E j \in Jobs : RunJobBegins(j) \/ UpdateRefused(j)
  PROVE  CronInv'
<1>1. TypeOK /\ tick \in TickType /\ manual \in ManualType
  BY DEF CronInv, TypeOK, TickType, ManualType
<1>2. /\ mem' = Loaded /\ tick' = [tick EXCEPT !.stale = Stale(tick)] /\ lost' = lost \cup TakenBack
      /\ UNCHANGED <<disk, added, past, running, alarm, covers, flush, deferred, reentered,
                     stops, edits, started, cut, repeats, ghosts, owed>>
  BY DEF ReadJobs, RunJobBegins, UpdateRefused, Load, seen
<1>3. apart' \in {"no", "payload", "mtime"} /\ (apart' = "mtime" <=> apart = "mtime")
  BY <1>1 DEF ReadJobs, RunJobBegins, UpdateRefused, Reloads, TypeOK
<1>4. /\ Loaded \in Stores /\ (~Reloads => Loaded = mem /\ TakenBack = {})
      /\ TakenBack \subseteq Jobs
      /\ started \cap Due(Loaded) \subseteq Due(mem) \cup TakenBack
      /\ \A i \in Jobs : Loaded[i].here => i \in added
      /\ edits = 0 /\ (running \/ stops = 0) => ~Reloads
  BY LoadedFacts
<1>5. /\ tick'.cur = tick.cur /\ tick'.todo = tick.todo /\ tick' \in TickType
      /\ tick'.stale = (tick.cur # NoJob /\ (tick.stale \/ Reloads))
  BY <1>1, <1>2 DEF TickType, Stale, Reloads
<1>6. manual' \in ManualType /\ (edits = 0 /\ stops = 0 => ~manual'.stale)
  <2>1. CASE ReadJobs \/ \E j \in Jobs : UpdateRefused(j)
    <3>1. manual' = [manual EXCEPT !.stale = Stale(manual)]
      BY <2>1 DEF ReadJobs, UpdateRefused
    <3> QED BY <1>1, <1>4, <3>1 DEF ManualType, Stale, Reloads, CronInv, NoEdit
  <2>2. CASE \E j \in Jobs : RunJobBegins(j)
    BY <2>2 DEF RunJobBegins, ManualType
  <2> QED BY <2>1, <2>2
<1>7. TypeOK'
  BY <1>1, <1>2, <1>3, <1>4, <1>5, <1>6 DEF TypeOK, Stores, TickType, ManualType
<1>8. NoEdit' /\ LockInv' /\ TodoInv'
  BY <1>2, <1>3, <1>4, <1>5, <1>6 DEF NoEdit, Reloads, LockInv, TodoInv, CronInv
<1>9. TickInv'
  <2>1. CASE tick.cur = NoJob
    BY <1>5, <2>1, ConstantsAssumption DEF TickInv, LockInv, CronInv
  <2>2. CASE tick.cur # NoJob
    BY <1>2, <1>4, <1>5, <2>2 DEF TickInv, CronInv
  <2> QED BY <2>1, <2>2
<1>10. RanInv'
  BY <1>1, <1>2, <1>4, <1>5 DEF RanInv, CronInv, TypeOK
<1>11. Known' /\ IdleInv'
  BY <1>2, <1>4 DEF Known, IdleInv, CronInv
<1>12. TimerCovers' /\ NoGhostRun' /\ RepeatsOnlyIfCut' /\ OneShotKept'
  BY <1>2, <1>4, <1>5 DEF TimerCovers, NoGhostRun, RepeatsOnlyIfCut, OneShotKept, CronInv
<1>13. DiskIsCurrent'
  BY <1>2, <1>3, <1>4, <1>5 DEF DiskIsCurrent, Reloads, Locked, CronInv
<1> QED BY <1>7, <1>8, <1>9, <1>10, <1>11, <1>12, <1>13 DEF CronInv

\* A flush that waits for its own caller's lock changes nothing else.
LEMMA ReenterKeeps == CronInv /\ Reenter => CronInv'
<1> SUFFICES ASSUME CronInv, Reenter PROVE CronInv'
  OBVIOUS
<1>1. /\ reentered' = TRUE
      /\ UNCHANGED <<mem, disk, apart, added, past, running, alarm, covers, tick, flush, deferred,
                     manual, stops, edits, started, cut, lost, repeats, ghosts, owed>>
  BY DEF Reenter, files, observed, seen
<1>2. TypeOK'
  BY <1>1 DEF TypeOK, CronInv
<1>3. NoEdit' /\ LockInv' /\ TickInv' /\ TodoInv' /\ Known' /\ RanInv' /\ IdleInv'
  BY <1>1 DEF NoEdit, Reloads, LockInv, TickInv, TodoInv, Known, RanInv, IdleInv, CronInv
<1>4. TimerCovers' /\ DiskIsCurrent' /\ NoGhostRun' /\ RepeatsOnlyIfCut' /\ OneShotKept'
  BY <1>1 DEF TimerCovers, DiskIsCurrent, Reloads, Locked, NoGhostRun, RepeatsOnlyIfCut,
              OneShotKept, CronInv
<1> QED BY <1>2, <1>3, <1>4 DEF CronInv

\* start recomputes every enabled job's next run: nothing is due.
LEMMA StartKeeps == CronInv /\ Start => CronInv'
<1> SUFFICES ASSUME CronInv, Start PROVE CronInv'
  OBVIOUS
<1>1. TypeOK /\ manual \in ManualType
  BY DEF CronInv, TypeOK, ManualType
<1>2. /\ Loaded \in Stores /\ (~Reloads => Loaded = mem /\ TakenBack = {})
      /\ TakenBack \subseteq Jobs /\ (edits = 0 /\ stops = 0 => ~Reloads)
      /\ \A i \in Jobs : Loaded[i].here => i \in added
  BY LoadedFacts
<1>3. /\ ~running /\ running' = TRUE /\ disk' = mem' /\ apart' = "no" /\ Arm(mem', TRUE)
      /\ mem' = [j \in Jobs |-> IF Loaded[j].enabled
                                THEN [Loaded[j] EXCEPT !.next = NextRun(j)] ELSE Loaded[j]]
      /\ manual' = [manual EXCEPT !.stale = Stale(manual)] /\ lost' = lost \cup TakenBack
      /\ UNCHANGED <<added, past, tick, flush, deferred, reentered, stops, edits,
                     started, cut, repeats, ghosts, owed>>
  BY DEF Start, Save, seen
<1>4. mem' \in Stores /\ Due(mem') = {} /\ \A j \in Jobs : mem'[j].here => Loaded[j].here
  <2>1. ASSUME NEW j \in Jobs
        PROVE  /\ mem'[j] \in JobState /\ (mem'[j].here => Loaded[j].here)
               /\ ~(mem'[j].enabled /\ mem'[j].next = "due")
    <3>1. /\ Loaded[j] \in JobState
          /\ Loaded[j].enabled => Loaded[j] \in
               [here : {TRUE}, enabled : BOOLEAN, next : {"none", "future", "due"}, wake : Wakes]
      BY <1>2, StoreFacts
    <3>2. CASE Loaded[j].enabled
      BY <1>3, <3>1, <3>2 DEF JobState, NextRun
    <3>3. CASE ~Loaded[j].enabled
      BY <1>3, <3>1, <3>3
    <3> QED BY <3>2, <3>3
  <2> QED BY <1>3, <2>1 DEF Stores, Due, Scheduled
<1>5. /\ alarm' \in {"off", "set", "rung"} /\ covers' \subseteq Jobs
      /\ \A j \in Scheduled(mem') :
            IF mem'[j].next = "due" THEN alarm' = "rung"
            ELSE alarm' = "rung" \/ (alarm' = "set" /\ j \in covers')
  BY <1>3, <1>4, ArmFacts
<1>6. manual' \in ManualType /\ (edits = 0 /\ stops = 0 => ~manual'.stale)
  BY <1>1, <1>2, <1>3 DEF ManualType, Stale, CronInv, NoEdit
<1>7. tick.cur = NoJob /\ tick.todo = {}
  BY <1>3 DEF CronInv, LockInv
<1>8. TypeOK'
  BY <1>1, <1>2, <1>3, <1>4, <1>5, <1>6 DEF TypeOK, Stores, ManualType
<1>9. NoEdit' /\ LockInv' /\ TickInv' /\ TodoInv'
  BY <1>3, <1>6, <1>7, ConstantsAssumption
     DEF NoEdit, Reloads, LockInv, TickInv, TodoInv, CronInv
<1>10. Known' /\ RanInv' /\ IdleInv'
  BY <1>2, <1>3, <1>4 DEF Known, RanInv, IdleInv, CronInv
<1>11. TimerCovers' /\ DiskIsCurrent' /\ NoGhostRun' /\ RepeatsOnlyIfCut'
  BY <1>2, <1>3, <1>5 DEF TimerCovers, DiskIsCurrent, NoGhostRun, RepeatsOnlyIfCut, CronInv
<1>12. OneShotKept'
  BY <1>3 DEF OneShotKept, IdleInv, CronInv
<1> QED BY <1>8, <1>9, <1>10, <1>11, <1>12 DEF CronInv

\* A stop or a crash counts in stops, and leaves the service not running.
LEMMA StopKeeps == CronInv /\ (Stop \/ Crash) => CronInv'
<1> SUFFICES ASSUME CronInv, Stop \/ Crash PROVE CronInv'
  OBVIOUS
<1>1. TypeOK
  BY DEF CronInv
<1>2. /\ stops < MaxStops /\ stops' = stops + 1 /\ running' = FALSE /\ alarm' = "off"
      /\ tick' = NoTick /\ flush' \in {flush, NoFlush} /\ cut' = cut \cup ({tick.cur} \cap Jobs)
      /\ reentered' \in BOOLEAN /\ covers' \subseteq Jobs
      /\ mem' \in {mem, disk} /\ apart' \in {apart, "mtime"}
      /\ manual' \in {manual, NoManual} /\ deferred' \in {deferred, [j \in Jobs |-> 0]}
      /\ UNCHANGED <<disk, added, past, edits, started, lost, repeats, ghosts, owed>>
  BY <1>1 DEF Stop, Crash, files, seen, TypeOK
<1>3. NoTick \in TickType /\ NoTick.todo = {} /\ NoTick.cur = NoJob /\ ~NoTick.stale
  BY DEF NoTick, TickType
<1>4. [j \in Jobs |-> 0] \in Counts
  BY ConstantsAssumption DEF Counts
<1>5. NoFlush \in FlushType
  BY <1>4 DEF NoFlush, FlushType
<1>6. NoManual \in ManualType
  BY DEF NoManual, ManualType
<1>7. stops' \in 0..MaxStops /\ stops' # 0
  BY <1>1, <1>2, ConstantsAssumption DEF TypeOK
<1>8. TypeOK'
  BY <1>1, <1>2, <1>3, <1>4, <1>5, <1>6, <1>7 DEF TypeOK, TickType, FlushType, ManualType
<1>9. NoEdit'
  BY <1>2, <1>3, <1>7 DEF NoEdit
<1>10. LockInv' /\ TickInv' /\ TodoInv'
  BY <1>2, <1>3, ConstantsAssumption DEF LockInv, TickInv, TodoInv, CronInv, NoFlush
<1>11. Known' /\ RanInv' /\ IdleInv'
  BY <1>2, <1>7 DEF Known, RanInv, IdleInv, CronInv
<1>12. TimerCovers' /\ DiskIsCurrent' /\ NoGhostRun' /\ RepeatsOnlyIfCut' /\ OneShotKept'
  BY <1>2, <1>7 DEF TimerCovers, DiskIsCurrent, NoGhostRun, RepeatsOnlyIfCut, OneShotKept, CronInv
<1> QED BY <1>8, <1>9, <1>10, <1>11, <1>12 DEF CronInv

\* After an outside edit every load reads the file, until the next save.
LEMMA EditKeeps == CronInv /\ (\E j \in Jobs : Edit(j)) => CronInv'
<1> SUFFICES ASSUME CronInv, NEW j \in Jobs, Edit(j) PROVE CronInv'
  OBVIOUS
<1>1. TypeOK
  BY DEF CronInv
<1>2. /\ edits < MaxEdits /\ edits' = edits + 1 /\ disk[j].here /\ apart' = "mtime"
      /\ disk' = [disk EXCEPT ![j].enabled = ~@]
      /\ UNCHANGED <<mem, added, past, running, alarm, covers, tick, flush, deferred, manual,
                     reentered, stops, started, cut, lost, repeats, ghosts, owed>>
  BY DEF Edit, exec, observed, seen
<1>3. edits' \in 0..MaxEdits /\ edits' # 0
  BY <1>1, <1>2, ConstantsAssumption DEF TypeOK
<1>4. disk' \in Stores /\ \A i \in Jobs : disk'[i].here = disk[i].here
  <2>1. disk \in Stores
    BY <1>1 DEF TypeOK, Stores
  <2>2. disk[j] \in
          [here : {TRUE}, enabled : BOOLEAN, next : {"none", "future", "due"}, wake : Wakes]
    BY <1>2, <2>1, StoreFacts
  <2>3. [disk[j] EXCEPT !.enabled = ~@] \in JobState /\ [disk[j] EXCEPT !.enabled = ~@].here
    BY <2>2 DEF JobState
  <2>4. disk' = [disk EXCEPT ![j] = [disk[j] EXCEPT !.enabled = ~@]]
    BY <1>2, <2>1 DEF Stores
  <2> QED BY <1>2, <2>1, <2>3, <2>4 DEF Stores
<1>5. TypeOK'
  BY <1>1, <1>2, <1>3, <1>4 DEF TypeOK, Stores
<1>6. NoEdit' /\ LockInv' /\ TickInv' /\ TodoInv' /\ Known' /\ RanInv' /\ IdleInv'
  BY <1>2, <1>3, <1>4 DEF NoEdit, LockInv, TickInv, TodoInv, Known, RanInv, IdleInv, CronInv
<1>7. TimerCovers' /\ DiskIsCurrent' /\ NoGhostRun' /\ RepeatsOnlyIfCut' /\ OneShotKept'
  BY <1>2, <1>3 DEF TimerCovers, DiskIsCurrent, Reloads, NoGhostRun, RepeatsOnlyIfCut, OneShotKept,
                    CronInv
<1> QED BY <1>5, <1>6, <1>7 DEF CronInv

Reached(store, j) == IF store[j].next = "future" THEN [store EXCEPT ![j].next = "due"] ELSE store

\* The clock makes the run of j due and changes nothing else.
LEMMA ReachedFacts ==
  ASSUME NEW store \in Stores, NEW j \in Jobs
  PROVE  /\ Reached(store, j) \in Stores
         /\ \A i \in Jobs : i # j => Reached(store, j)[i] = store[i]
         /\ Reached(store, j)[j].here = store[j].here
         /\ Reached(store, j)[j].enabled = store[j].enabled
         /\ Reached(store, j)[j].next # "future"
         /\ Reached(store, j)[j].next = "none" <=> store[j].next = "none"
         /\ store[j].next = "due" => Reached(store, j)[j].next = "due"
<1>1. CASE store[j].next # "future"
  BY <1>1 DEF Reached
<1>2. CASE store[j].next = "future"
  <2>1. store[j] \in
          [here : {TRUE}, enabled : BOOLEAN, next : {"none", "future", "due"}, wake : Wakes]
    BY <1>2, StoreFacts
  <2> DEFINE new == [store[j] EXCEPT !.next = "due"]
  <2>2. /\ new \in JobState /\ new.here = store[j].here /\ new.enabled = store[j].enabled
        /\ new.next = "due"
    BY <2>1 DEF JobState
  <2>3. Reached(store, j) = [store EXCEPT ![j] = new]
    BY <1>2 DEF Reached, Stores
  <2> HIDE DEF new
  <2> QED BY <1>2, <2>2, <2>3 DEF Stores
<1> QED BY <1>1, <1>2

\* Time makes jobs due for which the timer was armed.
LEMMA ClockKeeps == CronInv /\ (\E j \in Jobs : Clock(j)) => CronInv'
<1> SUFFICES ASSUME CronInv, NEW d \in Jobs, Clock(d) PROVE CronInv'
  OBVIOUS
<1>1. TypeOK /\ mem \in Stores /\ disk \in Stores
  BY DEF CronInv, TypeOK, Stores
<1>2. /\ mem' = Reached(mem, d) /\ disk' = Reached(disk, d)
      /\ past' = past \cup ({d} \cap OneShots)
      /\ alarm' = IF alarm = "set" /\ d \in covers THEN "rung" ELSE alarm
      /\ owed' = IF d \in OneShots \cap Scheduled(mem) /\ running THEN owed \cup {d} ELSE owed
      /\ started' = started \ {d} /\ cut' = cut \ {d} /\ lost' = lost \ {d}
      /\ repeats' = repeats \ {d}
      /\ UNCHANGED <<apart, added, running, covers, tick, flush, deferred, manual, reentered,
                     stops, edits, ghosts>>
  BY DEF Clock, Reached, exec
<1>3. /\ mem' \in Stores /\ disk' \in Stores
      /\ \A j \in Jobs : /\ mem'[j].here = mem[j].here /\ disk'[j].here = disk[j].here
                         /\ mem'[j].enabled = mem[j].enabled
                         /\ j # d => mem'[j] = mem[j]
                         /\ j = d => mem'[j].next # "future"
                         /\ mem'[j].next = "none" <=> mem[j].next = "none"
                         /\ mem[j].next = "due" => mem'[j].next = "due"
  BY <1>1, <1>2, ReachedFacts
<1>4. /\ Scheduled(mem') = Scheduled(mem) /\ Due(mem) \subseteq Due(mem')
      /\ \A j \in Jobs : j # d /\ j \in Due(mem') => j \in Due(mem)
      /\ d \in Scheduled(mem) => d \in Due(mem')
  <2>1. Scheduled(mem') = Scheduled(mem)
    BY <1>3 DEF Scheduled
  <2>2. mem'[d] \in JobState
    BY <1>3 DEF Stores
  <2>3. mem'[d].next \in {"none", "due"}
    <3>1. mem'[d].next \in {"none", "future", "due"}
      <4>1. CASE mem'[d] = Absent
        BY <4>1 DEF Absent
      <4>2. CASE mem'[d] # Absent
        BY <2>2, <4>2 DEF JobState
      <4> QED BY <4>1, <4>2
    <3> QED BY <1>3, <3>1
  <2>4. d \in Scheduled(mem) => d \in Due(mem')
    BY <1>3, <2>1, <2>3 DEF Due, Scheduled
  <2> QED BY <1>3, <2>1, <2>4 DEF Due, Scheduled
<1>5. TypeOK'
  BY <1>1, <1>2, <1>3, ConstantsAssumption DEF TypeOK, Stores
<1>6. NoEdit' /\ LockInv' /\ TickInv' /\ TodoInv'
  BY <1>2, <1>4 DEF NoEdit, Reloads, LockInv, TickInv, TodoInv, CronInv
<1>7. Known' /\ IdleInv'
  <2>1. \A j \in Scheduled(mem) : j \in added
    BY DEF CronInv, Known, Scheduled
  <2> QED BY <1>2, <1>3, <2>1 DEF Known, IdleInv, CronInv
<1>8. RanInv'
  BY <1>1, <1>2, <1>4 DEF RanInv, CronInv, TypeOK
<1>9. TimerCovers'
  <2> SUFFICES ASSUME running, edits = 0, tick.cur = NoJob, NEW j \in Scheduled(mem)
               PROVE  IF mem'[j].next = "due" THEN alarm' = "rung"
                      ELSE alarm' = "rung" \/ (alarm' = "set" /\ j \in covers')
    BY <1>2, <1>4 DEF TimerCovers
  <2>1. /\ j \in Jobs
        /\ IF mem[j].next = "due" THEN alarm = "rung"
           ELSE alarm = "rung" \/ (alarm = "set" /\ j \in covers)
    BY DEF TimerCovers, CronInv, Scheduled
  <2>2. CASE j = d
    BY <1>2, <1>3, <2>1, <2>2
  <2>3. CASE j # d
    BY <1>2, <1>3, <2>1, <2>3
  <2> QED BY <2>2, <2>3
<1>10. DiskIsCurrent'
  BY <1>2 DEF DiskIsCurrent, Reloads, Locked, CronInv
<1>11. NoGhostRun' /\ RepeatsOnlyIfCut'
  BY <1>2 DEF NoGhostRun, RepeatsOnlyIfCut, CronInv
<1>12. OneShotKept'
  BY <1>2, <1>4, ConstantsAssumption DEF OneShotKept, CronInv
<1> QED BY <1>5, <1>6, <1>7, <1>8, <1>9, <1>10, <1>11, <1>12 DEF CronInv

-----------------------------------------------------------------------------
(* The theorems *)

\* Every step of the program preserves the invariant.
THEOREM CronStep == CronInv /\ [Next]_vars => CronInv'
<1> SUFFICES ASSUME CronInv, [Next]_vars PROVE CronInv'
  OBVIOUS
<1>1. CASE Tick
  BY <1>1, TickWorks, TickKeeps DEF Tick
<1>2. CASE Api
  <2>1. CASE (\E j \in Jobs : ApiCall(j)) \/ RunJobContinues
    BY <2>1, ApiWorks, ApiKeeps
  <2>2. CASE ReadJobs \/ \E j \in Jobs : RunJobBegins(j) \/ UpdateRefused(j)
    BY <2>2, ReadKeeps
  <2> QED BY <1>2, <2>1, <2>2 DEF Api, ApiCall
<1>3. CASE Environment
  BY <1>3, ReenterKeeps, StartKeeps, StopKeeps, EditKeeps, ClockKeeps DEF Environment
<1>4. CASE UNCHANGED vars
  <2>1. UNCHANGED <<mem, disk, apart, added, past, running, alarm, covers, tick, flush, deferred,
                    manual, reentered, stops, edits, started, cut, lost, repeats, ghosts, owed>>
    BY <1>4 DEF vars, files, exec, observed, seen
  <2>2. TypeOK'
    BY <2>1 DEF TypeOK, CronInv
  <2>3. NoEdit' /\ LockInv' /\ TickInv' /\ TodoInv' /\ Known' /\ RanInv' /\ IdleInv'
    BY <2>1 DEF NoEdit, Reloads, LockInv, TickInv, TodoInv, Known, RanInv, IdleInv, CronInv
  <2>4. TimerCovers' /\ DiskIsCurrent' /\ NoGhostRun' /\ RepeatsOnlyIfCut' /\ OneShotKept'
    BY <2>1 DEF TimerCovers, DiskIsCurrent, Reloads, Locked, NoGhostRun, RepeatsOnlyIfCut,
                OneShotKept, CronInv
  <2> QED BY <2>2, <2>3, <2>4 DEF CronInv
<1> QED BY <1>1, <1>2, <1>3, <1>4, FlushBeginsKeeps, FlushContinuesKeeps DEF Next

\* CronInv is an invariant of the program.
THEOREM CronSafety == Spec => []CronInv
BY CronInit, CronStep, PTL DEF Spec

\* Every variable keeps its type; the queue of deferred runs stays in bounds.
THEOREM CronTypes == Spec => []TypeOK
<1>1. CronInv => TypeOK
  BY DEF CronInv
<1> QED BY <1>1, CronSafety, PTL

\* No lost wakeup: every path that changes a next run leaves a timer that will
\* ring for it.
THEOREM TimerCoversAll == Spec => []TimerCovers
<1>1. CronInv => TimerCovers
  BY DEF CronInv
<1> QED BY <1>1, CronSafety, PTL

\* Between ticks and flushes, what is in memory is in cron.json, unless
\* somebody else wrote the file last; and without such an edit, or a stop, no
\* run is lost to a reload.
THEOREM DiskKeepsUp == Spec => []DiskIsCurrent
<1>1. CronInv => DiskIsCurrent
  BY DEF CronInv
<1> QED BY <1>1, CronSafety, PTL

\* A job removed or disabled while a tick is under way is never started by it.
THEOREM NoGhosts == Spec => []NoGhostRun
<1>1. CronInv => NoGhostRun
  BY DEF CronInv
<1> QED BY <1>1, CronSafety, PTL

\* A scheduled run is started again only after an attempt that was cut, or one
\* whose effect a reload took back.
THEOREM OnceUnlessCut == Spec => []RepeatsOnlyIfCut
<1>1. CronInv => RepeatsOnlyIfCut
  BY DEF CronInv
<1> QED BY <1>1, CronSafety, PTL

\* A one-time job that fell due stays due, deferred or in somebody's hands.
THEOREM OneShotsKept == Spec => []OneShotKept
<1>1. CronInv => OneShotKept
  BY DEF CronInv
<1> QED BY <1>1, CronSafety, PTL
=============================================================================
