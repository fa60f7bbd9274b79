---------------------------- MODULE Host_proofs -----------------------------
(***************************************************************************)
(* Proofs about the application around the agent, the heartbeat, the       *)
(* dispatcher, the GitHub run, the cron tool, the skills and the terminals, *)
(* and about the two providers it talks to.                                 *)
(***************************************************************************)
EXTENDS Heartbeat, Gateway, GitHubRun, CronTool, Skills, Terminals, OpenAIProvider,
        LiteLLMProvider, Tools_proofs

-----------------------------------------------------------------------------
(* The heartbeat *)

Beats == [at : {"none", "asleep", "deciding", "executing", "over"}, cut : BOOLEAN, read : Nat]

HeartbeatTypes ==
  /\ beatOn \in BOOLEAN /\ beatTask \in Loops \cup {0}
  /\ beats \in [Loops \cup Triggers -> Beats]
  /\ served \in Nat /\ again \in BOOLEAN /\ tasksFile \in BOOLEAN

\* While a loop decides or executes and no trigger was made, nobody else serves
\* what it read.
ReadIsFresh ==
  (\A t \in Triggers : beats[t].at = "none") =>
     \A i \in Loops : beats[i].at = "deciding" /\ ~beats[i].cut => beats[i].read = served

\* Without the mark "running" no loop is held; a loop that goes on is the one held;
\* a loop that was not started is not cut.
HeldInv ==
  /\ ~beatOn => beatTask = 0
  /\ beatTask # 0 => beats[beatTask].at # "none"
  /\ \A i \in Loops : beats[i].cut => beats[i].at # "none"

HeartbeatInv == HeartbeatTypes /\ HeldInv /\ OneLoop /\ ReadIsFresh /\ AgainOnlyIfTriggered

\* The numbers of the loops and the triggers.
LEMMA LoopsAndTriggers ==
  Loops \cap Triggers = {} /\ 0 \notin Loops /\ Loops \subseteq Nat
BY HeartbeatAssumption DEF Loops, Triggers

\* It holds at the start.
LEMMA HeartbeatStarts == HeartbeatInit => HeartbeatInv
<1> SUFFICES ASSUME HeartbeatInit PROVE HeartbeatInv
  OBVIOUS
<1>1. NoBeat \in Beats /\ NoBeat.at = "none" /\ ~NoBeat.cut
  BY DEF NoBeat, Beats
<1>2. beats \in [Loops \cup Triggers -> Beats] /\ \A i \in Loops \cup Triggers : beats[i] = NoBeat
  BY <1>1 DEF HeartbeatInit
<1>3. HeartbeatTypes
  BY <1>2 DEF HeartbeatInit, HeartbeatTypes
<1>4. HeldInv /\ OneLoop /\ ReadIsFresh /\ AgainOnlyIfTriggered
  BY <1>1, <1>2 DEF HeartbeatInit, HeldInv, OneLoop, ReadIsFresh, AgainOnlyIfTriggered
<1> QED BY <1>3, <1>4 DEF HeartbeatInv

\* A step of a beat keeps it.
LEMMA BeatKeeps ==
  ASSUME HeartbeatInv, NEW i \in Loops \cup Triggers, BeatStep(i)
  PROVE  HeartbeatInv'
<1>1. HeartbeatTypes /\ HeldInv /\ OneLoop /\ ReadIsFresh /\ AgainOnlyIfTriggered
  BY DEF HeartbeatInv
<1>2. UNCHANGED <<beatOn, beatTask>>
  BY DEF BeatStep, LoopBreaks, ReadsTasks, Skips, Executes, Served, ExecuteFails
<1>3. /\ beats' \in [Loops \cup Triggers -> Beats]
      /\ \A j \in Loops \cup Triggers : j # i => beats'[j] = beats[j]
      /\ beats'[i].cut = beats[i].cut
      /\ beats[i].at \notin {"none", "over"} \/ i \in Triggers \/ beats[i].cut
      /\ beats'[i].at # "none"
  <2>1. Rests(i) \in {"asleep", "over"}
    BY DEF Rests
  <2> QED BY <1>1, <2>1, LoopsAndTriggers DEF HeartbeatTypes, HeldInv, BeatStep, LoopBreaks, ReadsTasks, Skips,
             Executes, Served, ExecuteFails, Beat, Beats
<1>4. HeartbeatTypes'
  <2>1. served' \in Nat /\ again' \in BOOLEAN /\ tasksFile' \in BOOLEAN
    <3>1. CASE Executes(i)
      <4>1. again' \in BOOLEAN
        BY <3>1 DEF Executes
      <4> QED BY <1>1, <3>1, <4>1 DEF HeartbeatTypes, Executes
    <3>2. CASE Served(i)
      BY <1>1, <3>2 DEF HeartbeatTypes, Served
    <3>3. CASE LoopBreaks(i) \/ ReadsTasks(i) \/ Skips(i) \/ ExecuteFails(i)
      BY <1>1, <3>3 DEF HeartbeatTypes, LoopBreaks, ReadsTasks, Skips, ExecuteFails
    <3> QED BY <3>1, <3>2, <3>3 DEF BeatStep
  <2> QED BY <1>1, <1>2, <1>3, <2>1 DEF HeartbeatTypes
<1>5. HeldInv' /\ OneLoop'
  <2>1. \A j \in Loops \cup Triggers : beats[j].at # "none" => beats'[j].at # "none"
    BY <1>3
  <2>2. \A j \in Loops \cup Triggers : beats'[j].cut <=> beats[j].cut
    BY <1>3
  <2>3. beatTask \in Loops \cup {0}
    BY <1>1 DEF HeartbeatTypes
  <2>4. HeldInv'
    BY <1>1, <1>2, <2>1, <2>2, <2>3 DEF HeldInv
  <2>5. \A j \in Loops : beats'[j].at \notin {"none", "over"} /\ ~beats'[j].cut
                          => beats[j].at \notin {"none", "over"} /\ ~beats[j].cut
    BY <1>3, LoopsAndTriggers
  <2>6. OneLoop'
    BY <1>1, <1>2, <2>5 DEF OneLoop
  <2> QED BY <2>4, <2>6
<1>6. CASE i \in Triggers
  BY <1>3, <1>4, <1>5, <1>6 DEF HeartbeatInv, ReadIsFresh, AgainOnlyIfTriggered
<1>7. CASE i \in Loops /\ \E t \in Triggers : beats[t].at # "none"
  <2>1. \E t \in Triggers : beats'[t].at # "none"
    BY <1>3, <1>7, LoopsAndTriggers
  <2> QED BY <1>4, <1>5, <2>1 DEF HeartbeatInv, ReadIsFresh, AgainOnlyIfTriggered
<1>8. CASE i \in Loops /\ \A t \in Triggers : beats[t].at = "none"
  <2>1. ~again /\ \A t \in Triggers : beats'[t].at = "none"
    BY <1>1, <1>3, <1>8, LoopsAndTriggers DEF AgainOnlyIfTriggered
  <2>2. beats[i].at = "deciding" /\ ~beats[i].cut => beats[i].read = served
    BY <1>1, <1>8 DEF ReadIsFresh
  <2>3. ~again'
    BY <2>1, <2>2 DEF BeatStep, LoopBreaks, ReadsTasks, Skips, Executes, Served, ExecuteFails
  <2>4. ASSUME NEW j \in Loops, beats'[j].at = "deciding", ~beats'[j].cut
        PROVE  beats'[j].read = served'
    <3>1. CASE j = i
      BY <1>1, <1>3, <2>4, <3>1 DEF BeatStep, LoopBreaks, ReadsTasks, Skips, Executes, Served,
         ExecuteFails, Beat, Rests, HeartbeatTypes, Beats
    <3>2. CASE j # i
      <4>1. beats[j].at = "deciding" /\ ~beats[j].cut /\ beats[j].read = served
            /\ beats'[j].read = beats[j].read
        BY <1>1, <1>3, <1>8, <2>4, <3>2 DEF ReadIsFresh
      <4>2. beatTask = j
        BY <1>1, <4>1 DEF OneLoop
      <4>3. ~Served(i)
        BY <1>1, <1>8, <3>2, <4>2 DEF OneLoop, Served
      <4> QED BY <4>1, <4>3 DEF BeatStep, LoopBreaks, ReadsTasks, Skips, Executes, ExecuteFails
    <3> QED BY <3>1, <3>2
  <2> QED BY <1>4, <1>5, <2>3, <2>4 DEF HeartbeatInv, ReadIsFresh, AgainOnlyIfTriggered
<1> QED BY <1>6, <1>7, <1>8

\* Every step keeps it.
LEMMA HeartbeatKeeps == HeartbeatInv /\ [HeartbeatNext]_beatVars => HeartbeatInv'
<1> SUFFICES ASSUME HeartbeatInv, [HeartbeatNext]_beatVars PROVE HeartbeatInv'
  OBVIOUS
<1>0. HeartbeatTypes /\ HeldInv /\ OneLoop /\ ReadIsFresh /\ AgainOnlyIfTriggered
  BY DEF HeartbeatInv
<1>1. CASE StartBeat
  <2>1. PICK i \in Loops :
          /\ beats[i].at = "none" /\ ~beatOn /\ beatOn' = TRUE /\ beatTask' = i
          /\ beats' = [beats EXCEPT ![i].at = "asleep"] /\ UNCHANGED <<tasksFile, served, again>>
    BY <1>1 DEF StartBeat, MayStart
  <2>2. /\ beats' \in [Loops \cup Triggers -> Beats] /\ beats'[i].at = "asleep"
        /\ \A j \in Loops \cup Triggers : beats'[j].cut = beats[j].cut /\ beats'[j].read = beats[j].read
        /\ \A j \in Loops \cup Triggers : j # i => beats'[j] = beats[j]
    BY <1>0, <2>1 DEF HeartbeatTypes, Beats
  <2>3. HeartbeatTypes' /\ HeldInv'
    BY <1>0, <2>1, <2>2 DEF HeartbeatTypes, HeldInv
  <2>4. OneLoop'
    BY <1>0, <2>1, <2>2, LoopsAndTriggers DEF OneLoop, HeldInv
  <2>5. \A t \in Triggers : beats'[t] = beats[t]
    BY <2>1, <2>2, LoopsAndTriggers
  <2>6. ReadIsFresh' /\ AgainOnlyIfTriggered'
    BY <1>0, <2>1, <2>2, <2>5 DEF ReadIsFresh, AgainOnlyIfTriggered
  <2> QED BY <2>3, <2>4, <2>6 DEF HeartbeatInv
<1>2. CASE StopBeat
  <2>1. /\ beatOn /\ beatOn' = FALSE /\ beatTask' = 0 /\ UNCHANGED <<tasksFile, served, again>>
        /\ beats' = IF beatTask = 0 THEN beats ELSE [beats EXCEPT ![beatTask].cut = TRUE]
    BY <1>2 DEF StopBeat
  <2>2. /\ beats' \in [Loops \cup Triggers -> Beats]
        /\ \A j \in Loops \cup Triggers : beats'[j].at = beats[j].at /\ beats'[j].read = beats[j].read
        /\ \A j \in Loops \cup Triggers : j # beatTask => beats'[j].cut = beats[j].cut
        /\ beatTask # 0 => beats'[beatTask].cut
    <3>1. CASE beatTask = 0
      BY <1>0, <2>1, <3>1, LoopsAndTriggers DEF HeartbeatTypes
    <3>2. CASE beatTask # 0
      <4>1. beatTask \in Loops \cup Triggers /\ beats' = [beats EXCEPT ![beatTask].cut = TRUE]
        BY <1>0, <2>1, <3>2 DEF HeartbeatTypes
      <4>2. /\ beats' \in [Loops \cup Triggers -> Beats]
            /\ \A j \in Loops \cup Triggers : j # beatTask => beats'[j] = beats[j]
            /\ beats'[beatTask].at = beats[beatTask].at /\ beats'[beatTask].read = beats[beatTask].read
            /\ beats'[beatTask].cut
        BY <1>0, <4>1 DEF HeartbeatTypes, Beats
      <4> QED BY <4>2
    <3> QED BY <3>1, <3>2
  <2>3. HeartbeatTypes' /\ OneLoop'
    <3>1. HeartbeatTypes'
      BY <1>0, <2>1, <2>2 DEF HeartbeatTypes
    <3>2. ASSUME NEW j \in Loops, beats'[j].at \notin {"none", "over"}, ~beats'[j].cut PROVE FALSE
      <4>1. beats[j].at \notin {"none", "over"} /\ j = beatTask => j # 0
        BY <2>2, <3>2, LoopsAndTriggers
      <4>2. j # beatTask
        BY <2>2, <3>2, <4>1
      <4> QED BY <1>0, <2>2, <3>2, <4>1, <4>2 DEF OneLoop
    <3> QED BY <3>1, <3>2 DEF OneLoop
  <2>4. HeldInv'
    <3>1. beatTask \in Loops => beats[beatTask].at # "none"
      BY <1>0, LoopsAndTriggers DEF HeldInv
    <3> QED BY <1>0, <2>1, <2>2, <3>1 DEF HeldInv
  <2>5. ReadIsFresh' /\ AgainOnlyIfTriggered'
    BY <1>0, <2>1, <2>2 DEF ReadIsFresh, AgainOnlyIfTriggered
  <2> QED BY <2>3, <2>4, <2>5 DEF HeartbeatInv
<1>3. CASE EditTasks \/ UNCHANGED beatVars
  <2>1. UNCHANGED <<beatOn, beatTask, beats, served, again>> /\ tasksFile' \in BOOLEAN
    BY <1>0, <1>3 DEF HeartbeatTypes, EditTasks, beatVars
  <2>2. HeartbeatTypes'
    BY <1>0, <2>1 DEF HeartbeatTypes
  <2>3. HeldInv' /\ OneLoop' /\ ReadIsFresh' /\ AgainOnlyIfTriggered'
    BY <1>0, <2>1 DEF HeldInv, OneLoop, ReadIsFresh, AgainOnlyIfTriggered
  <2> QED BY <2>2, <2>3 DEF HeartbeatInv
<1>4. CASE \E i \in Loops \cup Triggers : BeatStep(i)
  BY <1>4, BeatKeeps
<1> QED BY <1>1, <1>2, <1>3, <1>4 DEF HeartbeatNext

\* What is said of the heartbeat follows.
LEMMA HeartbeatImplies == HeartbeatInv => HeartbeatRight
BY DEF HeartbeatInv, HeartbeatRight

\* One loop of the heartbeat at most goes on, the one that stop would cancel, and what
\* a beat found in the file is executed twice only beside a beat of trigger_now.
THEOREM HeartbeatHolds == HeartbeatSpec => []HeartbeatRight
<1> QED BY HeartbeatImplies, HeartbeatStarts, HeartbeatKeeps, PTL DEF HeartbeatSpec

-----------------------------------------------------------------------------
(* The application's dispatcher *)

Outs == [n : Nat, to : ToSet(GateChannels) \cup {"elsewhere"}, hint : BOOLEAN]

GatewayTypes ==
  /\ outbox \in Seq(Outs) /\ reached \in Seq(Nat)
  /\ dispatch \in [on : {"off", "waiting"}] \cup [on : {"sending"}, msg : Outs]
  /\ unsent \in SUBSET Nat /\ IsFiniteSet(unsent)

\* The messages that were taken off the bus.
Gone == ToSet(reached) \cup unsent \cup InHand

\* What was taken is older than what is on the bus; the message that is being sent is
\* newer than what a channel took and went nowhere yet; the dispatcher runs from
\* the start of run to its end.
DispatchInv ==
  /\ \A k \in Gone : \A i \in DOMAIN outbox : k < outbox[i].n
  /\ \A k \in InHand : k \notin unsent /\ \A i \in DOMAIN reached : reached[i] < k
  /\ gate \in {"new", "cancelled", "down"} => dispatch.on = "off"

GatewayInv == GatewayTypes /\ DispatchInv /\ SentInOrder /\ NothingSkipped

\* The message in hand, and the number of those published.
LEMMA HandFacts ==
  ASSUME GatewayTypes
  PROVE  /\ dispatch.on \in {"off", "waiting", "sending"}
         /\ dispatch.on # "sending" => InHand = {} /\ Cardinality(InHand) = 0
         /\ dispatch.on = "sending" =>
              dispatch.msg \in Outs /\ InHand = {dispatch.msg.n} /\ Cardinality(InHand) = 1
         /\ Cardinality(unsent) \in Nat /\ Len(outbox) \in Nat /\ Len(reached) \in Nat
         /\ Published \in Nat
<1>1. dispatch.on \in {"off", "waiting", "sending"} /\ (dispatch.on = "sending" => dispatch.msg \in Outs)
  BY DEF GatewayTypes
<1>2. dispatch.on # "sending" => InHand = {} /\ Cardinality(InHand) = 0
  BY FS_EmptySet DEF InHand
<1>3. dispatch.on = "sending" => InHand = {dispatch.msg.n} /\ Cardinality(InHand) = 1
  BY FS_Singleton DEF InHand
<1>4. Cardinality(unsent) \in Nat
  BY FS_CardinalityType DEF GatewayTypes
<1>5. Len(outbox) \in Nat /\ Len(reached) \in Nat
  BY LenProperties DEF GatewayTypes
<1>6. Published \in Nat
  BY <1>1, <1>2, <1>3, <1>4, <1>5 DEF Published
<1> QED BY <1>1, <1>2, <1>3, <1>4, <1>5, <1>6

\* A finite set with one number more.
LEMMA AddedOne ==
  ASSUME NEW S, IsFiniteSet(S), NEW x, x \notin S
  PROVE  IsFiniteSet(S \cup {x}) /\ Cardinality(S \cup {x}) = Cardinality(S) + 1
BY FS_AddElement

\* It holds at the start.
LEMMA GatewayStarts == GatewayInit => GatewayInv
<1> SUFFICES ASSUME GatewayInit PROVE GatewayInv
  OBVIOUS
<1>1. /\ gate = "new" /\ outbox = <<>> /\ dispatch = [on |-> "off"] /\ reached = <<>> /\ unsent = {}
      /\ InHand = {}
  BY DEF GatewayInit, InHand
<1>2. GatewayTypes
  BY <1>1, EmptySeq, FS_EmptySet DEF GatewayTypes
<1>3. Published = 0
  BY <1>1, FS_EmptySet DEF Published
<1>4. DOMAIN outbox = {} /\ DOMAIN reached = {} /\ ToSet(outbox) = {} /\ ToSet(reached) = {}
  BY <1>1 DEF ToSet
<1>5. DispatchInv /\ SentInOrder
  BY <1>1, <1>4 DEF DispatchInv, SentInOrder
<1>6. NothingSkipped
  BY <1>1, <1>3, <1>4 DEF NothingSkipped
<1> QED BY <1>2, <1>5, <1>6 DEF GatewayInv

\* Steps that leave the messages alone keep it.
LEMMA MessagesRest ==
  ASSUME GatewayInv, UNCHANGED <<outbox, dispatch, reached, unsent>>,
         gate' \in {"new", "cancelled", "down"} => dispatch.on = "off"
  PROVE  GatewayInv'
<1>1. InHand' = InHand /\ Gone' = Gone /\ Published' = Published
  BY DEF InHand, Gone, Published
<1>2. gate' = "down" => InHand = {}
  BY DEF InHand
<1> QED BY <1>1, <1>2 DEF GatewayInv, GatewayTypes, DispatchInv, SentInOrder, NothingSkipped

\* The dispatcher starts or is cancelled.
LEMMA RunKeeps == ASSUME GatewayInv, RunApp \/ CancelTasks PROVE GatewayInv'
<1>1. GatewayTypes /\ DispatchInv /\ SentInOrder /\ NothingSkipped
  BY DEF GatewayInv
<1>2. CASE RunApp
  <2>1. dispatch.on = "off" /\ dispatch' = [on |-> "waiting"] /\ gate' = "up"
        /\ UNCHANGED <<outbox, reached, unsent>>
    BY <1>1, <1>2 DEF RunApp, DispatchInv
  <2>2. InHand = {} /\ InHand' = {}
    BY <2>1 DEF InHand
  <2>3. Gone' = Gone /\ Published' = Published
    BY <2>1, <2>2 DEF Gone, Published
  <2>4. GatewayTypes'
    BY <1>1, <2>1 DEF GatewayTypes
  <2> QED BY <1>1, <2>1, <2>2, <2>3, <2>4 DEF GatewayInv, DispatchInv, SentInOrder, NothingSkipped
<1>3. CASE CancelTasks
  <2>1. dispatch' = [on |-> "off"] /\ unsent' = unsent \cup InHand /\ gate' = "cancelled"
        /\ UNCHANGED <<outbox, reached>>
    BY <1>3 DEF CancelTasks
  <2>2. InHand' = {} /\ Cardinality(InHand') = 0
    BY <2>1, FS_EmptySet DEF InHand
  <2>3. /\ unsent' \in SUBSET Nat /\ IsFiniteSet(unsent')
        /\ Cardinality(unsent') = Cardinality(unsent) + Cardinality(InHand)
    <3>1. CASE dispatch.on = "sending"
      <4>1. InHand = {dispatch.msg.n} /\ dispatch.msg.n \notin unsent /\ dispatch.msg.n \in Nat
            /\ Cardinality(InHand) = 1
        BY <1>1, <3>1, HandFacts DEF DispatchInv, Outs
      <4> QED BY <1>1, <2>1, <4>1, AddedOne DEF GatewayTypes
    <3>2. CASE dispatch.on # "sending"
      <4>1. unsent' = unsent /\ Cardinality(InHand) = 0 /\ Cardinality(unsent) \in Nat
        BY <1>1, <2>1, <3>2, HandFacts
      <4> QED BY <1>1, <4>1 DEF GatewayTypes
    <3> QED BY <3>1, <3>2
  <2>4. Gone' = Gone
    BY <2>1, <2>2 DEF Gone
  <2>5. Published' = Published
    <3>1. Published' = Len(outbox) + 0 + Len(reached) + (Cardinality(unsent) + Cardinality(InHand))
      BY <2>1, <2>2, <2>3 DEF Published
    <3>2. Cardinality(InHand) \in Nat
      BY <1>1, HandFacts
    <3> QED BY <1>1, <3>1, <3>2, HandFacts DEF Published
  <2>6. GatewayTypes'
    BY <1>1, <2>1, <2>3 DEF GatewayTypes
  <2>7. DispatchInv' /\ SentInOrder'
    BY <1>1, <2>1, <2>2, <2>4 DEF DispatchInv, SentInOrder
  <2>8. NothingSkipped'
    <3>1. ToSet(reached)' \cup unsent' \cup InHand' = ToSet(reached) \cup unsent \cup InHand
      BY <2>4 DEF Gone
    <3> QED BY <1>1, <2>1, <2>2, <2>5, <3>1 DEF NothingSkipped
  <2> QED BY <2>6, <2>7, <2>8 DEF GatewayInv
<1> QED BY <1>2, <1>3

\* A message is published.
LEMMA PublishKeeps ==
  ASSUME GatewayInv, NEW to \in ToSet(GateChannels) \cup {"elsewhere"}, NEW hint \in BOOLEAN,
         Publish(to, hint)
  PROVE  GatewayInv'
<1> DEFINE m == [n |-> Published + 1, to |-> to, hint |-> hint]
           l == Len(outbox)
<1>1. GatewayTypes /\ DispatchInv /\ SentInOrder /\ NothingSkipped
  BY DEF GatewayInv
<1>2. outbox' = Append(outbox, m) /\ gate # "new" /\ UNCHANGED <<gate, dispatch, reached, unsent>>
  BY DEF Publish
<1>3. m \in Outs /\ m.n = Published + 1 /\ Published \in Nat /\ l \in Nat
  BY <1>1, HandFacts DEF Outs
<1> HIDE DEF m
<1>4. /\ outbox' \in Seq(Outs) /\ Len(outbox') = l + 1
      /\ DOMAIN outbox = 1..l /\ DOMAIN outbox' = 1..(l + 1)
      /\ outbox'[l + 1] = m /\ \A i \in 1..l : outbox'[i] = outbox[i] /\ outbox[i] \in Outs
  BY <1>1, <1>2, <1>3 DEF GatewayTypes
<1> HIDE DEF l
<1>5. InHand' = InHand /\ Gone' = Gone
  BY <1>2 DEF InHand, Gone
<1>6. Published' = Published + 1
  <2>1. Published = l + Cardinality(InHand) + Len(reached) + Cardinality(unsent)
    BY DEF Published, l
  <2>2. Published' = (l + 1) + Cardinality(InHand) + Len(reached) + Cardinality(unsent)
    BY <1>2, <1>4, <1>5 DEF Published
  <2>3. Cardinality(InHand) \in Nat /\ Len(reached) \in Nat /\ Cardinality(unsent) \in Nat
    BY <1>1, HandFacts
  <2> QED BY <1>3, <2>1, <2>2, <2>3
<1>7. \A k \in Gone : k \in 1..Published
  BY <1>1 DEF NothingSkipped, Gone
<1>8. \A i \in 1..l : outbox[i].n \in 1..Published
  BY <1>1, <1>4 DEF NothingSkipped, ToSet
<1>9. DispatchInv'
  <2>1. ASSUME NEW k \in Gone, NEW i \in 1..(l + 1) PROVE k < outbox'[i].n
    <3>1. CASE i = l + 1
      BY <1>3, <1>4, <1>7, <3>1
    <3>2. CASE i # l + 1
      <4>1. i \in 1..l
        BY <1>3, <3>2
      <4> QED BY <1>1, <1>4, <4>1 DEF DispatchInv
    <3> QED BY <3>1, <3>2
  <2> QED BY <1>1, <1>2, <1>4, <1>5, <2>1 DEF DispatchInv
<1>10. \A i, k \in 1..(l + 1) : i < k => outbox'[i].n < outbox'[k].n
  <2> SUFFICES ASSUME NEW i \in 1..(l + 1), NEW k \in 1..(l + 1), i < k
               PROVE  outbox'[i].n < outbox'[k].n
    OBVIOUS
  <2>1. i \in 1..l
    BY <1>3
  <2>2. CASE k = l + 1
    BY <1>3, <1>4, <1>8, <2>1, <2>2
  <2>3. CASE k # l + 1
    <3>1. k \in 1..l
      BY <1>3, <2>3
    <3> QED BY <1>1, <1>4, <2>1, <3>1 DEF NothingSkipped
  <2> QED BY <2>2, <2>3
<1>11. {x.n : x \in ToSet(outbox)'} = {x.n : x \in ToSet(outbox)} \cup {Published + 1}
  <2>1. ToSet(outbox)' = ToSet(outbox) \cup {m}
    <3>1. ASSUME NEW x \in ToSet(outbox)' PROVE x \in ToSet(outbox) \cup {m}
      <4>1. PICK i \in 1..(l + 1) : x = outbox'[i]
        BY <1>4 DEF ToSet
      <4> QED BY <1>3, <1>4, <4>1 DEF ToSet
    <3>2. ASSUME NEW x \in ToSet(outbox) PROVE x \in ToSet(outbox)'
      <4>1. PICK i \in 1..l : x = outbox[i]
        BY <1>4 DEF ToSet
      <4>2. i \in 1..(l + 1) /\ x = outbox'[i]
        BY <1>3, <1>4, <4>1
      <4> QED BY <1>4, <4>2 DEF ToSet
    <3>3. m \in ToSet(outbox)'
      <4>1. l + 1 \in 1..(l + 1)
        BY <1>3
      <4> QED BY <1>4, <4>1 DEF ToSet
    <3> QED BY <3>1, <3>2, <3>3
  <2> QED BY <1>3, <2>1
<1>12. NothingSkipped'
  <2>1. 1..(Published + 1) = 1..Published \cup {Published + 1}
    BY <1>3
  <2> QED BY <1>1, <1>2, <1>4, <1>5, <1>6, <1>10, <1>11, <2>1 DEF NothingSkipped
<1> QED BY <1>1, <1>2, <1>4, <1>9, <1>12 DEF GatewayInv, GatewayTypes, SentInOrder

\* The oldest message is taken off the bus.
LEMMA OldestRemoved ==
  ASSUME GatewayTypes, outbox # <<>>, outbox' = RemoveAt(outbox, OldestAt)
  PROVE  /\ outbox' \in Seq(Outs) /\ Taken \in Outs
         /\ Len(outbox') = Len(outbox) - 1 /\ Len(outbox) \in Nat \ {0}
         /\ DOMAIN outbox = 1..Len(outbox) /\ DOMAIN outbox' = 1..(Len(outbox) - 1)
         /\ \A i \in 1..(Len(outbox) - 1) : outbox'[i] = outbox[i + 1]
         /\ ToSet(outbox) = ToSet(outbox)' \cup {Taken}
<1> DEFINE l == Len(outbox)
<1>1. outbox \in Seq(Outs) /\ l \in Nat \ {0} /\ DOMAIN outbox = 1..l
  BY EmptySeq, LenProperties DEF GatewayTypes
<1>2. outbox' = SubSeq(outbox, 1, 0) \o SubSeq(outbox, 2, l)
  BY DEF RemoveAt, OldestAt
<1>3. SubSeq(outbox, 1, 0) = <<>>
  BY SubSeqEmpty
<1>4. \A i \in 2..l : outbox[i] \in Outs
  BY <1>1, ElementOfSeq
<1>5. /\ SubSeq(outbox, 2, l) \in Seq(Outs)
      /\ Len(SubSeq(outbox, 2, l)) = IF 2 <= l THEN l - 2 + 1 ELSE 0
      /\ \A i \in 1..(l - 2 + 1) : SubSeq(outbox, 2, l)[i] = outbox[2 + i - 1]
  BY <1>1, <1>4, SubSeqProperties
<1>6. outbox' = SubSeq(outbox, 2, l)
  BY <1>2, <1>3, <1>5, ConcatEmptySeq
<1>7. /\ outbox' \in Seq(Outs) /\ Len(outbox') = l - 1
      /\ \A i \in 1..(l - 1) : outbox'[i] = outbox[i + 1]
  <2>1. l - 2 + 1 = l - 1 /\ (~(2 <= l) => l - 1 = 0) /\ \A i \in 1..(l - 1) : 2 + i - 1 = i + 1
    BY <1>1
  <2> QED BY <1>5, <1>6, <2>1
<1>8. DOMAIN outbox' = 1..(l - 1)
  BY <1>7, LenProperties
<1>9. Taken = outbox[1] /\ Taken \in Outs
  BY <1>1, ElementOfSeq DEF Taken, OldestAt
<1> HIDE DEF l
<1>10. ToSet(outbox) = ToSet(outbox)' \cup {Taken}
  <2>1. ASSUME NEW x \in ToSet(outbox), x # Taken PROVE x \in ToSet(outbox)'
    <3>1. PICK i \in 1..l : x = outbox[i]
      BY <1>1 DEF ToSet
    <3>2. i - 1 \in 1..(l - 1) /\ (i - 1) + 1 = i
      BY <1>1, <1>9, <2>1, <3>1
    <3>3. x = outbox'[i - 1]
      BY <1>7, <3>1, <3>2
    <3> QED BY <1>8, <3>2, <3>3 DEF ToSet
  <2>2. ASSUME NEW x \in ToSet(outbox)' PROVE x \in ToSet(outbox)
    <3>1. PICK i \in 1..(l - 1) : x = outbox'[i]
      BY <1>8 DEF ToSet
    <3>2. i + 1 \in 1..l /\ x = outbox[i + 1]
      BY <1>1, <1>7, <3>1
    <3> QED BY <1>1, <3>2 DEF ToSet
  <2>3. Taken \in ToSet(outbox)
    <3>1. 1 \in 1..l
      BY <1>1
    <3> QED BY <1>1, <1>9, <3>1 DEF ToSet
  <2> QED BY <2>1, <2>2, <2>3
<1> QED BY <1>1, <1>7, <1>8, <1>9, <1>10 DEF l

\* One message less on the bus is one more in hand or unsent.
LEMMA OneMoved ==
  \A l, r, u, h, v \in Nat : h + v = 1 + u => l + 0 + r + u = (l - 1) + h + r + v
OBVIOUS

\* The dispatcher takes the oldest message.
LEMMA TakeKeeps == ASSUME GatewayInv, Take PROVE GatewayInv'
<1> DEFINE l == Len(outbox)
<1>1. GatewayTypes /\ DispatchInv /\ SentInOrder /\ NothingSkipped
  BY DEF GatewayInv
<1>2. /\ dispatch.on = "waiting" /\ outbox # <<>> /\ outbox' = RemoveAt(outbox, OldestAt)
      /\ UNCHANGED <<gate, reached>>
      /\ \/ dispatch' = dispatch /\ unsent' = unsent \cup {Taken.n}
         \/ dispatch' = [on |-> "sending", msg |-> Taken] /\ unsent' = unsent
  BY DEF Take
<1>3. /\ outbox' \in Seq(Outs) /\ Taken \in Outs /\ Taken.n \in Nat
      /\ Len(outbox') = l - 1 /\ l \in Nat \ {0}
      /\ DOMAIN outbox = 1..l /\ DOMAIN outbox' = 1..(l - 1)
      /\ \A i \in 1..(l - 1) : outbox'[i] = outbox[i + 1]
      /\ ToSet(outbox) = ToSet(outbox)' \cup {Taken}
      /\ Taken = outbox[1] /\ 1 \in 1..l
  <2>1. Taken = outbox[1]
    BY DEF Taken, OldestAt
  <2> QED BY <1>1, <1>2, <2>1, OldestRemoved DEF Outs
<1> HIDE DEF l
<1>4. InHand = {} /\ Cardinality(InHand) = 0 /\ InHand' \subseteq {Taken.n}
  BY <1>1, <1>2, HandFacts DEF InHand
<1>5. Taken.n \notin unsent /\ \A i \in DOMAIN reached : reached[i] < Taken.n
  <2>1. \A k \in Gone : k < Taken.n
    BY <1>1, <1>3 DEF DispatchInv
  <2>2. ~(Taken.n < Taken.n)
    BY <1>3
  <2> QED BY <2>1, <2>2 DEF Gone, ToSet
<1>6. /\ GatewayTypes'
      /\ unsent' \cup InHand' = unsent \cup {Taken.n}
      /\ Cardinality(InHand)' + Cardinality(unsent)' = 1 + Cardinality(unsent)
      /\ Cardinality(InHand)' \in Nat /\ Cardinality(unsent)' \in Nat
      /\ \A k \in InHand' : k \notin unsent'
      /\ dispatch'.on # "off"
  <2>1. CASE dispatch' = dispatch /\ unsent' = unsent \cup {Taken.n}
    <3>1. InHand' = InHand
      BY <2>1 DEF InHand
    <3>2. IsFiniteSet(unsent') /\ Cardinality(unsent') = Cardinality(unsent) + 1 /\ Cardinality(unsent) \in Nat
      BY <1>1, <1>5, <2>1, AddedOne, HandFacts DEF GatewayTypes
    <3>3. GatewayTypes'
      BY <1>1, <1>2, <1>3, <2>1, <3>2 DEF GatewayTypes
    <3> QED BY <1>2, <1>4, <2>1, <3>1, <3>2, <3>3
  <2>2. CASE dispatch' = [on |-> "sending", msg |-> Taken] /\ unsent' = unsent
    <3>1. InHand' = {Taken.n} /\ Cardinality(InHand') = 1
      BY <2>2, FS_Singleton DEF InHand
    <3>2. GatewayTypes' /\ Cardinality(unsent) \in Nat
      BY <1>1, <1>2, <1>3, <2>2, HandFacts DEF GatewayTypes
    <3> QED BY <1>4, <1>5, <2>2, <3>1, <3>2
  <2> QED BY <1>2, <2>1, <2>2
<1>7. Gone' = Gone \cup {Taken.n}
  BY <1>2, <1>4, <1>6 DEF Gone
<1>8. Published' = Published
  <2>1. Published = l + 0 + Len(reached) + Cardinality(unsent)
    BY <1>4 DEF Published, l
  <2>2. Published' = (l - 1) + Cardinality(InHand)' + Len(reached) + Cardinality(unsent)'
    BY <1>2, <1>3 DEF Published
  <2>3. Len(reached) \in Nat /\ Cardinality(unsent) \in Nat
    BY <1>1, HandFacts
  <2>4. /\ Cardinality(InHand)' + Cardinality(unsent)' = 1 + Cardinality(unsent)
        /\ Cardinality(InHand)' \in Nat /\ Cardinality(unsent)' \in Nat
    BY <1>6
  <2>5. l \in Nat
    BY <1>3
  <2> QED BY <2>1, <2>2, <2>3, <2>4, <2>5, OneMoved
<1>9. \A i, k \in 1..(l - 1) : i < k => outbox'[i].n < outbox'[k].n
  <2> SUFFICES ASSUME NEW i \in 1..(l - 1), NEW k \in 1..(l - 1), i < k
               PROVE  outbox'[i].n < outbox'[k].n
    OBVIOUS
  <2>1. i + 1 \in 1..l /\ k + 1 \in 1..l /\ i + 1 < k + 1
    BY <1>3
  <2> QED BY <1>1, <1>3, <2>1 DEF NothingSkipped
<1>10. DispatchInv'
  <2>1. ASSUME NEW k \in Gone', NEW i \in 1..(l - 1) PROVE k < outbox'[i].n
    <3>1. i + 1 \in 1..l /\ 1 < i + 1
      BY <1>3
    <3>2. CASE k = Taken.n
      BY <1>1, <1>3, <3>1, <3>2 DEF NothingSkipped
    <3>3. CASE k # Taken.n
      BY <1>1, <1>3, <1>7, <3>1, <3>3 DEF DispatchInv
    <3> QED BY <3>2, <3>3
  <2>2. \A k \in InHand' : k \notin unsent' /\ \A i \in DOMAIN reached : reached[i] < k
    BY <1>4, <1>5, <1>6
  <2>3. gate \notin {"new", "cancelled", "down"}
    BY <1>1, <1>2 DEF DispatchInv
  <2> QED BY <1>2, <1>3, <2>1, <2>2, <2>3 DEF DispatchInv
<1>11. NothingSkipped'
  <2>1. {x.n : x \in ToSet(outbox)} = {x.n : x \in ToSet(outbox)'} \cup {Taken.n}
    BY <1>3
  <2>2. ToSet(reached)' \cup unsent' \cup InHand' \cup {x.n : x \in ToSet(outbox)'} = 1..Published
    BY <1>1, <1>2, <1>4, <1>6, <2>1 DEF NothingSkipped
  <2>3. gate' # "down"
    BY <1>1, <1>2 DEF DispatchInv
  <2> QED BY <1>3, <1>8, <1>9, <2>2, <2>3 DEF NothingSkipped
<1> QED BY <1>1, <1>2, <1>6, <1>10, <1>11 DEF GatewayInv, SentInOrder

\* send returns or raises.
LEMMA SentKeeps == ASSUME GatewayInv, NEW ok \in BOOLEAN, Sent(ok) PROVE GatewayInv'
<1> DEFINE r == Len(reached)
           n == dispatch.msg.n
<1>1. GatewayTypes /\ DispatchInv /\ SentInOrder /\ NothingSkipped
  BY DEF GatewayInv
<1>2. /\ dispatch.on = "sending" /\ dispatch' = [on |-> "waiting"] /\ UNCHANGED <<gate, outbox>>
      /\ \/ reached' = Append(reached, n) /\ unsent' = unsent
         \/ reached' = reached /\ unsent' = unsent \cup {n}
  BY DEF Sent
<1>3. /\ n \in Nat /\ r \in Nat /\ InHand = {n} /\ Cardinality(InHand) = 1 /\ Len(outbox) \in Nat
      /\ Cardinality(unsent) \in Nat /\ DOMAIN reached = 1..r
  BY <1>1, <1>2, HandFacts, LenProperties DEF Outs, GatewayTypes
<1>4. InHand' = {} /\ Cardinality(InHand)' = 0
  BY <1>2, FS_EmptySet DEF InHand
<1> HIDE DEF n
<1>5. n \notin unsent /\ \A i \in 1..r : reached[i] < n
  BY <1>1, <1>3 DEF DispatchInv
<1>6. /\ reached' \in Seq(Nat) /\ unsent' \in SUBSET Nat /\ IsFiniteSet(unsent')
      /\ Len(reached') + Cardinality(unsent') = r + Cardinality(unsent) + 1
      /\ Len(reached') \in Nat /\ Cardinality(unsent') \in Nat
      /\ ToSet(reached)' \cup unsent' = ToSet(reached) \cup unsent \cup {n}
      /\ SentInOrder'
  <2>1. CASE reached' = Append(reached, n) /\ unsent' = unsent
    <3>1. /\ reached' \in Seq(Nat) /\ Len(reached') = r + 1 /\ DOMAIN reached' = 1..(r + 1)
          /\ reached'[r + 1] = n /\ \A i \in 1..r : reached'[i] = reached[i]
      BY <1>1, <1>3, <2>1 DEF GatewayTypes
    <3> HIDE DEF r
    <3>2. ToSet(reached)' = ToSet(reached) \cup {n}
      <4>1. ASSUME NEW x \in ToSet(reached)' PROVE x \in ToSet(reached) \cup {n}
        <5>1. PICK i \in 1..(r + 1) : x = reached'[i]
          BY <3>1 DEF ToSet
        <5> QED BY <1>3, <3>1, <5>1 DEF ToSet
      <4>2. ASSUME NEW x \in ToSet(reached) PROVE x \in ToSet(reached)'
        <5>1. PICK i \in 1..r : x = reached[i]
          BY <1>3 DEF ToSet
        <5>2. i \in 1..(r + 1) /\ x = reached'[i]
          BY <1>3, <3>1, <5>1
        <5> QED BY <3>1, <5>2 DEF ToSet
      <4>3. n \in ToSet(reached)'
        <5>1. r + 1 \in 1..(r + 1)
          BY <1>3
        <5> QED BY <3>1, <5>1 DEF ToSet
      <4> QED BY <4>1, <4>2, <4>3
    <3>3. SentInOrder'
      <4> SUFFICES ASSUME NEW i \in 1..(r + 1), NEW k \in 1..(r + 1), i < k
                   PROVE  reached'[i] < reached'[k]
        BY <3>1 DEF SentInOrder
      <4>1. i \in 1..r
        BY <1>3
      <4>2. CASE k = r + 1
        BY <1>5, <3>1, <4>1, <4>2
      <4>3. CASE k # r + 1
        <5>1. k \in 1..r
          BY <1>3, <4>3
        <5> QED BY <1>1, <1>3, <3>1, <4>1, <5>1 DEF SentInOrder
      <4> QED BY <4>2, <4>3
    <3>4. unsent' \in SUBSET Nat /\ IsFiniteSet(unsent') /\ Cardinality(unsent') = Cardinality(unsent)
      BY <1>1, <2>1 DEF GatewayTypes
    <3>5. Len(reached') + Cardinality(unsent') = r + Cardinality(unsent) + 1
      BY <1>3, <3>1, <3>4
    <3>6. ToSet(reached)' \cup unsent' = ToSet(reached) \cup unsent \cup {n}
      BY <2>1, <3>2
    <3>7. Len(reached') \in Nat /\ Cardinality(unsent') \in Nat
      BY <1>3, <3>1, <3>4
    <3> QED BY <3>1, <3>3, <3>4, <3>5, <3>6, <3>7
  <2>2. CASE reached' = reached /\ unsent' = unsent \cup {n}
    <3>1. IsFiniteSet(unsent') /\ Cardinality(unsent') = Cardinality(unsent) + 1
      BY <1>1, <1>5, <2>2, AddedOne DEF GatewayTypes
    <3>2. Len(reached') = r
      BY <2>2
    <3> HIDE DEF r
    <3>3. reached' \in Seq(Nat) /\ unsent' \in SUBSET Nat /\ SentInOrder'
      BY <1>1, <1>3, <2>2 DEF GatewayTypes, SentInOrder
    <3>4. ToSet(reached)' \cup unsent' = ToSet(reached) \cup unsent \cup {n}
      BY <2>2
    <3>5. Len(reached') + Cardinality(unsent') = r + Cardinality(unsent) + 1
      BY <1>3, <3>1, <3>2
    <3>6. Len(reached') \in Nat /\ Cardinality(unsent') \in Nat
      BY <1>3, <3>1, <3>2
    <3> QED BY <3>1, <3>3, <3>4, <3>5, <3>6
  <2> QED BY <1>2, <2>1, <2>2
<1>7. Gone' = Gone
  BY <1>3, <1>4, <1>6 DEF Gone
<1>8. Published' = Published
  <2>1. Published = Len(outbox) + 1 + r + Cardinality(unsent)
    BY <1>3 DEF Published
  <2>2. Published' = Len(outbox) + 0 + Len(reached') + Cardinality(unsent')
    BY <1>2, <1>4 DEF Published
  <2> HIDE DEF r
  <2> QED BY <1>3, <1>6, <2>1, <2>2
<1>9. GatewayTypes'
  BY <1>1, <1>2, <1>6 DEF GatewayTypes
<1>10. DispatchInv'
  <2>1. gate \notin {"new", "cancelled", "down"}
    BY <1>1, <1>2 DEF DispatchInv
  <2> QED BY <1>1, <1>2, <1>4, <1>7, <2>1 DEF DispatchInv
<1>11. NothingSkipped'
  <2>1. ToSet(reached)' \cup unsent' \cup InHand' = ToSet(reached) \cup unsent \cup InHand
    BY <1>3, <1>4, <1>6
  <2> QED BY <1>1, <1>2, <1>4, <1>8, <2>1 DEF NothingSkipped
<1> QED BY <1>6, <1>9, <1>10, <1>11 DEF GatewayInv

\* Every step keeps it.
LEMMA GatewayKeeps == GatewayInv /\ [GatewayNext]_gatewayVars => GatewayInv'
<1> SUFFICES ASSUME GatewayInv, [GatewayNext]_gatewayVars PROVE GatewayInv'
  OBVIOUS
<1>1. gate \in {"new", "cancelled", "down"} => dispatch.on = "off"
  BY DEF GatewayInv, DispatchInv
<1>2. CASE Woken \/ StopChannel \/ CloseStack \/ UNCHANGED gatewayVars
  BY <1>1, <1>2, MessagesRest DEF Woken, StopChannel, CloseStack, gatewayVars
<1>3. CASE \E c \in ToSet(GateChannels) : ChannelEnds(c)
  BY <1>1, <1>3, MessagesRest DEF ChannelEnds
<1> QED BY <1>2, <1>3, RunKeeps, PublishKeeps, TakeKeeps, SentKeeps DEF GatewayNext

\* What is said of the dispatcher follows.
LEMMA GatewayImplies == GatewayInv => GatewayRight
BY DEF GatewayInv, GatewayRight

\* The channels get the messages in the order of their publication, and what is
\* neither sent nor on the bus was refused, raised or cut.
THEOREM GatewayHolds == GatewaySpec => []GatewayRight
<1> QED BY GatewayImplies, GatewayStarts, GatewayKeeps, PTL DEF GatewaySpec

-----------------------------------------------------------------------------
(* The GitHub run *)

AnswerPosts == [n : 1..MaxAnswers, says : {"text", "empty", "progress", "hint"}]

GitTypes ==
  /\ GitTypeOK
  /\ turnAsked \in BOOLEAN /\ toRelay \in Seq(AnswerPosts) /\ comments \in Seq(1..MaxAnswers)
  /\ answers \in [n : 0..MaxAnswers, texts : BOOLEAN]

\* The agent was asked if the channel waits or was woken; it is woken when there is
\* a comment, and ends otherwise only for an event that is not accepted.
AskedInv ==
  /\ turnAsked <=> response # "none"
  /\ ~turnAsked => toRelay = <<>> /\ posting = 0 /\ ~answers.texts
  /\ response = "set" => comments # <<>>
  /\ runEnd = "running" /\ tasks.channel # "on" =>
       IF turnAsked THEN response = "set" ELSE ~Accepted(event)

\* A text that is not posted yet is with the relay or on its way to it.
WordsInv ==
  answers.texts /\ response # "set" /\ tasks.relay = "on" =>
    posting # 0 \/ \E i \in DOMAIN toRelay : toRelay[i].says = "text"

\* Messages are numbered in their order: first the comments, then the one that is
\* being posted, then those on their way.
NumbersInv ==
  /\ \A i, k \in DOMAIN toRelay : i < k => toRelay[i].n < toRelay[k].n
  /\ \A i \in DOMAIN toRelay :
        /\ toRelay[i].n <= answers.n /\ posting < toRelay[i].n
        /\ \A k \in DOMAIN comments : comments[k] < toRelay[i].n
  /\ posting <= answers.n /\ \A k \in DOMAIN comments : comments[k] <= answers.n
  /\ posting # 0 => \A k \in DOMAIN comments : comments[k] < posting

GitInv ==
  /\ GitTypes /\ AskedInv /\ WordsInv /\ NumbersInv /\ GreenMeansAnswered /\ CommentsInOrder

\* It holds at the start.
LEMMA GitStarts == GitInit => GitInv
<1> SUFFICES ASSUME GitInit PROVE GitInv
  OBVIOUS
<1>1. GitTypes
  <2>1. tasks \in [{"channel", "relay", "loop"} -> {"on", "ended", "raised"}]
    BY DEF GitInit
  <2>2. toRelay \in Seq(AnswerPosts) /\ comments \in Seq(1..MaxAnswers)
    BY EmptySeq DEF GitInit
  <2>3. answers \in [n : 0..MaxAnswers, texts : BOOLEAN]
    BY GitAssumption DEF GitInit
  <2> QED BY <2>1, <2>2, <2>3, GitAssumption DEF GitInit, GitTypes, GitTypeOK
<1>2. AskedInv /\ WordsInv
  BY DEF GitInit, AskedInv, WordsInv
<1>3. NumbersInv /\ GreenMeansAnswered /\ CommentsInOrder
  BY DEF GitInit, NumbersInv, GreenMeansAnswered, CommentsInOrder
<1> QED BY <1>1, <1>2, <1>3 DEF GitInv

\* The parts of the invariant and the sequences in it.
LEMMA GitFacts ==
  ASSUME GitInv
  PROVE  /\ GitTypes /\ AskedInv /\ WordsInv /\ NumbersInv /\ GreenMeansAnswered /\ CommentsInOrder
         /\ tasks \in [{"channel", "relay", "loop"} -> {"on", "ended", "raised"}]
         /\ Len(toRelay) \in Nat /\ DOMAIN toRelay = 1..Len(toRelay)
         /\ Len(comments) \in Nat /\ DOMAIN comments = 1..Len(comments)
         /\ \A i \in DOMAIN toRelay : toRelay[i].n \in 1..MaxAnswers
         /\ \A k \in DOMAIN comments : comments[k] \in 1..MaxAnswers
<1>1. /\ GitTypes /\ AskedInv /\ WordsInv /\ NumbersInv /\ GreenMeansAnswered /\ CommentsInOrder
      /\ tasks \in [{"channel", "relay", "loop"} -> {"on", "ended", "raised"}]
  BY DEF GitInv, GitTypes, GitTypeOK
<1>2. /\ Len(toRelay) \in Nat /\ DOMAIN toRelay = 1..Len(toRelay)
      /\ Len(comments) \in Nat /\ DOMAIN comments = 1..Len(comments)
  BY <1>1, LenProperties DEF GitTypes
<1>3. \A i \in DOMAIN toRelay : toRelay[i] \in AnswerPosts
  BY <1>1, <1>2, ElementOfSeq DEF GitTypes
<1>4. \A k \in DOMAIN comments : comments[k] \in 1..MaxAnswers
  BY <1>1, <1>2, ElementOfSeq DEF GitTypes
<1> QED BY <1>1, <1>2, <1>3, <1>4 DEF AnswerPosts

\* Steps that leave the messages alone.
LEMMA TasksKeep ==
  ASSUME GitInv, ChannelStart \/ ChannelWakes \/ LoopEnds \/ UNCHANGED gitVars
  PROVE  GitInv'
<1>1. UNCHANGED <<settings, event, toRelay, answers, posting, comments, runEnd>>
  BY DEF ChannelStart, ChannelWakes, LoopEnds, gitVars
<1>2. Accepted(event)' = Accepted(event)
  BY <1>1 DEF Accepted, HasTrigger, Permitted
<1>3. GitTypes'
  BY <1>1, GitFacts DEF GitTypes, GitTypeOK, ChannelStart, ChannelWakes, LoopEnds, gitVars
<1>4. NumbersInv' /\ CommentsInOrder'
  BY <1>1, GitFacts DEF NumbersInv, CommentsInOrder
<1>5. tasks'.relay = tasks.relay /\ (response = "set" => response' = "set")
  BY GitFacts DEF ChannelStart, ChannelWakes, LoopEnds, gitVars
<1>6. AskedInv'
  BY <1>1, <1>2, GitFacts DEF AskedInv, ChannelStart, ChannelWakes, LoopEnds, gitVars
<1>7. WordsInv'
  BY <1>1, <1>5, GitFacts DEF WordsInv
<1>8. GreenMeansAnswered'
  BY <1>1, <1>2, GitFacts DEF GreenMeansAnswered, ChannelStart, ChannelWakes, LoopEnds, gitVars
<1> QED BY <1>3, <1>4, <1>6, <1>7, <1>8 DEF GitInv

\* The agent publishes.
LEMMA AnswerKeeps == ASSUME GitInv, AgentAnswers PROVE GitInv'
<1> DEFINE l == Len(toRelay)
<1>1. PICK says \in {"text", "empty", "progress", "hint"} :
        /\ answers' = [n |-> answers.n + 1, texts |-> answers.texts \/ says = "text"]
        /\ toRelay' = Append(toRelay, [n |-> answers.n + 1, says |-> says])
  BY DEF AgentAnswers
<1>2. /\ turnAsked /\ answers.n < MaxAnswers
      /\ UNCHANGED <<settings, event, tasks, turnAsked, response, posting, comments, runEnd>>
  BY DEF AgentAnswers
<1> DEFINE m == [n |-> answers.n + 1, says |-> says]
<1>3. /\ answers.n \in 0..MaxAnswers /\ answers.texts \in BOOLEAN /\ answers'.n = answers.n + 1
      /\ answers'.n \in 1..MaxAnswers /\ m \in AnswerPosts /\ m.n = answers.n + 1 /\ m.says = says
      /\ answers' \in [n : 0..MaxAnswers, texts : BOOLEAN]
      /\ answers'.texts => answers.texts \/ says = "text"
  <2>1. answers.n \in 0..MaxAnswers /\ answers.texts \in BOOLEAN
    BY GitFacts DEF GitTypes
  <2>2. answers.n + 1 \in 1..MaxAnswers /\ answers.n + 1 \in 0..MaxAnswers
    BY <1>2, <2>1, GitAssumption
  <2>3. (answers.texts \/ says = "text") \in BOOLEAN
    OBVIOUS
  <2> QED BY <1>1, <2>1, <2>2, <2>3 DEF AnswerPosts
<1> HIDE DEF m
<1>4. /\ toRelay' \in Seq(AnswerPosts) /\ DOMAIN toRelay' = 1..(l + 1) /\ l \in Nat
      /\ toRelay'[l + 1] = m /\ \A i \in 1..l : toRelay'[i] = toRelay[i] /\ i \in DOMAIN toRelay
  BY <1>1, <1>3, GitFacts DEF GitTypes, m
<1> HIDE DEF l
<1>5. GitTypes'
  BY <1>2, <1>3, <1>4, GitFacts DEF GitTypes, GitTypeOK
<1>6. Accepted(event)' = Accepted(event)
  BY <1>2 DEF Accepted, HasTrigger, Permitted
<1>7. AskedInv' /\ GreenMeansAnswered' /\ CommentsInOrder'
  BY <1>2, <1>6, GitFacts DEF AskedInv, GreenMeansAnswered, CommentsInOrder
<1>8. WordsInv'
  <2> SUFFICES ASSUME answers'.texts, response # "set", tasks.relay = "on", posting = 0
               PROVE  \E i \in DOMAIN toRelay' : toRelay'[i].says = "text"
    BY <1>2 DEF WordsInv
  <2>1. CASE answers.texts
    <3>1. PICK i \in DOMAIN toRelay : toRelay[i].says = "text"
      BY <2>1, GitFacts DEF WordsInv
    <3>2. i \in 1..l /\ i \in 1..(l + 1)
      BY <1>4, GitFacts DEF l
    <3> QED BY <1>4, <3>1, <3>2
  <2>2. CASE says = "text"
    <3>1. l + 1 \in 1..(l + 1)
      BY <1>4
    <3> QED BY <1>3, <1>4, <2>2, <3>1
  <2> QED BY <1>3, <2>1, <2>2
<1>9. NumbersInv'
  <2>1. posting \in 0..MaxAnswers /\ \A k \in DOMAIN comments : comments[k] \in 1..MaxAnswers
    BY GitFacts DEF GitTypes, GitTypeOK
  <2>2. posting <= answers.n /\ \A k \in DOMAIN comments : comments[k] <= answers.n
    BY GitFacts DEF NumbersInv
  <2>3. posting <= answers'.n /\ \A k \in DOMAIN comments : comments[k] <= answers'.n
    BY <1>3, <2>1, <2>2
  <2>4. \A i \in 1..l : toRelay[i].n \in 1..MaxAnswers /\ toRelay[i].n <= answers.n
    BY <1>4, GitFacts DEF NumbersInv
  <2>5. ASSUME NEW i \in 1..(l + 1)
        PROVE  /\ toRelay'[i].n <= answers'.n /\ posting < toRelay'[i].n
               /\ \A k \in DOMAIN comments : comments[k] < toRelay'[i].n
    <3>1. CASE i = l + 1
      BY <1>3, <1>4, <2>1, <2>2, <3>1
    <3>2. CASE i # l + 1
      <4>1. i \in 1..l
        BY <1>4, <3>2
      <4>2. toRelay'[i] = toRelay[i] /\ i \in DOMAIN toRelay
        BY <1>4, <4>1
      <4>3. toRelay'[i].n <= answers'.n
        BY <1>3, <2>4, <4>1, <4>2
      <4> QED BY <4>2, <4>3, GitFacts DEF NumbersInv
    <3> QED BY <3>1, <3>2
  <2>6. ASSUME NEW i \in 1..(l + 1), NEW k \in 1..(l + 1), i < k
        PROVE  toRelay'[i].n < toRelay'[k].n
    <3>1. i \in 1..l
      BY <1>4, <2>6
    <3>2. CASE k = l + 1
      BY <1>3, <1>4, <2>4, <3>1, <3>2
    <3>3. CASE k # l + 1
      <4>1. k \in 1..l
        BY <1>4, <3>3
      <4> QED BY <1>4, <2>6, <3>1, <4>1, GitFacts DEF NumbersInv
    <3> QED BY <3>2, <3>3
  <2> QED BY <1>2, <1>4, <2>3, <2>5, <2>6, GitFacts DEF NumbersInv
<1> QED BY <1>5, <1>7, <1>8, <1>9 DEF GitInv

\* The relay takes the next message.
LEMMA RelayKeeps == ASSUME GitInv, RelayTakes PROVE GitInv'
<1> DEFINE l == Len(toRelay)
           m == Head(toRelay)
<1>1. /\ tasks.relay = "on" /\ posting = 0 /\ toRelay # <<>> /\ toRelay' = Tail(toRelay)
      /\ posting' = IF m.says = "text" THEN m.n ELSE 0
      /\ UNCHANGED <<settings, event, tasks, turnAsked, response, answers, comments, runEnd>>
  BY DEF RelayTakes
<1>2. /\ l \in Nat \ {0} /\ m \in AnswerPosts /\ m = toRelay[1] /\ 1 \in DOMAIN toRelay
      /\ toRelay' \in Seq(AnswerPosts) /\ DOMAIN toRelay' = 1..(l - 1)
      /\ \A i \in 1..(l - 1) : toRelay'[i] = toRelay[i + 1] /\ i + 1 \in DOMAIN toRelay
      /\ \A i \in DOMAIN toRelay : i = 1 \/ (i - 1 \in 1..(l - 1) /\ toRelay'[i - 1] = toRelay[i])
  <2>1. toRelay \in Seq(AnswerPosts) /\ l \in Nat \ {0} /\ DOMAIN toRelay = 1..l
    BY <1>1, EmptySeq, GitFacts DEF GitTypes
  <2>2. /\ m \in AnswerPosts /\ toRelay' \in Seq(AnswerPosts) /\ Len(toRelay') = l - 1
        /\ \A i \in 1..Len(toRelay') : toRelay'[i] = toRelay[i + 1]
    BY <1>1, <2>1, HeadTailProperties
  <2>3. DOMAIN toRelay' = 1..(l - 1)
    BY <2>2, LenProperties
  <2>4. m = toRelay[1]
    BY <1>1
  <2> HIDE DEF l, m
  <2> QED BY <2>1, <2>2, <2>3, <2>4
<1> HIDE DEF l, m
<1>3. m.n \in 1..MaxAnswers /\ posting' \in {0, m.n} /\ posting' \in 0..MaxAnswers
  BY <1>1, <1>2, GitAssumption DEF AnswerPosts
<1>4. GitTypes'
  BY <1>1, <1>2, <1>3, GitFacts DEF GitTypes, GitTypeOK
<1>5. Accepted(event)' = Accepted(event)
  BY <1>1 DEF Accepted, HasTrigger, Permitted
<1>6. turnAsked
  BY <1>1, GitFacts DEF AskedInv
<1>7. AskedInv' /\ GreenMeansAnswered' /\ CommentsInOrder'
  BY <1>1, <1>5, <1>6, GitFacts DEF AskedInv, GreenMeansAnswered, CommentsInOrder
<1>8. WordsInv'
  <2> SUFFICES ASSUME answers.texts, response # "set", posting' = 0
               PROVE  \E i \in DOMAIN toRelay' : toRelay'[i].says = "text"
    BY <1>1 DEF WordsInv
  <2>1. PICK i \in DOMAIN toRelay : toRelay[i].says = "text"
    BY <1>1, GitFacts DEF WordsInv
  <2>2. i # 1
    BY <1>1, <1>2, <1>3, <2>1
  <2> QED BY <1>2, <2>1, <2>2
<1>9. NumbersInv'
  <2>1. /\ m.n <= answers.n /\ \A k \in DOMAIN comments : comments[k] < m.n
        /\ answers.n \in 0..MaxAnswers
    BY <1>2, GitFacts DEF NumbersInv, GitTypes
  <2>2. posting' <= answers.n
    BY <1>3, <2>1
  <2>3. ASSUME NEW i \in 1..(l - 1)
        PROVE  /\ toRelay'[i].n <= answers.n /\ posting' < toRelay'[i].n
               /\ \A k \in DOMAIN comments : comments[k] < toRelay'[i].n
    <3>1. i + 1 \in DOMAIN toRelay /\ 1 < i + 1 /\ toRelay'[i] = toRelay[i + 1]
      BY <1>2
    <3>2. m.n < toRelay'[i].n /\ 0 < toRelay'[i].n
      BY <1>1, <1>2, <3>1, GitFacts DEF NumbersInv
    <3> QED BY <1>3, <3>1, <3>2, GitFacts DEF NumbersInv
  <2>4. ASSUME NEW i \in 1..(l - 1), NEW k \in 1..(l - 1), i < k
        PROVE  toRelay'[i].n < toRelay'[k].n
    <3>1. i + 1 < k + 1
      BY <2>4
    <3> QED BY <1>2, <3>1, GitFacts DEF NumbersInv
  <2> QED BY <1>1, <1>2, <1>3, <2>1, <2>2, <2>3, <2>4, GitFacts DEF NumbersInv
<1> QED BY <1>4, <1>7, <1>8, <1>9 DEF GitInv

\* A comment is posted.
LEMMA PostKeeps == ASSUME GitInv, Posted PROVE GitInv'
<1> DEFINE l == Len(comments)
<1>1. /\ posting # 0 /\ posting' = 0 /\ response' = "set" /\ comments' = Append(comments, posting)
      /\ UNCHANGED <<settings, event, tasks, turnAsked, toRelay, answers, runEnd>>
  BY DEF Posted
<1>2. posting \in 1..MaxAnswers
  BY <1>1, GitFacts, GitAssumption DEF GitTypes, GitTypeOK
<1>3. /\ comments' \in Seq(1..MaxAnswers) /\ DOMAIN comments' = 1..(l + 1) /\ l \in Nat
      /\ comments'[l + 1] = posting /\ comments' # <<>>
      /\ \A i \in 1..l : comments'[i] = comments[i] /\ i \in DOMAIN comments
  <2>1. comments \in Seq(1..MaxAnswers) /\ l \in Nat /\ DOMAIN comments = 1..l
    BY GitFacts DEF GitTypes
  <2>2. /\ comments' \in Seq(1..MaxAnswers) /\ Len(comments') = l + 1
        /\ comments'[l + 1] = posting /\ \A i \in 1..l : comments'[i] = comments[i]
    BY <1>1, <1>2, <2>1
  <2>3. DOMAIN comments' = 1..(l + 1)
    BY <2>2, LenProperties
  <2>4. comments' # <<>>
    <3>1. Len(<<>>) = 0 /\ l + 1 # 0
      BY <2>1
    <3> QED BY <2>2, <3>1
  <2> HIDE DEF l
  <2> QED BY <2>1, <2>2, <2>3, <2>4
<1> HIDE DEF l
<1>4. GitTypes'
  BY <1>1, <1>3, GitFacts, GitAssumption DEF GitTypes, GitTypeOK
<1>5. Accepted(event)' = Accepted(event)
  BY <1>1 DEF Accepted, HasTrigger, Permitted
<1>6. turnAsked
  BY <1>1, GitFacts DEF AskedInv
<1>7. AskedInv' /\ GreenMeansAnswered' /\ WordsInv'
  BY <1>1, <1>3, <1>5, <1>6, GitFacts DEF AskedInv, GreenMeansAnswered, WordsInv
<1>8. \A k \in 1..(l + 1) : k \in 1..l \/ k = l + 1
  BY <1>3
<1>9. NumbersInv'
  <2>1. \A k \in 1..(l + 1) : comments'[k] <= answers.n
    BY <1>3, <1>8, GitFacts DEF NumbersInv
  <2>2. \A i \in DOMAIN toRelay : \A k \in 1..(l + 1) : comments'[k] < toRelay[i].n
    BY <1>3, <1>8, GitFacts DEF NumbersInv
  <2>3. \A i \in DOMAIN toRelay : 0 < toRelay[i].n
    BY GitFacts
  <2>4. 0 <= answers.n
    BY GitFacts DEF GitTypes
  <2> QED BY <1>1, <1>3, <2>1, <2>2, <2>3, <2>4, GitFacts DEF NumbersInv
<1>10. CommentsInOrder'
  <2> SUFFICES ASSUME NEW i \in 1..(l + 1), NEW k \in 1..(l + 1), i < k
               PROVE  comments'[i] < comments'[k]
    BY <1>3 DEF CommentsInOrder
  <2>1. i \in 1..l
    BY <1>3
  <2>2. CASE k = l + 1
    BY <1>1, <1>3, <2>1, <2>2, GitFacts DEF NumbersInv
  <2>3. CASE k \in 1..l
    BY <1>3, <2>1, <2>3, GitFacts DEF CommentsInOrder
  <2> QED BY <1>8, <2>2, <2>3
<1> QED BY <1>4, <1>7, <1>9, <1>10 DEF GitInv

\* A post fails, or the run ends.
LEMMA EndKeeps == ASSUME GitInv, PostFails \/ RunEnds PROVE GitInv'
<1>1. /\ posting' = 0
      /\ UNCHANGED <<settings, event, turnAsked, response, toRelay, answers, comments>>
  BY DEF PostFails, RunEnds
<1>2. Accepted(event)' = Accepted(event)
  BY <1>1 DEF Accepted, HasTrigger, Permitted
<1>3. /\ tasks' \in [{"channel", "relay", "loop"} -> {"on", "ended", "raised"}]
      /\ tasks'.relay # "on"
      /\ runEnd' \in {"running", "returned", "raised"}
  BY GitFacts DEF PostFails, RunEnds, GitTypes, GitTypeOK
<1>4. GitTypes'
  BY <1>1, <1>3, GitFacts, GitAssumption DEF GitTypes, GitTypeOK
<1>5. NumbersInv'
  <2>1. \A i \in DOMAIN toRelay : 0 < toRelay[i].n
    BY GitFacts
  <2>2. 0 <= answers.n
    BY GitFacts DEF GitTypes
  <2> QED BY <1>1, <2>1, <2>2, GitFacts DEF NumbersInv
<1>6. CommentsInOrder' /\ WordsInv'
  BY <1>1, <1>3, GitFacts DEF CommentsInOrder, WordsInv
<1>7. AskedInv'
  BY <1>1, <1>2, <1>3, GitFacts DEF AskedInv, PostFails, RunEnds
<1>8. GreenMeansAnswered'
  BY <1>1, <1>2, GitFacts DEF GreenMeansAnswered, PostFails, RunEnds, Green, AskedInv
<1> QED BY <1>4, <1>5, <1>6, <1>7, <1>8 DEF GitInv

\* Every step keeps it.
LEMMA GitKeeps == GitInv /\ [GitNext]_gitVars => GitInv'
BY TasksKeep, AnswerKeeps, RelayKeeps, PostKeeps, EndKeeps DEF GitNext

\* What is said of the GitHub run follows.
LEMMA GitImplies == GitInv => GitTypeOK /\ GitRight
<1> SUFFICES ASSUME GitInv PROVE GitTypeOK /\ GitRight
  OBVIOUS
<1>1. GitTypeOK /\ GreenMeansAnswered /\ CommentsInOrder
  BY DEF GitInv, GitTypes
<1>2. WaitsOnlyForWords
  BY GitFacts DEF WordsInv, WaitsOnlyForWords, GitTypes
<1> QED BY <1>1, <1>2 DEF GitRight

\* A job that is green has answered or had nothing to answer, a run waits without end
\* only for an agent that said nothing, and comments keep the order of the texts.
THEOREM GitHolds == GitSpec => [](GitTypeOK /\ GitRight)
<1> QED BY GitImplies, GitStarts, GitKeeps, PTL DEF GitSpec

-----------------------------------------------------------------------------
(* The cron tool *)

Schedules == [kind : {"every", "cron", "at"}, ok : BOOLEAN]
Jobs == [there : {TRUE}, schedule : Schedules, next : BOOLEAN, on : BOOLEAN, home : Homes,
         deliver : BOOLEAN]
Runs == [on : {TRUE}, job : JobIds, home : Homes, redirected : BOOLEAN, deliver : BOOLEAN]

\* What holds of one job.
JobRight(job) ==
  /\ job.on /\ ~job.next => ~job.schedule.ok
  /\ ~job.on /\ job.next => job.schedule.kind # "at"

\* The running job delivers where it did when it was started, unless it was redirected.
RunInv ==
  cronRun.on /\ ~cronRun.redirected /\ cronRun.job \in Stored =>
    cronJobs[cronRun.job].home = cronRun.home

CronToolInv ==
  /\ marks \in BOOLEAN
  /\ cronJobs \in [JobIds -> {NoJobHere} \cup Jobs] /\ cronRun \in {NotRunning} \cup Runs
  /\ \A j \in Stored : JobRight(cronJobs[j])
  /\ RunInv /\ ~strayed

\* A stored job, and the job that runs.
LEMMA CronFacts ==
  ASSUME CronToolInv
  PROVE  /\ \A j \in Stored : j \in JobIds /\ cronJobs[j] \in Jobs
         /\ cronRun.on \in BOOLEAN /\ (cronRun.on => cronRun \in Runs)
         /\ \A j \in JobIds : j \notin Stored => cronJobs[j] = NoJobHere
<1>1. ASSUME NEW j \in JobIds, cronJobs[j] # NoJobHere PROVE cronJobs[j] \in Jobs
  BY <1>1 DEF CronToolInv
<1>2. ~NoJobHere.there
  BY DEF NoJobHere
<1>3. \A j \in JobIds : cronJobs[j] \in Jobs => cronJobs[j].there
  BY DEF Jobs
<1>4. cronRun.on \in BOOLEAN /\ (cronRun.on => cronRun \in Runs)
  <2>1. CASE cronRun = NotRunning
    BY <2>1 DEF NotRunning
  <2>2. CASE cronRun \in Runs
    BY <2>2 DEF Runs
  <2> QED BY <2>1, <2>2 DEF CronToolInv
<1> QED BY <1>1, <1>2, <1>3, <1>4 DEF Stored

\* One job changes, or comes, or goes.
LEMMA OneJobChanges ==
  ASSUME CronToolInv, NEW j \in JobIds, NEW job \in {NoJobHere} \cup Jobs,
         cronJobs' = [cronJobs EXCEPT ![j] = job], marks' = marks, ~strayed',
         job \in Jobs => JobRight(job),
         cronRun' \in {NotRunning} \cup Runs,
         cronRun'.on => /\ cronRun.on /\ cronRun'.job = cronRun.job /\ cronRun'.home = cronRun.home
                        /\ ~cronRun'.redirected => ~cronRun.redirected,
         cronRun'.on /\ ~cronRun'.redirected /\ cronRun'.job = j /\ job \in Jobs
           => job.home = cronRun.home
  PROVE  CronToolInv'
<1>1. /\ cronJobs' \in [JobIds -> {NoJobHere} \cup Jobs] /\ cronJobs'[j] = job
      /\ \A i \in JobIds : i # j => cronJobs'[i] = cronJobs[i]
  BY DEF CronToolInv
<1>2. job.there => job \in Jobs
  BY DEF NoJobHere
<1>3. \A i \in JobIds : i # j => (i \in Stored' <=> i \in Stored)
  BY <1>1 DEF Stored
<1>4. j \in Stored' <=> job.there
  BY <1>1 DEF Stored
<1>5. \A i \in Stored' : JobRight(cronJobs[i])'
  <2> SUFFICES ASSUME NEW i \in Stored' PROVE JobRight(cronJobs[i])'
    OBVIOUS
  <2>0. i \in JobIds
    BY DEF Stored
  <2>1. CASE i = j
    <3>1. JobRight(job) /\ cronJobs'[i] = job
      BY <1>1, <1>2, <1>4, <2>1
    <3> QED BY <3>1 DEF JobRight
  <2>2. CASE i # j
    <3>1. JobRight(cronJobs[i]) /\ cronJobs'[i] = cronJobs[i]
      BY <1>1, <1>3, <2>0, <2>2 DEF CronToolInv
    <3> QED BY <3>1 DEF JobRight
  <2> QED BY <2>1, <2>2
<1>6. RunInv'
  <2> SUFFICES ASSUME cronRun'.on, ~cronRun'.redirected, cronRun'.job \in Stored'
               PROVE  cronJobs'[cronRun'.job].home = cronRun'.home
    BY DEF RunInv
  <2>1. cronRun.on /\ cronRun'.job = cronRun.job /\ cronRun'.home = cronRun.home /\ ~cronRun.redirected
    OBVIOUS
  <2>2. CASE cronRun.job = j
    BY <1>1, <1>2, <1>4, <2>1, <2>2
  <2>3. CASE cronRun.job # j
    <3>1. cronRun.job \in JobIds
      BY <2>1 DEF Stored
    <3> QED BY <1>1, <1>3, <2>1, <2>3, <3>1 DEF CronToolInv, RunInv
  <2> QED BY <2>2, <2>3
<1> QED BY <1>1, <1>5, <1>6 DEF CronToolInv

\* It holds at the start.
LEMMA CronToolStarts == CronToolInit => CronToolInv
<1> SUFFICES ASSUME CronToolInit PROVE CronToolInv
  OBVIOUS
<1>1. ~NoJobHere.there /\ ~NotRunning.on
  BY DEF NoJobHere, NotRunning
<1>2. Stored = {}
  BY <1>1 DEF CronToolInit, Stored
<1> QED BY <1>1, <1>2 DEF CronToolInit, CronToolInv, RunInv

\* A job is added.
LEMMA AddKeeps ==
  ASSUME CronToolInv, NEW c \in Callers, NEW a \in AddCalls, NEW j \in JobIds, AddJobCall(c, a, j)
  PROVE  CronToolInv'
<1> DEFINE job == [there |-> TRUE, schedule |-> ScheduleOf(a), next |-> ScheduleOf(a).ok, on |-> TRUE,
                   home |-> c.home, deliver |-> TRUE]
<1>1. /\ ~(cronRun.on /\ cronRun.job = j) /\ ~c.inCron /\ c.home # Nowhere
      /\ cronJobs' = [cronJobs EXCEPT ![j] = job] /\ UNCHANGED <<marks, cronRun, strayed>>
  BY DEF AddJobCall, Refused
<1>2. ScheduleOf(a) \in Schedules
  BY CronToolAssumption DEF ScheduleOf, Schedules
<1>3. c.home \in Homes
  <2>1. CASE c \in {[home |-> h, inCron |-> FALSE] : h \in Homes \cup {Nowhere}}
    <3>1. PICK h \in Homes \cup {Nowhere} : c = [home |-> h, inCron |-> FALSE]
      BY <2>1
    <3>2. c.home = h
      BY <3>1
    <3> QED BY <1>1, <3>2
  <2>2. CASE cronRun.on /\ c = [home |-> cronRun.home, inCron |-> marks]
    <3>1. c.home = cronRun.home
      BY <2>2
    <3>2. cronRun.home \in Homes
      BY <2>2, CronFacts DEF Runs
    <3> QED BY <3>1, <3>2
  <2> QED BY <2>1, <2>2 DEF Callers
<1>4. job \in Jobs
  BY <1>2, <1>3 DEF Jobs, Schedules
<1>5. JobRight(job)
  BY <1>1, <1>3 DEF JobRight
<1> HIDE DEF job
<1>6. /\ cronRun' = cronRun /\ cronRun' \in {NotRunning} \cup Runs /\ ~strayed' /\ marks' = marks
  BY <1>1 DEF CronToolInv
<1> QED BY <1>1, <1>4, <1>5, <1>6, OneJobChanges

\* What an update makes of a job.
LEMMA UpdatedJob ==
  ASSUME NEW old \in Jobs, NEW u \in UpdateCalls
  PROVE  /\ Updated(old, u) \in Jobs
         /\ Updated(old, u).home = (IF u.to = Nowhere THEN old.home ELSE u.to)
         /\ Updated(old, u).on = old.on
         /\ \/ Updated(old, u).schedule = old.schedule /\ Updated(old, u).next = old.next
            \/ /\ Updated(old, u).schedule.ok = Updated(old, u).next
               /\ Updated(old, u).schedule.kind = "cron"
<1> DEFINE h == IF u.to = Nowhere THEN old.home ELSE u.to
           yes == u.deliver = "yes"
           d == IF u.deliver = "keep" THEN old.deliver ELSE yes
           good == u.expr = "good"
           n == IF u.expr = "" THEN old.next ELSE good
           c == [kind |-> "cron", ok |-> good]
           s == IF u.expr = "" THEN old.schedule ELSE c
<1>1. Updated(old, u) = [old EXCEPT !.home = h, !.deliver = d, !.schedule = s, !.next = n]
  BY DEF Updated, Jobs
<1>2. h \in Homes
  BY CronToolAssumption DEF Jobs
<1>3. yes \in BOOLEAN /\ good \in BOOLEAN
  OBVIOUS
<1>4. c \in Schedules /\ c.ok = good /\ c.kind = "cron"
  BY <1>3 DEF Schedules
<1>5. (s = old.schedule /\ n = old.next) \/ (s.ok = n /\ s.kind = "cron")
  <2> HIDE DEF c, good
  <2> QED BY <1>4
<1>6. old.deliver \in BOOLEAN /\ old.next \in BOOLEAN /\ old.schedule \in Schedules
  BY DEF Jobs
<1>7. d \in BOOLEAN /\ n \in BOOLEAN /\ s \in Schedules
  <2> HIDE DEF c, good, yes
  <2> QED BY <1>3, <1>4, <1>6
<1> HIDE DEF h, d, s, n
<1> QED BY <1>1, <1>2, <1>5, <1>7 DEF Jobs, h

\* A stored job is changed.
LEMMA JobChanges ==
  ASSUME CronToolInv, NEW j \in JobIds,
         \/ RemoveJobCall(j) \/ TimePasses(j)
         \/ \E u \in UpdateCalls : UpdateJobCall(j, u)
         \/ \E on \in BOOLEAN : EnableJobCall(j, on)
  PROVE  CronToolInv'
<1> DEFINE old == cronJobs[j]
<1>0. j \in Stored /\ old \in Jobs /\ JobRight(old) /\ marks' = marks /\ ~strayed'
      /\ cronRun \in {NotRunning} \cup Runs /\ cronJobs \in [JobIds -> {NoJobHere} \cup Jobs]
  <2>1. j \in Stored /\ marks' = marks /\ strayed' = strayed
    BY DEF RemoveJobCall, TimePasses, UpdateJobCall, EnableJobCall
  <2>2. old \in Jobs /\ JobRight(old)
    BY <2>1, CronFacts DEF CronToolInv
  <2>3. ~strayed /\ cronRun \in {NotRunning} \cup Runs /\ cronJobs \in [JobIds -> {NoJobHere} \cup Jobs]
    BY DEF CronToolInv
  <2>4. ~strayed'
    BY <2>1, <2>3
  <2> QED BY <2>1, <2>2, <2>3, <2>4
<1>a. cronRun.on /\ ~cronRun.redirected /\ cronRun.job = j => old.home = cronRun.home
  BY <1>0 DEF CronToolInv, RunInv
<1>1. CASE RemoveJobCall(j)
  <2>1. NoJobHere \notin Jobs
    BY DEF NoJobHere, Jobs
  <2>2. cronJobs' = [cronJobs EXCEPT ![j] = NoJobHere] /\ cronRun' = cronRun
    BY <1>1 DEF RemoveJobCall
  <2> QED BY <1>0, <2>1, <2>2, OneJobChanges
<1>2. CASE TimePasses(j)
  <2> DEFINE job == [old EXCEPT !.schedule.ok = FALSE]
  <2>1. cronJobs' = [cronJobs EXCEPT ![j] = job] /\ cronRun' = cronRun /\ ~old.on
    BY <1>2 DEF TimePasses
  <2>2. job \in Jobs /\ job.home = old.home /\ job.on = old.on /\ job.next = old.next
        /\ job.schedule.kind = old.schedule.kind
    BY <1>0 DEF Jobs, Schedules
  <2>3. JobRight(job)
    BY <1>0, <2>1, <2>2 DEF JobRight
  <2> HIDE DEF job
  <2> QED BY <1>0, <1>a, <2>1, <2>2, <2>3, OneJobChanges
<1>3. ASSUME NEW on \in BOOLEAN, EnableJobCall(j, on) PROVE CronToolInv'
  <2> DEFINE job == [old EXCEPT !.on = on, !.next = NextIf(j, on)]
  <2>1. cronJobs' = [cronJobs EXCEPT ![j] = job] /\ cronRun' = cronRun
    BY <1>0, <1>3 DEF EnableJobCall
  <2>2. NextIf(j, on) \in BOOLEAN /\ (NextIf(j, on) <=> on /\ old.schedule.ok)
    BY DEF NextIf
  <2>3. job \in Jobs /\ job.home = old.home /\ job.on = on /\ job.next = NextIf(j, on)
        /\ job.schedule = old.schedule
    BY <1>0, <2>2 DEF Jobs
  <2>4. JobRight(job)
    BY <1>0, <2>2, <2>3 DEF JobRight
  <2> HIDE DEF job
  <2> QED BY <1>0, <1>a, <2>1, <2>3, <2>4, OneJobChanges
<1>4. ASSUME NEW u \in UpdateCalls, UpdateJobCall(j, u) PROVE CronToolInv'
  <2> DEFINE job == Updated(old, u)
  <2>1. cronJobs' = [cronJobs EXCEPT ![j] = job] /\ cronRun' = Redirects(j, u)
    BY <1>4 DEF UpdateJobCall
  <2>4. /\ job \in Jobs /\ job.home = (IF u.to = Nowhere THEN old.home ELSE u.to)
        /\ job.on = old.on
        /\ \/ job.schedule = old.schedule /\ job.next = old.next
           \/ job.schedule.ok = job.next /\ job.schedule.kind = "cron"
    BY <1>0, UpdatedJob
  <2>5. JobRight(job)
    BY <1>0, <2>4 DEF JobRight
  <2>6. /\ cronRun' \in {NotRunning} \cup Runs
        /\ cronRun'.on => /\ cronRun.on /\ cronRun'.job = cronRun.job /\ cronRun'.home = cronRun.home
                          /\ ~cronRun'.redirected => ~cronRun.redirected
        /\ cronRun'.on /\ ~cronRun'.redirected /\ cronRun'.job = j => u.to = Nowhere
    <3>1. CASE cronRun.on /\ cronRun.job = j
      BY <2>1, <3>1, CronFacts DEF Redirects, Runs
    <3>2. CASE ~(cronRun.on /\ cronRun.job = j)
      BY <1>0, <2>1, <3>2 DEF Redirects
    <3> QED BY <3>1, <3>2
  <2> HIDE DEF job
  <2> QED BY <1>0, <1>a, <2>1, <2>4, <2>5, <2>6, OneJobChanges
<1> QED BY <1>1, <1>2, <1>3, <1>4

\* A job's turn begins.
LEMMA BeginKeeps == ASSUME CronToolInv, NEW j \in JobIds, OnCronJob(j) PROVE CronToolInv'
<1> DEFINE old == cronJobs[j]
           job == [old EXCEPT !.schedule.ok = @ /\ old.schedule.kind # "at"]
<1>1. /\ j \in Stored /\ old.on /\ old.next /\ UNCHANGED <<marks, strayed>>
      /\ cronJobs' = [cronJobs EXCEPT ![j] = job]
      /\ cronRun' = [on |-> TRUE, job |-> j, home |-> old.home, redirected |-> FALSE,
                     deliver |-> old.deliver]
  BY DEF OnCronJob
<1>2. old \in Jobs /\ JobRight(old) /\ cronJobs \in [JobIds -> {NoJobHere} \cup Jobs] /\ ~strayed'
  BY <1>1, CronFacts DEF CronToolInv
<1>3. /\ job \in Jobs /\ job.home = old.home /\ job.on = old.on /\ job.next = old.next
  BY <1>2 DEF Jobs, Schedules
<1>4. JobRight(job)
  BY <1>1, <1>2, <1>3 DEF JobRight
<1>5. cronRun' \in Runs
  BY <1>1, <1>2 DEF Runs, Jobs
<1> HIDE DEF job
<1>6. /\ cronJobs' \in [JobIds -> {NoJobHere} \cup Jobs] /\ cronJobs'[j] = job
      /\ \A i \in JobIds : i # j => cronJobs'[i] = cronJobs[i]
  BY <1>1, <1>2, <1>3
<1>7. \A i \in Stored' : JobRight(cronJobs[i])'
  <2> SUFFICES ASSUME NEW i \in Stored' PROVE JobRight(cronJobs[i])'
    OBVIOUS
  <2>0. i \in JobIds /\ (i # j => i \in Stored)
    BY <1>6 DEF Stored
  <2>1. JobRight(cronJobs'[i])
    BY <1>4, <1>6, <2>0 DEF CronToolInv
  <2> QED BY <1>1, <2>1 DEF JobRight
<1>8. RunInv'
  BY <1>1, <1>3, <1>6 DEF RunInv
<1> QED BY <1>1, <1>2, <1>5, <1>6, <1>7, <1>8 DEF CronToolInv

\* A job's turn ends.
LEMMA JobEndKeeps == ASSUME CronToolInv, NEW answered \in BOOLEAN, CronJobEnds(answered) PROVE CronToolInv'
<1> DEFINE j == cronRun.job
           old == cronJobs[j]
<1>1. cronRun.on /\ cronRun' = NotRunning /\ marks' = marks /\ cronJobs' = AfterRun(j)
  BY DEF CronJobEnds
<1>2. j \in JobIds /\ cronJobs \in [JobIds -> {NoJobHere} \cup Jobs]
  BY <1>1, CronFacts DEF Runs, CronToolInv
<1>3. ~strayed'
  BY <1>1 DEF CronJobEnds, CronToolInv, RunInv
<1>4. ~cronRun'.on
  BY <1>1 DEF NotRunning
<1>5. NoJobHere \notin Jobs
  BY DEF NoJobHere, Jobs
<1>6. CASE j \notin Stored
  <2>1. cronJobs' = [cronJobs EXCEPT ![j] = NoJobHere]
    BY <1>1, <1>2, <1>6, CronFacts DEF AfterRun
  <2> QED BY <1>1, <1>2, <1>3, <1>4, <1>5, <2>1, OneJobChanges
<1>7. CASE j \in Stored /\ old.schedule.kind = "at"
  <2>1. cronJobs' = [cronJobs EXCEPT ![j] = NoJobHere]
    BY <1>1, <1>7 DEF AfterRun
  <2> QED BY <1>1, <1>2, <1>3, <1>4, <1>5, <2>1, OneJobChanges
<1>8. CASE j \in Stored /\ old.schedule.kind # "at"
  <2>1. old \in Jobs /\ JobRight(old)
    BY <1>8, CronFacts DEF CronToolInv
  <2>2. PICK job \in Jobs : job = [old EXCEPT !.next = old.schedule.ok]
    BY <2>1 DEF Jobs, Schedules
  <2>3. cronJobs' = [cronJobs EXCEPT ![j] = job]
    BY <1>1, <1>2, <1>8, <2>2 DEF AfterRun
  <2>4. job.schedule = old.schedule /\ job.on = old.on /\ job.next = old.schedule.ok
    BY <2>1, <2>2 DEF Jobs
  <2>5. JobRight(job)
    BY <1>8, <2>1, <2>4 DEF JobRight
  <2>6. job \in {NoJobHere} \cup Jobs /\ cronRun' \in {NotRunning} \cup Runs /\ marks' = marks
    BY <1>1
  <2>7. PICK i \in JobIds : i = j
    BY <1>2
  <2>8. cronJobs' = [cronJobs EXCEPT ![i] = job]
    BY <2>3, <2>7
  <2>9. ~cronRun'.on /\ (job \in Jobs => JobRight(job)) /\ ~strayed'
    BY <1>3, <1>4, <2>5
  <2> HIDE DEF old, j
  <2>10. /\ cronRun'.on => /\ cronRun.on /\ cronRun'.job = cronRun.job /\ cronRun'.home = cronRun.home
                           /\ ~cronRun'.redirected => ~cronRun.redirected
         /\ cronRun'.on /\ ~cronRun'.redirected /\ cronRun'.job = i /\ job \in Jobs
             => job.home = cronRun.home
    BY <2>9
  <2> QED BY <2>6, <2>8, <2>9, <2>10, OneJobChanges
<1> QED BY <1>6, <1>7, <1>8

\* Every step keeps it.
LEMMA CronToolKeeps == CronToolInv /\ [CronToolNext]_cronToolVars => CronToolInv'
<1> SUFFICES ASSUME CronToolInv, [CronToolNext]_cronToolVars PROVE CronToolInv'
  OBVIOUS
<1>1. CASE UNCHANGED cronToolVars
  BY <1>1 DEF cronToolVars, CronToolInv, Stored, JobRight, RunInv
<1> QED BY <1>1, AddKeeps, JobChanges, BeginKeeps, JobEndKeeps DEF CronToolNext

\* What is said of the cron tool follows.
LEMMA CronToolImplies == CronToolInv => CronToolRight
<1> SUFFICES ASSUME CronToolInv PROVE CronToolRight
  OBVIOUS
<1>1. EnabledRuns /\ AnswersGoHome
  BY DEF CronToolInv, JobRight, EnabledRuns, AnswersGoHome
<1>2. EveryJobHasAHome
  BY CronFacts DEF EveryJobHasAHome, Jobs
<1> QED BY <1>1, <1>2 DEF CronToolRight

\* A job that is on runs if it can, answers go where the job delivers, and
\* every job has a home.
THEOREM CronToolHolds == CronToolSpec => []CronToolRight
<1> QED BY CronToolImplies, CronToolStarts, CronToolKeeps, PTL DEF CronToolSpec

-----------------------------------------------------------------------------
(* The skills *)

\* A SKILL.md is in a directory that goes by its skill's name, but for a package's,
\* and directories have their places.
ShelfInv ==
  /\ \A r \in {1, 2} : \A n \in SkillNames :
        DirAt(r, n).called = n /\ (DirAt(r, n).front.there => DirAt(r, n).dir)
  /\ \A r \in Ranks : \A n \in SkillNames : DirAt(r, n).nth \in Nat

\* The shelf as a table.
ShelfTable ==
  /\ shelf = [q \in {"workspace", "builtin", "package"} |-> shelf[q]]
  /\ shelf["workspace"] = [n \in SkillNames |-> shelf["workspace"][n]]

TurnRecord(r) ==
  /\ r = [on |-> r.on, alone |-> r.alone, own |-> r.own, loaded |-> r.loaded]
  /\ r.on \in BOOLEAN /\ r.alone \in BOOLEAN

\* The tool holds another set than the turns' as soon as one has its prompt.
TurnsInv ==
  /\ skilled = [t \in SkillTurns |-> skilled[t]] /\ \A t \in SkillTurns : TurnRecord(skilled[t])
  /\ \A t \in SkillTurns : skilled[t].on => ~sameSet

SkillsInv == ShelfTable /\ ShelfInv /\ TurnsInv /\ TurnHasItsTools

\* The three sources.
LEMMA SourcesAre ==
  /\ Sources[1] = "workspace" /\ Sources[2] = "builtin" /\ Sources[3] = "package"
  /\ Ranks = {1, 2, 3}
BY DEF Sources, Ranks

\* load_skill reads the first SKILL.md of a name that is allowed.
LEMMA FirstIsLoaded ==
  ASSUME NEW n, IsAllowed(n), NEW r \in Ranks, DirAt(r, n).front.there
  PROVE  /\ LoadedFrom(n) \in Ranks /\ LoadedFrom(n) <= r
         /\ DirAt(LoadedFrom(n), n).front.there
         /\ \A q \in Ranks : q < LoadedFrom(n) => ~DirAt(q, n).front.there
<1>1. r = 1 \/ r = 2 \/ r = 3
  BY SourcesAre
<1>2. CASE DirAt(1, n).front.there
  <2>1. LoadedFrom(n) = 1
    BY <1>2 DEF LoadedFrom
  <2> QED BY <1>1, <1>2, <2>1, SourcesAre
<1>3. CASE ~DirAt(1, n).front.there /\ DirAt(2, n).front.there
  <2>1. LoadedFrom(n) = 2
    BY <1>3 DEF LoadedFrom
  <2> QED BY <1>1, <1>3, <2>1, SourcesAre
<1>4. CASE ~DirAt(1, n).front.there /\ ~DirAt(2, n).front.there
  <2>1. r = 3 /\ LoadedFrom(n) = 3
    BY <1>1, <1>4 DEF LoadedFrom
  <2> QED BY <1>4, <2>1, SourcesAre
<1> QED BY <1>2, <1>3, <1>4

\* What it reads is there and allowed.
LEMMA LoadedIsThere ==
  ASSUME NEW n, LoadedFrom(n) # 0
  PROVE  LoadedFrom(n) \in Ranks /\ IsAllowed(n) /\ DirAt(LoadedFrom(n), n).front.there
BY SourcesAre DEF LoadedFrom

\* The summary and load_skill agree whatever is on the shelves.
LEMMA SummaryAgrees == SummaryIsLoadable
<1>1. ASSUME NEW e \in Listed PROVE LoadedFrom(e[1]) = e[2]
  <2>1. PICK n \in SkillNames, r \in Ranks :
          /\ e = <<n, r>> /\ IsAllowed(n) /\ DirAt(r, n).front.there
          /\ \A q \in Ranks : q < r => ~DirAt(q, n).front.there
    BY DEF Listed
  <2>2. /\ LoadedFrom(n) \in Ranks /\ LoadedFrom(n) <= r /\ DirAt(LoadedFrom(n), n).front.there
    BY <2>1, FirstIsLoaded
  <2>3. ~(LoadedFrom(n) < r)
    BY <2>1, <2>2
  <2>4. LoadedFrom(n) = r
    BY <2>2, <2>3, SourcesAre
  <2> QED BY <2>1, <2>4
<1>2. ASSUME NEW n \in SkillNames, LoadedFrom(n) # 0 PROVE <<n, LoadedFrom(n)>> \in Listed
  <2>1. LoadedFrom(n) \in Ranks /\ IsAllowed(n) /\ DirAt(LoadedFrom(n), n).front.there
    BY <1>2, LoadedIsThere
  <2>2. \A q \in Ranks : q < LoadedFrom(n) => ~DirAt(q, n).front.there
    BY <2>1, FirstIsLoaded
  <2> QED BY <2>1, <2>2 DEF Listed
<1> QED BY <1>1, <1>2 DEF SummaryIsLoadable

\* A directory of a skill.
LEMMA SkillDirIs ==
  ASSUME NEW d
  PROVE  d \in SkillDirs <=>
           \E n \in SkillNames : \E r \in Ranks :
             /\ IsAllowed(n) /\ DirAt(r, n).dir
             /\ d = [called |-> DirAt(r, n).called, name |-> n, rank |-> r, nth |-> DirAt(r, n).nth]
<1> DEFINE Dirs == {x \in SkillNames \X Ranks : IsAllowed(x[1]) /\ DirAt(x[2], x[1]).dir}
<1>1. ASSUME d \in SkillDirs
      PROVE  \E n \in SkillNames : \E r \in Ranks :
               /\ IsAllowed(n) /\ DirAt(r, n).dir
               /\ d = [called |-> DirAt(r, n).called, name |-> n, rank |-> r, nth |-> DirAt(r, n).nth]
  <2>1. PICK x \in Dirs : d = [called |-> DirAt(x[2], x[1]).called, name |-> x[1], rank |-> x[2],
             nth |-> DirAt(x[2], x[1]).nth]
    BY <1>1 DEF SkillDirs
  <2> QED BY <2>1
<1>2. ASSUME NEW n \in SkillNames, NEW r \in Ranks, IsAllowed(n), DirAt(r, n).dir,
             d = [called |-> DirAt(r, n).called, name |-> n, rank |-> r, nth |-> DirAt(r, n).nth]
      PROVE  d \in SkillDirs
  <2>1. PICK x : x = <<n, r>>
    OBVIOUS
  <2>2. x \in Dirs /\ x[1] = n /\ x[2] = r
    BY <1>2, <2>1
  <2>3. SkillDirs = {[called |-> DirAt(e[2], e[1]).called, name |-> e[1], rank |-> e[2],
                       nth |-> DirAt(e[2], e[1]).nth] : e \in Dirs}
    BY DEF SkillDirs
  <2>4. d = [called |-> DirAt(x[2], x[1]).called, name |-> x[1], rank |-> x[2],
             nth |-> DirAt(x[2], x[1]).nth]
    BY <1>2, <2>2
  <2> HIDE DEF Dirs
  <2> QED BY <2>2, <2>3, <2>4
<1> QED BY <1>1, <1>2

\* Hooks go with their skills, and those that run are allowed.
LEMMA HooksAgree == ASSUME ShelfInv PROVE HooksGoWithTheirSkill /\ HooksAreAllowed
<1>1. ASSUME NEW d \in SkillDirs, d.called = d.name, DirAt(d.rank, d.name).front.there
      PROVE  /\ d \in Firing => LoadedFrom(d.name) = d.rank
             /\ LoadedFrom(d.name) = d.rank /\ DirAt(d.rank, d.name).hook =>
                  \/ d \in Firing
                  \/ \E e \in SkillDirs :
                       /\ e.called = d.called /\ ComesBefore(e, d)
                       /\ ~DirAt(e.rank, e.name).front.there \/ e.name # d.name
  <2>1. PICK n \in SkillNames, r \in Ranks :
          /\ IsAllowed(n) /\ DirAt(r, n).dir
          /\ d = [called |-> DirAt(r, n).called, name |-> n, rank |-> r, nth |-> DirAt(r, n).nth]
    BY SkillDirIs
  <2>2. d.name = n /\ d.rank = r /\ d.called = n
    BY <1>1, <2>1
  <2> DEFINE q == LoadedFrom(n)
  <2>3. q \in Ranks /\ q <= r /\ DirAt(q, n).front.there
    BY <1>1, <2>1, <2>2, FirstIsLoaded
  <2> HIDE DEF q
  <2>4. ASSUME d \in Firing PROVE q = r
    <3>1. CASE q # r
      <4>1. q < r /\ q \in {1, 2}
        BY <2>3, <3>1, SourcesAre
      <4>2. DirAt(q, n).dir /\ DirAt(q, n).called = n
        BY <2>3, <4>1 DEF ShelfInv
      <4>3. PICK e : e = [called |-> DirAt(q, n).called, name |-> n, rank |-> q, nth |-> DirAt(q, n).nth]
        OBVIOUS
      <4>4. e \in SkillDirs
        BY <2>1, <2>3, <4>2, <4>3, SkillDirIs
      <4>5. e.called = d.called /\ e.rank = q
        BY <2>2, <4>2, <4>3
      <4>6. ~(e.rank < d.rank)
        BY <2>4, <4>4, <4>5 DEF Firing, ComesBefore
      <4> QED BY <2>2, <2>3, <4>1, <4>5, <4>6, SourcesAre
    <3> QED BY <3>1
  <2>5. ASSUME q = r, DirAt(r, n).hook, d \notin Firing
        PROVE  \E e \in SkillDirs :
                 /\ e.called = d.called /\ ComesBefore(e, d)
                 /\ ~DirAt(e.rank, e.name).front.there \/ e.name # d.name
    <3>1. PICK e \in SkillDirs : e.called = d.called /\ ComesBefore(e, d)
      BY <2>2, <2>5 DEF Firing
    <3>2. PICK n1 \in SkillNames, r1 \in Ranks :
            /\ IsAllowed(n1) /\ DirAt(r1, n1).dir
            /\ e = [called |-> DirAt(r1, n1).called, name |-> n1, rank |-> r1, nth |-> DirAt(r1, n1).nth]
      BY SkillDirIs
    <3>3. e.name = n1 /\ e.rank = r1
      BY <3>2
    <3>4. r1 < r \/ (r1 = r /\ e.nth < d.nth)
      BY <2>2, <3>1, <3>3 DEF ComesBefore
    <3>5. ASSUME DirAt(r1, n1).front.there, n1 = n PROVE FALSE
      <4>1. q <= r1
        BY <2>1, <3>2, <3>5, FirstIsLoaded DEF q
      <4>2. r1 = r
        BY <2>5, <3>4, <4>1, SourcesAre
      <4>3. e.nth = d.nth /\ e = d
        BY <2>1, <3>2, <3>5, <4>2
      <4>4. e.nth < d.nth
        BY <3>4, <4>2, SourcesAre
      <4>5. d.nth \in Nat
        BY <2>1 DEF ShelfInv
      <4> QED BY <4>3, <4>4, <4>5
    <3> QED BY <2>2, <3>1, <3>3, <3>5
  <2> QED BY <2>2, <2>4, <2>5 DEF q
<1>2. HooksGoWithTheirSkill
  BY <1>1 DEF HooksGoWithTheirSkill
<1>3. HooksAreAllowed
  <2> SUFFICES ASSUME NEW d \in Firing, d.called \notin allowedSkills
               PROVE  d.rank = 3 /\ d.called # d.name
    BY DEF HooksAreAllowed
  <2>1. PICK n \in SkillNames, r \in Ranks :
          /\ IsAllowed(n) /\ DirAt(r, n).dir
          /\ d = [called |-> DirAt(r, n).called, name |-> n, rank |-> r, nth |-> DirAt(r, n).nth]
    BY SkillDirIs DEF Firing
  <2>2. d.name = n /\ d.rank = r /\ d.called = DirAt(r, n).called /\ n \in allowedSkills
    BY <2>1 DEF IsAllowed
  <2>3. r \notin {1, 2}
    BY <2>2 DEF ShelfInv
  <2> QED BY <2>2, <2>3, SourcesAre
<1> QED BY <1>2, <1>3

\* A turn's record with one field changed.
LEMMA RecordChanges ==
  ASSUME NEW r, TurnRecord(r), NEW v
  PROVE  /\ [r EXCEPT !.alone = v] = [on |-> r.on, alone |-> v, own |-> r.own, loaded |-> r.loaded]
         /\ [r EXCEPT !.loaded = v] = [on |-> r.on, alone |-> r.alone, own |-> r.own, loaded |-> v]
<1>1. PICK on, alone, own, loaded : r = [on |-> on, alone |-> alone, own |-> own, loaded |-> loaded]
  BY DEF TurnRecord
<1>2. r.on = on /\ r.alone = alone /\ r.own = own /\ r.loaded = loaded
  BY <1>1
<1>3. [r EXCEPT !.alone = v] = [on |-> on, alone |-> v, own |-> own, loaded |-> loaded]
  BY <1>1
<1>4. [r EXCEPT !.loaded = v] = [on |-> on, alone |-> alone, own |-> own, loaded |-> v]
  BY <1>1
<1> QED BY <1>2, <1>3, <1>4

\* It holds at the start.
LEMMA SkillsStart == SkillsInit => SkillsInv
<1> SUFFICES ASSUME SkillsInit PROVE SkillsInv
  OBVIOUS
<1>1. PICK s \in Shelves :
        shelf = [q \in {"workspace", "builtin", "package"} |->
                   IF q = "workspace" THEN [n \in SkillNames |-> NoDir(n)] ELSE s[q]]
  BY DEF SkillsInit
<1>2. /\ shelf["workspace"] = [n \in SkillNames |-> NoDir(n)]
      /\ shelf["builtin"] = s["builtin"] /\ shelf["package"] = s["package"]
  BY <1>1
<1>3. ShelfTable
  BY <1>1, <1>2 DEF ShelfTable
<1>4. \A n \in SkillNames : ~NoDir(n).front.there /\ NoDir(n).called = n /\ NoDir(n).nth \in Nat
  BY DEF NoDir, NoFront
<1>5. \A n \in SkillNames :
        /\ DirAt(1, n) = NoDir(n) /\ DirAt(2, n) = s["builtin"][n] /\ DirAt(3, n) = s["package"][n]
  BY <1>2, SourcesAre DEF DirAt
<1>6. ShelfInv
  BY <1>4, <1>5, SourcesAre, SkillsAssumption DEF ShelfInv
<1>7. skilled = [t \in SkillTurns |-> NotLoaded]
  BY DEF SkillsInit
<1>8. TurnRecord(NotLoaded) /\ ~NotLoaded.on
  BY DEF TurnRecord, NotLoaded
<1>9. TurnsInv /\ TurnHasItsTools
  BY <1>7, <1>8 DEF TurnsInv, TurnHasItsTools
<1> QED BY <1>3, <1>6, <1>9 DEF SkillsInv

\* A prompt is built.
LEMMA PromptKeeps == ASSUME SkillsInv, NEW t \in SkillTurns, BuildSystemPrompt(t) PROVE SkillsInv'
<1>1. PICK tools :
        /\ optionalTools' = tools /\ sameSet' = FALSE
        /\ skilled' = [u \in SkillTurns |->
                         IF u = t THEN [on |-> TRUE, alone |-> TRUE, own |-> tools, loaded |-> {}]
                         ELSE [skilled[u] EXCEPT !.alone = FALSE]]
        /\ UNCHANGED <<shelf, allowedSkills, writes>>
  BY DEF BuildSystemPrompt, Rebind
<1>2. ShelfTable' /\ ShelfInv'
  BY <1>1 DEF SkillsInv, ShelfTable, ShelfInv, DirAt
<1> DEFINE built == [on |-> TRUE, alone |-> TRUE, own |-> tools, loaded |-> {}]
<1>3. TurnRecord(built) /\ built.own = tools
  BY DEF TurnRecord
<1>4. ASSUME NEW u \in SkillTurns
      PROVE  /\ TurnRecord([skilled[u] EXCEPT !.alone = FALSE])
             /\ ~[skilled[u] EXCEPT !.alone = FALSE].alone
  <2> DEFINE r == skilled[u]
  <2>1. TurnRecord(r)
    BY DEF SkillsInv, TurnsInv
  <2>2. PICK s : s = [on |-> r.on, alone |-> FALSE, own |-> r.own, loaded |-> r.loaded]
    OBVIOUS
  <2>3. [r EXCEPT !.alone = FALSE] = s
    BY <2>1, <2>2, RecordChanges
  <2>4. s.on = r.on /\ s.alone = FALSE /\ s.own = r.own /\ s.loaded = r.loaded /\ r.on \in BOOLEAN
    BY <2>1, <2>2 DEF TurnRecord
  <2>5. TurnRecord(s)
    BY <2>2, <2>4 DEF TurnRecord
  <2> QED BY <2>3, <2>4, <2>5
<1>5. \A u \in SkillTurns : skilled'[u] = IF u = t THEN built ELSE [skilled[u] EXCEPT !.alone = FALSE]
  BY <1>1
<1> HIDE DEF built
<1>6. \A u \in SkillTurns : TurnRecord(skilled'[u])
  BY <1>3, <1>4, <1>5
<1>7. skilled' = [u \in SkillTurns |-> skilled'[u]]
  BY <1>1
<1>8. TurnsInv'
  BY <1>1, <1>6, <1>7 DEF TurnsInv, TurnRecord
<1>9. TurnHasItsTools'
  BY <1>1, <1>3, <1>4, <1>5 DEF TurnHasItsTools
<1> QED BY <1>2, <1>8, <1>9 DEF SkillsInv

\* A turn loads a skill, or ends.
LEMMA TurnKeeps ==
  ASSUME SkillsInv, NEW t \in SkillTurns, EndTurn(t) \/ \E n \in SkillNames : ExecuteLoadSkill(t, n)
  PROVE  SkillsInv'
<1>1. skilled[t].on /\ ~sameSet /\ TurnRecord(skilled[t])
  BY DEF SkillsInv, TurnsInv, EndTurn, ExecuteLoadSkill
<1>2. UNCHANGED <<shelf, sameSet>> /\ optionalTools' = optionalTools
  BY <1>1 DEF EndTurn, ExecuteLoadSkill
<1>3. ShelfTable' /\ ShelfInv'
  BY <1>2 DEF SkillsInv, ShelfTable, ShelfInv, DirAt
<1>4. PICK r :
        /\ skilled' = [skilled EXCEPT ![t] = r] /\ TurnRecord(r)
        /\ r.on /\ r.alone => skilled[t].on /\ skilled[t].alone /\ r.own = skilled[t].own
  <2>1. CASE EndTurn(t)
    <3>1. TurnRecord(NotLoaded) /\ ~NotLoaded.on
      BY DEF TurnRecord, NotLoaded
    <3> QED BY <2>1, <3>1 DEF EndTurn
  <2>2. ASSUME NEW n \in SkillNames, ExecuteLoadSkill(t, n)
        PROVE  \E r : /\ skilled' = [skilled EXCEPT ![t] = r] /\ TurnRecord(r)
                      /\ r.on /\ r.alone => skilled[t].on /\ skilled[t].alone /\ r.own = skilled[t].own
    <3> DEFINE more == Metadata(n).tools
               r == [skilled[t] EXCEPT !.loaded = @ \cup more]
    <3>1. skilled' = [skilled EXCEPT ![t] = r]
      BY <2>2 DEF ExecuteLoadSkill
    <3>2. TurnRecord(r) /\ r.on = skilled[t].on /\ r.alone = skilled[t].alone /\ r.own = skilled[t].own
      <4>1. PICK s : s = [on |-> skilled[t].on, alone |-> skilled[t].alone, own |-> skilled[t].own,
                          loaded |-> skilled[t].loaded \cup more]
        OBVIOUS
      <4>2. r = s
        BY <1>1, <4>1, RecordChanges
      <4>3. /\ s.on = skilled[t].on /\ s.alone = skilled[t].alone /\ s.own = skilled[t].own
            /\ s.loaded = skilled[t].loaded \cup more
        BY <4>1
      <4>4. TurnRecord(s)
        BY <1>1, <4>1, <4>3 DEF TurnRecord
      <4> HIDE DEF r
      <4> QED BY <4>2, <4>3, <4>4
    <3> QED BY <3>1, <3>2
  <2> QED BY <2>1, <2>2
<1>5. /\ skilled = [u \in SkillTurns |-> skilled[u]] /\ \A u \in SkillTurns : TurnRecord(skilled[u])
      /\ TurnHasItsTools
  BY DEF SkillsInv, TurnsInv
<1>6. /\ skilled' = [u \in SkillTurns |-> skilled'[u]]
      /\ \A u \in SkillTurns : skilled'[u] = IF u = t THEN r ELSE skilled[u]
  BY <1>4, <1>5
<1>7. \A u \in SkillTurns : TurnRecord(skilled'[u])
  BY <1>4, <1>5, <1>6
<1>8. TurnsInv'
  BY <1>1, <1>2, <1>6, <1>7 DEF TurnsInv, TurnRecord
<1>9. TurnHasItsTools'
  BY <1>2, <1>4, <1>5, <1>6 DEF TurnHasItsTools
<1> QED BY <1>3, <1>8, <1>9 DEF SkillsInv

\* The agent writes a directory.
LEMMA WriteKeeps == ASSUME SkillsInv, NEW n \in SkillNames, WriteSkill(n) PROVE SkillsInv'
<1>1. PICK d :
        /\ d.dir /\ d.called = n /\ d.nth \in Nat
        /\ shelf' = [shelf EXCEPT !["workspace"][n] = d]
        /\ UNCHANGED <<optionalTools, sameSet, skilled>>
  <2>1. PICK w \in AgentWrites :
          shelf' = [shelf EXCEPT !["workspace"][n] =
                      [dir |-> TRUE, front |-> w.front, hook |-> w.hook, called |-> n, nth |-> 0]]
    BY DEF WriteSkill
  <2>2. PICK d : d = [dir |-> TRUE, front |-> w.front, hook |-> w.hook, called |-> n, nth |-> 0]
    OBVIOUS
  <2>3. d.dir /\ d.called = n /\ d.nth \in Nat
    BY <2>2
  <2>4. shelf' = [shelf EXCEPT !["workspace"][n] = d] /\ UNCHANGED <<optionalTools, sameSet, skilled>>
    BY <2>1, <2>2 DEF WriteSkill
  <2> QED BY <2>3, <2>4
<1>2. /\ shelf = [q \in {"workspace", "builtin", "package"} |-> shelf[q]]
      /\ shelf["workspace"] = [m \in SkillNames |-> shelf["workspace"][m]]
  BY DEF SkillsInv, ShelfTable
<1>3. /\ shelf' = [q \in {"workspace", "builtin", "package"} |-> shelf'[q]]
      /\ shelf'["workspace"] = [shelf["workspace"] EXCEPT ![n] = d]
      /\ shelf'["builtin"] = shelf["builtin"] /\ shelf'["package"] = shelf["package"]
  BY <1>1, <1>2
<1>4. /\ shelf'["workspace"] = [m \in SkillNames |-> shelf'["workspace"][m]]
      /\ \A m \in SkillNames : shelf'["workspace"][m] = IF m = n THEN d ELSE shelf["workspace"][m]
  BY <1>2, <1>3
<1>5. ShelfTable'
  BY <1>3, <1>4 DEF ShelfTable
<1>6. \A m \in SkillNames :
        /\ DirAt(1, m)' = IF m = n THEN d ELSE DirAt(1, m)
        /\ DirAt(2, m)' = DirAt(2, m) /\ DirAt(3, m)' = DirAt(3, m)
  BY <1>3, <1>4, SourcesAre DEF DirAt
<1>7. ShelfInv'
  BY <1>1, <1>6, SourcesAre DEF SkillsInv, ShelfInv
<1>8. TurnsInv' /\ TurnHasItsTools'
  BY <1>1 DEF SkillsInv, TurnsInv, TurnHasItsTools
<1> QED BY <1>5, <1>7, <1>8 DEF SkillsInv

\* Every step keeps it.
LEMMA SkillsKeep == SkillsInv /\ [SkillsNext]_skillsVars => SkillsInv'
<1> SUFFICES ASSUME SkillsInv, [SkillsNext]_skillsVars PROVE SkillsInv'
  OBVIOUS
<1>1. CASE UNCHANGED skillsVars
  BY <1>1 DEF skillsVars, SkillsInv, ShelfTable, ShelfInv, DirAt, TurnsInv, TurnHasItsTools
<1> QED BY <1>1, PromptKeeps, TurnKeeps, WriteKeeps DEF SkillsNext

\* What is said of the skills follows.
LEMMA SkillsImply == SkillsInv => SkillsRight
BY SummaryAgrees, HooksAgree DEF SkillsInv, SkillsRight

\* The summary tells of the skills that load_skill finds, hooks go with them and are
\* allowed, and a turn that met no other has the tools of its skills.
THEOREM SkillsHold == SkillsSpec => []SkillsRight
<1> QED BY SkillsImply, SkillsStart, SkillsKeep, PTL DEF SkillsSpec

-----------------------------------------------------------------------------
(* The terminals *)

Said == [of : Nat, says : {"text", "empty", "progress"}]
Shown == [n : Nat, answer : BOOLEAN]

\* How many messages were taken off the bus.
TakenUpTo == Len(said) - Len(outgoing)

\* What is on the bus are the latest messages, in their order.
TermTypes ==
  /\ TerminalTypeOK
  /\ shared \in BOOLEAN /\ termOpen \in BOOLEAN /\ turnDone \in BOOLEAN /\ consumer \in BOOLEAN
  /\ inbox \in Seq(Nat) /\ said \in Seq(Said) /\ outgoing \in Seq(Nat)
  /\ held \in Seq(Nat) /\ printed \in Seq(Shown)
  /\ \A i \in DOMAIN inbox : inbox[i] \in 1..typedLines
  /\ Len(outgoing) <= Len(said) /\ \A i \in DOMAIN outgoing : outgoing[i] = TakenUpTo + i
  /\ \A i \in DOMAIN held : held[i] \in 1..TakenUpTo
  /\ \A i \in DOMAIN printed : printed[i].n \in 1..TakenUpTo

\* The REPL's consumer runs while it is open; an answer is held only by a REPL whose
\* wait is over; somebody who does not wait has the event set.
ConsoleInv ==
  /\ consumer => console = "cli"
  /\ shared => console = "cli"
  /\ console = "cli" /\ termOpen => consumer
  /\ held # <<>> => console = "cli" /\ turnDone /\ termAt = "waiting"
  /\ termAt # "waiting" => turnDone

\* Who waits, open and with a bus of its own, gets an answer.
AnswerComes ==
  termAt = "waiting" /\ ~turnDone /\ termOpen /\ ~shared =>
    \/ turnOf # 0 \/ inbox # <<>>
    \/ \E i \in DOMAIN outgoing : said[outgoing[i]].says # "progress"

TakenTexts == {n \in 1..TakenUpTo : IsText(n)}
Numbers == {printed[i].n : i \in DOMAIN printed} \cup ToSet(held)

\* Whatever text the REPL took is printed or held.
ShownInv ==
  console = "cli" /\ termAt # "out" /\ ~shared =>
    TakenTexts = Numbers /\ Cardinality(TakenTexts) = Len(printed) + Len(held)

Awaits == termAt = "waiting" /\ ~turnDone
OneIf(b) == IF b THEN 1 ELSE 0

\* One line at a time is under way, but for the messages said besides.
FlightInv ==
  console = "cli" \/ termOpen =>
    Len(inbox) + OneIf(turnOf # 0) + Len(outgoing) <= OneIf(Awaits) + extras

\* And it is the last one, if nothing else was said.
LineInv ==
  console = "cli" /\ extras = 0 =>
    /\ \A i \in DOMAIN inbox : inbox[i] = typedLines
    /\ turnOf # 0 => turnOf = typedLines
    /\ \A i \in DOMAIN outgoing : said[outgoing[i]].of = typedLines
    /\ \A i \in DOMAIN held : said[held[i]].of = typedLines

TerminalInv ==
  TermTypes /\ ConsoleInv /\ AnswerComes /\ ShownInv /\ FlightInv /\ LineInv /\ PrintedInOrder

\* The parts of the invariant, and the sequences in it.
LEMMA TermFacts ==
  ASSUME TerminalInv
  PROVE  /\ TermTypes /\ ConsoleInv /\ AnswerComes /\ ShownInv /\ FlightInv /\ LineInv /\ PrintedInOrder
         /\ Len(said) \in Nat /\ DOMAIN said = 1..Len(said)
         /\ Len(outgoing) \in Nat /\ DOMAIN outgoing = 1..Len(outgoing)
         /\ Len(inbox) \in Nat /\ DOMAIN inbox = 1..Len(inbox)
         /\ Len(held) \in {0, 1} /\ DOMAIN held = 1..Len(held)
         /\ Len(printed) \in Nat /\ DOMAIN printed = 1..Len(printed)
         /\ TakenUpTo \in 0..Len(said) /\ extras \in Nat
         /\ typedLines \in Nat /\ turnOf \in 0..typedLines
<1>1. TermTypes /\ ConsoleInv /\ AnswerComes /\ ShownInv /\ FlightInv /\ LineInv /\ PrintedInOrder
  BY DEF TerminalInv
<1>2. /\ Len(said) \in Nat /\ DOMAIN said = 1..Len(said)
      /\ Len(outgoing) \in Nat /\ DOMAIN outgoing = 1..Len(outgoing)
  BY <1>1, LenProperties DEF TermTypes
<1>3. /\ Len(inbox) \in Nat /\ DOMAIN inbox = 1..Len(inbox)
      /\ Len(held) \in Nat /\ DOMAIN held = 1..Len(held)
      /\ Len(printed) \in Nat /\ DOMAIN printed = 1..Len(printed)
  BY <1>1, LenProperties DEF TermTypes
<1>4. Len(held) <= 1 /\ Len(outgoing) <= Len(said) /\ extras \in Nat
      /\ typedLines \in Nat /\ turnOf \in 0..typedLines
  BY <1>1, TerminalsAssumption DEF TermTypes, TerminalTypeOK
<1>5. Len(held) \in {0, 1}
  BY <1>3, <1>4
<1>6. TakenUpTo \in 0..Len(said)
  BY <1>2, <1>4 DEF TakenUpTo
<1> QED BY <1>1, <1>2, <1>3, <1>4, <1>5, <1>6

\* It holds at the start.
LEMMA TerminalStarts == TerminalInit => TerminalInv
<1> SUFFICES ASSUME TerminalInit PROVE TerminalInv
  OBVIOUS
<1>1. /\ inbox = <<>> /\ said = <<>> /\ outgoing = <<>> /\ held = <<>> /\ printed = <<>>
      /\ TakenUpTo = 0 /\ Len(held) = 0
  BY DEF TerminalInit, TakenUpTo
<1>2. TerminalTypeOK
  BY <1>1, TerminalsAssumption DEF TerminalInit, TerminalTypeOK
<1>3. TermTypes
  <2>1. consumer \in BOOLEAN /\ termOpen \in BOOLEAN /\ turnDone \in BOOLEAN /\ shared \in BOOLEAN
    BY DEF TerminalInit
  <2>2. <<>> \in Seq(Nat) /\ <<>> \in Seq(Said) /\ <<>> \in Seq(Shown) /\ Len(<<>>) = 0
    BY EmptySeq
  <2> QED BY <1>1, <1>2, <2>1, <2>2 DEF TermTypes
<1>4. ConsoleInv /\ AnswerComes
  BY <1>1 DEF TerminalInit, ConsoleInv, AnswerComes
<1>5. ShownInv
  <2>1. TakenTexts = {} /\ Cardinality({}) = 0
    BY <1>1, FS_EmptySet DEF TakenTexts
  <2>2. Numbers = {}
    BY <1>1 DEF Numbers, ToSet
  <2> QED BY <1>1, <2>1, <2>2 DEF ShownInv
<1>6. FlightInv /\ LineInv /\ PrintedInOrder
  BY <1>1 DEF TerminalInit, FlightInv, LineInv, PrintedInOrder, OneIf, Awaits
<1> QED BY <1>3, <1>4, <1>5, <1>6 DEF TerminalInv

-----------------------------------------------------------------------------
(* What the steps do to the bus *)

\* A message is put on the bus.
LEMMA SaysFacts ==
  ASSUME TerminalInv, NEW says \in {"text", "empty", "progress"}, Says(says)
  PROVE  /\ said' \in Seq(Said) /\ outgoing' \in Seq(Nat)
         /\ Len(said') = Len(said) + 1 /\ Len(outgoing') = Len(outgoing) + 1
         /\ DOMAIN outgoing' = 1..(Len(outgoing) + 1)
         /\ said'[Len(said) + 1] = [of |-> turnOf, says |-> says]
         /\ \A i \in 1..Len(said) : said'[i] = said[i]
         /\ outgoing'[Len(outgoing) + 1] = Len(said) + 1
         /\ \A i \in 1..Len(outgoing) : outgoing'[i] = outgoing[i] /\ outgoing[i] \in 1..Len(said)
         /\ TakenUpTo' = TakenUpTo
         /\ \A i \in DOMAIN outgoing' : outgoing'[i] = TakenUpTo' + i
<1> DEFINE l == Len(said)
           b == Len(outgoing)
           m == [of |-> turnOf, says |-> says]
<1>1. /\ said \in Seq(Said) /\ outgoing \in Seq(Nat) /\ l \in Nat /\ b \in Nat /\ m \in Said
      /\ DOMAIN outgoing = 1..b /\ TakenUpTo = l - b /\ b <= l
      /\ \A i \in 1..b : outgoing[i] = (l - b) + i
  <2>1. TermTypes /\ l \in Nat /\ b \in Nat /\ DOMAIN outgoing = 1..b /\ typedLines \in Nat
        /\ turnOf \in 0..typedLines
    BY TermFacts
  <2>2. m \in Said
    <3>1. turnOf \in Nat
      BY <2>1
    <3> QED BY <3>1 DEF Said
  <2>3. TakenUpTo = l - b
    BY DEF TakenUpTo
  <2>4. said \in Seq(Said) /\ outgoing \in Seq(Nat) /\ b <= l
        /\ \A i \in DOMAIN outgoing : outgoing[i] = TakenUpTo + i
    BY <2>1 DEF TermTypes
  <2> QED BY <2>1, <2>2, <2>3, <2>4
<1>2. said' = Append(said, m) /\ outgoing' = Append(outgoing, l + 1)
  BY DEF Says
<1> HIDE DEF m
<1>3. /\ said' \in Seq(Said) /\ Len(said') = l + 1 /\ said'[l + 1] = m
      /\ \A i \in 1..l : said'[i] = said[i]
  BY <1>1, <1>2
<1>4. /\ outgoing' \in Seq(Nat) /\ Len(outgoing') = b + 1 /\ outgoing'[b + 1] = l + 1
      /\ \A i \in 1..b : outgoing'[i] = outgoing[i]
  BY <1>1, <1>2
<1>5. DOMAIN outgoing' = 1..(b + 1)
  BY <1>4, LenProperties
<1>6. TakenUpTo' = (l + 1) - (b + 1)
  BY <1>3, <1>4 DEF TakenUpTo
<1> HIDE DEF l, b
<1>7. TakenUpTo' = TakenUpTo
  BY <1>1, <1>6
<1>8. \A i \in 1..b : outgoing[i] \in 1..l
  BY <1>1
<1>9. \A i \in 1..(b + 1) : outgoing'[i] = (l - b) + i
  <2> TAKE i \in 1..(b + 1)
  <2>1. CASE i = b + 1
    BY <1>1, <1>4, <2>1
  <2>2. CASE i # b + 1
    <3>1. i \in 1..b
      BY <1>1, <2>2
    <3> QED BY <1>1, <1>4, <3>1
  <2> QED BY <2>1, <2>2
<1> QED BY <1>1, <1>3, <1>4, <1>5, <1>7, <1>8, <1>9 DEF l, b, m

\* The oldest message is taken off the bus.
LEMMA TakesFacts ==
  ASSUME TerminalInv, outgoing # <<>>, outgoing' = Tail(outgoing), said' = said
  PROVE  /\ outgoing' \in Seq(Nat) /\ Len(outgoing) \in Nat \ {0} /\ Len(outgoing') = Len(outgoing) - 1
         /\ DOMAIN outgoing' = 1..(Len(outgoing) - 1)
         /\ Head(outgoing) = outgoing[1] /\ Head(outgoing) = TakenUpTo + 1
         /\ Head(outgoing) \in 1..Len(said) /\ said[Head(outgoing)] \in Said
         /\ TakenUpTo' = TakenUpTo + 1 /\ TakenUpTo \in Nat
         /\ \A i \in 1..(Len(outgoing) - 1) :
               outgoing'[i] = outgoing[i + 1] /\ i + 1 \in DOMAIN outgoing
         /\ \A i \in DOMAIN outgoing' : outgoing'[i] = TakenUpTo' + i
<1> DEFINE l == Len(said)
           b == Len(outgoing)
<1>1. /\ said \in Seq(Said) /\ outgoing \in Seq(Nat) /\ l \in Nat
      /\ DOMAIN outgoing = 1..b /\ TakenUpTo = l - b /\ b <= l
      /\ \A i \in 1..b : outgoing[i] = (l - b) + i
  BY TermFacts DEF TermTypes, TakenUpTo
<1>2. b \in Nat \ {0}
  BY <1>1, EmptySeq
<1>3. /\ outgoing' \in Seq(Nat) /\ Len(outgoing') = b - 1
      /\ \A i \in 1..Len(outgoing') : outgoing'[i] = outgoing[i + 1]
  BY <1>1, HeadTailProperties
<1>4. DOMAIN outgoing' = 1..(b - 1)
  BY <1>3, LenProperties
<1>5. Head(outgoing) = outgoing[1]
  BY <1>1
<1>6. TakenUpTo' = l - (b - 1)
  BY <1>3 DEF TakenUpTo
<1> HIDE DEF l, b
<1>7. TakenUpTo' = TakenUpTo + 1 /\ TakenUpTo \in Nat
  BY <1>1, <1>2, <1>6
<1>8. Head(outgoing) = TakenUpTo + 1 /\ Head(outgoing) \in 1..l
  BY <1>1, <1>2, <1>5
<1>9. said[Head(outgoing)] \in Said
  BY <1>1, <1>8, ElementOfSeq DEF l
<1>10. \A i \in 1..(b - 1) : outgoing'[i] = outgoing[i + 1] /\ i + 1 \in 1..b
  BY <1>2, <1>3
<1>11. \A i \in 1..(b - 1) : outgoing'[i] = TakenUpTo' + i
  BY <1>1, <1>2, <1>7, <1>10
<1> QED BY <1>1, <1>2, <1>3, <1>4, <1>5, <1>7, <1>8, <1>9, <1>10, <1>11 DEF l, b

\* A line is printed, an answer or the latest message.
LEMMA PrintFacts ==
  ASSUME TerminalInv, NEW n \in Nat, NEW answer \in BOOLEAN, printed' = Append(printed, Line(n, answer)),
         console' = console,
         (answer /\ console = "cli") \/ \A i \in DOMAIN printed : printed[i].n < n
  PROVE  /\ PrintedInOrder' /\ printed' \in Seq(Shown) /\ Len(printed') = Len(printed) + 1
         /\ DOMAIN printed' = 1..(Len(printed) + 1)
         /\ printed'[Len(printed) + 1].n = n /\ \A i \in DOMAIN printed : printed'[i] = printed[i]
         /\ {printed'[i].n : i \in DOMAIN printed'} = {printed[i].n : i \in DOMAIN printed} \cup {n}
<1> DEFINE l == Len(printed)
           x == Line(n, answer)
<1>1. /\ printed \in Seq(Shown) /\ l \in Nat /\ DOMAIN printed = 1..l /\ PrintedInOrder
      /\ x \in Shown /\ x.n = n /\ x.answer = answer
  BY TermFacts DEF TermTypes, Line, Shown
<1> HIDE DEF x
<1>2. /\ printed' \in Seq(Shown) /\ Len(printed') = l + 1 /\ printed'[l + 1] = x
      /\ \A i \in 1..l : printed'[i] = printed[i]
  BY <1>1 DEF x
<1>3. DOMAIN printed' = 1..(l + 1)
  BY <1>2, LenProperties
<1> HIDE DEF l
<1>4. \A i \in 1..(l + 1) : i \in 1..l \/ i = l + 1
  BY <1>1
<1>5. PrintedInOrder'
  <2> SUFFICES ASSUME NEW i \in 1..(l + 1), NEW k \in 1..(l + 1), i < k, printed'[i].n > printed'[k].n
               PROVE  printed'[k].answer /\ console = "cli"
    BY <1>3 DEF PrintedInOrder
  <2>1. i \in 1..l
    BY <1>1
  <2>2. CASE k = l + 1
    <3>1. printed[i].n > n /\ printed[i].n \in Nat
      <4>1. printed[i] \in Shown
        BY <1>1, <2>1, ElementOfSeq DEF l
      <4> QED BY <1>1, <1>2, <2>1, <2>2, <4>1 DEF Shown
    <3>2. ~(printed[i].n < n)
      BY <3>1
    <3> QED BY <1>1, <1>2, <2>1, <2>2, <3>2
  <2>3. CASE k \in 1..l
    BY <1>1, <1>2, <2>1, <2>3 DEF PrintedInOrder
  <2> QED BY <1>4, <2>2, <2>3
<1>6. {printed'[i].n : i \in 1..(l + 1)} = {printed[i].n : i \in 1..l} \cup {n}
  <2>1. l + 1 \in 1..(l + 1) /\ \A i \in 1..l : i \in 1..(l + 1)
    BY <1>1
  <2>2. \A i \in 1..l : printed'[i].n = printed[i].n
    BY <1>2
  <2>3. printed'[l + 1].n = n
    BY <1>1, <1>2
  <2> QED BY <1>4, <2>1, <2>2, <2>3
<1> QED BY <1>1, <1>2, <1>3, <1>5, <1>6 DEF l
-----------------------------------------------------------------------------
(* The steps of the agent and of whoever else publishes *)

\* What is taken, printed and held does not change with what is published.
LEMMA SaysShows ==
  ASSUME TerminalInv, NEW says \in {"text", "empty", "progress"}, Says(says),
         UNCHANGED channelVars, printed' = printed
  PROVE  /\ TakenTexts' = TakenTexts /\ ShownInv' /\ PrintedInOrder'
         /\ \A i \in DOMAIN held : said'[held[i]] = said[held[i]]
         /\ \A i \in 1..Len(outgoing) : said'[outgoing'[i]] = said[outgoing[i]]
<1>1. /\ TermTypes /\ ShownInv /\ PrintedInOrder /\ Len(said) \in Nat /\ TakenUpTo \in 0..Len(said)
      /\ Len(outgoing) \in Nat
  BY TermFacts
<1>2. /\ \A i \in 1..Len(said) : said'[i] = said[i]
      /\ \A i \in 1..Len(outgoing) : outgoing'[i] = outgoing[i] /\ outgoing[i] \in 1..Len(said)
      /\ TakenUpTo' = TakenUpTo
  BY SaysFacts
<1>3. \A i \in 1..TakenUpTo : i \in 1..Len(said)
  BY <1>1
<1>4. TakenTexts' = TakenTexts
  <2>1. \A i \in 1..TakenUpTo : IsText(i)' <=> IsText(i)
    BY <1>2, <1>3 DEF IsText
  <2> QED BY <1>2, <2>1 DEF TakenTexts
<1>5. console' = console /\ termAt' = termAt /\ shared' = shared /\ held' = held
  BY DEF channelVars
<1>6. Numbers' = Numbers
  BY <1>5 DEF Numbers
<1>7. ShownInv'
  BY <1>1, <1>4, <1>5, <1>6 DEF ShownInv
<1>8. PrintedInOrder'
  BY <1>1, <1>5 DEF PrintedInOrder
<1>9. \A i \in DOMAIN held : said'[held[i]] = said[held[i]]
  BY <1>1, <1>2, <1>3 DEF TermTypes
<1> QED BY <1>2, <1>4, <1>7, <1>8, <1>9

\* The types after a message is published.
LEMMA SaysTypes ==
  ASSUME TerminalInv, NEW says \in {"text", "empty", "progress"}, Says(says),
         UNCHANGED channelVars, printed' = printed, inbox' = inbox,
         turnOf' \in 0..typedLines, extras' \in 0..MaxExtras
  PROVE  TermTypes'
<1>1. TermTypes /\ Len(said) \in Nat /\ Len(outgoing) \in Nat
  BY TermFacts
<1>2. /\ said' \in Seq(Said) /\ outgoing' \in Seq(Nat)
      /\ Len(said') = Len(said) + 1 /\ Len(outgoing') = Len(outgoing) + 1 /\ TakenUpTo' = TakenUpTo
      /\ \A i \in DOMAIN outgoing' : outgoing'[i] = TakenUpTo' + i
  BY SaysFacts
<1>3. console' = console /\ termAt' = termAt /\ shared' = shared /\ held' = held /\ termOpen' = termOpen
      /\ turnDone' = turnDone /\ consumer' = consumer /\ typedLines' = typedLines
  BY DEF channelVars
<1>4. TerminalTypeOK'
  BY <1>1, <1>3 DEF TermTypes, TerminalTypeOK
<1>5. Len(outgoing') <= Len(said')
  BY <1>1, <1>2 DEF TermTypes
<1>6. /\ \A i \in DOMAIN inbox' : inbox'[i] \in 1..typedLines'
      /\ \A i \in DOMAIN held' : held'[i] \in 1..TakenUpTo'
      /\ \A i \in DOMAIN printed' : printed'[i].n \in 1..TakenUpTo'
  BY <1>1, <1>2, <1>3 DEF TermTypes
<1>7. /\ shared' \in BOOLEAN /\ termOpen' \in BOOLEAN /\ turnDone' \in BOOLEAN /\ consumer' \in BOOLEAN
      /\ inbox' \in Seq(Nat) /\ held' \in Seq(Nat) /\ printed' \in Seq(Shown)
  BY <1>1, <1>3 DEF TermTypes
<1> QED BY <1>2, <1>4, <1>5, <1>6, <1>7 DEF TermTypes

\* The agent takes its next line.
LEMMA BeginsKeeps == ASSUME TerminalInv, AgentBegins PROVE TerminalInv'
<1>1. /\ TermTypes /\ ConsoleInv /\ AnswerComes /\ ShownInv /\ FlightInv /\ LineInv /\ PrintedInOrder
      /\ Len(inbox) \in Nat /\ DOMAIN inbox = 1..Len(inbox) /\ typedLines \in Nat
      /\ Len(outgoing) \in Nat
  BY TermFacts
<1>2. /\ turnOf = 0 /\ inbox # <<>> /\ turnOf' = Head(inbox) /\ inbox' = Tail(inbox)
      /\ console' = console /\ termAt' = termAt /\ shared' = shared /\ held' = held
      /\ termOpen' = termOpen /\ turnDone' = turnDone /\ consumer' = consumer
      /\ typedLines' = typedLines /\ said' = said /\ extras' = extras /\ outgoing' = outgoing
      /\ printed' = printed
  BY DEF AgentBegins, channelVars
<1>3. inbox \in Seq(Nat) /\ Len(inbox) # 0
  BY <1>1, <1>2, EmptySeq DEF TermTypes
<1>4. /\ inbox' \in Seq(Nat) /\ Len(inbox') = Len(inbox) - 1 /\ DOMAIN inbox' = 1..(Len(inbox) - 1)
      /\ \A i \in 1..Len(inbox') : inbox'[i] = inbox[i + 1]
  <2>1. /\ inbox' \in Seq(Nat) /\ Len(inbox') = Len(inbox) - 1
        /\ \A i \in 1..Len(inbox') : inbox'[i] = inbox[i + 1]
    BY <1>2, <1>3, HeadTailProperties
  <2> QED BY <2>1, LenProperties
<1>5. \A i \in 1..(Len(inbox) - 1) : i + 1 \in DOMAIN inbox
  BY <1>1
<1>6. turnOf' = inbox[1] /\ 1 \in DOMAIN inbox
  BY <1>1, <1>2, <1>3
<1>7. turnOf' \in 1..typedLines
  BY <1>1, <1>6 DEF TermTypes
<1>8. TakenUpTo' = TakenUpTo
  BY <1>2 DEF TakenUpTo
<1>9. TermTypes'
  <2>1. TerminalTypeOK'
    <3>1. turnOf' \in 0..typedLines'
      BY <1>1, <1>2, <1>7
    <3> QED BY <1>1, <1>2, <3>1 DEF TermTypes, TerminalTypeOK
  <2>2. \A i \in DOMAIN inbox' : inbox'[i] \in 1..typedLines'
    BY <1>1, <1>2, <1>4, <1>5 DEF TermTypes
  <2> QED BY <1>1, <1>2, <1>4, <1>8, <2>1, <2>2 DEF TermTypes
<1>10. ConsoleInv'
  BY <1>1, <1>2 DEF ConsoleInv
<1>11. AnswerComes'
  <2>1. turnOf' # 0
    BY <1>1, <1>7
  <2> QED BY <2>1 DEF AnswerComes
<1>12. ShownInv' /\ PrintedInOrder'
  <2>1. TakenTexts' = TakenTexts
    BY <1>2, <1>8 DEF TakenTexts, IsText
  <2>2. Numbers' = Numbers
    BY <1>2 DEF Numbers
  <2> QED BY <1>1, <1>2, <2>1, <2>2 DEF ShownInv, PrintedInOrder
<1>13. FlightInv'
  <2>1. OneIf(turnOf # 0) = 0 /\ OneIf(turnOf # 0)' = 1
    BY <1>1, <1>2, <1>7 DEF OneIf
  <2>2. Awaits' = Awaits
    BY <1>2 DEF Awaits
  <2>3. Len(inbox') + 1 = Len(inbox) + 0
    BY <1>1, <1>4
  <2> QED BY <1>1, <1>2, <2>1, <2>2, <2>3 DEF FlightInv
<1>14. LineInv'
  <2> SUFFICES ASSUME console = "cli", extras = 0
               PROVE  /\ \A i \in DOMAIN inbox' : inbox'[i] = typedLines
                      /\ turnOf' = typedLines
    BY <1>1, <1>2 DEF LineInv
  <2> QED BY <1>1, <1>4, <1>5, <1>6 DEF LineInv
<1> QED BY <1>9, <1>10, <1>11, <1>12, <1>13, <1>14 DEF TerminalInv

\* The agent ends its turn.
LEMMA RepliesKeeps == ASSUME TerminalInv, AgentReplies PROVE TerminalInv'
<1>1. /\ TermTypes /\ ConsoleInv /\ AnswerComes /\ ShownInv /\ FlightInv /\ LineInv /\ PrintedInOrder
      /\ Len(inbox) \in Nat /\ DOMAIN inbox = 1..Len(inbox) /\ typedLines \in Nat /\ extras \in Nat
      /\ Len(outgoing) \in Nat /\ DOMAIN outgoing = 1..Len(outgoing) /\ turnOf \in 0..typedLines
  BY TermFacts
<1>2. PICK says \in {"text", "empty"} : Says(says)
  BY DEF AgentReplies
<1>3. /\ turnOf # 0 /\ turnOf' = 0 /\ inbox' = inbox /\ extras' = extras /\ printed' = printed
      /\ UNCHANGED channelVars
  BY DEF AgentReplies
<1>4. /\ console' = console /\ termAt' = termAt /\ shared' = shared /\ held' = held
      /\ termOpen' = termOpen /\ turnDone' = turnDone /\ consumer' = consumer
      /\ typedLines' = typedLines
  BY <1>3 DEF channelVars
<1>5. /\ Len(said') = Len(said) + 1 /\ Len(outgoing') = Len(outgoing) + 1
      /\ DOMAIN outgoing' = 1..(Len(outgoing) + 1)
      /\ said'[Len(said) + 1] = [of |-> turnOf, says |-> says]
      /\ outgoing'[Len(outgoing) + 1] = Len(said) + 1
  BY <1>2, SaysFacts
<1>6. /\ ShownInv' /\ PrintedInOrder'
      /\ \A i \in DOMAIN held : said'[held[i]] = said[held[i]]
      /\ \A i \in 1..Len(outgoing) : said'[outgoing'[i]] = said[outgoing[i]]
  BY <1>2, <1>3, SaysShows
<1>7. TermTypes'
  <2>1. turnOf' \in 0..typedLines
    BY <1>1, <1>3
  <2>2. extras' \in 0..MaxExtras
    BY <1>1, <1>3 DEF TermTypes, TerminalTypeOK
  <2> QED BY <1>2, <1>3, <2>1, <2>2, SaysTypes
<1>8. ConsoleInv'
  BY <1>1, <1>4 DEF ConsoleInv
<1>9. AnswerComes'
  <2>1. said'[outgoing'[Len(outgoing) + 1]].says = says
    BY <1>5
  <2>2. Len(outgoing) + 1 \in DOMAIN outgoing'
    BY <1>1, <1>5
  <2> QED BY <1>2, <2>1, <2>2 DEF AnswerComes
<1>10. FlightInv'
  <2>1. OneIf(turnOf # 0) = 1 /\ OneIf(turnOf # 0)' = 0
    BY <1>3 DEF OneIf
  <2>2. Awaits' = Awaits
    BY <1>4 DEF Awaits
  <2>3. Len(inbox) + 0 + (Len(outgoing) + 1) = Len(inbox) + 1 + Len(outgoing)
    BY <1>1
  <2> QED BY <1>1, <1>3, <1>4, <1>5, <2>1, <2>2, <2>3 DEF FlightInv
<1>11. LineInv'
  <2> SUFFICES ASSUME console = "cli", extras = 0
               PROVE  \A i \in DOMAIN outgoing' : said'[outgoing'[i]].of = typedLines
    BY <1>1, <1>3, <1>4, <1>6 DEF LineInv
  <2>1. turnOf = typedLines /\ \A i \in DOMAIN outgoing : said[outgoing[i]].of = typedLines
    BY <1>1, <1>3 DEF LineInv
  <2> TAKE i \in DOMAIN outgoing'
  <2>2. CASE i = Len(outgoing) + 1
    BY <1>5, <2>1, <2>2
  <2>3. CASE i # Len(outgoing) + 1
    <3>1. i \in 1..Len(outgoing)
      BY <1>1, <1>5, <2>3
    <3> QED BY <1>1, <1>6, <2>1, <3>1
  <2> QED BY <2>2, <2>3
<1> QED BY <1>6, <1>7, <1>8, <1>9, <1>10, <1>11 DEF TerminalInv

\* Something else is said.
LEMMA SaysMoreKeeps == ASSUME TerminalInv, SaysMore PROVE TerminalInv'
<1>1. /\ TermTypes /\ ConsoleInv /\ AnswerComes /\ ShownInv /\ FlightInv /\ LineInv /\ PrintedInOrder
      /\ Len(inbox) \in Nat /\ typedLines \in Nat /\ extras \in Nat
      /\ Len(outgoing) \in Nat /\ DOMAIN outgoing = 1..Len(outgoing) /\ turnOf \in 0..typedLines
  BY TermFacts
<1>2. PICK says \in {"text", "progress"} : Says(says)
  BY DEF SaysMore
<1>3. /\ extras < MaxExtras /\ turnOf' = turnOf /\ inbox' = inbox /\ extras' = extras + 1
      /\ printed' = printed /\ UNCHANGED channelVars
  BY DEF SaysMore
<1>4. /\ console' = console /\ termAt' = termAt /\ shared' = shared /\ held' = held
      /\ termOpen' = termOpen /\ turnDone' = turnDone /\ consumer' = consumer
      /\ typedLines' = typedLines
  BY <1>3 DEF channelVars
<1>5. /\ Len(outgoing') = Len(outgoing) + 1 /\ DOMAIN outgoing' = 1..(Len(outgoing) + 1)
  BY <1>2, SaysFacts
<1>6. /\ ShownInv' /\ PrintedInOrder'
      /\ \A i \in 1..Len(outgoing) : said'[outgoing'[i]] = said[outgoing[i]]
  BY <1>2, <1>3, SaysShows
<1>7. TermTypes'
  <2>1. extras' \in 0..MaxExtras
    BY <1>1, <1>3, TerminalsAssumption
  <2> QED BY <1>1, <1>2, <1>3, <2>1, SaysTypes
<1>8. ConsoleInv'
  BY <1>1, <1>4 DEF ConsoleInv
<1>9. AnswerComes'
  <2>1. \A i \in DOMAIN outgoing : i \in DOMAIN outgoing' /\ said'[outgoing'[i]] = said[outgoing[i]]
    BY <1>1, <1>5, <1>6
  <2> QED BY <1>1, <1>3, <1>4, <2>1 DEF AnswerComes
<1>10. FlightInv'
  <2>1. Awaits' = Awaits /\ (turnOf # 0)' = (turnOf # 0)
    BY <1>3, <1>4 DEF Awaits
  <2>2. OneIf(Awaits) \in Nat /\ OneIf(turnOf # 0) \in Nat
    BY DEF OneIf
  <2> DEFINE x == OneIf(Awaits)
             y == OneIf(turnOf # 0)
  <2> HIDE DEF x, y
  <2>3. x \in Nat /\ y \in Nat
    BY <2>2 DEF x, y
  <2>4. Len(inbox) + y + Len(outgoing) <= x + extras
        => Len(inbox) + y + (Len(outgoing) + 1) <= x + (extras + 1)
    BY <1>1, <2>3
  <2> QED BY <1>1, <1>3, <1>4, <1>5, <2>1, <2>4 DEF FlightInv, x, y
<1>11. LineInv'
  BY <1>1, <1>3 DEF LineInv
<1> QED BY <1>6, <1>7, <1>8, <1>9, <1>10, <1>11 DEF TerminalInv

-----------------------------------------------------------------------------
(* The steps of the channel's loop *)

\* A line is passed on.
LEMMA PassKeeps == ASSUME TerminalInv, PassOn PROVE TerminalInv'
<1>1. /\ TermTypes /\ ConsoleInv /\ AnswerComes /\ ShownInv /\ FlightInv /\ LineInv /\ PrintedInOrder
      /\ Len(inbox) \in Nat /\ DOMAIN inbox = 1..Len(inbox) /\ typedLines \in Nat /\ extras \in Nat
      /\ Len(outgoing) \in Nat /\ DOMAIN outgoing = 1..Len(outgoing) /\ turnOf \in 0..typedLines
      /\ Len(held) \in {0, 1} /\ DOMAIN held = 1..Len(held)
      /\ Len(printed) \in Nat /\ DOMAIN printed = 1..Len(printed)
      /\ Len(said) \in Nat /\ TakenUpTo \in 0..Len(said)
  BY TermFacts
<1>2. /\ termAt = "reading" /\ typedLines < MaxTyped /\ termAt' = "waiting" /\ turnDone' = FALSE
      /\ held' = <<>> /\ typedLines' = typedLines + 1 /\ inbox' = Append(inbox, typedLines + 1)
      /\ UNCHANGED <<console, shared, termOpen, consumer, turnOf, said, extras, outgoing, printed>>
  BY DEF PassOn
<1>3. turnDone /\ held = <<>>
  BY <1>1, <1>2 DEF ConsoleInv
<1>4. /\ inbox' \in Seq(Nat) /\ Len(inbox') = Len(inbox) + 1 /\ inbox'[Len(inbox) + 1] = typedLines + 1
      /\ \A i \in 1..Len(inbox) : inbox'[i] = inbox[i]
  <2>1. inbox \in Seq(Nat) /\ typedLines + 1 \in Nat
    BY <1>1 DEF TermTypes
  <2> QED BY <1>2, <2>1
<1>5. DOMAIN inbox' = 1..(Len(inbox) + 1)
  BY <1>4, LenProperties
<1>6. \A i \in 1..(Len(inbox) + 1) : i \in 1..Len(inbox) \/ i = Len(inbox) + 1
  BY <1>1
<1>7. TakenUpTo' = TakenUpTo
  BY <1>2 DEF TakenUpTo
<1>8. TermTypes'
  <2>1. TerminalTypeOK'
    <3>1. typedLines' \in 0..MaxTyped /\ turnOf' \in 0..typedLines'
      BY <1>1, <1>2, TerminalsAssumption
    <3>2. Len(held') <= 1
      BY <1>1, <1>2, <1>3
    <3> QED BY <1>1, <1>2, <3>1, <3>2 DEF TermTypes, TerminalTypeOK
  <2>2. \A i \in DOMAIN inbox' : inbox'[i] \in 1..typedLines'
    <3>1. \A i \in 1..Len(inbox) : inbox[i] \in 1..typedLines
      BY <1>1 DEF TermTypes
    <3>2. \A x \in 1..typedLines : x \in 1..(typedLines + 1)
      BY <1>1
    <3>3. typedLines + 1 \in 1..(typedLines + 1)
      BY <1>1
    <3> QED BY <1>2, <1>4, <1>5, <1>6, <3>1, <3>2, <3>3
  <2>3. held' = held
    BY <1>2, <1>3
  <2> QED BY <1>1, <1>2, <1>4, <1>7, <2>1, <2>2, <2>3 DEF TermTypes
<1>9. ConsoleInv'
  BY <1>1, <1>2 DEF ConsoleInv
<1>10. AnswerComes'
  <2>1. inbox' # <<>>
    BY <1>1, <1>4
  <2> QED BY <2>1 DEF AnswerComes
<1>11. ShownInv' /\ PrintedInOrder'
  <2>1. TakenTexts' = TakenTexts
    BY <1>2, <1>7 DEF TakenTexts, IsText
  <2>2. Numbers' = Numbers /\ held' = held
    BY <1>2, <1>3 DEF Numbers
  <2> QED BY <1>1, <1>2, <2>1, <2>2 DEF ShownInv, PrintedInOrder
<1>12. OneIf(Awaits) = 0 /\ OneIf(Awaits)' = 1 /\ (turnOf # 0)' = (turnOf # 0)
  BY <1>2 DEF OneIf, Awaits
<1>13. FlightInv'
  <2>1. OneIf(turnOf # 0) \in {0, 1} /\ OneIf((turnOf # 0)') = OneIf(turnOf # 0)
    BY <1>12 DEF OneIf
  <2> DEFINE y == OneIf(turnOf # 0)
  <2> HIDE DEF y
  <2>2. y \in {0, 1}
    BY <2>1 DEF y
  <2>3. Len(inbox) + y + Len(outgoing) <= 0 + extras
        => (Len(inbox) + 1) + y + Len(outgoing) <= 1 + extras
    BY <1>1, <2>2
  <2> QED BY <1>1, <1>2, <1>4, <1>12, <2>1, <2>3 DEF FlightInv, y
<1>14. LineInv'
  <2> SUFFICES ASSUME console = "cli", extras = 0
               PROVE  LineInv'
    BY <1>2 DEF LineInv
  <2>1. Len(inbox) = 0 /\ turnOf = 0 /\ Len(outgoing) = 0
    <3>1. Len(inbox) + OneIf(turnOf # 0) + Len(outgoing) <= 0
      BY <1>1, <1>12 DEF FlightInv
    <3>2. CASE turnOf = 0
      <4>1. OneIf(turnOf # 0) = 0
        BY <3>2 DEF OneIf
      <4> QED BY <1>1, <3>1, <3>2, <4>1
    <3>3. CASE turnOf # 0
      <4>1. OneIf(turnOf # 0) = 1
        BY <3>3 DEF OneIf
      <4> QED BY <1>1, <3>1, <4>1
    <3> QED BY <3>2, <3>3
  <2>2. \A i \in DOMAIN inbox' : inbox'[i] = typedLines'
    <3>1. \A i \in 1..(Len(inbox) + 1) : i = Len(inbox) + 1
      BY <2>1
    <3> QED BY <1>2, <1>4, <1>5, <3>1
  <2>3. outgoing' = <<>> /\ held' = <<>>
    BY <1>1, <1>2, <2>1, EmptySeq DEF TermTypes
  <2> QED BY <1>2, <2>1, <2>2, <2>3 DEF LineInv
<1> QED BY <1>8, <1>9, <1>10, <1>11, <1>13, <1>14 DEF TerminalInv

\* The loop is left.
LEMMA QuitKeeps == ASSUME TerminalInv, Quit PROVE TerminalInv'
<1>1. /\ TermTypes /\ ConsoleInv /\ AnswerComes /\ ShownInv /\ FlightInv /\ LineInv /\ PrintedInOrder
      /\ Len(inbox) \in Nat /\ DOMAIN inbox = 1..Len(inbox) /\ typedLines \in Nat /\ extras \in Nat
      /\ Len(outgoing) \in Nat /\ DOMAIN outgoing = 1..Len(outgoing) /\ turnOf \in 0..typedLines
      /\ Len(held) \in {0, 1} /\ DOMAIN held = 1..Len(held)
      /\ Len(printed) \in Nat /\ DOMAIN printed = 1..Len(printed)
      /\ Len(said) \in Nat /\ TakenUpTo \in 0..Len(said)
  BY TermFacts
<1>2. /\ termAt = "reading" /\ termAt' = "out" /\ termOpen' = FALSE /\ consumer' = FALSE
      /\ UNCHANGED <<console, shared, turnDone, held, typedLines, inbox, turnOf, said, extras, outgoing,
                     printed>>
  BY DEF Quit, agentVars
<1>3. TakenUpTo' = TakenUpTo
  BY <1>2 DEF TakenUpTo
<1>4. TermTypes'
  <2>1. TerminalTypeOK'
    BY <1>1, <1>2 DEF TermTypes, TerminalTypeOK
  <2> QED BY <1>1, <1>2, <1>3, <2>1 DEF TermTypes
<1>5. ConsoleInv'
  BY <1>1, <1>2 DEF ConsoleInv
<1>6. AnswerComes' /\ ShownInv'
  BY <1>2 DEF AnswerComes, ShownInv
<1>7. FlightInv'
  <2>1. OneIf(Awaits) = 0 /\ OneIf(Awaits)' = 0 /\ (turnOf # 0)' = (turnOf # 0)
    BY <1>2 DEF OneIf, Awaits
  <2> QED BY <1>1, <1>2, <2>1 DEF FlightInv
<1>8. LineInv' /\ PrintedInOrder'
  BY <1>1, <1>2 DEF LineInv, PrintedInOrder
<1> QED BY <1>4, <1>5, <1>6, <1>7, <1>8 DEF TerminalInv

\* The answer is printed, if there is one.
LEMMA ResumeKeeps == ASSUME TerminalInv, Resume PROVE TerminalInv'
<1>1. /\ TermTypes /\ ConsoleInv /\ AnswerComes /\ ShownInv /\ FlightInv /\ LineInv /\ PrintedInOrder
      /\ Len(inbox) \in Nat /\ DOMAIN inbox = 1..Len(inbox) /\ typedLines \in Nat /\ extras \in Nat
      /\ Len(outgoing) \in Nat /\ DOMAIN outgoing = 1..Len(outgoing) /\ turnOf \in 0..typedLines
      /\ Len(held) \in {0, 1} /\ DOMAIN held = 1..Len(held)
      /\ Len(printed) \in Nat /\ DOMAIN printed = 1..Len(printed)
      /\ Len(said) \in Nat /\ TakenUpTo \in 0..Len(said)
  BY TermFacts
<1>2. /\ termAt = "waiting" /\ turnDone /\ held' = <<>>
      /\ printed' = IF held = <<>> THEN printed ELSE Append(printed, Line(held[1], TRUE))
      /\ termAt' = (IF termOpen THEN "reading" ELSE "out") /\ consumer' = (consumer /\ termOpen)
      /\ UNCHANGED <<console, shared, termOpen, turnDone, typedLines, inbox, turnOf, said, extras,
                     outgoing>>
  BY DEF Resume, agentVars
<1>3. TakenUpTo' = TakenUpTo /\ held' \in Seq(Nat) /\ Len(held') = 0 /\ DOMAIN held' = {}
  BY <1>2 DEF TakenUpTo
<1>4. /\ printed' \in Seq(Shown) /\ PrintedInOrder' /\ Numbers' = Numbers
      /\ Len(printed') + Len(held') = Len(printed) + Len(held)
      /\ \A i \in DOMAIN printed' : printed'[i].n \in 1..TakenUpTo
  <2>1. CASE held = <<>>
    <3>1. printed' = printed /\ held' = held /\ console' = console
      BY <1>2, <2>1
    <3> QED BY <1>1, <3>1 DEF TermTypes, PrintedInOrder, Numbers
  <2>2. CASE held # <<>>
    <3>1. Len(held) = 1 /\ held \in Seq(Nat)
      BY <1>1, <2>2, EmptySeq DEF TermTypes
    <3>2. held[1] \in Nat /\ held[1] \in 1..TakenUpTo
      BY <1>1, <3>1 DEF TermTypes
    <3>3. printed' = Append(printed, Line(held[1], TRUE)) /\ console' = console /\ console = "cli"
      BY <1>1, <1>2, <2>2 DEF ConsoleInv
    <3>4. /\ PrintedInOrder' /\ printed' \in Seq(Shown) /\ Len(printed') = Len(printed) + 1
          /\ DOMAIN printed' = 1..(Len(printed) + 1)
          /\ printed'[Len(printed) + 1].n = held[1] /\ \A i \in DOMAIN printed : printed'[i] = printed[i]
          /\ {printed'[i].n : i \in DOMAIN printed'} = {printed[i].n : i \in DOMAIN printed} \cup {held[1]}
      BY <3>2, <3>3, PrintFacts
    <3>5. ToSet(held) = {held[1]} /\ ToSet(held') = {}
      <4>1. DOMAIN held = {1}
        BY <1>1, <3>1
      <4> QED BY <1>3, <4>1 DEF ToSet
    <3>6. Numbers' = Numbers
      BY <3>4, <3>5 DEF Numbers
    <3>7. \A i \in DOMAIN printed' : printed'[i].n \in 1..TakenUpTo
      <4>1. \A i \in DOMAIN printed' : i \in DOMAIN printed \/ i = Len(printed) + 1
        BY <1>1, <3>4
      <4>2. \A i \in DOMAIN printed : printed[i].n \in 1..TakenUpTo
        BY <1>1 DEF TermTypes
      <4> QED BY <3>2, <3>4, <4>1, <4>2
    <3>8. Len(printed') + Len(held') = Len(printed) + Len(held)
      BY <1>1, <1>3, <3>1, <3>4
    <3> QED BY <3>4, <3>6, <3>7, <3>8
  <2> QED BY <2>1, <2>2
<1>5. TermTypes'
  <2>1. TerminalTypeOK'
    <3>1. consumer' \in BOOLEAN /\ termAt' \in {"reading", "waiting", "out"}
      BY <1>1, <1>2
    <3> QED BY <1>1, <1>2, <1>3, <3>1 DEF TermTypes, TerminalTypeOK
  <2>2. consumer' \in BOOLEAN
    BY <1>2
  <2> QED BY <1>1, <1>2, <1>3, <1>4, <2>1, <2>2 DEF TermTypes
<1>6. ConsoleInv'
  BY <1>1, <1>2 DEF ConsoleInv
<1>7. AnswerComes'
  BY <1>2 DEF AnswerComes
<1>8. ShownInv'
  <2>1. TakenTexts' = TakenTexts
    BY <1>2, <1>3 DEF TakenTexts, IsText
  <2> QED BY <1>1, <1>2, <1>4, <2>1 DEF ShownInv
<1>9. FlightInv'
  <2>1. OneIf(Awaits) = 0 /\ OneIf(Awaits)' = 0 /\ (turnOf # 0)' = (turnOf # 0)
    BY <1>2 DEF OneIf, Awaits
  <2> QED BY <1>1, <1>2, <2>1 DEF FlightInv
<1>10. LineInv'
  BY <1>1, <1>2, <1>3 DEF LineInv
<1> QED BY <1>4, <1>5, <1>6, <1>7, <1>8, <1>9, <1>10 DEF TerminalInv

\* The channel is told to stop.
LEMMA StoppedKeeps == ASSUME TerminalInv, TermStopped PROVE TerminalInv'
<1>1. /\ TermTypes /\ ConsoleInv /\ AnswerComes /\ ShownInv /\ FlightInv /\ LineInv /\ PrintedInOrder
      /\ Len(inbox) \in Nat /\ DOMAIN inbox = 1..Len(inbox) /\ typedLines \in Nat /\ extras \in Nat
      /\ Len(outgoing) \in Nat /\ DOMAIN outgoing = 1..Len(outgoing) /\ turnOf \in 0..typedLines
      /\ Len(held) \in {0, 1} /\ DOMAIN held = 1..Len(held)
      /\ Len(printed) \in Nat /\ DOMAIN printed = 1..Len(printed)
      /\ Len(said) \in Nat /\ TakenUpTo \in 0..Len(said)
  BY TermFacts
<1>2. /\ termAt # "out" /\ termOpen /\ termOpen' = FALSE /\ turnDone' = (turnDone \/ console = "pipe")
      /\ UNCHANGED <<console, shared, termAt, held, consumer, typedLines, inbox, turnOf, said, extras,
                     outgoing, printed>>
  BY DEF TermStopped, agentVars
<1>3. TakenUpTo' = TakenUpTo
  BY <1>2 DEF TakenUpTo
<1>4. TermTypes'
  <2>1. turnDone' \in BOOLEAN
    BY <1>2
  <2>2. TerminalTypeOK'
    BY <1>1, <1>2, <2>1 DEF TermTypes, TerminalTypeOK
  <2> QED BY <1>1, <1>2, <1>3, <2>1, <2>2 DEF TermTypes
<1>5. ConsoleInv'
  BY <1>1, <1>2 DEF ConsoleInv
<1>6. AnswerComes'
  BY <1>2 DEF AnswerComes
<1>7. ShownInv' /\ PrintedInOrder'
  <2>1. TakenTexts' = TakenTexts
    BY <1>2, <1>3 DEF TakenTexts, IsText
  <2>2. Numbers' = Numbers
    BY <1>2 DEF Numbers
  <2> QED BY <1>1, <1>2, <2>1, <2>2 DEF ShownInv, PrintedInOrder
<1>8. FlightInv'
  <2> SUFFICES ASSUME console = "cli" PROVE FlightInv'
    BY <1>2 DEF FlightInv
  <2>1. console # "pipe"
    OBVIOUS
  <2>2. turnDone' = turnDone
    BY <1>1, <1>2, <2>1 DEF TermTypes
  <2>3. Awaits' = Awaits
    BY <1>2, <2>2 DEF Awaits
  <2> QED BY <1>1, <1>2, <2>3 DEF FlightInv
<1>9. LineInv'
  BY <1>1, <1>2 DEF LineInv
<1> QED BY <1>4, <1>5, <1>6, <1>7, <1>8, <1>9 DEF TerminalInv

-----------------------------------------------------------------------------
(* The steps that take a message off the bus *)

\* The texts taken, after one more message is taken.
LEMMA TakenGrow ==
  ASSUME TerminalInv, outgoing # <<>>, outgoing' = Tail(outgoing), said' = said
  PROVE  /\ IsText(Head(outgoing)) =>
              /\ TakenTexts' = TakenTexts \cup {Head(outgoing)}
              /\ Cardinality(TakenTexts') = Cardinality(TakenTexts) + 1
         /\ ~IsText(Head(outgoing)) => TakenTexts' = TakenTexts
<1> DEFINE m == Head(outgoing)
<1>1. m = TakenUpTo + 1 /\ TakenUpTo' = TakenUpTo + 1 /\ TakenUpTo \in Nat
  BY TakesFacts
<1>2. \A n \in 1..TakenUpTo' : n = m \/ n \in 1..TakenUpTo
  BY <1>1
<1>3. m \in 1..TakenUpTo' /\ m \notin 1..TakenUpTo /\ \A n \in 1..TakenUpTo : n \in 1..TakenUpTo'
  BY <1>1
<1>4. \A n : IsText(n)' <=> IsText(n)
  BY DEF IsText
<1>5. TakenTexts' = {n \in 1..TakenUpTo' : IsText(n)}
  BY <1>4 DEF TakenTexts
<1> HIDE DEF m
<1>6. IsText(m) => TakenTexts' = TakenTexts \cup {m}
  BY <1>2, <1>3, <1>5 DEF TakenTexts
<1>7. ~IsText(m) => TakenTexts' = TakenTexts
  BY <1>2, <1>3, <1>5 DEF TakenTexts
<1>8. IsFiniteSet(TakenTexts) /\ m \notin TakenTexts
  <2>1. IsFiniteSet(1..TakenUpTo)
    BY <1>1, FS_Interval
  <2>2. TakenTexts \subseteq 1..TakenUpTo
    BY DEF TakenTexts
  <2> QED BY <1>3, <2>1, <2>2, FS_Subset
<1>9. Cardinality(TakenTexts \cup {m}) = Cardinality(TakenTexts) + 1
  BY <1>8, FS_AddElement
<1> QED BY <1>6, <1>7, <1>9 DEF m

\* Whoever takes a message, the rest of the bus keeps its order, and no more lines
\* are under way.
LEMMA TakesKeep ==
  ASSUME TerminalInv, outgoing # <<>>, outgoing' = Tail(outgoing),
         UNCHANGED <<console, shared, termAt, termOpen, typedLines, inbox, turnOf, said, extras>>,
         turnDone' \in BOOLEAN, turnDone => turnDone'
  PROVE  /\ shared \/ turnDone' \/ said[Head(outgoing)].says = "progress" => AnswerComes'
         /\ FlightInv'
         /\ console = "cli" /\ extras = 0 => \A i \in DOMAIN outgoing' : said[outgoing'[i]].of = typedLines
<1>1. /\ TermTypes /\ ConsoleInv /\ AnswerComes /\ ShownInv /\ FlightInv /\ LineInv /\ PrintedInOrder
      /\ Len(inbox) \in Nat /\ DOMAIN inbox = 1..Len(inbox) /\ typedLines \in Nat /\ extras \in Nat
      /\ Len(outgoing) \in Nat /\ DOMAIN outgoing = 1..Len(outgoing) /\ turnOf \in 0..typedLines
      /\ Len(held) \in {0, 1} /\ DOMAIN held = 1..Len(held)
      /\ Len(printed) \in Nat /\ DOMAIN printed = 1..Len(printed)
      /\ Len(said) \in Nat /\ TakenUpTo \in 0..Len(said)
  BY TermFacts
<1>2. /\ Len(outgoing) \in Nat \ {0} /\ Len(outgoing') = Len(outgoing) - 1
      /\ DOMAIN outgoing' = 1..(Len(outgoing) - 1) /\ Head(outgoing) = outgoing[1]
      /\ \A i \in 1..(Len(outgoing) - 1) : outgoing'[i] = outgoing[i + 1] /\ i + 1 \in DOMAIN outgoing
  BY TakesFacts
<1>3. shared \/ turnDone' \/ said[Head(outgoing)].says = "progress" => AnswerComes'
  <2> SUFFICES ASSUME termAt = "waiting", ~turnDone', termOpen, ~shared, turnOf = 0, inbox = <<>>,
                      said[Head(outgoing)].says = "progress"
               PROVE  \E i \in DOMAIN outgoing' : said[outgoing'[i]].says # "progress"
    BY DEF AnswerComes
  <2>1. PICK i \in DOMAIN outgoing : said[outgoing[i]].says # "progress"
    BY <1>1 DEF AnswerComes
  <2>2. i # 1
    BY <1>2, <2>1
  <2>3. i - 1 \in 1..(Len(outgoing) - 1) /\ (i - 1) + 1 = i
    BY <1>1, <1>2, <2>2
  <2>4. outgoing'[i - 1] = outgoing[i]
    BY <1>2, <2>3
  <2> QED BY <1>2, <2>1, <2>3, <2>4
<1>4. FlightInv'
  <2> DEFINE y == OneIf(turnOf # 0)
             x == OneIf(Awaits)
             z == OneIf(Awaits')
  <2>1. y \in {0, 1} /\ x \in {0, 1} /\ z \in {0, 1}
    BY DEF OneIf
  <2>2. x <= z + 1
    BY <2>1
  <2>3. (turnOf # 0)' = (turnOf # 0) /\ OneIf(Awaits)' = z /\ OneIf(turnOf # 0)' = y
    BY DEF OneIf
  <2> HIDE DEF x, y, z
  <2>4. Len(inbox) + y + Len(outgoing) <= x + extras
        => Len(inbox) + y + (Len(outgoing) - 1) <= z + extras
    BY <1>1, <1>2, <2>1, <2>2
  <2>5. console = "cli" \/ termOpen => Len(inbox) + y + Len(outgoing) <= x + extras
    BY <1>1 DEF FlightInv, x, y
  <2>6. console = "cli" \/ termOpen => Len(inbox) + y + Len(outgoing') <= z + extras
    BY <1>2, <2>4, <2>5
  <2> QED BY <2>3, <2>6 DEF FlightInv
<1>5. console = "cli" /\ extras = 0 => \A i \in DOMAIN outgoing' : said[outgoing'[i]].of = typedLines
  BY <1>1, <1>2 DEF LineInv
<1> QED BY <1>1, <1>3, <1>4, <1>5

\* The types after a message is taken.
LEMMA TakesTypes ==
  ASSUME TerminalInv, outgoing # <<>>, outgoing' = Tail(outgoing),
         UNCHANGED <<console, shared, termAt, termOpen, typedLines, inbox, turnOf, said, extras>>,
         turnDone' \in BOOLEAN, consumer' \in BOOLEAN, held' \in Seq(Nat), Len(held') <= 1,
         held' = held \/ held' = <<Head(outgoing)>>,
         \/ printed' = printed
         \/ \E a \in BOOLEAN : printed' = Append(printed, Line(Head(outgoing), a))
  PROVE  TermTypes' /\ PrintedInOrder'
<1>1. /\ TermTypes /\ ConsoleInv /\ AnswerComes /\ ShownInv /\ FlightInv /\ LineInv /\ PrintedInOrder
      /\ Len(inbox) \in Nat /\ DOMAIN inbox = 1..Len(inbox) /\ typedLines \in Nat /\ extras \in Nat
      /\ Len(outgoing) \in Nat /\ DOMAIN outgoing = 1..Len(outgoing) /\ turnOf \in 0..typedLines
      /\ Len(held) \in {0, 1} /\ DOMAIN held = 1..Len(held)
      /\ Len(printed) \in Nat /\ DOMAIN printed = 1..Len(printed)
      /\ Len(said) \in Nat /\ TakenUpTo \in 0..Len(said)
  BY TermFacts
<1> DEFINE m == Head(outgoing)
<1>2. /\ outgoing' \in Seq(Nat) /\ Len(outgoing) \in Nat \ {0} /\ Len(outgoing') = Len(outgoing) - 1
      /\ m = TakenUpTo + 1 /\ TakenUpTo' = TakenUpTo + 1 /\ TakenUpTo \in Nat
      /\ \A i \in DOMAIN outgoing' : outgoing'[i] = TakenUpTo' + i
  BY TakesFacts
<1>3. m \in Nat /\ m \in 1..TakenUpTo' /\ \A n \in 1..TakenUpTo : n < m /\ n \in 1..TakenUpTo'
  BY <1>2
<1> HIDE DEF m
<1>4. TerminalTypeOK'
  BY <1>1 DEF TermTypes, TerminalTypeOK
<1>5. Len(outgoing') <= Len(said')
  BY <1>1, <1>2 DEF TermTypes
<1>6. \A i \in DOMAIN held' : held'[i] \in 1..TakenUpTo'
  <2>1. CASE held' = held
    BY <1>1, <1>3, <2>1 DEF TermTypes
  <2>2. CASE held' = <<m>>
    <3>1. DOMAIN held' = {1} /\ held'[1] = m
      BY <2>2
    <3> QED BY <1>3, <3>1
  <2> QED BY <2>1, <2>2 DEF m
<1>7. printed' \in Seq(Shown) /\ PrintedInOrder' /\ \A i \in DOMAIN printed' : printed'[i].n \in 1..TakenUpTo'
  <2>1. CASE printed' = printed
    BY <1>1, <1>3, <2>1 DEF TermTypes, PrintedInOrder
  <2>2. CASE \E a \in BOOLEAN : printed' = Append(printed, Line(m, a))
    <3>1. PICK a \in BOOLEAN : printed' = Append(printed, Line(m, a))
      BY <2>2
    <3>2. \A i \in DOMAIN printed : printed[i].n < m
      BY <1>1, <1>3 DEF TermTypes
    <3>3. /\ PrintedInOrder' /\ printed' \in Seq(Shown)
          /\ DOMAIN printed' = 1..(Len(printed) + 1)
          /\ printed'[Len(printed) + 1].n = m /\ \A i \in DOMAIN printed : printed'[i] = printed[i]
      BY <1>3, <3>1, <3>2, PrintFacts
    <3>4. \A i \in DOMAIN printed' : i \in DOMAIN printed \/ i = Len(printed) + 1
      BY <1>1, <3>3
    <3>5. \A i \in DOMAIN printed : printed[i].n \in 1..TakenUpTo
      BY <1>1 DEF TermTypes
    <3> QED BY <1>3, <3>3, <3>4, <3>5
  <2> QED BY <2>1, <2>2 DEF m
<1>8. \A i \in DOMAIN inbox' : inbox'[i] \in 1..typedLines'
  BY <1>1 DEF TermTypes
<1> QED BY <1>1, <1>2, <1>4, <1>5, <1>6, <1>7, <1>8 DEF TermTypes

\* The REPL's consumer keeps the message as the answer or prints it.
LEMMA ConsumeKeeps == ASSUME TerminalInv, ConsumeOutbound PROVE TerminalInv'
<1>1. /\ TermTypes /\ ConsoleInv /\ AnswerComes /\ ShownInv /\ FlightInv /\ LineInv /\ PrintedInOrder
      /\ Len(inbox) \in Nat /\ DOMAIN inbox = 1..Len(inbox) /\ typedLines \in Nat /\ extras \in Nat
      /\ Len(outgoing) \in Nat /\ DOMAIN outgoing = 1..Len(outgoing) /\ turnOf \in 0..typedLines
      /\ Len(held) \in {0, 1} /\ DOMAIN held = 1..Len(held)
      /\ Len(printed) \in Nat /\ DOMAIN printed = 1..Len(printed)
      /\ Len(said) \in Nat /\ TakenUpTo \in 0..Len(said)
  BY TermFacts
<1> DEFINE m == Head(outgoing)
           isAnswer == said[m].says # "progress" /\ ~turnDone
<1>2. /\ consumer /\ outgoing # <<>> /\ outgoing' = Tail(outgoing) /\ consumer' = termOpen
      /\ turnDone' = (turnDone \/ isAnswer)
      /\ held' = (IF isAnswer /\ IsText(m) THEN Append(held, m) ELSE held)
      /\ printed' = (IF IsText(m) /\ ~isAnswer THEN Append(printed, Line(m, FALSE)) ELSE printed)
      /\ UNCHANGED <<console, shared, termAt, termOpen, typedLines, inbox, turnOf, said, extras>>
  BY DEF ConsumeOutbound, Awaited, agentVars
<1>3. m \in 1..Len(said) /\ m = outgoing[1] /\ 1 \in DOMAIN outgoing /\ m = TakenUpTo + 1
      /\ TakenUpTo \in Nat /\ m \in Nat
  <2>1. /\ m \in 1..Len(said) /\ m = outgoing[1] /\ Len(outgoing) \in Nat \ {0} /\ m = TakenUpTo + 1
        /\ TakenUpTo \in Nat
    BY <1>2, TakesFacts
  <2> QED BY <1>1, <2>1
<1>4. IsText(m) => said[m].says # "progress"
  BY DEF IsText
<1>5. isAnswer \in BOOLEAN /\ (isAnswer => held = <<>> /\ termAt = "waiting" /\ turnDone')
      /\ (turnDone => turnDone') /\ turnDone' \in BOOLEAN /\ consumer' \in BOOLEAN
  <2>1. ~turnDone => held = <<>> /\ termAt = "waiting"
    BY <1>1 DEF ConsoleInv
  <2> QED BY <1>1, <1>2, <2>1 DEF TermTypes
<1>6. said[m].says = "progress" \/ turnDone'
  BY <1>2
<1> HIDE DEF m, isAnswer
<1>7. isAnswer /\ IsText(m) => held' = <<m>>
  BY <1>2, <1>5
<1>8. ~(isAnswer /\ IsText(m)) => held' = held
  BY <1>2
<1>9. held' \in Seq(Nat) /\ Len(held') <= 1 /\ (held' = held \/ held' = <<m>>)
  <2>1. <<m>> \in Seq(Nat) /\ Len(<<m>>) = 1
    BY <1>3
  <2>2. held \in Seq(Nat) /\ Len(held) <= 1
    BY <1>1 DEF TermTypes, TerminalTypeOK
  <2>3. CASE isAnswer /\ IsText(m)
    <3>1. held' = <<m>>
      BY <1>7, <2>3
    <3> QED BY <2>1, <3>1
  <2>4. CASE ~(isAnswer /\ IsText(m))
    <3>1. held' = held
      BY <1>8, <2>4
    <3> QED BY <2>2, <3>1
  <2> QED BY <2>3, <2>4
<1>10. printed' = printed \/ \E a \in BOOLEAN : printed' = Append(printed, Line(m, a))
  BY <1>2
<1>11. TermTypes' /\ PrintedInOrder'
  BY <1>2, <1>5, <1>9, <1>10, TakesTypes DEF m
<1>12. /\ AnswerComes' /\ FlightInv'
       /\ console = "cli" /\ extras = 0 => \A i \in DOMAIN outgoing' : said[outgoing'[i]].of = typedLines
  BY <1>2, <1>5, <1>6, TakesKeep DEF m
<1>13. ConsoleInv'
  <2>1. held' # <<>> => console = "cli" /\ turnDone' /\ termAt = "waiting"
    BY <1>1, <1>2, <1>5, <1>7, <1>8 DEF ConsoleInv
  <2> QED BY <1>1, <1>2, <1>5, <2>1 DEF ConsoleInv
<1>14. ShownInv'
  <2> SUFFICES ASSUME console = "cli", termAt # "out", ~shared
               PROVE  TakenTexts' = Numbers' /\ Cardinality(TakenTexts') = Len(printed') + Len(held')
    BY <1>2 DEF ShownInv
  <2>1. TakenTexts = Numbers /\ Cardinality(TakenTexts) = Len(printed) + Len(held)
    BY <1>1 DEF ShownInv
  <2>2. /\ IsText(m) =>
             /\ TakenTexts' = TakenTexts \cup {m}
             /\ Cardinality(TakenTexts') = Cardinality(TakenTexts) + 1
        /\ ~IsText(m) => TakenTexts' = TakenTexts
    BY <1>2, TakenGrow DEF m
  <2>3. CASE ~IsText(m)
    <3>1. printed' = printed /\ held' = held
      BY <1>2, <2>3
    <3>2. Numbers' = Numbers
      BY <3>1 DEF Numbers
    <3> QED BY <2>1, <2>2, <2>3, <3>1, <3>2
  <2>4. CASE IsText(m) /\ isAnswer
    <3>1. printed' = printed /\ held' = <<m>> /\ held = <<>>
      BY <1>2, <1>5, <1>7, <2>4
    <3>2. ToSet(held') = {m} /\ ToSet(held) = {} /\ Len(held') = 1 /\ Len(held) = 0
      <4>1. DOMAIN <<m>> = {1} /\ <<m>>[1] = m /\ Len(<<m>>) = 1
        OBVIOUS
      <4>2. DOMAIN held = {} /\ Len(held) = 0
        BY <1>1, <3>1
      <4> QED BY <3>1, <4>1, <4>2 DEF ToSet
    <3>3. Numbers' = Numbers \cup {m}
      BY <3>1, <3>2 DEF Numbers
    <3> QED BY <1>1, <2>1, <2>2, <2>4, <3>1, <3>2, <3>3
  <2>5. CASE IsText(m) /\ ~isAnswer
    <3>1. printed' = Append(printed, Line(m, FALSE)) /\ held' = held /\ console' = console
      BY <1>2, <2>5
    <3>2. \A i \in DOMAIN printed : printed[i].n < m
      <4>1. \A x \in 1..TakenUpTo : x < m
        BY <1>3
      <4>2. \A i \in DOMAIN printed : printed[i].n \in 1..TakenUpTo
        BY <1>1 DEF TermTypes
      <4> QED BY <4>1, <4>2
    <3>3. /\ Len(printed') = Len(printed) + 1
          /\ {printed'[i].n : i \in DOMAIN printed'} = {printed[i].n : i \in DOMAIN printed} \cup {m}
      BY <1>3, <3>1, <3>2, PrintFacts
    <3>4. Numbers' = Numbers \cup {m}
      BY <3>1, <3>3 DEF Numbers
    <3> QED BY <1>1, <2>1, <2>2, <2>5, <3>1, <3>3, <3>4
  <2> QED BY <2>3, <2>4, <2>5
<1>15. LineInv'
  <2> SUFFICES ASSUME console = "cli", extras = 0
               PROVE  \A i \in DOMAIN held' : said[held'[i]].of = typedLines
    BY <1>1, <1>2, <1>12 DEF LineInv
  <2>1. said[m].of = typedLines /\ \A i \in DOMAIN held : said[held[i]].of = typedLines
    BY <1>1, <1>3 DEF LineInv
  <2>2. CASE held' = held
    BY <2>1, <2>2
  <2>3. CASE held' = <<m>>
    <3>1. DOMAIN held' = {1} /\ held'[1] = m
      BY <2>3
    <3> QED BY <2>1, <3>1
  <2> QED BY <1>9, <2>2, <2>3
<1> QED BY <1>11, <1>12, <1>13, <1>14, <1>15 DEF TerminalInv

\* The consumer ends.
LEMMA IdlesKeeps == ASSUME TerminalInv, ConsumerIdles PROVE TerminalInv'
<1>1. /\ TermTypes /\ ConsoleInv /\ AnswerComes /\ ShownInv /\ FlightInv /\ LineInv /\ PrintedInOrder
  BY TermFacts
<1>2. /\ ~termOpen /\ consumer' = FALSE
      /\ UNCHANGED <<console, shared, termAt, termOpen, turnDone, held, typedLines, inbox, turnOf, said,
                     extras, outgoing, printed>>
  BY DEF ConsumerIdles, agentVars
<1>3. TakenUpTo' = TakenUpTo
  BY <1>2 DEF TakenUpTo
<1>4. TermTypes'
  <2>1. TerminalTypeOK'
    BY <1>1, <1>2 DEF TermTypes, TerminalTypeOK
  <2> QED BY <1>1, <1>2, <1>3, <2>1 DEF TermTypes
<1>5. ConsoleInv' /\ AnswerComes'
  BY <1>1, <1>2 DEF ConsoleInv, AnswerComes
<1>6. ShownInv'
  <2>1. TakenTexts' = TakenTexts
    BY <1>2, <1>3 DEF TakenTexts, IsText
  <2>2. Numbers' = Numbers
    BY <1>2 DEF Numbers
  <2> QED BY <1>1, <1>2, <2>1, <2>2 DEF ShownInv
<1>7. FlightInv'
  <2>1. Awaits' = Awaits /\ (turnOf # 0)' = (turnOf # 0)
    BY <1>2 DEF Awaits
  <2> QED BY <1>1, <1>2, <2>1 DEF FlightInv
<1>8. LineInv' /\ PrintedInOrder'
  BY <1>1, <1>2 DEF LineInv, PrintedInOrder
<1> QED BY <1>4, <1>5, <1>6, <1>7, <1>8 DEF TerminalInv

\* The dispatcher gives the pipe a message.
LEMMA PipeKeeps == ASSUME TerminalInv, PipeSend PROVE TerminalInv'
<1>1. /\ TermTypes /\ ConsoleInv /\ AnswerComes /\ ShownInv /\ FlightInv /\ LineInv /\ PrintedInOrder
  BY TermFacts
<1> DEFINE m == Head(outgoing)
<1>2. /\ console = "pipe" /\ outgoing # <<>> /\ outgoing' = Tail(outgoing)
      /\ turnDone' = (turnDone \/ said[m].says # "progress")
      /\ printed' = (IF IsText(m) THEN Append(printed, Line(m, FALSE)) ELSE printed)
      /\ held' = held /\ consumer' = consumer
      /\ UNCHANGED <<console, shared, termAt, termOpen, typedLines, inbox, turnOf, said, extras>>
  BY DEF PipeSend, agentVars
<1> HIDE DEF m
<1>3. /\ (turnDone => turnDone') /\ turnDone' \in BOOLEAN /\ consumer' \in BOOLEAN
      /\ held' \in Seq(Nat) /\ Len(held') <= 1 /\ (said[m].says = "progress" \/ turnDone')
  BY <1>1, <1>2 DEF TermTypes, TerminalTypeOK
<1>4. printed' = printed \/ \E a \in BOOLEAN : printed' = Append(printed, Line(m, a))
  BY <1>2
<1>5. TermTypes' /\ PrintedInOrder'
  BY <1>2, <1>3, <1>4, TakesTypes DEF m
<1>6. AnswerComes' /\ FlightInv'
  BY <1>2, <1>3, TakesKeep DEF m
<1>7. ConsoleInv'
  BY <1>1, <1>2, <1>3 DEF ConsoleInv
<1>8. console' # "cli"
  BY <1>2
<1>9. ShownInv' /\ LineInv'
  BY <1>8 DEF ShownInv, LineInv
<1> QED BY <1>5, <1>6, <1>7, <1>9 DEF TerminalInv

\* The dispatcher of other channels takes a message of the REPL's.
LEMMA DropsKeeps == ASSUME TerminalInv, DispatcherDrops PROVE TerminalInv'
<1>1. /\ TermTypes /\ ConsoleInv /\ AnswerComes /\ ShownInv /\ FlightInv /\ LineInv /\ PrintedInOrder
  BY TermFacts
<1>2. /\ shared /\ outgoing # <<>> /\ outgoing' = Tail(outgoing)
      /\ held' = held /\ consumer' = consumer /\ printed' = printed /\ turnDone' = turnDone
      /\ UNCHANGED <<console, shared, termAt, termOpen, typedLines, inbox, turnOf, said, extras>>
  BY DEF DispatcherDrops, agentVars, channelVars
<1>3. /\ (turnDone => turnDone') /\ turnDone' \in BOOLEAN /\ consumer' \in BOOLEAN
      /\ held' \in Seq(Nat) /\ Len(held') <= 1
  BY <1>1, <1>2 DEF TermTypes, TerminalTypeOK
<1>4. TermTypes' /\ PrintedInOrder'
  BY <1>2, <1>3, TakesTypes
<1>5. /\ AnswerComes' /\ FlightInv'
      /\ console = "cli" /\ extras = 0 => \A i \in DOMAIN outgoing' : said[outgoing'[i]].of = typedLines
  BY <1>2, <1>3, TakesKeep
<1>6. ConsoleInv' /\ LineInv'
  BY <1>1, <1>2, <1>5 DEF ConsoleInv, LineInv
<1>7. ShownInv'
  BY <1>2 DEF ShownInv
<1> QED BY <1>4, <1>5, <1>6, <1>7 DEF TerminalInv

-----------------------------------------------------------------------------

\* Every step keeps it.
LEMMA TerminalKeeps == TerminalInv /\ [TerminalNext]_terminalVars => TerminalInv'
<1> SUFFICES ASSUME TerminalInv, [TerminalNext]_terminalVars PROVE TerminalInv'
  OBVIOUS
<1>1. CASE TerminalNext
  BY <1>1, BeginsKeeps, RepliesKeeps, SaysMoreKeeps, PassKeeps, QuitKeeps, ResumeKeeps, StoppedKeeps,
     ConsumeKeeps, IdlesKeeps, PipeKeeps, DropsKeeps DEF TerminalNext
<1>2. CASE UNCHANGED terminalVars
  <2>1. /\ TermTypes /\ ConsoleInv /\ AnswerComes /\ ShownInv /\ FlightInv /\ LineInv /\ PrintedInOrder
    BY TermFacts
  <2>2. UNCHANGED <<console, shared, termAt, termOpen, turnDone, held, consumer, typedLines, inbox, turnOf,
                    said, extras, outgoing, printed>>
    BY <1>2 DEF terminalVars
  <2>3. TakenUpTo' = TakenUpTo
    BY <2>2 DEF TakenUpTo
  <2>4. TakenTexts' = TakenTexts
    BY <2>2, <2>3 DEF TakenTexts, IsText
  <2>5. Numbers' = Numbers
    BY <2>2 DEF Numbers
  <2>6. Awaits' = Awaits /\ (turnOf # 0)' = (turnOf # 0)
    BY <2>2 DEF Awaits
  <2>7. TermTypes'
    <3>1. TerminalTypeOK'
      BY <2>1, <2>2 DEF TermTypes, TerminalTypeOK
    <3> QED BY <2>1, <2>2, <2>3, <3>1 DEF TermTypes
  <2>8. ConsoleInv' /\ AnswerComes'
    BY <2>1, <2>2 DEF ConsoleInv, AnswerComes
  <2>9. ShownInv' /\ FlightInv'
    BY <2>1, <2>2, <2>4, <2>5, <2>6 DEF ShownInv, FlightInv
  <2>10. LineInv' /\ PrintedInOrder'
    BY <2>1, <2>2 DEF LineInv, PrintedInOrder
  <2> QED BY <2>7, <2>8, <2>9, <2>10 DEF TerminalInv
<1> QED BY <1>1, <1>2

\* What is said of the terminals follows.
LEMMA TerminalImplies == TerminalInv => TerminalTypeOK /\ TerminalRight
<1> SUFFICES ASSUME TerminalInv PROVE TerminalTypeOK /\ TerminalRight
  OBVIOUS
<1>1. /\ TermTypes /\ ConsoleInv /\ AnswerComes /\ ShownInv /\ FlightInv /\ LineInv /\ PrintedInOrder
      /\ Len(said) \in Nat /\ DOMAIN said = 1..Len(said) /\ TakenUpTo \in 0..Len(said)
      /\ Len(outgoing) \in Nat /\ DOMAIN outgoing = 1..Len(outgoing) /\ Len(inbox) \in Nat
      /\ extras \in Nat /\ turnOf \in 0..typedLines /\ typedLines \in Nat
  BY TermFacts
<1>2. TerminalTypeOK
  BY <1>1 DEF TermTypes
<1>3. WaitsOnlyIfCut
  <2> SUFFICES ASSUME termAt = "waiting", ~turnDone, turnOf = 0, inbox = <<>>,
                      outgoing = <<>> \/ ~consumer, console = "pipe" => outgoing = <<>>,
                      termOpen, ~shared
               PROVE  FALSE
    BY <1>1 DEF WaitsOnlyIfCut
  <2>1. outgoing = <<>>
    BY <1>1 DEF ConsoleInv, TermTypes, TerminalTypeOK
  <2>2. DOMAIN outgoing = {}
    BY <1>1, <2>1
  <2> QED BY <1>1, <2>2 DEF AnswerComes
<1>4. TakenIsPrinted
  <2> SUFFICES ASSUME console = "cli", termAt # "out", ~shared
               PROVE  /\ {n \in DOMAIN said : IsText(n)} \ ToSet(outgoing) = Numbers
                      /\ Cardinality({n \in DOMAIN said : IsText(n)} \ ToSet(outgoing))
                           = Len(printed) + Len(held)
    BY DEF TakenIsPrinted, Numbers
  <2>1. \A n \in DOMAIN said : n \in ToSet(outgoing) <=> n \notin 1..TakenUpTo
    <3> TAKE n \in DOMAIN said
    <3>1. \A i \in 1..Len(outgoing) : outgoing[i] = TakenUpTo + i
      BY <1>1 DEF TermTypes
    <3>2. n \in ToSet(outgoing) => n \notin 1..TakenUpTo
      <4> SUFFICES ASSUME NEW i \in 1..Len(outgoing), n = TakenUpTo + i PROVE n \notin 1..TakenUpTo
        BY <1>1, <3>1 DEF ToSet
      <4> QED BY <1>1
    <3>3. n \notin 1..TakenUpTo => n \in ToSet(outgoing)
      <4> SUFFICES ASSUME n \notin 1..TakenUpTo PROVE n \in ToSet(outgoing)
        OBVIOUS
      <4>1. TakenUpTo = Len(said) - Len(outgoing)
        BY DEF TakenUpTo
      <4>2. n - TakenUpTo \in 1..Len(outgoing) /\ TakenUpTo + (n - TakenUpTo) = n
        BY <1>1, <4>1
      <4>3. outgoing[n - TakenUpTo] = n
        BY <3>1, <4>2
      <4> QED BY <1>1, <4>2, <4>3 DEF ToSet
    <3> QED BY <3>2, <3>3
  <2>2. \A n \in 1..TakenUpTo : n \in DOMAIN said
    BY <1>1
  <2>3. {n \in DOMAIN said : IsText(n)} \ ToSet(outgoing) = TakenTexts
    BY <2>1, <2>2 DEF TakenTexts
  <2> QED BY <1>1, <2>3 DEF ShownInv
<1>5. AnswerIsOfItsLine
  BY <1>1 DEF ConsoleInv, LineInv, AnswerIsOfItsLine
<1>6. PipeKeepsStep
  <2> SUFFICES ASSUME console = "pipe", termOpen
               PROVE  Len(inbox) + (IF turnOf = 0 THEN 0 ELSE 1) <= 1 + extras
    BY DEF PipeKeepsStep
  <2> DEFINE y == OneIf(turnOf # 0)
             x == OneIf(Awaits)
  <2>1. y = (IF turnOf = 0 THEN 0 ELSE 1) /\ y \in {0, 1} /\ x \in {0, 1}
    BY DEF OneIf
  <2>2. Len(inbox) + y + Len(outgoing) <= x + extras
    BY <1>1 DEF FlightInv
  <2> HIDE DEF x, y
  <2>3. Len(inbox) + y <= 1 + extras
    BY <1>1, <2>1, <2>2
  <2> QED BY <2>1, <2>3
<1> QED BY <1>1, <1>2, <1>3, <1>4, <1>5, <1>6 DEF TerminalRight

\* A terminal waits only for an answer that can come or was cut off, prints or
\* holds every text it took, each answer under its line, in the order published,
\* and the pipe passes one line on at a time (CLIChannel, PipeChannel).
THEOREM TerminalsHold == TerminalSpec => [](TerminalTypeOK /\ TerminalRight)
<1> QED BY TerminalStarts, TerminalKeeps, TerminalImplies, PTL DEF TerminalSpec

-----------------------------------------------------------------------------
(* The OpenAI-compatible provider                                            *)

DeltaPieces == (1..Chain) \X Nat
Names == {Missing} \cup {l.name : l \in ServerLines}
SlotParts == [name : Names, args : Seq(DeltaPieces)]
KeptAnswers == [content : Seq(DeltaPieces), calls : [Slots -> SlotParts]]
RequestStates == [file : 0..FileChunks, preview : BOOLEAN, failed : BOOLEAN, ended : BOOLEAN]
Stances == {"sending", "status", "first", "reading", "answer", "raised"}

ProviderTypes ==
  /\ entry \in {"chat", "raw"} /\ model \in 1..Chain /\ stance \in Stances
  /\ wire \in Seq(RequestStates) /\ Len(wire) <= Len(Request)
  /\ why \in Retryable \cup Fatal \cup {"none"}
  /\ parts \in KeptAnswers
  /\ sent \in Seq(ServerLines)
  /\ deltas \in Seq(DeltaPieces)

\* A slot has the last name it was given, and the pieces of its arguments.
SlotInv(i) ==
  /\ TakenFrom(model, parts.calls[i].args, Arguing(i))
  /\ \/ Naming(i) = {} /\ parts.calls[i].name = Missing
     \/ \E l \in Naming(i) : LastOf(l, Naming(i)) /\ parts.calls[i].name = sent[l].name

\* What was kept is what this attempt's model sent.
PartsAreSent ==
  /\ TakenFrom(model, parts.content, TextLines)
  /\ \A i \in Slots : SlotInv(i)

\* The listener has heard what was kept, after pieces of earlier models.
DeltasInv ==
  entry = "chat" =>
    /\ Len(parts.content) <= Len(deltas)
    /\ \A k \in 1..Len(parts.content) :
          deltas[Len(deltas) - Len(parts.content) + k] = parts.content[k]
    /\ \A k \in 1..(Len(deltas) - Len(parts.content)) : deltas[k][1] < model

\* Only the last message may be under way; one that ended without its preview went
\* out to the last chunk; behind the body everything is whole.
WireInv ==
  /\ \A n \in 1..Len(wire) :
        /\ n < Len(wire) => wire[n].ended
        /\ Request[n] # "inline" /\ wire[n].ended /\ ~wire[n].failed => wire[n].file = FileChunks
        /\ Request[n] = "file" => (wire[n].preview <=> wire[n].failed)
  /\ stance \notin {"sending", "raised"} =>
        Len(wire) = Len(Request) /\ \A n \in 1..Len(wire) : Whole(n)

ProviderInv == ProviderTypes /\ PartsAreSent /\ DeltasInv /\ WireInv /\ FallsBackRightly

\* Content and calls of what was kept.
LEMMA KeptParts ==
  ASSUME NEW p \in KeptAnswers
  PROVE  /\ p.content \in Seq(DeltaPieces) /\ p.calls \in [Slots -> SlotParts]
         /\ \A i \in Slots : p.calls[i].name \in Names /\ p.calls[i].args \in Seq(DeltaPieces)
BY DEF KeptAnswers, SlotParts

\* Nothing is taken from no lines.
LEMMA NothingTaken == \A asked : TakenFrom(asked, <<>>, {})
BY DEF TakenFrom

\* All that is taken is of the model asked.
LEMMA TakenIsOf ==
  ASSUME NEW asked, NEW pieces, NEW lines, TakenFrom(asked, pieces, lines),
         NEW k \in 1..Len(pieces)
  PROVE  \E l \in lines : pieces[k] = <<asked, l>>
BY DEF TakenFrom

\* The next line is taken behind the others.
LEMMA TakenNext ==
  ASSUME NEW asked \in 1..Chain, NEW n \in Nat, NEW lines \in SUBSET (1..n),
         NEW pieces \in Seq(DeltaPieces), TakenFrom(asked, pieces, lines)
  PROVE  TakenFrom(asked, Append(pieces, <<asked, n + 1>>), lines \cup {n + 1})
<1> DEFINE piece == <<asked, n + 1>>
<1>1. piece \in DeltaPieces /\ piece[2] = n + 1
  BY DEF DeltaPieces
<1>2. PICK c \in Nat : c = Len(pieces)
  OBVIOUS
<1>3. PICK more \in Seq(DeltaPieces) : more = Append(pieces, piece)
  <2>1. Append(pieces, piece) \in Seq(DeltaPieces)
    BY <1>1, AppendProperties, Zenon
  <2> QED BY <2>1
<1>4. /\ Len(more) = c + 1 /\ more[c + 1] = piece
      /\ \A k \in 1..c : more[k] = pieces[k]
  BY <1>1, <1>2, <1>3
<1>5. \A k \in 1..c : \E l \in lines : pieces[k] = <<asked, l>>
  BY <1>2, TakenIsOf
<1>6. ASSUME NEW k \in 1..(c + 1), NEW m \in 1..(c + 1), k < m
      PROVE  more[k][2] < more[m][2]
  <2>1. k \in 1..c
    BY <1>2, <1>6
  <2>2. PICK l \in lines : pieces[k] = <<asked, l>>
    BY <1>5, <2>1
  <2>3. l \in 1..n /\ pieces[k][2] = l /\ more[k] = pieces[k]
    BY <1>4, <2>1, <2>2
  <2>4. CASE m = c + 1
    <3>1. more[m][2] = n + 1
      BY <1>1, <1>4, <2>4
    <3> QED BY <2>3, <3>1
  <2>5. CASE m # c + 1
    <3>1. m \in 1..c
      BY <1>2, <2>5
    <3> QED BY <1>2, <1>4, <1>6, <2>1, <3>1 DEF TakenFrom
  <2> QED BY <2>4, <2>5
<1>7. {more[k] : k \in 1..(c + 1)} = {<<asked, l>> : l \in lines \cup {n + 1}}
  <2>1. {pieces[k] : k \in 1..c} = {<<asked, l>> : l \in lines}
    BY <1>2 DEF TakenFrom
  <2>2. {more[k] : k \in 1..(c + 1)} = {pieces[k] : k \in 1..c} \cup {piece}
    <3>1. ASSUME NEW k \in 1..(c + 1) PROVE more[k] \in {pieces[m] : m \in 1..c} \cup {piece}
      <4>1. CASE k = c + 1
        BY <1>4, <4>1
      <4>2. CASE k \in 1..c
        BY <1>4, <4>2
      <4> QED BY <1>2, <4>1, <4>2
    <3>2. \A k \in 1..c : k \in 1..(c + 1) /\ more[k] = pieces[k]
      BY <1>2, <1>4
    <3>3. c + 1 \in 1..(c + 1) /\ more[c + 1] = piece
      BY <1>2, <1>4
    <3> HIDE DEF piece
    <3> QED BY <3>1, <3>2, <3>3
  <2>3. {<<asked, l>> : l \in lines \cup {n + 1}} = {<<asked, l>> : l \in lines} \cup {piece}
    OBVIOUS
  <2> QED BY <2>1, <2>2, <2>3
<1> HIDE DEF piece
<1>8. TakenFrom(asked, more, lines \cup {n + 1})
  BY <1>4, <1>6, <1>7 DEF TakenFrom
<1> QED BY <1>3, <1>8 DEF piece

\* A piece of the body.
LEMMA WirePart ==
  ASSUME NEW w \in RequestStates
  PROVE  /\ Further(w) \in RequestStates
         /\ Further(w).ended /\ ~w.ended => Further(w).file = FileChunks
         /\ Further(w).preview = w.preview /\ Further(w).failed = w.failed
<1>1. w.file \in 0..FileChunks /\ FileChunks \in Nat
  BY ProviderAssumption DEF RequestStates
<1>2. CASE w.file < FileChunks
  <2>1. Further(w) = [w EXCEPT !.file = w.file + 1]
    BY <1>2 DEF Further
  <2>2. w.file + 1 \in 0..FileChunks
    BY <1>1, <1>2
  <2>3. \A n \in 0..FileChunks : [w EXCEPT !.file = n] \in RequestStates /\ [w EXCEPT !.file = n].ended = w.ended
        /\ [w EXCEPT !.file = n].preview = w.preview /\ [w EXCEPT !.file = n].failed = w.failed
    BY DEF RequestStates
  <2> QED BY <2>1, <2>2, <2>3
<1>3. CASE ~(w.file < FileChunks)
  <2>1. Further(w) = [w EXCEPT !.ended = TRUE] /\ w.file = FileChunks
    BY <1>1, <1>3 DEF Further
  <2>2. [w EXCEPT !.ended = TRUE] \in RequestStates /\ [w EXCEPT !.ended = TRUE].file = w.file
        /\ [w EXCEPT !.ended = TRUE].preview = w.preview /\ [w EXCEPT !.ended = TRUE].failed = w.failed
    BY DEF RequestStates
  <2> QED BY <2>1, <2>2
<1> QED BY <1>2, <1>3

\* An attempt begins with empty hands.
LEMMA NothingIsKept == NothingHeard \in KeptAnswers
<1>1. NoSlot \in SlotParts
  BY DEF NoSlot, SlotParts, Names
<1> QED BY <1>1 DEF NothingHeard, KeptAnswers

\* Empty hands are what no line has given.
LEMMA NothingIsSent ==
  ASSUME parts = NothingHeard, sent = <<>>
  PROVE  PartsAreSent
<1>1. TextLines = {} /\ \A i \in Slots : Naming(i) = {} /\ Arguing(i) = {}
  BY DEF TextLines, Naming, Arguing
<1>2. parts.content = <<>> /\ \A i \in Slots : parts.calls[i].args = <<>> /\ parts.calls[i].name = Missing
  BY DEF NothingHeard, NoSlot
<1>3. ASSUME NEW i \in Slots PROVE SlotInv(i)
  BY <1>1, <1>2, NothingTaken DEF SlotInv
<1> QED BY <1>1, <1>2, <1>3, NothingTaken DEF PartsAreSent

\* The same of the state that follows.
LEMMA NothingIsSentNext ==
  ASSUME parts' = NothingHeard, sent' = <<>>
  PROVE  PartsAreSent'
<1>1. TextLines' = {} /\ \A i \in Slots : Naming(i)' = {} /\ Arguing(i)' = {}
  BY DEF TextLines, Naming, Arguing
<1>2. parts'.content = <<>> /\ \A i \in Slots : parts'.calls[i].args = <<>> /\ parts'.calls[i].name = Missing
  BY DEF NothingHeard, NoSlot
<1>3. ASSUME NEW i \in Slots PROVE SlotInv(i)'
  BY <1>1, <1>2, NothingTaken DEF SlotInv
<1> QED BY <1>1, <1>2, <1>3, NothingTaken DEF PartsAreSent

\* Before the first attempt nothing is heard and nothing is sent.
LEMMA ProviderStarts == ProviderInit => ProviderInv
<1> SUFFICES ASSUME ProviderInit PROVE ProviderInv
  OBVIOUS
<1> USE ProviderAssumption
<1>1. NothingHeard \in KeptAnswers
  BY NothingIsKept
<1>3. ProviderTypes
  BY <1>1 DEF ProviderInit, ProviderTypes, Stances
<1>4. PartsAreSent /\ DeltasInv
  <2>1. parts = NothingHeard /\ sent = <<>> /\ deltas = <<>>
    BY DEF ProviderInit
  <2>2. NothingHeard.content = <<>>
    BY DEF NothingHeard
  <2> QED BY <2>1, <2>2, NothingIsSent DEF DeltasInv
<1>5. WireInv
  BY DEF ProviderInit, WireInv
<1>6. FallsBackRightly
  BY DEF ProviderInit, FallsBackRightly, Fatal
<1> QED BY <1>3, <1>4, <1>5, <1>6 DEF ProviderInv

\* What is kept stays what is sent where neither changes.
LEMMA SentSame ==
  ASSUME PartsAreSent, UNCHANGED <<model, parts, sent>>
  PROVE  PartsAreSent'
BY DEF PartsAreSent, SlotInv, TextLines, Naming, Arguing, LastOf, TakenFrom

\* An attempt that ends in an error keeps it, and the next one starts anew.
LEMMA FailKeeps ==
  ASSUME ProviderInv, NEW reason \in Retryable \cup Fatal, Fails(reason)
  PROVE  ProviderInv'
<1> USE ProviderAssumption
<1>1. ProviderTypes /\ PartsAreSent /\ DeltasInv /\ WireInv /\ FallsBackRightly
  BY DEF ProviderInv
<1>2. /\ why' = reason /\ UNCHANGED <<entry, deltas>>
  BY DEF Fails
<1>3. CASE entry = "chat" /\ reason \in Retryable /\ model < Chain
  <2>1. /\ model' = model + 1 /\ candidates' = Append(candidates, model + 1)
        /\ stance' = "sending" /\ wire' = <<>> /\ parts' = NothingHeard /\ sent' = <<>>
    BY <1>3 DEF Fails
  <2>3. NothingHeard \in KeptAnswers /\ NothingHeard.content = <<>>
    BY NothingIsKept DEF NothingHeard
  <2>4. model \in 1..Chain /\ model' \in 1..Chain
    BY <1>1, <1>3, <2>1 DEF ProviderTypes
  <2>5. ProviderTypes'
    BY <1>1, <1>2, <2>1, <2>3, <2>4 DEF ProviderTypes, Stances
  <2>6. PartsAreSent'
    BY <2>1, NothingIsSentNext
  <2>7. \A k \in 1..Len(deltas) : deltas[k][1] <= model
    <3> SUFFICES ASSUME NEW k \in 1..Len(deltas) PROVE deltas[k][1] <= model
      OBVIOUS
    <3> DEFINE m == Len(deltas) - Len(parts.content)
    <3>1. parts.content \in Seq(DeltaPieces) /\ deltas \in Seq(DeltaPieces)
      BY <1>1, KeptParts DEF ProviderTypes
    <3>2. Len(parts.content) \in Nat /\ Len(deltas) \in Nat /\ m \in Nat /\ deltas[k] \in DeltaPieces
      BY <1>1, <1>3, <3>1 DEF DeltasInv
    <3>3. deltas[k][1] \in Int
      BY <3>2 DEF DeltaPieces
    <3>4. CASE k <= m
      <4>1. k \in 1..m
        BY <3>2, <3>4
      <4>2. deltas[k][1] < model
        BY <1>1, <1>3, <4>1 DEF DeltasInv
      <4> QED BY <2>4, <3>3, <4>2
    <3>5. CASE k > m
      <4> DEFINE c == Len(parts.content)
      <4>a. c \in Nat /\ m = Len(deltas) - c
        BY <3>2
      <4> HIDE DEF c, m
      <4>b. k - m \in 1..c /\ m + (k - m) = k
        BY <3>2, <3>5, <4>a
      <4> USE DEF c, m
      <4>1. k - m \in 1..Len(parts.content) /\ m + (k - m) = k
        BY <4>b
      <4>2. deltas[m + (k - m)] = parts.content[k - m]
        BY <1>1, <1>3, <4>1 DEF DeltasInv
      <4>3. parts.content[k - m][1] = model
        <5>1. TakenFrom(model, parts.content, TextLines)
          BY <1>1 DEF PartsAreSent
        <5>2. \E l \in TextLines : parts.content[k - m] = <<model, l>>
          BY <4>1, <5>1, TakenIsOf
        <5> QED BY <5>2
      <4> QED BY <2>4, <3>3, <4>1, <4>2, <4>3
    <3> QED BY <3>2, <3>4, <3>5
  <2>8. DeltasInv'
    <3>1. deltas \in Seq(DeltaPieces) /\ Len(deltas) \in Nat
      BY <1>1 DEF ProviderTypes
    <3>2. parts'.content = <<>> /\ Len(parts'.content) = 0
      BY <2>1, <2>3
    <3>3. ASSUME NEW k \in 1..(Len(deltas') - Len(parts'.content)) PROVE deltas'[k][1] < model'
      <4>1. k \in 1..Len(deltas) /\ deltas[k] \in DeltaPieces
        BY <1>2, <3>1, <3>2
      <4>2. deltas[k][1] <= model /\ deltas[k][1] \in Int
        BY <2>7, <4>1 DEF DeltaPieces
      <4> QED BY <1>2, <2>1, <2>4, <4>2
    <3> QED BY <1>2, <3>1, <3>2, <3>3 DEF DeltasInv
  <2>9. WireInv'
    BY <2>1 DEF WireInv
  <2>10. FallsBackRightly'
    <3>1. candidates = [i \in 1..model |-> i]
      BY <1>1 DEF FallsBackRightly
    <3>2. candidates' = [i \in 1..model' |-> i]
      BY <2>1, <2>4, <3>1
    <3>3. why' \notin Fatal
      BY <1>2, <1>3 DEF Retryable, Fatal
    <3> QED BY <1>2, <1>3, <2>1, <3>2, <3>3 DEF FallsBackRightly
  <2> QED BY <2>5, <2>6, <2>8, <2>9, <2>10 DEF ProviderInv
<1>4. CASE ~(entry = "chat" /\ reason \in Retryable /\ model < Chain)
  <2>1. stance' = "raised" /\ UNCHANGED <<model, wire, candidates, parts, sent>>
    BY <1>4 DEF Fails
  <2>2. ProviderTypes'
    BY <1>1, <1>2, <2>1 DEF ProviderTypes, Stances
  <2>3. PartsAreSent' /\ DeltasInv'
    BY <1>1, <1>2, <2>1, SentSame DEF DeltasInv
  <2>4. WireInv'
    BY <1>1, <2>1 DEF WireInv
  <2>5. FallsBackRightly'
    <3>1. reason \in Fatal \/ entry = "raw" \/ model = Chain
      BY <1>1, <1>4 DEF ProviderTypes
    <3> QED BY <1>1, <1>2, <2>1, <3>1 DEF FallsBackRightly
  <2> QED BY <2>2, <2>3, <2>4, <2>5 DEF ProviderInv
<1> QED BY <1>3, <1>4

\* The writing of the body keeps it.
LEMMA EmitKeeps ==
  ASSUME ProviderInv, EmitHead \/ EmitChunk \/ EmitFallback
  PROVE  ProviderInv'
<1> USE ProviderAssumption
<1>1. ProviderTypes /\ PartsAreSent /\ DeltasInv /\ WireInv /\ FallsBackRightly
  BY DEF ProviderInv
<1>2. /\ stance = "sending"
      /\ UNCHANGED <<entry, model, stance, candidates, parts, deltas, sent, why>>
  BY DEF EmitHead, EmitChunk, EmitFallback, Wire
<1>3. PartsAreSent' /\ DeltasInv' /\ FallsBackRightly'
  BY <1>1, <1>2, SentSame DEF DeltasInv, FallsBackRightly
<1>4. wire \in Seq(RequestStates) /\ Len(wire) \in Nat /\ Len(Request) \in Nat /\ Len(wire) <= Len(Request)
  BY <1>1 DEF ProviderTypes
<1>5. /\ wire' \in Seq(RequestStates) /\ Len(wire') <= Len(Request)
      /\ \A n \in 1..Len(wire') :
            /\ n < Len(wire') => wire'[n].ended
            /\ Request[n] # "inline" /\ wire'[n].ended /\ ~wire'[n].failed => wire'[n].file = FileChunks
            /\ Request[n] = "file" => (wire'[n].preview <=> wire'[n].failed)
  <2>1. CASE EmitHead
    <3> DEFINE w == [file |-> 0, preview |-> FALSE, failed |-> FALSE,
                     ended |-> Request[Len(wire) + 1] = "inline"]
    <3>1. wire' = Append(wire, w) /\ Len(wire) < Len(Request) /\ (Len(wire) > 0 => wire[Len(wire)].ended)
      BY <2>1 DEF EmitHead, Wire, Message
    <3>2. w \in RequestStates
      BY DEF RequestStates
    <3>3. (w.ended => Request[Len(wire) + 1] = "inline") /\ ~w.preview /\ ~w.failed
      OBVIOUS
    <3> HIDE DEF w
    <3>4. wire' \in Seq(RequestStates) /\ Len(wire') = Len(wire) + 1 /\ wire'[Len(wire) + 1] = w
          /\ \A n \in 1..Len(wire) : wire'[n] = wire[n]
      BY <1>4, <3>1, <3>2
    <3>5. ASSUME NEW n \in 1..Len(wire')
          PROVE  /\ n < Len(wire') => wire'[n].ended
                 /\ Request[n] # "inline" /\ wire'[n].ended /\ ~wire'[n].failed => wire'[n].file = FileChunks
                 /\ Request[n] = "file" => (wire'[n].preview <=> wire'[n].failed)
      <4>1. CASE n = Len(wire) + 1
        BY <1>4, <3>3, <3>4, <4>1
      <4>2. CASE n \in 1..Len(wire)
        <5>1. wire'[n] = wire[n] /\ wire[n].ended
          BY <1>1, <1>4, <3>1, <3>4, <4>2 DEF WireInv
        <5> QED BY <1>1, <4>2, <5>1 DEF WireInv
      <4> QED BY <1>4, <3>4, <4>1, <4>2
    <3> QED BY <1>4, <3>1, <3>4, <3>5
  <2>2. CASE EmitChunk \/ EmitFallback
    <3> DEFINE m == Len(wire)
    <3>1. m > 0 /\ m \in 1..Len(wire) /\ ~wire[m].ended /\ wire[m] \in RequestStates
      BY <1>4, <2>2 DEF EmitChunk, EmitFallback, Message
    <3> DEFINE Fits(v) == /\ v.ended /\ ~v.failed => v.file = FileChunks
                          /\ Request[m] = "file" => (v.preview <=> v.failed)
    <3> HIDE DEF Fits
    <3>2. PICK w \in RequestStates : wire' = [wire EXCEPT ![m] = w] /\ Fits(w)
      <4>1. CASE EmitFallback
        <5> DEFINE new == [wire[m] EXCEPT !.preview = Request[m] = "file", !.failed = TRUE, !.ended = TRUE]
        <5>1. wire' = [wire EXCEPT ![m] = new]
          BY <4>1 DEF EmitFallback, Wire, Message
        <5>2. (Request[m] = "file") \in BOOLEAN
          OBVIOUS
        <5>3. \A b \in BOOLEAN :
                /\ [wire[m] EXCEPT !.preview = b, !.failed = TRUE, !.ended = TRUE] \in RequestStates
                /\ [wire[m] EXCEPT !.preview = b, !.failed = TRUE, !.ended = TRUE].failed
                /\ [wire[m] EXCEPT !.preview = b, !.failed = TRUE, !.ended = TRUE].preview = b
          BY <3>1 DEF RequestStates
        <5>4. PICK w \in RequestStates : w = new /\ w.failed /\ (w.preview <=> Request[m] = "file")
          BY <5>2, <5>3
        <5> HIDE DEF new
        <5>5. wire' = [wire EXCEPT ![m] = w]
          BY <5>1, <5>4
        <5>6. w.ended /\ ~w.failed => w.file = FileChunks
          BY <5>4
        <5>7. Request[m] = "file" => (w.preview <=> w.failed)
          BY <5>4
        <5>8. Fits(w)
          BY <5>6, <5>7 DEF Fits
        <5> QED BY <5>5, <5>8
      <4>2. CASE EmitChunk
        <5>1. wire' = [wire EXCEPT ![m] = Further(wire[m])]
          BY <4>2 DEF EmitChunk, Wire, Message
        <5>2. Request[m] = "file" => (wire[m].preview <=> wire[m].failed)
          BY <1>1, <3>1 DEF WireInv
        <5>3. Further(wire[m]) \in RequestStates /\ Fits(Further(wire[m]))
          BY <3>1, <5>2, WirePart DEF Fits
        <5> QED BY <5>1, <5>3
      <4> QED BY <2>2, <4>1, <4>2
    <3>3. wire' \in Seq(RequestStates) /\ Len(wire') = Len(wire) /\ wire'[m] = w
          /\ \A n \in 1..Len(wire) : n # m => wire'[n] = wire[n]
      BY <1>4, <3>1, <3>2
    <3>4. ASSUME NEW n \in 1..Len(wire')
          PROVE  /\ n < Len(wire') => wire'[n].ended
                 /\ Request[n] # "inline" /\ wire'[n].ended /\ ~wire'[n].failed => wire'[n].file = FileChunks
                 /\ Request[n] = "file" => (wire'[n].preview <=> wire'[n].failed)
      <4>1. CASE n = m
        <5>1. wire'[n] = w /\ ~(n < Len(wire'))
          BY <1>4, <3>3, <4>1
        <5> QED BY <3>2, <4>1, <5>1 DEF Fits
      <4>2. CASE n # m
        BY <1>1, <3>3, <4>2 DEF WireInv
      <4> QED BY <4>1, <4>2
    <3> QED BY <1>4, <3>3, <3>4
  <2> QED BY <2>1, <2>2
<1>6. ProviderTypes'
  BY <1>1, <1>2, <1>5 DEF ProviderTypes
<1>7. WireInv'
  BY <1>2, <1>5 DEF WireInv
<1> QED BY <1>3, <1>6, <1>7 DEF ProviderInv

\* A line of the answer keeps it.
LEMMA ReadKeeps ==
  ASSUME ProviderInv, stance \in {"first", "reading"}, stance' = "reading",
         UNCHANGED <<entry, model, wire, candidates, why>>,
         parts' \in KeptAnswers,
         sent' \in Seq(ServerLines),
         deltas' \in Seq(DeltaPieces),
         PartsAreSent', DeltasInv'
  PROVE  ProviderInv'
<1>1. ProviderTypes /\ WireInv /\ FallsBackRightly
  BY DEF ProviderInv
<1>2. ProviderTypes'
  BY <1>1 DEF ProviderTypes, Stances
<1>3. WireInv'
  BY <1>1 DEF WireInv, Whole
<1>4. FallsBackRightly'
  BY <1>1 DEF FallsBackRightly
<1> QED BY <1>2, <1>3, <1>4 DEF ProviderInv

\* A line adds itself to the lines of its kinds.
LEMMA LinesGrow ==
  ASSUME sent \in Seq(ServerLines), NEW line \in ServerLines, sent' = Append(sent, line)
  PROVE  /\ TextLines' = TextLines \cup (IF line.text THEN {Len(sent) + 1} ELSE {})
         /\ \A i \in Slots :
              /\ Naming(i)' = Naming(i) \cup
                   (IF line.slot = i /\ line.name # Missing THEN {Len(sent) + 1} ELSE {})
              /\ Arguing(i)' = Arguing(i) \cup
                   (IF line.slot = i /\ line.args # Missing THEN {Len(sent) + 1} ELSE {})
<1>1. PICK n \in Nat : n = Len(sent)
  OBVIOUS
<1>2. PICK more \in Seq(ServerLines) : more = Append(sent, line)
  <2>1. Append(sent, line) \in Seq(ServerLines)
    BY AppendProperties, Zenon
  <2> QED BY <2>1
<1>3. Len(more) = n + 1 /\ more[n + 1] = line /\ \A k \in 1..n : more[k] = sent[k]
  BY <1>1, <1>2
<1>4. 1..(n + 1) = 1..n \cup {n + 1} /\ n + 1 \notin 1..n
  BY <1>1
<1>5. TextLines' = {l \in 1..(n + 1) : more[l].text} /\ TextLines = {l \in 1..n : sent[l].text}
  BY <1>1, <1>2, <1>3 DEF TextLines
<1>6. TextLines' = TextLines \cup (IF line.text THEN {n + 1} ELSE {})
  BY <1>3, <1>4, <1>5
<1>7. ASSUME NEW i \in Slots
      PROVE  /\ Naming(i)' = Naming(i) \cup
                   (IF line.slot = i /\ line.name # Missing THEN {n + 1} ELSE {})
             /\ Arguing(i)' = Arguing(i) \cup
                   (IF line.slot = i /\ line.args # Missing THEN {n + 1} ELSE {})
  <2>1. /\ Naming(i)' = {l \in 1..(n + 1) : more[l].slot = i /\ more[l].name # Missing}
        /\ Naming(i) = {l \in 1..n : sent[l].slot = i /\ sent[l].name # Missing}
    BY <1>1, <1>2, <1>3 DEF Naming
  <2>2. /\ Arguing(i)' = {l \in 1..(n + 1) : more[l].slot = i /\ more[l].args # Missing}
        /\ Arguing(i) = {l \in 1..n : sent[l].slot = i /\ sent[l].args # Missing}
    BY <1>1, <1>2, <1>3 DEF Arguing
  <2>3. Naming(i)' = Naming(i) \cup (IF line.slot = i /\ line.name # Missing THEN {n + 1} ELSE {})
    BY <1>3, <1>4, <2>1
  <2>4. Arguing(i)' = Arguing(i) \cup (IF line.slot = i /\ line.args # Missing THEN {n + 1} ELSE {})
    BY <1>3, <1>4, <2>2
  <2> QED BY <2>3, <2>4
<1> QED BY <1>1, <1>6, <1>7

\* A line of the answer keeps it: what it carries is kept, and the listener hears its
\* content behind what it has heard.
LEMMA LineKeeps ==
  ASSUME ProviderInv, NEW line \in ServerLines, Reads(line)
  PROVE  ProviderInv'
<1> USE ProviderAssumption
<1>1. ProviderTypes /\ PartsAreSent /\ DeltasInv
  BY DEF ProviderInv
<1> DEFINE piece == <<model, Len(sent) + 1>>
           slotNow(i) == IF line.slot = i THEN Slot(parts.calls[i], line, piece) ELSE parts.calls[i]
<1>2. /\ stance \in {"first", "reading"} /\ stance' = "reading" /\ sent' = Append(sent, line)
      /\ parts' = [content |-> IF line.text THEN Append(parts.content, piece) ELSE parts.content,
                   calls |-> [i \in Slots |-> slotNow(i)]]
      /\ deltas' = IF line.text /\ entry = "chat" THEN Append(deltas, piece) ELSE deltas
      /\ UNCHANGED <<entry, model, wire, candidates, why>>
  BY DEF Reads
<1>3. /\ parts \in KeptAnswers /\ deltas \in Seq(DeltaPieces) /\ model \in 1..Chain
      /\ sent \in Seq(ServerLines) /\ Len(sent) \in Nat /\ line.text \in BOOLEAN
  BY <1>1 DEF ProviderTypes
<1>4. piece \in DeltaPieces /\ piece[1] = model
  BY <1>3 DEF DeltaPieces
<1>5. sent' \in Seq(ServerLines)
  BY <1>2, <1>3, AppendProperties, Zenon
<1>6. ASSUME NEW i \in Slots PROVE slotNow(i) \in SlotParts
  <2>1. parts.calls[i] \in SlotParts
    BY <1>3, KeptParts
  <2>2. parts.calls[i].name \in Names /\ parts.calls[i].args \in Seq(DeltaPieces)
    BY <2>1 DEF SlotParts
  <2> HIDE DEF piece
  <2>3. line.name \in Names
    BY DEF Names
  <2>4. Append(parts.calls[i].args, piece) \in Seq(DeltaPieces)
    BY <1>4, <2>2, AppendProperties, Zenon
  <2>5. Slot(parts.calls[i], line, piece) \in SlotParts
    BY <2>2, <2>3, <2>4 DEF Slot, SlotParts
  <2> QED BY <2>1, <2>5
<1>7. /\ parts'.content = IF line.text THEN Append(parts.content, piece) ELSE parts.content
      /\ \A i \in Slots : parts'.calls[i] = slotNow(i)
  BY <1>2
<1> HIDE DEF piece, slotNow
<1>8. parts.content \in Seq(DeltaPieces)
  BY <1>3, KeptParts
<1>9. parts' \in KeptAnswers
  <2>1. Append(parts.content, piece) \in Seq(DeltaPieces)
    BY <1>4, <1>8, AppendProperties, Zenon
  <2> QED BY <1>2, <1>6, <1>8, <2>1 DEF KeptAnswers
<1>10. deltas' \in Seq(DeltaPieces)
  <2>1. Append(deltas, piece) \in Seq(DeltaPieces)
    BY <1>3, <1>4, AppendProperties, Zenon
  <2> QED BY <1>2, <1>3, <2>1
<1>11. PartsAreSent'
  <2>1. TextLines \in SUBSET (1..Len(sent))
    BY DEF TextLines
  <2>2. TakenFrom(model, parts.content, TextLines)
    BY <1>1 DEF PartsAreSent
  <2>3. TextLines' = TextLines \cup (IF line.text THEN {Len(sent) + 1} ELSE {})
    BY <1>2, <1>3, LinesGrow
  <2>4. TakenFrom(model, Append(parts.content, piece), TextLines \cup {Len(sent) + 1})
    BY <1>3, <1>8, <2>1, <2>2, TakenNext DEF piece
  <2>5. TakenFrom(model, parts'.content, TextLines')
    <3>1. CASE line.text
      BY <1>7, <2>3, <2>4, <3>1
    <3>2. CASE ~line.text
      <4>1. TextLines' = TextLines /\ parts'.content = parts.content
        BY <1>7, <2>3, <3>2
      <4> QED BY <2>2, <4>1
    <3> QED BY <3>1, <3>2
  <2>6. ASSUME NEW i \in Slots PROVE SlotInv(i)'
    <3>1. PICK old \in SlotParts : old = parts.calls[i]
      BY <1>3, KeptParts
    <3>2. SlotInv(i) /\ old.args \in Seq(DeltaPieces) /\ Arguing(i) \in SUBSET (1..Len(sent))
      BY <1>1, <3>1 DEF PartsAreSent, SlotParts, Arguing
    <3>3. /\ Naming(i)' = Naming(i) \cup
                (IF line.slot = i /\ line.name # Missing THEN {Len(sent) + 1} ELSE {})
          /\ Arguing(i)' = Arguing(i) \cup
                (IF line.slot = i /\ line.args # Missing THEN {Len(sent) + 1} ELSE {})
      BY <1>2, <1>3, LinesGrow
    <3>4. PICK now \in SlotParts : now = parts'.calls[i]
      BY <1>6, <1>7
    <3>5. /\ now.name = IF line.slot = i /\ line.name # Missing THEN line.name ELSE old.name
          /\ now.args = IF line.slot = i /\ line.args # Missing THEN Append(old.args, piece) ELSE old.args
      <4>1. CASE line.slot = i
        <5>1. now = Slot(old, line, piece)
          BY <1>7, <3>1, <3>4, <4>1 DEF slotNow
        <5> QED BY <4>1, <5>1 DEF Slot
      <4>2. CASE line.slot # i
        BY <1>7, <3>1, <3>4, <4>2 DEF slotNow
      <4> QED BY <4>1, <4>2
    <3>6. TakenFrom(model, old.args, Arguing(i))
      BY <3>1, <3>2 DEF SlotInv
    <3>7. TakenFrom(model, Append(old.args, piece), Arguing(i) \cup {Len(sent) + 1})
      BY <1>3, <3>2, <3>6, TakenNext DEF piece
    <3>8. TakenFrom(model, now.args, Arguing(i)')
      <4>1. CASE line.slot = i /\ line.args # Missing
        BY <3>3, <3>5, <3>7, <4>1
      <4>2. CASE ~(line.slot = i /\ line.args # Missing)
        <5>1. Arguing(i)' = Arguing(i) /\ now.args = old.args
          BY <3>3, <3>5, <4>2
        <5> QED BY <3>6, <5>1
      <4> QED BY <4>1, <4>2
    <3>9. /\ Naming(i) \in SUBSET (1..Len(sent))
          /\ \A l \in 1..Len(sent) : sent'[l] = sent[l]
          /\ sent'[Len(sent) + 1] = line
      BY <1>2, <1>3 DEF Naming
    <3>10. \/ Naming(i)' = {} /\ now.name = Missing
           \/ \E l \in Naming(i)' : LastOf(l, Naming(i)') /\ now.name = sent'[l].name
      <4>1. CASE line.slot = i /\ line.name # Missing
        <5>1. Naming(i)' = Naming(i) \cup {Len(sent) + 1} /\ now.name = line.name
          BY <3>3, <3>5, <4>1
        <5>2. \A m \in Naming(i)' : m <= Len(sent) + 1
          BY <1>3, <3>9, <5>1
        <5>3. LastOf(Len(sent) + 1, Naming(i)')
          BY <5>1, <5>2 DEF LastOf
        <5> QED BY <3>9, <5>1, <5>3
      <4>2. CASE ~(line.slot = i /\ line.name # Missing)
        <5>1. Naming(i)' = Naming(i) /\ now.name = old.name
          BY <3>3, <3>5, <4>2
        <5>2. \/ Naming(i) = {} /\ old.name = Missing
              \/ \E l \in Naming(i) : LastOf(l, Naming(i)) /\ old.name = sent[l].name
          BY <3>1, <3>2 DEF SlotInv
        <5> QED BY <3>9, <5>1, <5>2
      <4> QED BY <4>1, <4>2
    <3>11. model' = model
      BY <1>2
    <3> QED BY <3>4, <3>8, <3>10, <3>11 DEF SlotInv
  <2> QED BY <1>2, <2>5, <2>6 DEF PartsAreSent
<1>12. DeltasInv'
  <2>0. PICK c \in Seq(DeltaPieces) : c = parts.content
    BY <1>8
  <2>1. CASE entry # "chat"
    BY <1>2, <2>1 DEF DeltasInv
  <2>2. CASE entry = "chat" /\ ~line.text
    BY <1>1, <1>2, <1>7, <2>2 DEF DeltasInv
  <2>3. CASE entry = "chat" /\ line.text
    <3>0. /\ Len(c) \in Nat /\ Len(Append(c, piece)) = Len(c) + 1 /\ Append(c, piece)[Len(c) + 1] = piece
          /\ \A k \in 1..Len(c) : Append(c, piece)[k] = c[k]
      BY <1>4
    <3>1. PICK d \in Seq(DeltaPieces) : d = deltas
      BY <1>3
    <3>2. /\ Len(d) \in Nat /\ Len(Append(d, piece)) = Len(d) + 1 /\ Append(d, piece)[Len(d) + 1] = piece
          /\ \A k \in 1..Len(d) : Append(d, piece)[k] = d[k]
      BY <1>4, <3>1
    <3>3. /\ Len(c) <= Len(d)
          /\ \A k \in 1..Len(c) : d[Len(d) - Len(c) + k] = c[k]
          /\ \A k \in 1..(Len(d) - Len(c)) : d[k][1] < model
      BY <1>1, <2>0, <2>3, <3>1 DEF DeltasInv
    <3>4. deltas' = Append(d, piece) /\ parts'.content = Append(c, piece)
      BY <1>2, <1>7, <2>0, <2>3, <3>1
    <3>5. Len(deltas') = Len(d) + 1 /\ Len(parts'.content) = Len(c) + 1
          /\ Len(deltas') - Len(parts'.content) = Len(d) - Len(c)
          /\ Len(parts'.content) <= Len(deltas')
      BY <3>0, <3>2, <3>3, <3>4
    <3>6. ASSUME NEW k \in 1..Len(parts'.content)
          PROVE  deltas'[Len(deltas') - Len(parts'.content) + k] = parts'.content[k]
      <4>1. CASE k = Len(c) + 1
        <5>1. Len(d) - Len(c) + k = Len(d) + 1
          BY <3>0, <3>2, <4>1
        <5> QED BY <3>0, <3>2, <3>4, <3>5, <4>1, <5>1
      <4>2. CASE k \in 1..Len(c)
        <5>1. Len(d) - Len(c) + k \in 1..Len(d)
          BY <3>0, <3>2, <3>3, <4>2
        <5>2. deltas'[Len(d) - Len(c) + k] = d[Len(d) - Len(c) + k]
          BY <3>2, <3>4, <5>1
        <5>3. parts'.content[k] = c[k]
          BY <3>0, <3>4, <4>2
        <5> QED BY <3>3, <3>5, <4>2, <5>2, <5>3
      <4> QED BY <3>0, <3>5, <4>1, <4>2
    <3>7. ASSUME NEW k \in 1..(Len(deltas') - Len(parts'.content))
          PROVE  deltas'[k][1] < model'
      <4>1. k \in 1..(Len(d) - Len(c)) /\ k \in 1..Len(d)
        BY <3>0, <3>2, <3>3, <3>5
      <4> QED BY <1>2, <3>2, <3>3, <3>4, <4>1
    <3> QED BY <3>5, <3>6, <3>7 DEF DeltasInv
  <2> QED BY <1>3, <2>1, <2>2, <2>3
<1> QED BY <1>2, <1>5, <1>9, <1>10, <1>11, <1>12, ReadKeeps

\* Every step keeps it.
LEMMA ProviderSteps ==
  ASSUME ProviderInv, [ProviderNext]_providerVars
  PROVE  ProviderInv'
<1>1. ProviderTypes /\ PartsAreSent /\ DeltasInv /\ WireInv /\ FallsBackRightly
  BY DEF ProviderInv
<1>2. CASE \E reason \in Retryable \cup Fatal : Fails(reason)
  BY <1>2, FailKeeps
<1>3. CASE EmitHead \/ EmitChunk \/ EmitFallback
  BY <1>3, EmitKeeps
<1>4. CASE SendFails \/ FirstLineFails \/ ReadFails
  <2>1. \E reason \in Retryable \cup Fatal : Fails(reason)
    BY <1>4 DEF SendFails, FirstLineFails, ReadFails, Retryable, Fatal
  <2> QED BY <2>1, <1>2
<1>5. ASSUME UNCHANGED <<entry, model, wire, candidates, parts, deltas, why>>,
             sent' = sent, stance' \in Stances \ {"raised"},
             stance' = stance \/ (Len(wire) = Len(Request) /\ \A n \in 1..Len(wire) : Whole(n)),
             stance # "raised"
      PROVE  ProviderInv'
  <2>1. ProviderTypes'
    BY <1>1, <1>5 DEF ProviderTypes
  <2>2. PartsAreSent' /\ DeltasInv'
    BY <1>1, <1>5, SentSame DEF DeltasInv
  <2>3. WireInv'
    BY <1>1, <1>5 DEF WireInv, Whole
  <2>4. FallsBackRightly'
    BY <1>1, <1>5 DEF FallsBackRightly
  <2> QED BY <2>1, <2>2, <2>3, <2>4 DEF ProviderInv
<1>7. CASE BodySent
  BY <1>5, <1>7 DEF BodySent, Message, Stances
<1>8. CASE Status
  <2>1. CASE stance' = "first" /\ UNCHANGED <<entry, model, wire, candidates, parts, deltas, sent, why>>
    <3>1. Len(wire) = Len(Request) /\ \A n \in 1..Len(wire) : Whole(n)
      BY <1>1, <1>8 DEF WireInv, Status
    <3> QED BY <1>5, <1>8, <2>1, <3>1 DEF Status, Stances
  <2>2. CASE \E reason \in {"status", "refused", "context", "not_sse", "timeout", "broken"} : Fails(reason)
    <3>1. \E reason \in Retryable \cup Fatal : Fails(reason)
      BY <2>2 DEF Retryable, Fatal
    <3> QED BY <3>1, <1>2
  <2> QED BY <1>8, <2>1, <2>2 DEF Status
<1>9. CASE \E line \in ServerLines : Reads(line)
  BY <1>9, LineKeeps
<1>12. CASE Done
  <2>1. /\ stance \in {"first", "reading"} /\ stance' = "answer"
        /\ UNCHANGED <<entry, model, wire, candidates, parts, deltas, sent, why>>
    BY <1>12 DEF Done, Answers
  <2>2. Len(wire) = Len(Request) /\ \A n \in 1..Len(wire) : Whole(n)
    BY <1>1, <2>1 DEF WireInv
  <2> QED BY <1>5, <2>1, <2>2 DEF Stances
<1>13. CASE UNCHANGED providerVars
  BY <1>1, <1>13, SentSame DEF ProviderInv, ProviderTypes, DeltasInv, WireInv, Whole,
     FallsBackRightly, providerVars
<1> QED BY <1>3, <1>4, <1>7, <1>8, <1>9, <1>12, <1>13 DEF ProviderNext

\* The invariant gives the properties.
LEMMA ProviderImplies ==
  ASSUME ProviderInv
  PROVE  ProviderTypeOK /\ ProviderRight
<1>1. ProviderTypes /\ PartsAreSent /\ DeltasInv /\ WireInv /\ FallsBackRightly
  BY DEF ProviderInv
<1>2. ProviderTypeOK
  <2>1. \A n \in 1..Len(wire) : wire[n] \in RequestStates
    BY <1>1 DEF ProviderTypes
  <2>2. \A n \in 1..Len(wire) : wire[n].file \in 0..FileChunks
    BY <2>1 DEF RequestStates
  <2> QED BY <1>1, <2>2 DEF ProviderTypes, ProviderTypeOK, Stances
<1>3. AnswerIsOneModels
  <2> SUFFICES ASSUME stance = "answer" PROVE AnswerIsOneModels
    BY DEF AnswerIsOneModels
  <2>1. TakenFrom(model, parts.content, TextLines) /\ \A i \in Slots : SlotInv(i)
    BY <1>1 DEF PartsAreSent
  <2>2. \A i \in Slots : \A l, m \in Naming(i) :
          LastOf(l, Naming(i)) /\ LastOf(m, Naming(i)) => l = m
    BY DEF LastOf, Naming
  <2>3. \A i \in Slots : \A l \in Naming(i) : sent[l].name # Missing
    BY DEF Naming
  <2>4. ASSUME NEW i \in Slots
        PROVE  i \in DOMAIN ToolCalls <=> \E l \in Naming(i) : LastOf(l, Naming(i)) /\ sent[l].name # ""
    <3>1. i \in DOMAIN ToolCalls <=> parts.calls[i].name \notin {Missing, ""}
      BY DEF ToolCalls
    <3>2. \/ Naming(i) = {} /\ parts.calls[i].name = Missing
          \/ \E l \in Naming(i) : LastOf(l, Naming(i)) /\ parts.calls[i].name = sent[l].name
      BY <2>1 DEF SlotInv
    <3> QED BY <2>2, <2>3, <3>1, <3>2
  <2>5. ASSUME NEW i \in DOMAIN ToolCalls
        PROVE  /\ \A l \in Naming(i) : LastOf(l, Naming(i)) => ToolCalls[i].name = sent[l].name
               /\ IF \E l \in Arguing(i) : sent[l].args = "other" THEN ToolCalls[i].args = <<>>
                  ELSE TakenFrom(model, ToolCalls[i].args, Arguing(i))
    <3>1. /\ i \in Slots /\ ToolCalls[i].name = parts.calls[i].name
          /\ ToolCalls[i].args = IF IsObject(parts.calls[i].args) THEN parts.calls[i].args ELSE <<>>
      BY DEF ToolCalls
    <3>2. /\ TakenFrom(model, parts.calls[i].args, Arguing(i))
          /\ \/ Naming(i) = {} /\ parts.calls[i].name = Missing
             \/ \E l \in Naming(i) : LastOf(l, Naming(i)) /\ parts.calls[i].name = sent[l].name
      BY <2>1, <3>1 DEF SlotInv
    <3>3. \A l \in Naming(i) : LastOf(l, Naming(i)) => ToolCalls[i].name = sent[l].name
      BY <2>2, <3>1, <3>2
    <3>4. IsObject(parts.calls[i].args) <=> ~\E l \in Arguing(i) : sent[l].args = "other"
      <4>1. PICK args : args = parts.calls[i].args
        OBVIOUS
      <4>2. {args[k] : k \in 1..Len(args)} = {<<model, l>> : l \in Arguing(i)}
        BY <3>2, <4>1 DEF TakenFrom
      <4>3. \A k \in 1..Len(args) : \E l \in Arguing(i) : args[k] = <<model, l>>
        BY <4>2
      <4>4. \A l \in Arguing(i) : \E k \in 1..Len(args) : args[k] = <<model, l>>
        BY <4>2
      <4>5. \A k \in 1..Len(args) : args[k][2] \in Arguing(i)
        BY <4>3
      <4>6. \A l \in Arguing(i) : \E k \in 1..Len(args) : args[k][2] = l
        BY <4>4
      <4> QED BY <4>1, <4>5, <4>6 DEF IsObject
    <3> QED BY <3>1, <3>2, <3>3, <3>4
  <2> QED BY <2>1, <2>4, <2>5 DEF AnswerIsOneModels
<1>4. DeltasEndInAnswer
  <2> SUFFICES ASSUME stance = "answer", entry = "chat"
               PROVE  /\ IsSuffix(parts.content, deltas)
                      /\ \A k \in 1..(Len(deltas) - Len(parts.content)) : deltas[k][1] < model
    BY DEF DeltasEndInAnswer
  <2>1. PICK c \in Seq(DeltaPieces) : c = parts.content
    BY <1>1, KeptParts DEF ProviderTypes
  <2>2. PICK d \in Seq(DeltaPieces) : d = deltas
    BY <1>1 DEF ProviderTypes
  <2>3. /\ Len(c) <= Len(d) /\ Len(c) \in Nat /\ Len(d) \in Nat
        /\ \A k \in 1..Len(c) : d[Len(d) - Len(c) + k] = c[k]
    <3>1. Len(c) \in Nat /\ Len(d) \in Nat
      OBVIOUS
    <3> QED BY <1>1, <2>1, <2>2, <3>1 DEF DeltasInv
  <2>4. /\ Reverse(c) = [j \in 1..Len(c) |-> c[Len(c) - j + 1]]
        /\ Reverse(d) = [j \in 1..Len(d) |-> d[Len(d) - j + 1]]
    BY DEF Reverse
  <2>5. Len(Reverse(c)) = Len(c) /\ Len(Reverse(d)) = Len(d)
    BY <2>3, <2>4
  <2>6. ASSUME NEW j \in 1..Len(c) PROVE Reverse(c)[j] = Reverse(d)[j]
    <3>1. Len(c) - j + 1 \in 1..Len(c) /\ j \in 1..Len(d)
          /\ Len(d) - Len(c) + (Len(c) - j + 1) = Len(d) - j + 1
      BY <2>3
    <3>2. d[Len(d) - Len(c) + (Len(c) - j + 1)] = c[Len(c) - j + 1]
      BY <2>3, <3>1
    <3> QED BY <2>4, <3>1, <3>2
  <2>7. SubSeq(Reverse(c), 1, Len(Reverse(c))) = SubSeq(Reverse(d), 1, Len(Reverse(c)))
    BY <2>3, <2>5, <2>6
  <2>8. IsSuffix(c, d)
    BY <2>3, <2>5, <2>7 DEF IsSuffix, IsPrefix
  <2> QED BY <1>1, <2>1, <2>2, <2>8 DEF DeltasInv
<1>5. BodyIsWhole
  <2> SUFFICES ASSUME stance \notin {"sending", "raised"} PROVE BodyIsWhole
    BY DEF BodyIsWhole
  <2>1. Len(wire) = Len(Request) /\ \A n \in 1..Len(wire) : Whole(n)
    BY <1>1 DEF WireInv
  <2>2. ASSUME NEW n \in 1..Len(wire), Request[n] # "inline", ~wire[n].failed
        PROVE  wire[n].file = FileChunks
    <3>1. wire[n].ended
      BY <2>1, <2>2 DEF Whole
    <3> QED BY <1>1, <2>2, <3>1 DEF WireInv
  <2>3. \A n \in 1..Len(wire) : Request[n] = "file" => (wire[n].preview <=> wire[n].failed)
    BY <1>1 DEF WireInv
  <2> QED BY <2>1, <2>2, <2>3 DEF BodyIsWhole
<1> QED BY <1>1, <1>2, <1>3, <1>4, <1>5 DEF ProviderRight

\* The chain is walked on retryable errors alone, an answer is what its own model sent
\* and the end of what the listener heard, and the body goes out whole, for all chains,
\* lines and messages.
THEOREM ProviderHolds == ProviderInit /\ [][ProviderNext]_providerVars => [](ProviderTypeOK /\ ProviderRight)
<1>1. ProviderInit => ProviderInv
  BY ProviderStarts
<1>2. ProviderInv /\ [ProviderNext]_providerVars => ProviderInv'
  BY ProviderSteps
<1>3. ProviderInv => ProviderTypeOK /\ ProviderRight
  BY ProviderImplies
<1> QED BY <1>1, <1>2, <1>3, PTL

-----------------------------------------------------------------------------
(* The LiteLLM provider                                                      *)

\* Every content there is, and what becomes of a message on its way to the service.
AnyBodies == [form : {"str", "list", "dict", "null", "missing"}, items : Seq(ContentItems)]
AnyMessages ==
  [role : ChatRoles, content : AnyBodies, calls : Seq(ChatIds), answers : ChatIds \cup {<<>>}]
Clean(m, anthropic) == LET n == Mapped(Keyed(Filled(m))) IN IF anthropic THEN Stamped(n) ELSE n

\* The items with text have text, and they are all only if no item is hollow.
LEMMA WordedItems ==
  ASSUME NEW worded \in Seq(ContentItems)
  PROVE  /\ Worded(worded) \in Seq({"full"})
         /\ ~(Len(Worded(worded)) < Len(worded)) => "hollow" \notin ToSet(worded)
<1> DEFINE pieces == [k \in DOMAIN worded |-> IF worded[k] = "hollow" THEN <<>> ELSE <<worded[k]>>]
<1>0. Len(worded) \in Nat /\ DOMAIN worded = 1..Len(worded)
      /\ \A k \in 1..Len(worded) : worded[k] \in ContentItems
  OBVIOUS
<1>1. \A k \in 1..Len(worded) : pieces[k] = IF worded[k] = "hollow" THEN <<>> ELSE <<"full">>
  BY <1>0 DEF ContentItems
<1>2. pieces \in Seq(Seq({"full"})) /\ Len(pieces) = Len(worded)
  <2>1. \A k \in 1..Len(worded) : (IF worded[k] = "hollow" THEN <<>> ELSE <<worded[k]>>) \in Seq({"full"})
    <3> SUFFICES ASSUME NEW k \in 1..Len(worded)
                 PROVE  (IF worded[k] = "hollow" THEN <<>> ELSE <<worded[k]>>) \in Seq({"full"})
      OBVIOUS
    <3>1. worded[k] # "hollow" => worded[k] = "full"
      BY <1>0 DEF ContentItems
    <3>2. <<"full">> \in Seq({"full"}) /\ <<>> \in Seq({"full"})
      OBVIOUS
    <3> QED BY <3>1, <3>2
  <2> QED BY <1>0, <2>1
<1>3. Worded(worded) = FlattenSeq(pieces)
  BY DEF Worded
<1> HIDE DEF pieces
<1>4. Worded(worded) \in Seq({"full"})
  BY <1>2, <1>3, FlattenType
<1>5. PICK f : Joins(pieces, {"full"}, f) /\ FlattenSeq(pieces) = f[Len(pieces)]
  BY <1>2, FlattenJoins
<1>6. f \in [0..Len(worded) -> Seq({"full"})] /\ f[0] = <<>>
      /\ \A k \in 1..Len(worded) : f[k] = f[k - 1] \o pieces[k]
  BY <1>2, <1>5 DEF Joins
<1> DEFINE T == {n \in 0..Len(worded) :
                   Len(f[n]) <= n /\ (Len(f[n]) = n => \A k \in 1..n : worded[k] # "hollow")}
<1>7. 0 \in T
  BY <1>0, <1>6
<1>8. ASSUME NEW n \in 0..Len(worded), n \in T, n + 1 \in 0..Len(worded) PROVE n + 1 \in T
  <2>1. n + 1 \in 1..Len(worded) /\ (n + 1) - 1 = n /\ n \in Nat
    BY <1>0, <1>8
  <2>2. PICK a \in Seq({"full"}) : a = f[n]
    BY <1>6
  <2>3. Len(a) <= n /\ Len(a) \in Nat /\ (Len(a) = n => \A k \in 1..n : worded[k] # "hollow")
    BY <1>8, <2>2
  <2>4. f[n + 1] = a \o pieces[n + 1]
    BY <1>6, <2>1, <2>2
  <2>5. CASE worded[n + 1] = "hollow"
    <3>1. pieces[n + 1] = <<>>
      BY <1>1, <2>1, <2>5
    <3>2. f[n + 1] = a
      BY <2>4, <3>1
    <3> QED BY <1>8, <2>1, <2>3, <3>2
  <2>6. CASE worded[n + 1] # "hollow"
    <3>1. pieces[n + 1] = <<"full">>
      BY <1>1, <2>1, <2>6
    <3>2. Len(f[n + 1]) = Len(a) + 1
      BY <2>4, <3>1
    <3>3. Len(f[n + 1]) = n + 1 => \A k \in 1..(n + 1) : worded[k] # "hollow"
      BY <2>1, <2>3, <2>6, <3>2
    <3> QED BY <1>8, <2>1, <2>3, <3>2, <3>3
  <2> QED BY <2>5, <2>6
<1> HIDE DEF T
<1>9. T \in SUBSET (0..Len(worded))
  BY DEF T
<1>10. Len(worded) \in T
  BY <1>0, <1>7, <1>8, <1>9, GoesOn
<1>11. Len(f[Len(worded)]) <= Len(worded)
       /\ (Len(f[Len(worded)]) = Len(worded) => \A k \in 1..Len(worded) : worded[k] # "hollow")
  BY <1>10 DEF T
<1>12. Worded(worded) = f[Len(worded)]
  BY <1>2, <1>3, <1>5
<1>13. ~(Len(Worded(worded)) < Len(worded)) => "hollow" \notin ToSet(worded)
  BY <1>0, <1>4, <1>11, <1>12 DEF ToSet
<1> QED BY <1>4, <1>13

\* Messages are cleaned one by one; all of them are of the kinds above.
LEMMA MessageKinds == ChatMessages \subseteq AnyMessages
<1>1. [1..1 -> ContentItems] \subseteq Seq(ContentItems)
  <2> SUFFICES ASSUME NEW f \in [1..1 -> ContentItems] PROVE f \in Seq(ContentItems)
    OBVIOUS
  <2>1. f = [i \in 1..1 |-> f[i]] /\ \A i \in 1..1 : f[i] \in ContentItems
    OBVIOUS
  <2>2. [i \in 1..1 |-> f[i]] \in Seq(ContentItems)
    BY <2>1
  <2> QED BY <2>1, <2>2
<1>2. Null \in AnyBodies /\ Body("missing", <<>>) \in AnyBodies
  BY DEF AnyBodies, Null, Body
<1>3. ContentBodies \subseteq AnyBodies
  BY <1>1, <1>2 DEF ContentBodies, AnyBodies
<1> QED BY <1>3 DEF ChatMessages, AnyMessages

\* Filled changes a content only, and leaves no hollow item but in a dict.
LEMMA FilledMessage ==
  ASSUME NEW m \in ChatMessages
  PROVE  /\ Filled(m) \in AnyMessages
         /\ Filled(m).role = m.role /\ Filled(m).calls = m.calls /\ Filled(m).answers = m.answers
         /\ m.content.form # "dict" => "hollow" \notin ToSet(Filled(m).content.items)
         /\ Filled(m).content = Null /\ m.content.form \in {"str", "list"} => m.calls # <<>>
<1>1. m \in AnyMessages /\ m.content \in ContentBodies
  BY MessageKinds DEF ChatMessages
<1>2. m.content \in AnyBodies /\ m.content.items \in Seq(ContentItems)
  BY <1>1 DEF AnyMessages, AnyBodies
<1> DEFINE full == Worded(m.content.items)
           less == Len(full) < Len(m.content.items)
           stand == IF m.role = "assistant" /\ m.calls # <<>> THEN Null ELSE Placeholder
           filling == IF full = <<>> THEN stand ELSE Body("list", full)
<1>3. full \in Seq({"full"}) /\ (~less => "hollow" \notin ToSet(m.content.items))
  BY <1>2, WordedItems
<1>4. Filled(m) = CASE m.content.form = "dict" -> [m EXCEPT !.content.form = "list"]
                    [] m.content.form \in {"str", "list"} /\ less -> [m EXCEPT !.content = filling]
                    [] OTHER -> m
  BY DEF Filled
<1>5. full \in Seq(ContentItems)
  <2>1. {"full"} \subseteq ContentItems
    BY DEF ContentItems
  <2> QED BY <1>3, <2>1, SeqMonotonic
<1>6. /\ filling \in AnyBodies
      /\ "hollow" \notin ToSet(filling.items)
      /\ filling = Null => m.role = "assistant" /\ m.calls # <<>>
  <2>1. Body("list", full) \in AnyBodies /\ Body("list", full) # Null
    BY <1>5 DEF AnyBodies, Body, Null
  <2>2. "hollow" \notin ToSet(full)
    BY <1>3 DEF ToSet
  <2>3. /\ Null \in AnyBodies /\ Placeholder \in AnyBodies /\ Null # Placeholder
        /\ "hollow" \notin ToSet(Null.items) /\ "hollow" \notin ToSet(Placeholder.items)
    BY DEF AnyBodies, Body, Null, Placeholder, ToSet, ContentItems
  <2> HIDE DEF full
  <2>4. Body("list", full).items = full
    BY DEF Body
  <2> QED BY <2>1, <2>2, <2>3, <2>4
<1> HIDE DEF full, less, filling
<1>7. CASE m.content.form = "dict"
  <2>1. Filled(m) = [m EXCEPT !.content = [m.content EXCEPT !.form = "list"]]
    BY <1>1, <1>4, <1>7 DEF AnyMessages
  <2>2. [m.content EXCEPT !.form = "list"] \in AnyBodies
    BY <1>2 DEF AnyBodies
  <2> QED BY <1>1, <1>7, <2>1, <2>2 DEF AnyMessages
<1>8. CASE m.content.form \in {"str", "list"} /\ less
  <2>1. Filled(m) = [m EXCEPT !.content = filling]
    BY <1>4, <1>8
  <2> QED BY <1>1, <1>6, <2>1 DEF AnyMessages
<1>9. CASE m.content.form # "dict" /\ ~(m.content.form \in {"str", "list"} /\ less)
  <2>1. Filled(m) = m
    BY <1>4, <1>9
  <2>2. m.content.form \in {"str", "list"} => m.content # Null
    BY DEF Null, Body
  <2>3. m.content.form \in {"str", "list", "null", "missing"}
    BY <1>2, <1>9 DEF AnyBodies
  <2>4. "hollow" \notin ToSet(m.content.items)
    <3>1. CASE m.content.form \in {"str", "list"}
      BY <1>3, <1>9, <3>1
    <3>2. CASE m.content.form \in {"null", "missing"}
      <4>1. m.content.items = <<>>
        BY <1>1, <3>2 DEF ContentBodies, Null, Body
      <4> QED BY <4>1 DEF ToSet
    <3> QED BY <2>3, <3>1, <3>2
  <2> QED BY <1>1, <2>1, <2>2, <2>4
<1> QED BY <1>7, <1>8, <1>9

\* What becomes of a message.
LEMMA CleanMessage ==
  ASSUME NEW m \in ChatMessages, NEW anthropic \in BOOLEAN
  PROVE  LET n == Clean(m, anthropic) IN
         /\ n.calls = NormalAll(m.calls)
         /\ n.answers = IF m.answers = <<>> THEN <<>> ELSE Normal(m.answers)
         /\ m.content.form # "dict" => "hollow" \notin ToSet(n.content.items)
         /\ n.role = "assistant" => n.content.form # "missing"
         /\ n.content = Null /\ m.content.form \in {"str", "list"} => n.calls # <<>>
<1> DEFINE f == Filled(m)
           g == Keyed(f)
           h == Mapped(g)
           n == Clean(m, anthropic)
<1>0. m \in AnyMessages
  BY MessageKinds
<1>1. /\ f \in AnyMessages /\ f.role = m.role /\ f.calls = m.calls /\ f.answers = m.answers
      /\ m.content.form # "dict" => "hollow" \notin ToSet(f.content.items)
      /\ f.content = Null /\ m.content.form \in {"str", "list"} => m.calls # <<>>
  BY FilledMessage
<1>2. n = IF anthropic THEN Stamped(h) ELSE h
  BY DEF Clean
<1>2a. f.content.form = "missing" => m.content.form \notin {"str", "list"}
  <2>1. m.content \in AnyBodies
    BY <1>0 DEF AnyMessages
  <2> SUFFICES ASSUME m.content.form \in {"str", "list"} PROVE f.content.form # "missing"
    OBVIOUS
  <2> QED BY <1>0, <2>1 DEF Filled, AnyMessages, Null, Placeholder, Body
<1> HIDE DEF f
<1>3. /\ g \in AnyMessages /\ g.role = f.role /\ g.calls = f.calls /\ g.answers = f.answers
      /\ g.content = f.content \/ (g.content = Null /\ f.content.form = "missing")
      /\ g.role = "assistant" => g.content.form # "missing"
  <2>1. Null \in AnyBodies /\ Null.form = "null"
    BY DEF AnyBodies, Null, Body
  <2> QED BY <1>1, <2>1 DEF Keyed, AnyMessages
<1> HIDE DEF g
<1>4. /\ h = [role |-> g.role, content |-> g.content, calls |-> NormalAll(g.calls),
               answers |-> IF g.answers = <<>> THEN <<>> ELSE Normal(g.answers)]
      /\ h.role = g.role /\ h.content = g.content /\ h.calls = NormalAll(g.calls)
      /\ h.answers = IF g.answers = <<>> THEN <<>> ELSE Normal(g.answers)
  <2> DEFINE a == IF g.answers = <<>> THEN g.answers ELSE Normal(g.answers)
             c == NormalAll(g.calls)
  <2>1. h = [g EXCEPT !.calls = c, !.answers = a]
    BY DEF Mapped
  <2>2. a = IF g.answers = <<>> THEN <<>> ELSE Normal(g.answers)
    OBVIOUS
  <2> HIDE DEF a, c, h
  <2>3. h = [role |-> g.role, content |-> g.content, calls |-> c, answers |-> a]
    BY <1>3, <2>1 DEF AnyMessages
  <2>4. h.role = g.role /\ h.content = g.content /\ h.calls = c /\ h.answers = a
    BY <2>3
  <2> QED BY <2>2, <2>3, <2>4 DEF c
<1> HIDE DEF h
<1>5. h.content \in AnyBodies
  BY <1>3, <1>4 DEF AnyMessages
<1>6. /\ n.role = h.role /\ n.calls = h.calls /\ n.answers = h.answers
      /\ n.content.items = h.content.items
      /\ n.content = h.content \/ n.content.form = "list"
  <2>1. CASE anthropic /\ h.role = "system" /\ h.content.form \in {"str", "list"}
    <3>1. n = [h EXCEPT !.content = [h.content EXCEPT !.form = "list"]]
      BY <1>2, <1>4, <2>1 DEF Stamped
    <3> QED BY <1>4, <1>5, <3>1 DEF AnyBodies
  <2>2. CASE ~(anthropic /\ h.role = "system" /\ h.content.form \in {"str", "list"})
    <3>1. n = h
      BY <1>2, <2>2 DEF Stamped
    <3> QED BY <3>1
  <2> QED BY <2>1, <2>2
<1> HIDE DEF n
<1>7. n.calls = NormalAll(m.calls)
  BY <1>1, <1>3, <1>4, <1>6
<1>8. n.answers = IF m.answers = <<>> THEN <<>> ELSE Normal(m.answers)
  BY <1>1, <1>3, <1>4, <1>6
<1>9. m.content.form # "dict" => "hollow" \notin ToSet(n.content.items)
  <2>1. ToSet(Null.items) = {}
    BY DEF Null, Body, ToSet
  <2> QED BY <1>1, <1>3, <1>4, <1>6, <2>1
<1>10. n.role = "assistant" => n.content.form # "missing"
  BY <1>3, <1>4, <1>6
<1>11. n.content = Null /\ m.content.form \in {"str", "list"} => n.calls # <<>>
  <2> SUFFICES ASSUME n.content = Null, m.content.form \in {"str", "list"} PROVE n.calls # <<>>
    OBVIOUS
  <2>1. Null.form # "list"
    BY DEF Null, Body
  <2>2. f.content = Null
    BY <1>2a, <1>3, <1>4, <1>6, <2>1
  <2>3. m.calls # <<>> /\ m.calls \in Seq(ChatIds)
    BY <1>0, <1>1, <2>2 DEF AnyMessages
  <2>4. 1 \in DOMAIN m.calls
    BY <2>3
  <2>5. 1 \in DOMAIN n.calls
    BY <1>7, <2>4 DEF NormalAll
  <2> QED BY <2>5
<1> QED BY <1>7, <1>8, <1>9, <1>10, <1>11 DEF n

\* Ids stay apart, and a result answers the calls it answered.
LEMMA NormalPairs ==
  ASSUME NEW ids \in Seq(ChatIds), NEW id \in ChatIds
  PROVE  /\ Normal(id) # <<>>
         /\ Normal(id) \in ToSet(NormalAll(ids)) <=> id \in ToSet(ids)
<1>1. \A a, b \in ChatIds : Normal(a) = Normal(b) => a = b
  BY DEF ChatIds, Normal
<1>2. Normal(id) # <<>>
  BY DEF ChatIds, Normal
<1>3. DOMAIN NormalAll(ids) = DOMAIN ids /\ \A k \in DOMAIN ids : NormalAll(ids)[k] = Normal(ids[k])
  BY DEF NormalAll
<1>4. \A k \in DOMAIN ids : ids[k] \in ChatIds
  OBVIOUS
<1>5. ToSet(ids) = {ids[k] : k \in DOMAIN ids}
  BY DEF ToSet
<1>6. ToSet(NormalAll(ids)) = {NormalAll(ids)[k] : k \in DOMAIN ids}
  BY <1>3 DEF ToSet
<1> QED BY <1>1, <1>2, <1>3, <1>4, <1>5, <1>6

\* What is sent for a history.
PairsUp(given, asSent) ==
  /\ \A i, j \in DOMAIN given :
        (given[j].answers # <<>> /\ asSent[j].answers \in ToSet(asSent[i].calls))
            <=> (given[j].answers # <<>> /\ given[j].answers \in ToSet(given[i].calls))
  /\ \A k \in DOMAIN asSent :
        /\ given[k].content.form # "dict" => "hollow" \notin ToSet(asSent[k].content.items)
        /\ asSent[k].role = "assistant" => asSent[k].content.form # "missing"
        /\ asSent[k].content = Null /\ given[k].content.form \in {"str", "list"}
              => asSent[k].calls # <<>>

\* Its messages, each cleaned, pair up as those of the history do.
LEMMA SanitizedPairsUp ==
  ASSUME NEW ms \in Seq(ChatMessages), NEW anthropic \in BOOLEAN
  PROVE  PairsUp(ms, Sanitized(ms, anthropic))
<1> DEFINE asSent == Sanitized(ms, anthropic)
<1>1. DOMAIN asSent = DOMAIN ms /\ \A k \in DOMAIN ms : asSent[k] = Clean(ms[k], anthropic)
  BY DEF Sanitized, Clean
<1> HIDE DEF asSent
<1>2. \A k \in DOMAIN ms : ms[k] \in ChatMessages
  OBVIOUS
<1>3. ASSUME NEW k \in DOMAIN ms
      PROVE  /\ asSent[k].calls = NormalAll(ms[k].calls)
             /\ asSent[k].answers = IF ms[k].answers = <<>> THEN <<>> ELSE Normal(ms[k].answers)
             /\ ms[k].content.form # "dict" => "hollow" \notin ToSet(asSent[k].content.items)
             /\ asSent[k].role = "assistant" => asSent[k].content.form # "missing"
             /\ asSent[k].content = Null /\ ms[k].content.form \in {"str", "list"}
                   => asSent[k].calls # <<>>
  <2>1. PICK m \in ChatMessages : m = ms[k]
    BY <1>2
  <2>2. asSent[k] = Clean(m, anthropic)
    BY <1>1, <2>1
  <2> QED BY <2>1, <2>2, CleanMessage
<1>4. ASSUME NEW i \in DOMAIN ms, NEW j \in DOMAIN ms, ms[j].answers # <<>>
      PROVE  asSent[j].answers \in ToSet(asSent[i].calls) <=> ms[j].answers \in ToSet(ms[i].calls)
  <2>1. PICK ids \in Seq(ChatIds), id \in ChatIds : ids = ms[i].calls /\ id = ms[j].answers
    BY <1>2, <1>4 DEF ChatMessages
  <2>2. asSent[j].answers = Normal(id) /\ asSent[i].calls = NormalAll(ids)
    BY <1>3, <1>4, <2>1
  <2> QED BY <2>1, <2>2, NormalPairs
<1> QED BY <1>1, <1>3, <1>4 DEF PairsUp, asSent

\* The answer read from a response.
AreJoined(r, a) ==
  /\ \E upTo \in [0..Len(r) -> 0..Len(a.calls)] :
        /\ upTo[0] = 0 /\ upTo[Len(r)] = Len(a.calls)
        /\ \A k \in 1..Len(r) : SubSeq(a.calls, upTo[k - 1] + 1, upTo[k]) = r[k].calls
  /\ (\E k \in DOMAIN r : r[k].calls # <<>> /\ r[k].finish = "tool_calls")
        => a.finish \in {"tool_calls", "stop"}
  /\ (\E k \in DOMAIN r : r[k].content # "") => a.content # ""

\* A set of places of a list has a first one and a last one.
LEMMA FirstAndLast ==
  ASSUME NEW L \in Nat, NEW S \in SUBSET (1..L), S # {}
  PROVE  /\ \E x \in S : \A y \in S : x <= y
         /\ \E x \in S : \A y \in S : y <= x
<1>1. S \in SUBSET Nat
  OBVIOUS
<1>2. \E x \in S : \A y \in S : x <= y
  BY <1>1, LeastNumber
<1> DEFINE R == {n \in Nat : \E x \in S : n = L - x}
<1>3. R \in SUBSET Nat /\ R # {}
  <2>1. PICK x \in S : TRUE
    OBVIOUS
  <2>2. L - x \in R
    BY <2>1
  <2> QED BY <2>2
<1>4. PICK n \in R : \A y \in R : n <= y
  BY <1>3, LeastNumber
<1>5. PICK x \in S : n = L - x
  BY <1>4
<1>6. \A y \in S : y <= x
  <2> SUFFICES ASSUME NEW y \in S PROVE y <= x
    OBVIOUS
  <2>1. L - y \in R
    OBVIOUS
  <2>2. n <= L - y
    BY <1>4, <2>1
  <2> QED BY <1>5, <2>2
<1> QED BY <1>2, <1>6

\* The calls of its choices are all in it, in their order; it ended by them.
LEMMA ParsedIsJoined ==
  ASSUME NEW r \in Seq(AnswerChoices), r # <<>>
  PROVE  AreJoined(r, Parsed(r))
<1> DEFINE a == Parsed(r)
           seqs == [k \in DOMAIN r |-> r[k].calls]
           called == {k \in DOMAIN r : r[k].calls # <<>> /\ r[k].finish \in {"tool_calls", "stop"}}
           worded == {k \in DOMAIN r : r[k].content # ""}
           last == CHOOSE k \in called : \A j \in called : j <= k
           first == CHOOSE k \in worded : \A j \in worded : k <= j
<1>1. /\ a.calls = FlattenSeq(seqs)
      /\ a.content = IF worded = {} THEN "" ELSE r[first].content
      /\ a.finish = IF called = {} THEN r[1].finish ELSE r[last].finish
  BY DEF Parsed
<1> HIDE DEF a
<1>2. Len(r) \in Nat /\ DOMAIN r = 1..Len(r) /\ \A k \in 1..Len(r) : r[k] \in AnswerChoices
  OBVIOUS
<1>3. /\ seqs \in Seq(Seq(STRING)) /\ Len(seqs) = Len(r)
      /\ \A k \in 1..Len(r) : seqs[k] = r[k].calls
  <2>1. \A k \in 1..Len(r) : r[k].calls \in Seq(STRING)
    BY <1>2 DEF AnswerChoices
  <2> QED BY <1>2, <2>1
<1> HIDE DEF seqs
<1>4. PICK f : Joins(seqs, STRING, f) /\ FlattenSeq(seqs) = f[Len(seqs)]
  BY <1>3, FlattenJoins
<1>5. /\ f \in [0..Len(r) -> Seq(STRING)] /\ f[0] = <<>>
      /\ a.calls = f[Len(r)]
      /\ \A k \in 0..Len(r) : Len(f[k]) <= Len(a.calls)
      /\ \A k \in 1..Len(r) : SubSeq(a.calls, Len(f[k - 1]) + 1, Len(f[k])) = r[k].calls
  <2>1. f \in [0..Len(r) -> Seq(STRING)] /\ f[0] = <<>>
    BY <1>3, <1>4 DEF Joins
  <2>2. /\ \A k \in 0..Len(seqs) : Len(f[k]) <= Len(f[Len(seqs)])
        /\ \A k \in 1..Len(seqs) :
              SubSeq(f[Len(seqs)], Len(f[k - 1]) + 1, Len(f[k])) = seqs[k]
    <3>1. seqs \in Seq(Seq(STRING)) /\ Joins(seqs, STRING, f)
      BY <1>3, <1>4
    <3> QED BY <3>1, JoinsLie
  <2>3. a.calls = f[Len(r)]
    BY <1>1, <1>3, <1>4
  <2> QED BY <1>3, <2>1, <2>2, <2>3
<1>6. \E upTo \in [0..Len(r) -> 0..Len(a.calls)] :
        /\ upTo[0] = 0 /\ upTo[Len(r)] = Len(a.calls)
        /\ \A k \in 1..Len(r) : SubSeq(a.calls, upTo[k - 1] + 1, upTo[k]) = r[k].calls
  <2> DEFINE upTo == [k \in 0..Len(r) |-> Len(f[k])]
  <2>0. a.calls \in Seq(STRING)
    BY <1>2, <1>5
  <2>1. \A k \in 0..Len(r) : Len(f[k]) \in 0..Len(a.calls)
    <3> SUFFICES ASSUME NEW k \in 0..Len(r) PROVE Len(f[k]) \in 0..Len(a.calls)
      OBVIOUS
    <3>1. f[k] \in Seq(STRING)
      BY <1>5
    <3>2. Len(f[k]) \in Nat /\ Len(a.calls) \in Nat
      BY <2>0, <3>1
    <3> QED BY <1>5, <3>2
  <2>2. upTo \in [0..Len(r) -> 0..Len(a.calls)]
    BY <2>1
  <2>3. upTo[0] = 0 /\ upTo[Len(r)] = Len(a.calls)
    BY <1>2, <1>5
  <2>4. \A k \in 1..Len(r) : upTo[k - 1] = Len(f[k - 1]) /\ upTo[k] = Len(f[k])
    BY <1>2
  <2> HIDE DEF upTo
  <2>5. \A k \in 1..Len(r) : SubSeq(a.calls, upTo[k - 1] + 1, upTo[k]) = r[k].calls
    BY <1>5, <2>4
  <2> QED BY <2>2, <2>3, <2>5
<1>7. ASSUME NEW k \in DOMAIN r, r[k].calls # <<>>, r[k].finish = "tool_calls"
      PROVE  a.finish \in {"tool_calls", "stop"}
  <2>1. k \in called
    BY <1>7
  <2>2. called \in SUBSET (1..Len(r)) /\ called # {}
    BY <1>2, <2>1
  <2> HIDE DEF called
  <2>3. last \in called
    BY <1>2, <2>2, FirstAndLast
  <2>4. a.finish = r[last].finish
    BY <1>1, <2>2
  <2> HIDE DEF last
  <2> QED BY <2>3, <2>4 DEF called
<1>8. ASSUME NEW k \in DOMAIN r, r[k].content # ""
      PROVE  a.content # ""
  <2>1. k \in worded
    BY <1>8
  <2>2. worded \in SUBSET (1..Len(r)) /\ worded # {}
    BY <1>2, <2>1
  <2> HIDE DEF worded
  <2>3. first \in worded
    BY <1>2, <2>2, FirstAndLast
  <2>4. a.content = r[first].content
    BY <1>1, <2>2
  <2> HIDE DEF first
  <2> QED BY <2>3, <2>4 DEF worded
<1> QED BY <1>6, <1>7, <1>8 DEF AreJoined, a

\* Every chat of every session: its request is that of a history with its own user,
\* its answer read from what was heard.
Calling == {"calling", "streaming"}
SentPairs == {[given |-> ms, sent |-> Sanitized(ms, anthropic)] : ms \in Prompts, anthropic \in BOOLEAN}
SentKinds == {<<>>} \cup {p.sent : p \in SentPairs}
AnswerKinds == {Nothing} \cup {Parsed(r) : r \in Responses}
ChatOutcomes == {"", "answer", "timeout", "error", "context", "cancelled"}
ChatKinds ==
  [at : {"idle", "waiting", "calling", "streaming", "done"}, model : Models \cup {""},
   prompt : Prompts \cup {<<>>}, sent : SentKinds,
   user : LLMSessions \cup {"pinned", ""},
   outcome : ChatOutcomes, answer : AnswerKinds, heard : Responses \cup {<<>>}]
ChatTrue(s, c) ==
  /\ (c.prompt = <<>> /\ c.sent = <<>>) \/ [given |-> c.prompt, sent |-> c.sent] \in SentPairs
  /\ c.at # "idle" => c.user = (IF c.model \in Pinned THEN "pinned" ELSE s) /\ c.model \in Models
  /\ c.outcome = "answer" => c.heard \in Responses /\ c.answer = Parsed(c.heard)

LLMInv ==
  /\ stream \in BOOLEAN
  /\ extraBody = [m \in Models |-> IF m \in Pinned THEN "pinned" ELSE ""]
  /\ freePermits \in [Limited -> Nat]
  /\ llmChat \in [LLMSessions -> ChatKinds]
  /\ \A s \in LLMSessions : ChatTrue(s, llmChat[s])
  /\ PermitsKept

\* A session without a chat has nothing to answer for.
LEMMA NoChatIsTrue == NoChat \in ChatKinds /\ \A s \in LLMSessions : ChatTrue(s, NoChat)
<1>1. NoChat \in ChatKinds
  BY DEF NoChat, Asking, ChatKinds, SentKinds, AnswerKinds, ChatOutcomes
<1>2. \A s \in LLMSessions : ChatTrue(s, NoChat)
  BY DEF NoChat, Asking, ChatTrue
<1> QED BY <1>1, <1>2

\* It holds at the start.
LEMMA LLMStarts == LLMInit => LLMInv
<1> SUFFICES ASSUME LLMInit PROVE LLMInv
  OBVIOUS
<1>1. stream \in BOOLEAN /\ ModelPermits \in Nat
  BY LLMAssumption DEF LLMInit
<1>2. extraBody = [m \in Models |-> IF m \in Pinned THEN "pinned" ELSE ""]
  BY DEF LLMInit
<1>3. freePermits = [m \in Limited |-> ModelPermits]
  BY DEF LLMInit
<1>4. \A s \in LLMSessions : llmChat[s] = NoChat
  BY DEF LLMInit
<1>5. llmChat \in [LLMSessions -> ChatKinds] /\ \A s \in LLMSessions : ChatTrue(s, llmChat[s])
  BY <1>4, NoChatIsTrue DEF LLMInit
<1>6. \A m \in Limited : Holding(m) = {}
  <2>1. \A s \in LLMSessions : llmChat[s].at = "idle"
    <3>1. NoChat.at = "idle"
      BY DEF NoChat, Asking
    <3> QED BY <1>4, <3>1
  <2> QED BY <2>1 DEF Holding
<1>7. PermitsKept
  <2> SUFFICES ASSUME NEW m \in Limited PROVE freePermits[m] + Cardinality(Holding(m)) = ModelPermits
    BY DEF PermitsKept
  <2>1. Cardinality(Holding(m)) = 0
    BY <1>6, FS_EmptySet
  <2>2. freePermits[m] = ModelPermits
    BY <1>3
  <2> QED BY <1>1, <2>1, <2>2
<1>8. freePermits \in [Limited -> Nat]
  BY <1>1, <1>3
<1> QED BY <1>1, <1>2, <1>5, <1>7, <1>8 DEF LLMInv

\* A session that is not under way before or after leaves the count of a model.
LEMMA HoldingSame ==
  ASSUME NEW s \in LLMSessions, NEW c, llmChat' = [llmChat EXCEPT ![s] = c],
         llmChat \in [LLMSessions -> ChatKinds], NEW m \in Limited,
         (llmChat[s].at \in Calling /\ llmChat[s].model = m) <=> (c.at \in Calling /\ c.model = m)
  PROVE  Holding(m)' = Holding(m)
<1>1. \A q \in LLMSessions : llmChat'[q] = IF q = s THEN c ELSE llmChat[q]
  OBVIOUS
<1>2. Holding(m)' = {q \in LLMSessions : llmChat'[q].model = m /\ llmChat'[q].at \in Calling}
  BY DEF Holding, Calling
<1>3. Holding(m) = {q \in LLMSessions : llmChat[q].model = m /\ llmChat[q].at \in Calling}
  BY DEF Holding, Calling
<1> QED BY <1>1, <1>2, <1>3

\* The sessions with a permit are finitely many.
LEMMA HoldingCounts ==
  ASSUME NEW m
  PROVE  IsFiniteSet(Holding(m)) /\ Cardinality(Holding(m)) \in Nat
<1>1. Holding(m) \subseteq LLMSessions
  BY DEF Holding
<1> QED BY <1>1, LLMAssumption, FS_Subset, FS_CardinalityType

\* A chat changes, the provider's other state does not; it does not come under way.
LEMMA ChatMoves ==
  ASSUME LLMInv, NEW s \in LLMSessions, NEW c \in ChatKinds, ChatTrue(s, c),
         llmChat' = [llmChat EXCEPT ![s] = c], UNCHANGED <<stream, extraBody, freePermits>>,
         c.at \in Calling <=> llmChat[s].at \in Calling,
         c.at \in Calling => c.model = llmChat[s].model
  PROVE  LLMInv'
<1>1. /\ llmChat \in [LLMSessions -> ChatKinds] /\ \A q \in LLMSessions : ChatTrue(q, llmChat[q])
      /\ PermitsKept
  BY DEF LLMInv
<1>2. llmChat' \in [LLMSessions -> ChatKinds]
  BY <1>1
<1>3. \A q \in LLMSessions : llmChat'[q] = IF q = s THEN c ELSE llmChat[q]
  BY <1>1
<1>4. \A q \in LLMSessions : ChatTrue(q, llmChat'[q])
  BY <1>1, <1>3
<1>5. \A m \in Limited : Holding(m)' = Holding(m)
  BY <1>1, HoldingSame
<1>6. PermitsKept'
  BY <1>1, <1>5 DEF PermitsKept
<1>7. (\A q \in LLMSessions : ChatTrue(q, llmChat[q]))'
  BY <1>4
<1>8. /\ stream' \in BOOLEAN /\ freePermits' \in [Limited -> Nat]
      /\ extraBody' = [m \in Models |-> IF m \in Pinned THEN "pinned" ELSE ""]
  BY DEF LLMInv
<1> QED BY <1>2, <1>6, <1>7, <1>8 DEF LLMInv

\* A chat comes under way with a permit of its model, or gives it back.
LEMMA PermitMoves ==
  ASSUME LLMInv, NEW s \in LLMSessions, NEW c \in ChatKinds, ChatTrue(s, c), NEW d \in {-1, 1},
         llmChat' = [llmChat EXCEPT ![s] = c], UNCHANGED <<stream, extraBody>>,
         c.model = llmChat[s].model, c.at \in Calling <=> d = -1,
         llmChat[s].at \in Calling <=> d = 1,
         freePermits' = [m \in Limited |->
                           IF m = llmChat[s].model THEN freePermits[m] + d ELSE freePermits[m]],
         \A m \in Limited : m = llmChat[s].model /\ d = -1 => freePermits[m] > 0
  PROVE  LLMInv'
<1>1. /\ llmChat \in [LLMSessions -> ChatKinds] /\ \A q \in LLMSessions : ChatTrue(q, llmChat[q])
      /\ PermitsKept /\ freePermits \in [Limited -> Nat]
  BY DEF LLMInv
<1>2. llmChat' \in [LLMSessions -> ChatKinds]
  BY <1>1
<1>3. \A q \in LLMSessions : llmChat'[q] = IF q = s THEN c ELSE llmChat[q]
  BY <1>1
<1>4. (\A q \in LLMSessions : ChatTrue(q, llmChat[q]))'
  BY <1>1, <1>3
<1>5. ASSUME NEW m \in Limited
      PROVE  freePermits'[m] + Cardinality(Holding(m)') = ModelPermits
  <2>1. freePermits[m] + Cardinality(Holding(m)) = ModelPermits /\ freePermits[m] \in Nat
    BY <1>1 DEF PermitsKept
  <2>2. IsFiniteSet(Holding(m)) /\ Cardinality(Holding(m)) \in Nat
    BY HoldingCounts
  <2>3. Holding(m)' = {q \in LLMSessions : llmChat'[q].model = m /\ llmChat'[q].at \in Calling}
    BY DEF Holding, Calling
  <2>4. Holding(m) = {q \in LLMSessions : llmChat[q].model = m /\ llmChat[q].at \in Calling}
    BY DEF Holding, Calling
  <2>5. CASE m # llmChat[s].model
    <3>1. Holding(m)' = Holding(m)
      BY <1>1, <2>5, HoldingSame
    <3>2. freePermits'[m] = freePermits[m]
      BY <2>5
    <3> QED BY <2>1, <3>1, <3>2
  <2>6. CASE m = llmChat[s].model /\ d = -1
    <3>1. Holding(m)' = Holding(m) \cup {s} /\ s \notin Holding(m)
      BY <1>3, <2>3, <2>4, <2>6
    <3>2. Cardinality(Holding(m)') = Cardinality(Holding(m)) + 1
      BY <2>2, <3>1, FS_AddElement
    <3>3. freePermits'[m] = freePermits[m] - 1
      BY <2>1, <2>6
    <3> QED BY <2>1, <2>2, <3>2, <3>3
  <2>7. CASE m = llmChat[s].model /\ d = 1
    <3>1. Holding(m)' = Holding(m) \ {s} /\ s \in Holding(m)
      BY <1>3, <2>3, <2>4, <2>7
    <3>2. Cardinality(Holding(m)') = Cardinality(Holding(m)) - 1
      BY <2>2, <3>1, FS_RemoveElement
    <3>3. freePermits'[m] = freePermits[m] + 1
      BY <2>7
    <3> QED BY <2>1, <2>2, <3>2, <3>3
  <2> QED BY <2>5, <2>6, <2>7
<1>6. PermitsKept'
  BY <1>5 DEF PermitsKept
<1>7. freePermits' \in [Limited -> Nat]
  BY <1>1
<1>8. stream' \in BOOLEAN /\ extraBody' = [m \in Models |-> IF m \in Pinned THEN "pinned" ELSE ""]
  BY DEF LLMInv
<1> QED BY <1>2, <1>4, <1>6, <1>7, <1>8 DEF LLMInv

\* It is kept: by the request, ...
LEMMA ComposeKeeps == ASSUME LLMInv, NEW s \in LLMSessions, Compose(s) PROVE LLMInv'
<1>1. PICK m \in Models, ms \in Prompts, anthropic \in BOOLEAN :
          llmChat' = [llmChat EXCEPT ![s] =
            Asking(m, ms, Sanitized(ms, anthropic), IF extraBody[m] # "" THEN extraBody[m] ELSE s)]
  BY DEF Compose
<1>2. PICK asSent : asSent = Sanitized(ms, anthropic)
  OBVIOUS
<1>3. PICK user : user = IF extraBody[m] # "" THEN extraBody[m] ELSE s
  OBVIOUS
<1>4. user = (IF m \in Pinned THEN "pinned" ELSE s)
  BY <1>3 DEF LLMInv
<1> DEFINE c == Asking(m, ms, asSent, user)
<1>5. [given |-> ms, sent |-> asSent] \in SentPairs
  BY <1>2 DEF SentPairs
<1>6. asSent \in SentKinds
  BY <1>5 DEF SentKinds
<1>7. llmChat' = [llmChat EXCEPT ![s] = c]
  BY <1>1, <1>2, <1>3
<1>8. /\ c \in ChatKinds /\ c.at = "waiting" /\ c.model = m /\ c.prompt = ms /\ c.sent = asSent
      /\ c.user = user /\ c.outcome = ""
  BY <1>4, <1>6 DEF ChatKinds, AnswerKinds, ChatOutcomes, Asking
<1> HIDE DEF c
<1>9. ChatTrue(s, c)
  BY <1>4, <1>5, <1>8 DEF ChatTrue
<1>10. llmChat[s].at \notin Calling /\ c.at \notin Calling
  BY <1>8 DEF Compose, Calling
<1>11. UNCHANGED <<stream, extraBody, freePermits>>
  BY DEF Compose
<1> QED BY <1>7, <1>8, <1>9, <1>10, <1>11, ChatMoves

\* ... by the permit it takes, ...
LEMMA AcquireKeeps == ASSUME LLMInv, NEW s \in LLMSessions, Acquire(s) PROVE LLMInv'
<1>1. PICK c : c = [llmChat[s] EXCEPT !.at = "calling"]
  OBVIOUS
<1>2. llmChat[s] \in ChatKinds /\ ChatTrue(s, llmChat[s]) /\ llmChat \in [LLMSessions -> ChatKinds]
  BY DEF LLMInv
<1>3. llmChat[s].at = "waiting" /\ llmChat' = [llmChat EXCEPT ![s].at = "calling"]
  BY DEF Acquire
<1>4. llmChat' = [llmChat EXCEPT ![s] = c]
  BY <1>1, <1>3
<1>5. /\ c \in ChatKinds /\ c.at = "calling" /\ c.model = llmChat[s].model
      /\ c.prompt = llmChat[s].prompt /\ c.sent = llmChat[s].sent /\ c.user = llmChat[s].user
      /\ c.outcome = llmChat[s].outcome /\ c.answer = llmChat[s].answer /\ c.heard = llmChat[s].heard
  BY <1>1, <1>2 DEF ChatKinds
<1>6. ChatTrue(s, c)
  BY <1>2, <1>3, <1>5 DEF ChatTrue
<1>7. PICK d \in {-1, 1} : d = -1
  OBVIOUS
<1>8. freePermits' = [m \in Limited |->
                        IF m = llmChat[s].model THEN freePermits[m] + d ELSE freePermits[m]]
  <2>1. \A m \in Limited : freePermits[m] - 1 = freePermits[m] + d
    BY <1>7 DEF LLMInv
  <2> QED BY <2>1 DEF Acquire
<1>9. UNCHANGED <<stream, extraBody>> /\ \A m \in Limited : m = llmChat[s].model => freePermits[m] > 0
  BY DEF Acquire
<1>10. (c.at \in Calling <=> d = -1) /\ (llmChat[s].at \in Calling <=> d = 1)
  BY <1>3, <1>5, <1>7 DEF Calling
<1> QED BY <1>4, <1>5, <1>6, <1>8, <1>9, <1>10, PermitMoves

\* ... by the end of the call, whatever it is, ...
LEMMA EndsKeeps ==
  ASSUME LLMInv, NEW s \in LLMSessions, llmChat[s].at \in Calling,
         NEW ended \in {"answer", "timeout", "error", "context", "cancelled"},
         NEW answer \in AnswerKinds,
         NEW reply \in Responses \cup {<<>>}, Ends(s, ended, answer, reply),
         ended = "answer" => reply \in Responses /\ answer = Parsed(reply)
  PROVE  LLMInv'
<1>1. PICK c : c = [llmChat[s] EXCEPT !.at = "done", !.outcome = ended,
                                      !.answer = answer, !.heard = reply]
  OBVIOUS
<1>2. llmChat[s] \in ChatKinds /\ ChatTrue(s, llmChat[s]) /\ llmChat \in [LLMSessions -> ChatKinds]
  BY DEF LLMInv
<1>3. llmChat' = [llmChat EXCEPT ![s].at = "done", ![s].outcome = ended,
                                 ![s].answer = answer, ![s].heard = reply]
  BY DEF Ends
<1>4. llmChat' = [llmChat EXCEPT ![s] = c]
  BY <1>1, <1>2, <1>3
<1>5. /\ c \in ChatKinds /\ c.at = "done" /\ c.model = llmChat[s].model
      /\ c.prompt = llmChat[s].prompt /\ c.sent = llmChat[s].sent /\ c.user = llmChat[s].user
      /\ c.outcome = ended /\ c.answer = answer /\ c.heard = reply
  BY <1>1, <1>2 DEF ChatKinds, ChatOutcomes
<1>6. ChatTrue(s, c)
  <2>1. llmChat[s].at # "idle"
    BY DEF Calling
  <2> QED BY <1>2, <1>5, <2>1 DEF ChatTrue
<1>7. PICK d \in {-1, 1} : d = 1
  OBVIOUS
<1>8. freePermits' = [m \in Limited |->
                        IF m = llmChat[s].model THEN freePermits[m] + d ELSE freePermits[m]]
  BY <1>7 DEF Ends, Release
<1>9. UNCHANGED <<stream, extraBody>> /\ d # -1
  BY <1>7 DEF Ends
<1>10. (c.at \in Calling <=> d = -1) /\ (llmChat[s].at \in Calling <=> d = 1)
  BY <1>5, <1>7 DEF Calling
<1> QED BY <1>4, <1>5, <1>6, <1>8, <1>9, <1>10, PermitMoves

\* ... and by what changes the place of a chat only, or what is known of it.
LEMMA PlaceKeeps ==
  ASSUME LLMInv, NEW s \in LLMSessions, UNCHANGED <<stream, extraBody, freePermits>>,
         \/ /\ llmChat[s].at = "calling" /\ llmChat' = [llmChat EXCEPT ![s].at = "streaming"]
         \/ /\ llmChat[s].at = "waiting"
            /\ llmChat' = [llmChat EXCEPT ![s].at = "done", ![s].outcome = "cancelled"]
  PROVE  LLMInv'
<1>1. llmChat[s] \in ChatKinds /\ ChatTrue(s, llmChat[s]) /\ llmChat \in [LLMSessions -> ChatKinds]
  BY DEF LLMInv
<1>2. CASE llmChat[s].at = "calling" /\ llmChat' = [llmChat EXCEPT ![s].at = "streaming"]
  <2>1. PICK c : c = [llmChat[s] EXCEPT !.at = "streaming"]
    OBVIOUS
  <2>2. llmChat' = [llmChat EXCEPT ![s] = c]
    BY <1>2, <2>1
  <2>3. /\ c \in ChatKinds /\ c.at = "streaming" /\ c.model = llmChat[s].model
        /\ c.prompt = llmChat[s].prompt /\ c.sent = llmChat[s].sent /\ c.user = llmChat[s].user
        /\ c.outcome = llmChat[s].outcome /\ c.answer = llmChat[s].answer
        /\ c.heard = llmChat[s].heard
    BY <1>1, <2>1 DEF ChatKinds, ChatOutcomes
  <2>4. ChatTrue(s, c)
    BY <1>1, <1>2, <2>3 DEF ChatTrue
  <2>5. c.at \in Calling /\ llmChat[s].at \in Calling
    BY <1>2, <2>3 DEF Calling
  <2> QED BY <2>2, <2>3, <2>4, <2>5, ChatMoves
<1>3. CASE /\ llmChat[s].at = "waiting"
           /\ llmChat' = [llmChat EXCEPT ![s].at = "done", ![s].outcome = "cancelled"]
  <2>1. PICK c : c = [llmChat[s] EXCEPT !.at = "done", !.outcome = "cancelled"]
    OBVIOUS
  <2>2. llmChat' = [llmChat EXCEPT ![s] = c]
    BY <1>1, <1>3, <2>1
  <2>3. /\ c \in ChatKinds /\ c.at = "done" /\ c.model = llmChat[s].model
        /\ c.prompt = llmChat[s].prompt /\ c.sent = llmChat[s].sent /\ c.user = llmChat[s].user
        /\ c.outcome = "cancelled" /\ c.answer = llmChat[s].answer
        /\ c.heard = llmChat[s].heard
    BY <1>1, <2>1 DEF ChatKinds, ChatOutcomes
  <2>4. ChatTrue(s, c)
    BY <1>1, <1>3, <2>3 DEF ChatTrue
  <2>5. c.at \notin Calling /\ llmChat[s].at \notin Calling
    BY <1>3, <2>3 DEF Calling
  <2> QED BY <2>2, <2>3, <2>4, <2>5, ChatMoves
<1> QED BY <1>2, <1>3

\* So by every step.
LEMMA LLMSteps == LLMInv /\ [LLMNext]_llmVars => LLMInv'
<1> SUFFICES ASSUME LLMInv, [LLMNext]_llmVars PROVE LLMInv'
  OBVIOUS
<1>1. CASE UNCHANGED llmVars
  <2>1. UNCHANGED <<stream, extraBody, freePermits, llmChat>>
    BY <1>1 DEF llmVars
  <2> QED BY <2>1 DEF LLMInv, PermitsKept, Holding
<1>2. CASE LLMNext
  <2>0. PICK s \in LLMSessions :
          \/ Compose(s) \/ Acquire(s) \/ Connected(s) \/ Delivered(s) \/ TimesOut(s)
          \/ Raises(s) \/ CancelChat(s) \/ NextCall(s)
    BY <1>2 DEF LLMNext
  <2>1. CASE Compose(s)
    BY <2>1, ComposeKeeps
  <2>2. CASE Acquire(s)
    BY <2>2, AcquireKeeps
  <2>3. CASE Connected(s)
    BY <2>3, PlaceKeeps DEF Connected
  <2>4. CASE Delivered(s)
    <3>1. PICK r \in Responses : Ends(s, "answer", Parsed(r), r)
      BY <2>4 DEF Delivered
    <3>2. llmChat[s].at \in Calling
      BY <2>4 DEF Delivered, Calling
    <3>3. Parsed(r) \in AnswerKinds
      BY DEF AnswerKinds
    <3> QED BY <3>1, <3>2, <3>3, EndsKeeps
  <2>5. CASE TimesOut(s)
    BY <2>5, EndsKeeps DEF TimesOut, Calling, AnswerKinds
  <2>6. CASE Raises(s)
    <3>1. PICK e \in {"error", "context"} : Ends(s, e, Nothing, <<>>)
      BY <2>6 DEF Raises
    <3>2. llmChat[s].at \in Calling
      BY <2>6 DEF Raises, Calling
    <3> QED BY <3>1, <3>2, EndsKeeps DEF AnswerKinds
  <2>7. CASE CancelChat(s)
    <3>1. CASE llmChat[s].at \in {"calling", "streaming"} /\ Ends(s, "cancelled", Nothing, <<>>)
      BY <3>1, EndsKeeps DEF Calling, AnswerKinds
    <3>2. CASE /\ llmChat[s].at = "waiting"
               /\ llmChat' = [llmChat EXCEPT ![s].at = "done", ![s].outcome = "cancelled"]
               /\ UNCHANGED <<stream, extraBody, freePermits, chatsMade>>
      BY <3>2, PlaceKeeps
    <3> QED BY <2>7, <3>1, <3>2 DEF CancelChat
  <2>8. CASE NextCall(s)
    <3>1. llmChat[s].at = "done" /\ llmChat' = [llmChat EXCEPT ![s] = NoChat]
          /\ UNCHANGED <<stream, extraBody, freePermits>>
      BY <2>8 DEF NextCall
    <3>2. NoChat.at \notin Calling /\ llmChat[s].at \notin Calling
      BY <3>1 DEF NoChat, Asking, Calling
    <3> QED BY <3>1, <3>2, NoChatIsTrue, ChatMoves
  <2> QED BY <2>0, <2>1, <2>2, <2>3, <2>4, <2>5, <2>6, <2>7, <2>8
<1> QED BY <1>1, <1>2

\* It implies what LiteLLMProvider promises.
LEMMA LLMImplies == LLMInv => LLMTypeOK /\ LLMRight
<1> SUFFICES ASSUME LLMInv PROVE LLMTypeOK /\ LLMRight
  OBVIOUS
<1>1. /\ stream \in BOOLEAN /\ freePermits \in [Limited -> Nat]
      /\ llmChat \in [LLMSessions -> ChatKinds] /\ \A s \in LLMSessions : ChatTrue(s, llmChat[s])
      /\ PermitsKept
  BY DEF LLMInv
<1>2. LLMTypeOK
  <2>1. \A s \in LLMSessions :
          llmChat[s].at \in {"idle", "waiting", "calling", "streaming", "done"}
    BY <1>1 DEF ChatKinds
  <2>2. ASSUME NEW m \in Limited PROVE freePermits[m] \in 0..ModelPermits
    <3>1. freePermits[m] + Cardinality(Holding(m)) = ModelPermits /\ freePermits[m] \in Nat
      BY <1>1 DEF PermitsKept
    <3>2. Cardinality(Holding(m)) \in Nat
      BY HoldingCounts
    <3>3. ModelPermits \in Nat
      BY LLMAssumption
    <3> QED BY <3>1, <3>2, <3>3
  <2>3. freePermits \in [Limited -> 0..ModelPermits]
    BY <1>1, <2>2
  <2> QED BY <1>1, <2>1, <2>3 DEF LLMTypeOK
<1>3. RequestPairsUp
  <2>1. ASSUME NEW s \in LLMSessions PROVE PairsUp(llmChat[s].prompt, llmChat[s].sent)
    <3>1. CASE llmChat[s].prompt = <<>> /\ llmChat[s].sent = <<>>
      BY <3>1 DEF PairsUp
    <3>2. CASE [given |-> llmChat[s].prompt, sent |-> llmChat[s].sent] \in SentPairs
      <4>1. PICK ms \in Prompts, anthropic \in BOOLEAN :
              [given |-> llmChat[s].prompt, sent |-> llmChat[s].sent]
                = [given |-> ms, sent |-> Sanitized(ms, anthropic)]
        BY <3>2 DEF SentPairs
      <4>2. llmChat[s].prompt = ms /\ llmChat[s].sent = Sanitized(ms, anthropic)
        BY <4>1
      <4>3. ms \in Seq(ChatMessages)
        BY LLMAssumption
      <4> QED BY <4>2, <4>3, SanitizedPairsUp
    <3> QED BY <1>1, <3>1, <3>2 DEF ChatTrue
  <2> QED BY <2>1 DEF RequestPairsUp, PairsUp
<1>4. UserIsOwn
  BY <1>1 DEF UserIsOwn, ChatTrue
<1>5. ChoicesAreJoined
  <2>1. ASSUME NEW s \in LLMSessions, llmChat[s].outcome = "answer"
        PROVE  AreJoined(llmChat[s].heard, llmChat[s].answer)
    <3>1. llmChat[s].heard \in Responses /\ llmChat[s].answer = Parsed(llmChat[s].heard)
      BY <1>1, <2>1 DEF ChatTrue
    <3>2. llmChat[s].heard \in Seq(AnswerChoices) /\ llmChat[s].heard # <<>>
      BY <3>1, LLMAssumption
    <3> QED BY <3>1, <3>2, ParsedIsJoined
  <2> QED BY <2>1 DEF ChoicesAreJoined, AreJoined
<1> QED BY <1>1, <1>2, <1>3, <1>4, <1>5 DEF LLMRight

\* Permits are kept, requests pair up and carry their own user, and the choices of a
\* response are joined, for all sessions, models, histories and responses.
THEOREM LLMHolds == LLMInit /\ [][LLMNext]_llmVars => [](LLMTypeOK /\ LLMRight)
<1> QED BY LLMStarts, LLMSteps, LLMImplies, PTL
=============================================================================
