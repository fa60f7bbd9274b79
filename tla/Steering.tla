------------------------------ MODULE Steering ------------------------------
(***************************************************************************)
(* exoclaw-executor-dbos: how the messages of one session reach a turn.    *)
(*                                                                         *)
(* enqueue_inbound starts a DBOS workflow (run_inbound_turn) for a message *)
(* that a channel delivers: through the chat's queue partition, one at a   *)
(* time, or directly when a turn of the session is active.  The workflow   *)
(* looks again: with a turn active it appends the message to the session's *)
(* mailbox file, else it dispatches a turn (run_durable_turn) as its child *)
(* workflow.  A turn registers itself as active, drains the mailbox at the *)
(* boundaries between model and tool calls, publishes one reply and        *)
(* unregisters.  The agent loop itself is external: what is assumed of it  *)
(* is that it drains after its last model call and goes on when that       *)
(* yields a message.                                                       *)
(*                                                                         *)
(* A step ends at an await.  The body of a DBOS step and its journal entry *)
(* are two steps; a crash keeps the database and the files.                *)
(***************************************************************************)
EXTENDS Integers, FiniteSets, Sequences, SequencesExt

CONSTANTS
  Deliveries,   \* deliveries of a message by the channel
  Original,     \* the first delivery of the same message
  MaxCrashes    \* bound on crashes

ASSUME ConstantsAssumption ==
  /\ IsFiniteSet(Deliveries)
  /\ Original \in [Deliveries -> Deliveries]
  /\ \A d \in Deliveries : Original[Original[d]] = Original[d]
  /\ MaxCrashes \in Nat

VARIABLES
  \* DBOS database
  inbound,    \* inbound[w]: status of the inbound workflow w
  route,      \* how it was started
  queue,      \* the partition: enqueued workflows in order of creation
  turn,       \* turn[w]: progress in the journal of the turn that w dispatched
  given,      \* given[w]: messages that its journaled drains returned
  \* <workspace>/steering/<session>.jsonl and .draining
  mailbox,
  draining,
  \* process memory
  call,       \* where each delivery's enqueue_inbound is
  body,       \* where the body of each inbound workflow is
  live,       \* turns whose workflow body is executing
  active,     \* _active_sessions.get(session, 0)
  drain,      \* where each turn's drain step is
  taken,      \* what that step has read
  sent,       \* turns whose publish step has sent, but is not journaled
  \* what an observer has seen
  arrivals,   \* all appends to the mailbox, in order
  late,       \* messages stored with no turn to drain them: appended after the
              \* last drain, or left in the mailbox by a turn that failed
  cut,        \* messages read by a drain that a crash kept from the journal
  crashes

database == <<inbound, route, queue, turn, given>>
mail == <<mailbox, draining>>
drains == <<drain, taken>>
history == <<arrivals, late, cut, crashes>>
vars == <<database, mail, call, body, live, active, drains, sent, history>>

Texts == {Original[d] : d \in Deliveries}

TypeOK ==
  /\ inbound \in [Deliveries -> {"none", "enqueued", "pending", "done", "failed"}]
  /\ route \in [Deliveries -> {"none", "queue", "direct"}]
  /\ queue \in Seq(Deliveries)
  /\ turn \in [Deliveries -> {"none", "working", "ending", "published", "done", "failed"}]
  /\ given \in [Deliveries -> Seq(Texts)]
  /\ mailbox \in Seq(Texts) /\ draining \in Seq(Texts)
  /\ call \in [Deliveries -> {"new", "steer", "enqueue", "accepted"}]
  /\ body \in [Deliveries -> {"off", "entered", "storing", "appended", "waiting"}]
  /\ live \subseteq {t \in Deliveries : turn[t] \in {"working", "ending", "published"}}
  /\ active \in Nat
  /\ drain \in [Deliveries -> {"idle", "renamed", "both", "second", "read"}]
  /\ taken \in [Deliveries -> Seq(Texts)]
  /\ sent \subseteq live
  /\ arrivals \in Seq(Texts)
  /\ late \subseteq Texts /\ cut \subseteq Texts
  /\ crashes \in 0..MaxCrashes

Init ==
  /\ inbound = [d \in Deliveries |-> "none"] /\ route = inbound /\ turn = inbound
  /\ queue = <<>> /\ mailbox = <<>> /\ draining = <<>> /\ arrivals = <<>>
  /\ given = [d \in Deliveries |-> <<>>] /\ taken = given
  /\ call = [d \in Deliveries |-> "new"]
  /\ body = [d \in Deliveries |-> "off"]
  /\ live = {} /\ active = 0 /\ sent = {}
  /\ drain = [d \in Deliveries |-> "idle"]
  /\ late = {} /\ cut = {} /\ crashes = 0

-----------------------------------------------------------------------------
(* enqueue_inbound *)

\* (Seeded bug: the id does not come from the channel's message id.)
WorkflowIdPerDelivery(d) == d

\* A channel's retry has the workflow id of the first delivery.
WorkflowId(d) == Original[d]

\* The registry is read under its lock.  (The channel delivers a message
\* again only after the first delivery.)
Receive(d) ==
  /\ call[d] = "new"
  /\ call[Original[d]] = "new" => d = Original[d]
  /\ call' = [call EXCEPT ![d] = IF active > 0 THEN "steer" ELSE "enqueue"]
  /\ UNCHANGED <<database, mail, body, live, active, drains, sent, history>>

\* The workflow is in the database: started right away...
StartDirectly(d) ==
  /\ call[d] = "steer"
  /\ LET w == WorkflowId(d)
     IN IF inbound[w] = "none"
        THEN /\ inbound' = [inbound EXCEPT ![w] = "pending"]
             /\ route' = [route EXCEPT ![w] = "direct"]
             /\ body' = [body EXCEPT ![w] = "entered"]
        ELSE UNCHANGED <<inbound, route, body>>
  /\ call' = [call EXCEPT ![d] = "accepted"]
  /\ UNCHANGED <<queue, turn, given, mail, live, active, drains, sent, history>>

\* ...or at the end of its partition.  An id that exists is not added again.
Enqueue(d) ==
  /\ call[d] = "enqueue"
  /\ LET w == WorkflowId(d)
     IN IF inbound[w] = "none"
        THEN /\ inbound' = [inbound EXCEPT ![w] = "enqueued"]
             /\ route' = [route EXCEPT ![w] = "queue"]
             /\ queue' = Append(queue, w)
        ELSE UNCHANGED <<inbound, route, queue>>
  /\ call' = [call EXCEPT ![d] = "accepted"]
  /\ UNCHANGED <<turn, given, mail, body, live, active, drains, sent, history>>

-----------------------------------------------------------------------------
(* run_inbound_turn *)

\* (Seeded bug: no limit to the concurrency of the partition.)
DequeueAny ==
  /\ queue # <<>>
  /\ inbound' = [inbound EXCEPT ![Head(queue)] = "pending"]
  /\ body' = [body EXCEPT ![Head(queue)] = "entered"]
  /\ queue' = Tail(queue)
  /\ UNCHANGED <<route, turn, given, mail, call, live, active, drains, sent, history>>

\* The queue has concurrency 1 for each partition.
Dequeue ==
  /\ queue # <<>>
  /\ \A w \in Deliveries : ~(route[w] = "queue" /\ inbound[w] = "pending")
  /\ inbound' = [inbound EXCEPT ![Head(queue)] = "pending"]
  /\ body' = [body EXCEPT ![Head(queue)] = "entered"]
  /\ queue' = Tail(queue)
  /\ UNCHANGED <<route, turn, given, mail, call, live, active, drains, sent, history>>

\* store_steering_if_active reads the registry and lets go of its lock.
StoreIfActive(w) ==
  /\ body[w] = "entered"
  /\ active > 0 /\ turn[w] = "none"
  /\ body' = [body EXCEPT ![w] = "storing"]
  /\ UNCHANGED <<database, mail, call, live, active, drains, sent, history>>

\* No turn is active: loop._dispatch runs one as a child workflow and awaits
\* it.  On a replay that child exists already.
Dispatch(w) ==
  /\ body[w] = "entered"
  /\ active = 0
  /\ turn' = [turn EXCEPT ![w] = IF @ = "none" THEN "working" ELSE @]
  /\ body' = [body EXCEPT ![w] = "waiting"]
  /\ UNCHANGED <<inbound, route, queue, given, mail, call, live, active, drains,
                 sent, history>>

\* A replay that finds a turn active (its own, recovered first) goes for the
\* append where the journal has the child: DBOS refuses and the workflow fails.
ReplayDiverges(w) ==
  /\ body[w] = "entered"
  /\ active > 0 /\ turn[w] # "none"
  /\ inbound' = [inbound EXCEPT ![w] = "failed"]
  /\ body' = [body EXCEPT ![w] = "off"]
  /\ UNCHANGED <<route, queue, turn, given, mail, call, live, active, drains,
                 sent, history>>

\* A drain holds _INBOX_LOCK from the rename to the last unlink.
InboxLocked == \E t \in Deliveries : drain[t] \in {"renamed", "both", "second"}

\* A drain of t that can still return what is appended now is to come.
WillDrain(t) == turn[t] = "working" /\ ~(drain[t] = "read" /\ taken[t] = <<>>)

\* Body of _append_steering_step.
AppendBody(w) ==
  /\ body[w] = "storing"
  /\ ~InboxLocked
  /\ mailbox' = Append(mailbox, Original[w])
  /\ arrivals' = Append(arrivals, Original[w])
  /\ late' = IF \E t \in Deliveries : WillDrain(t) THEN late
             ELSE late \cup {Original[w]}
  /\ body' = [body EXCEPT ![w] = "appended"]
  /\ UNCHANGED <<database, draining, call, live, active, drains, sent, cut, crashes>>

\* The append, or the child's end, is journaled and the workflow returns.
Return(w) ==
  /\ body[w] = "appended" \/ (body[w] = "waiting" /\ turn[w] \in {"done", "failed"})
  /\ inbound' = [inbound EXCEPT ![w] = "done"]
  /\ body' = [body EXCEPT ![w] = "off"]
  /\ UNCHANGED <<route, queue, turn, given, mail, call, live, active, drains,
                 sent, history>>

-----------------------------------------------------------------------------
(* run_durable_turn *)

\* (Seeded bug: registered by the caller of run_turn, which recovery skips.)
ActivateByCaller(t) ==
  /\ turn[t] \in {"working", "ending", "published"}
  /\ t \notin live
  /\ live' = live \cup {t}
  /\ active' = IF crashes = 0 THEN active + 1 ELSE active
  /\ UNCHANGED <<database, mail, call, body, drains, sent, history>>

\* The workflow body starts, for the first time or on recovery.
Activate(t) ==
  /\ turn[t] \in {"working", "ending", "published"}
  /\ t \notin live
  /\ live' = live \cup {t}
  /\ active' = active + 1
  /\ UNCHANGED <<database, mail, call, body, drains, sent, history>>

\* (Seeded bug: the live mailbox always replaces an interrupted drain's.)
DrainOpenReplacing(t) ==
  /\ t \in live /\ turn[t] = "working" /\ drain[t] = "idle"
  /\ ~InboxLocked
  /\ draining' = IF mailbox # <<>> THEN mailbox ELSE draining
  /\ mailbox' = <<>>
  /\ drain' = [drain EXCEPT ![t] = "renamed"]
  /\ UNCHANGED <<database, call, body, live, active, taken, sent, history>>

\* Body of _drain_steering_step: the mailbox becomes .draining, unless an
\* interrupted drain has left one...
DrainOpen(t) ==
  /\ t \in live /\ turn[t] = "working" /\ drain[t] = "idle"
  /\ ~InboxLocked
  /\ IF draining = <<>>
     THEN /\ draining' = mailbox
          /\ mailbox' = <<>>
          /\ drain' = [drain EXCEPT ![t] = "renamed"]
     ELSE /\ drain' = [drain EXCEPT ![t] = "both"]
          /\ UNCHANGED mail
  /\ UNCHANGED <<database, call, body, live, active, taken, sent, history>>

\* (Seeded bug: the newer mailbox is read before the interrupted drain's.)
DrainReadNewestFirst(t) ==
  /\ drain[t] \in {"renamed", "both"}
  /\ IF drain[t] = "both"
     THEN taken' = [taken EXCEPT ![t] = mailbox \o draining] /\ mailbox' = <<>>
     ELSE taken' = [taken EXCEPT ![t] = draining] /\ UNCHANGED mailbox
  /\ draining' = <<>>
  /\ drain' = [drain EXCEPT ![t] = "read"]
  /\ UNCHANGED <<database, call, body, live, active, sent, history>>

\* ...which is read and unlinked first, and the mailbox after it.
DrainRead(t) ==
  /\ \/ /\ drain[t] \in {"renamed", "both"}
        /\ taken' = [taken EXCEPT ![t] = draining]
        /\ draining' = <<>>
        /\ drain' = [drain EXCEPT ![t] = IF @ = "both" THEN "second" ELSE "read"]
        /\ UNCHANGED mailbox
     \/ /\ drain[t] = "second"
        /\ taken' = [taken EXCEPT ![t] = @ \o mailbox]
        /\ mailbox' = <<>>
        /\ drain' = [drain EXCEPT ![t] = "read"]
        /\ UNCHANGED draining
  /\ UNCHANGED <<database, call, body, live, active, sent, history>>

\* (Seeded bug: the turn ends although the last drain returned something.)
DrainCommitAndEnd(t) ==
  /\ drain[t] = "read"
  /\ turn' = [turn EXCEPT ![t] = "ending"]
  /\ UNCHANGED given
  /\ drain' = [drain EXCEPT ![t] = "idle"]
  /\ taken' = [taken EXCEPT ![t] = <<>>]
  /\ UNCHANGED <<inbound, route, queue, mail, call, body, live, active, sent, history>>

\* The step is journaled and the loop goes on with what it returned, or ends.
DrainCommit(t) ==
  /\ drain[t] = "read"
  /\ given' = [given EXCEPT ![t] = @ \o taken[t]]
  /\ turn' = [turn EXCEPT ![t] = IF taken[t] = <<>> THEN "ending" ELSE @]
  /\ drain' = [drain EXCEPT ![t] = "idle"]
  /\ taken' = [taken EXCEPT ![t] = <<>>]
  /\ UNCHANGED <<inbound, route, queue, mail, call, body, live, active, sent, history>>

\* Body of _publish_outbound_step.
PublishBody(t) ==
  /\ t \in live \ sent
  /\ turn[t] = "ending"
  /\ sent' = sent \cup {t}
  /\ UNCHANGED <<database, mail, call, body, live, active, drains, arrivals, late,
                 cut, crashes>>

PublishCommit(t) ==
  /\ t \in sent
  /\ sent' = sent \ {t}
  /\ turn' = [turn EXCEPT ![t] = "published"]
  /\ UNCHANGED <<inbound, route, queue, given, mail, call, body, live, active,
                 drains, history>>

\* (Seeded bug: the session's entry is dropped with other turns in it.)
FinishPops(t) ==
  /\ t \in live /\ turn[t] = "published"
  /\ turn' = [turn EXCEPT ![t] = "done"]
  /\ live' = live \ {t}
  /\ active' = 0
  /\ UNCHANGED <<inbound, route, queue, given, mail, call, body, drains, sent, history>>

\* deactivate_steering, and the turn's workflow returns.
Finish(t) ==
  /\ t \in live /\ turn[t] = "published"
  /\ turn' = [turn EXCEPT ![t] = "done"]
  /\ live' = live \ {t}
  /\ active' = active - 1
  /\ UNCHANGED <<inbound, route, queue, given, mail, call, body, drains, sent, history>>

\* A model call, a tool or the publication raises: the finally unregisters the
\* turn, its workflow ends in an error, and what is in the mailbox stays there.
Fail(t) ==
  /\ t \in live \ sent /\ drain[t] = "idle"
  /\ turn[t] \in {"working", "ending"}
  /\ turn' = [turn EXCEPT ![t] = "failed"]
  /\ live' = live \ {t}
  /\ active' = active - 1
  /\ late' = IF \E u \in Deliveries \ {t} : WillDrain(u) THEN late
             ELSE late \cup ToSet(draining \o mailbox)
  /\ UNCHANGED <<inbound, route, queue, given, mail, call, body, drains, sent,
                 arrivals, cut, crashes>>

-----------------------------------------------------------------------------
\* The process dies and comes back.  DBOS re-enters the pending workflows; one
\* that came from the queue goes back to the front of it.  A channel whose
\* enqueue_inbound had not returned delivers again.
Crash ==
  LET requeued == {w \in Deliveries : inbound[w] = "pending" /\ route[w] = "queue"}
      resumed == {w \in Deliveries : inbound[w] = "pending" /\ route[w] = "direct"}
  IN /\ crashes < MaxCrashes
     /\ crashes' = crashes + 1
     /\ inbound' = [w \in Deliveries |-> IF w \in requeued THEN "enqueued" ELSE inbound[w]]
     /\ queue' = SetToSeq(requeued) \o queue
     /\ body' = [w \in Deliveries |-> IF w \in resumed THEN "entered" ELSE "off"]
     /\ call' = [d \in Deliveries |-> IF call[d] = "accepted" THEN "accepted" ELSE "new"]
     /\ live' = {} /\ active' = 0 /\ sent' = {}
     /\ drain' = [t \in Deliveries |-> "idle"]
     /\ taken' = [t \in Deliveries |-> <<>>]
     /\ cut' = cut \cup UNION {ToSet(taken[t]) : t \in Deliveries}
     /\ UNCHANGED <<route, turn, given, mail, arrivals, late>>

Channel == \E d \in Deliveries : Receive(d)
CallStep(d) == StartDirectly(d) \/ Enqueue(d)
InboundStep(w) == StoreIfActive(w) \/ Dispatch(w) \/ ReplayDiverges(w)
                    \/ AppendBody(w) \/ Return(w)
TurnStep(t) == Activate(t) \/ DrainOpen(t) \/ DrainRead(t) \/ DrainCommit(t)
                 \/ PublishBody(t) \/ PublishCommit(t) \/ Finish(t)

Next ==
  \/ Channel \/ Dequeue \/ Crash
  \/ \E d \in Deliveries : CallStep(d) \/ InboundStep(d) \/ TurnStep(d) \/ Fail(d)

Spec == Init /\ [][Next]_vars

\* DBOS runs what is pending and serves its queue, and a turn comes to its end.
FairSpec ==
  /\ Spec
  /\ WF_vars(Dequeue)
  /\ \A d \in Deliveries : WF_vars(CallStep(d)) /\ WF_vars(InboundStep(d)) /\ WF_vars(TurnStep(d))

-----------------------------------------------------------------------------
(* Properties *)

\* The registry counts the turns that are executing, after crashes and with
\* turns that overlap: the routing of every message depends on it.
RegistryIsRight == active = Cardinality(live)

Copies(place, owner, s, m) == {<<place, owner, i>> : i \in {i \in DOMAIN s : s[i] = m}}

\* Places where the message m of a workflow that has come to its end can be.
Places(m) ==
  {<<"turn", t, 0>> : t \in {t \in Deliveries : turn[t] # "none" /\ Original[t] = m}}
    \cup (UNION {Copies("given", t, given[t], m) : t \in Deliveries})
    \cup (UNION {Copies("taken", t, taken[t], m) : t \in Deliveries})
    \cup Copies("mailbox", m, mailbox, m) \cup Copies("draining", m, draining, m)

\* An accepted message is in the mailbox or in a turn when its workflow has
\* come to its end, unless a crash cut short the drain that read it.
AcceptedIsKept ==
  \A w \in Deliveries :
     inbound[w] \in {"done", "failed"} => Places(Original[w]) # {} \/ Original[w] \in cut

\* README.md, channel retries "do not generate a duplicate response": a
\* message is in one place only, a retry included; each crash (which makes DBOS
\* run one workflow again) adds at most one.
OneMorePlacePerCrash == \A m \in Texts : Cardinality(Places(m)) <= 1 + crashes

\* steering.py, "preserving arrival order": every turn is given messages in
\* the order in which they were appended, across interrupted drains.
InArrivalOrder ==
  \A t \in Deliveries :
     LET s == given[t] \o taken[t]
     IN \E f \in [DOMAIN s -> DOMAIN arrivals] :
           /\ \A i \in DOMAIN s : s[i] = arrivals[f[i]]
           /\ \A i, j \in DOMAIN s : i < j => f[i] < f[j]

\* Turns overlap only when a directly started workflow came to dispatch one,
\* or when the replay of a turn's inbound workflow has failed, which frees the
\* partition while that turn goes on: else the queue keeps them apart.
OverlapOnlyIfDirect ==
  Cardinality(live) <= 1 \/ \E w \in Deliveries :
                              turn[w] # "none" /\ (route[w] = "direct" \/ inbound[w] = "failed")

\* Every accepted message gets into a turn, unless it was appended after the
\* last drain or its turn failed (late), or a crash cut short the drain that
\* read it.
EventuallyTaken ==
  \A w \in Deliveries :
     inbound[w] # "none" ~> \/ turn[w] # "none"
                            \/ Original[w] \in late \cup cut
                            \/ \E t \in Deliveries : Contains(given[t], Original[w])

\* executor.py on enqueue_inbound: the workflow re-checks whether the session
\* is active, "so a race with completion remains a valid next-turn path": what
\* is stored while turns end regularly has a turn that goes on to read it.
StoredIsRead ==
  mailbox \o draining # <<>> => \E t \in Deliveries : turn[t] \in {"working", "failed"}
=============================================================================
