------------------------------ MODULE Gateway ------------------------------
(***************************************************************************)
(* exoclaw-nanobot's application while it runs without a terminal          *)
(* (ExoclawNanobot.run): its channels and the dispatch of outbound         *)
(* messages to them, until the first channel ends or stop is called.       *)
(***************************************************************************)
EXTENDS Naturals, Sequences, FiniteSets, SequencesExt

CONSTANTS
  GateChannels,   \* extra_channels, in their order
  MaxOut          \* messages published

VARIABLES
  gate,        \* run: "new", "up", "stopping", "cancelled", "down"
  posts,       \* a channel's task
  halted,      \* how many channels were told to stop
  outbox,      \* the bus: outbound messages, numbered
  dispatch,    \* the dispatcher: off, waiting for a message, or sending one
  reached,     \* the messages a channel took
  unsent       \* the messages that went nowhere, whose send raised or was cut

gatewayVars == <<gate, posts, halted, outbox, dispatch, reached, unsent>>

InHand == IF dispatch.on = "sending" THEN {dispatch.msg.n} ELSE {}
Published == Len(outbox) + Cardinality(InHand) + Len(reached) + Cardinality(unsent)

-----------------------------------------------------------------------------
(* ExoclawNanobot *)

\* run, up to the wait.
RunApp ==
  /\ gate = "new" /\ gate' = "up"
  /\ posts' = [c \in ToSet(GateChannels) |-> "up"]
  /\ dispatch' = [on |-> "waiting"]
  /\ UNCHANGED <<halted, outbox, reached, unsent>>

\* A channel's start returns or raises.
ChannelEnds(c) ==
  /\ posts[c] = "up" /\ posts' = [posts EXCEPT ![c] = "ended"]
  /\ UNCHANGED <<gate, halted, outbox, dispatch, reached, unsent>>

\* The wait ends with stop() or with the first channel that ended.
Woken ==
  /\ gate = "up" /\ gate' = "stopping"
  /\ UNCHANGED <<posts, halted, outbox, dispatch, reached, unsent>>

\* finally: the channels are stopped in order, one that raises like the others.
StopChannel ==
  /\ gate = "stopping" /\ halted < Len(GateChannels)
  /\ halted' = halted + 1
  /\ UNCHANGED <<gate, posts, outbox, dispatch, reached, unsent>>

\* Then the tasks of run are cancelled and awaited; the heartbeat's loop and
\* the timer of the cron service are not among them.
CancelTasks ==
  /\ gate = "stopping" /\ halted = Len(GateChannels) /\ gate' = "cancelled"
  /\ posts' = [c \in ToSet(GateChannels) |-> "ended"]
  /\ dispatch' = [on |-> "off"] /\ unsent' = unsent \cup InHand
  /\ UNCHANGED <<halted, outbox, reached>>

\* The tools' connections are closed and run returns.
CloseStack ==
  /\ gate = "cancelled" /\ gate' = "down"
  /\ UNCHANGED <<posts, halted, outbox, dispatch, reached, unsent>>

\* A turn publishes.
Publish(to, hint) ==
  /\ gate # "new" /\ Published < MaxOut
  /\ outbox' = Append(outbox, [n |-> Published + 1, to |-> to, hint |-> hint])
  /\ UNCHANGED <<gate, posts, halted, dispatch, reached, unsent>>

\* (Seeded bug: the newest message is taken.)
NewestAt == Len(outbox)

OldestAt == 1
Taken == outbox[OldestAt]

\* _dispatch_outbound takes a message: hints and messages to channels that are
\* not there go nowhere.
Take ==
  /\ dispatch.on = "waiting" /\ outbox # <<>>
  /\ outbox' = RemoveAt(outbox, OldestAt)
  /\ IF Taken.hint \/ Taken.to \notin ToSet(GateChannels)
     THEN dispatch' = dispatch /\ unsent' = unsent \cup {Taken.n}
     ELSE dispatch' = [on |-> "sending", msg |-> Taken] /\ unsent' = unsent
  /\ UNCHANGED <<gate, posts, halted, reached>>

\* send returns or raises: the next message either way.
Sent(ok) ==
  /\ dispatch.on = "sending" /\ dispatch' = [on |-> "waiting"]
  /\ reached' = IF ok THEN Append(reached, dispatch.msg.n) ELSE reached
  /\ unsent' = IF ok THEN unsent ELSE unsent \cup {dispatch.msg.n}
  /\ UNCHANGED <<gate, posts, halted, outbox>>

GatewayInit ==
  /\ gate = "new" /\ posts = [c \in ToSet(GateChannels) |-> "off"] /\ halted = 0
  /\ outbox = <<>> /\ dispatch = [on |-> "off"] /\ reached = <<>> /\ unsent = {}

GatewayNext ==
  \/ RunApp \/ Woken \/ StopChannel \/ CancelTasks \/ CloseStack \/ Take
  \/ \E c \in ToSet(GateChannels) : ChannelEnds(c)
  \/ \E to \in ToSet(GateChannels) \cup {"elsewhere"}, hint \in BOOLEAN : Publish(to, hint)
  \/ \E ok \in BOOLEAN : Sent(ok)

GatewaySpec == GatewayInit /\ [][GatewayNext]_gatewayVars

-----------------------------------------------------------------------------
(* Properties *)

\* The channels get the messages in the order they were published, none twice.
SentInOrder == \A i, k \in DOMAIN reached : i < k => reached[i] < reached[k]

\* A message stays on the bus only behind one that is being sent, or for want
\* of a dispatcher, and what is neither sent nor on the bus was refused, raised or
\* cut: the dispatcher loses nothing by itself.
NothingSkipped ==
  /\ ToSet(reached) \cup unsent \cup InHand \cup {m.n : m \in ToSet(outbox)} = 1..Published
  /\ \A i, k \in DOMAIN outbox : i < k => outbox[i].n < outbox[k].n
  /\ gate = "down" => InHand = {}

GatewayRight == SentInOrder /\ NothingSkipped
=============================================================================
