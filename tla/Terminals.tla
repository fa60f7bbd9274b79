----------------------------- MODULE Terminals -----------------------------
(***************************************************************************)
(* Two channels that pass on a line and wait for its answer: the REPL      *)
(* (CLIChannel), which takes its answers off the bus itself, and the pipe  *)
(* (PipeChannel), which is given them by the application's dispatcher.     *)
(* The agent is the core's: it takes the lines in order and ends each turn *)
(* with one message to the channel, perhaps an empty one.                  *)
(***************************************************************************)
EXTENDS Naturals, Sequences, FiniteSets, SequencesExt

CONSTANTS
  MaxTyped,   \* lines typed
  MaxExtras   \* messages besides the turns' last ones

ASSUME TerminalsAssumption == MaxTyped \in Nat /\ MaxExtras \in Nat

VARIABLES
  console,     \* "cli" or "pipe"
  shared,      \* a cli beside other channels: their dispatcher reads the bus too
  termAt,      \* start: "reading", "waiting", "out"
  termOpen,    \* _running
  turnDone,    \* the event
  held,        \* turn_response
  consumer,    \* _consume_outbound runs
  typedLines,  \* lines passed on
  inbox,       \* those the agent has not taken yet
  turnOf,      \* the line it is at, 0 if none
  said,        \* every message published: of which turn, and what it says
  extras,      \* how many besides the turns' last ones
  outgoing,    \* those on the bus, by their number
  printed      \* printed, and which were printed as an answer

terminalVars ==
  <<console, shared, termAt, termOpen, turnDone, held, consumer, typedLines, inbox, turnOf, said,
    extras, outgoing, printed>>
agentVars == <<inbox, turnOf, said, extras>>
channelVars == <<console, shared, termAt, termOpen, turnDone, held, consumer, typedLines>>

IsText(n) == said[n].says = "text"
Line(n, answer) == [n |-> n, answer |-> answer]

-----------------------------------------------------------------------------
(* The agent and whoever else publishes *)

AgentBegins ==
  /\ turnOf = 0 /\ inbox # <<>> /\ turnOf' = Head(inbox) /\ inbox' = Tail(inbox)
  /\ UNCHANGED <<channelVars, said, extras, outgoing, printed>>

Says(says) ==
  /\ said' = Append(said, [of |-> turnOf, says |-> says])
  /\ outgoing' = Append(outgoing, Len(said) + 1)

\* The turn's last message: its reply, or nothing if the message tool spoke.
AgentReplies ==
  /\ turnOf # 0 /\ turnOf' = 0
  /\ \E says \in {"text", "empty"} : Says(says)
  /\ UNCHANGED <<channelVars, inbox, extras, printed>>

\* Progress or the message tool within a turn, or news of no turn (a scheduled
\* job, a subagent).
SaysMore ==
  /\ extras < MaxExtras /\ extras' = extras + 1
  /\ \E says \in {"text", "progress"} : Says(says)
  /\ UNCHANGED <<channelVars, inbox, turnOf, printed>>

-----------------------------------------------------------------------------
(* start *)

\* A line that is no command: the event is cleared before it is published.
PassOn ==
  /\ termAt = "reading" /\ typedLines < MaxTyped
  /\ termAt' = "waiting" /\ turnDone' = FALSE /\ held' = <<>>
  /\ typedLines' = typedLines + 1 /\ inbox' = Append(inbox, typedLines + 1)
  /\ UNCHANGED <<console, shared, termOpen, consumer, turnOf, said, extras, outgoing, printed>>

\* exit, Ctrl+C or the end of the input.
Quit ==
  /\ termAt = "reading" /\ termAt' = "out" /\ termOpen' = FALSE /\ consumer' = FALSE
  /\ UNCHANGED <<console, shared, turnDone, held, typedLines, agentVars, outgoing, printed>>

\* The answer is there: it is printed, and the loop looks whether to go on.
Resume ==
  /\ termAt = "waiting" /\ turnDone
  /\ printed' = IF held = <<>> THEN printed ELSE Append(printed, Line(held[1], TRUE))
  /\ held' = <<>>
  /\ termAt' = (IF termOpen THEN "reading" ELSE "out") /\ consumer' = (consumer /\ termOpen)
  /\ UNCHANGED <<console, shared, termOpen, turnDone, typedLines, agentVars, outgoing>>

\* The handler of SIGTERM and SIGINT, or stop(): the pipe's stop also wakes it.
TermStopped ==
  /\ termAt # "out" /\ termOpen /\ termOpen' = FALSE
  /\ turnDone' = (turnDone \/ console = "pipe")
  /\ UNCHANGED <<console, shared, termAt, held, consumer, typedLines, agentVars, outgoing, printed>>

-----------------------------------------------------------------------------
(* Outbound *)

\* (Seeded bug: every text is kept as the answer until the loop prints it.)
AwaitedAlways == TRUE

\* _consume_outbound keeps a message as the answer only while one is awaited.
Awaited == ~turnDone

\* CLIChannel._consume_outbound: after stop() it still takes the message it
\* waits for.
ConsumeOutbound ==
  LET m == Head(outgoing)
      answers == said[m].says # "progress" /\ Awaited
  IN /\ consumer /\ outgoing # <<>>
     /\ outgoing' = Tail(outgoing) /\ consumer' = termOpen
     /\ turnDone' = (turnDone \/ answers)
     /\ held' = IF answers /\ IsText(m) THEN Append(held, m) ELSE held
     /\ printed' = IF IsText(m) /\ ~answers THEN Append(printed, Line(m, FALSE)) ELSE printed
     /\ UNCHANGED <<console, shared, termAt, termOpen, typedLines, agentVars>>

\* Its wait of a second ends without a message.
ConsumerIdles ==
  /\ consumer /\ ~termOpen /\ outgoing = <<>> /\ consumer' = FALSE
  /\ UNCHANGED <<console, shared, termAt, termOpen, turnDone, held, typedLines, agentVars, outgoing,
                 printed>>

\* PipeChannel.send, by the dispatcher.
PipeSend ==
  LET m == Head(outgoing)
  IN /\ console = "pipe" /\ outgoing # <<>> /\ outgoing' = Tail(outgoing)
     /\ turnDone' = (turnDone \/ said[m].says # "progress")
     /\ printed' = IF IsText(m) THEN Append(printed, Line(m, FALSE)) ELSE printed
     /\ UNCHANGED <<console, shared, termAt, termOpen, held, consumer, typedLines, agentVars>>

\* ExoclawNanobot._dispatch_outbound beside a cli: it knows no channel "cli".
DispatcherDrops ==
  /\ shared /\ outgoing # <<>> /\ outgoing' = Tail(outgoing)
  /\ UNCHANGED <<channelVars, agentVars, printed>>

TerminalInit ==
  /\ console \in {"cli", "pipe"} /\ shared \in BOOLEAN /\ (shared => console = "cli")
  /\ termAt = "reading" /\ termOpen = TRUE /\ turnDone = TRUE /\ held = <<>>
  /\ consumer = (console = "cli")
  /\ typedLines = 0 /\ inbox = <<>> /\ turnOf = 0 /\ said = <<>> /\ extras = 0
  /\ outgoing = <<>> /\ printed = <<>>

TerminalNext ==
  \/ AgentBegins \/ AgentReplies \/ SaysMore
  \/ PassOn \/ Quit \/ Resume \/ TermStopped
  \/ ConsumeOutbound \/ ConsumerIdles \/ PipeSend \/ DispatcherDrops

TerminalSpec == TerminalInit /\ [][TerminalNext]_terminalVars

-----------------------------------------------------------------------------
(* Properties *)

TerminalTypeOK ==
  /\ console \in {"cli", "pipe"} /\ termAt \in {"reading", "waiting", "out"}
  /\ {shared, termOpen, turnDone, consumer} \subseteq BOOLEAN
  /\ typedLines \in 0..MaxTyped /\ turnOf \in 0..typedLines /\ extras \in 0..MaxExtras
  /\ Len(held) <= 1

\* README: the REPL runs "until the user types exit or Ctrl+C".  It waits for an
\* answer that cannot come only if it was told to stop while it waited or read a
\* line, or if the dispatcher of other channels took the answer.
WaitsOnlyIfCut ==
  termAt = "waiting" /\ ~turnDone /\ turnOf = 0 /\ inbox = <<>> /\ (outgoing = <<>> \/ ~consumer)
    /\ (console = "pipe" => outgoing = <<>>)
  => ~termOpen \/ shared

\* Whatever text the REPL took off the bus is printed, or kept for the loop that
\* is about to print it.
TakenIsPrinted ==
  console = "cli" /\ termAt # "out" /\ ~shared =>
    LET taken == {n \in DOMAIN said : IsText(n)} \ ToSet(outgoing)
    IN /\ taken = {printed[i].n : i \in DOMAIN printed} \cup ToSet(held)
       /\ Cardinality(taken) = Len(printed) + Len(held)

\* The answer the REPL shows under a line is that of its turn, unless something
\* else was said: then all the answers may be one message late.
AnswerIsOfItsLine ==
  \A i \in DOMAIN held : extras = 0 => said[held[i]].of = typedLines

\* Messages are printed in the order they were published; only an answer may be
\* overtaken, on its way from the consumer to the loop.
PrintedInOrder ==
  \A i, k \in DOMAIN printed :
     i < k /\ printed[i].n > printed[k].n => printed[k].answer /\ console = "cli"

\* The pipe passes a line on only when the lines before it are answered, but for
\* the messages said besides.
PipeKeepsStep ==
  console = "pipe" /\ termOpen => Len(inbox) + (IF turnOf = 0 THEN 0 ELSE 1) <= 1 + extras

TerminalRight ==
  WaitsOnlyIfCut /\ TakenIsPrinted /\ AnswerIsOfItsLine /\ PrintedInOrder /\ PipeKeepsStep
=============================================================================
