---------------------------- MODULE ShellStream ----------------------------
(***************************************************************************)
(* exoclaw_tools_workspace.shell, ExecTool.execute_streaming: a child writes*)
(* two pipes of limited size, one task per pipe moves what it reads into a  *)
(* shared queue of limited size, and the generator hands it to its caller,  *)
(* who may be slow, and may go away between two pieces.                     *)
(***************************************************************************)
EXTENDS Integers, Sequences, FiniteSets, SequencesExt

CONSTANTS
    Scripts,      \* what the child writes, a sequence of "out" and "err"
    PipeSize,     \* pieces an OS pipe holds
    QueueSize     \* pieces the queue holds (64)

ASSUME ShellAssumption ==
    /\ Scripts \subseteq Seq({"out", "err"})
    /\ PipeSize \in Nat \ {0} /\ QueueSize \in Nat \ {0}

VARIABLES
    script,       \* what the child was to write
    wrote,        \* how much of it it has written
    child,        \* "running", "exited", "killed"
    hangs,        \* it does not exit by itself
    pipe,         \* by origin, the pieces in the pipe
    task,         \* by origin, the consumer task: "reads", "puts", "eof", "done"
    inHand,       \* by origin, the piece it puts
    queue,        \* (origin, piece) pairs, piece 0 the end of the origin
    endsSeen,         \* the origins whose end the generator has seen
    yielded,      \* what the caller got
    expired,      \* the deadline has passed
    generator,        \* the generator: "drains", "waits", "cleans", "over"
    outcome       \* "", "done", "timeout", "closed"

shellVars == <<script, wrote, child, hangs, pipe, task, inHand, queue, endsSeen,
               yielded, expired, generator, outcome>>

Origins == {"out", "err"}

ShellInit ==
    /\ script \in Scripts /\ wrote = 0 /\ child = "running" /\ hangs \in BOOLEAN
    /\ pipe = [o \in Origins |-> <<>>]
    /\ task = [o \in Origins |-> "reads"]
    /\ inHand = [o \in Origins |-> 0]
    /\ queue = <<>> /\ endsSeen = {} /\ yielded = <<>>
    /\ expired = FALSE /\ generator = "drains" /\ outcome = ""

-----------------------------------------------------------------------------
(* The child *)

Writes ==
    /\ child = "running" /\ wrote < Len(script)
    /\ LET o == script[wrote + 1] IN
       /\ Len(pipe[o]) < PipeSize
       /\ pipe' = [pipe EXCEPT ![o] = Append(@, wrote + 1)]
    /\ wrote' = wrote + 1
    /\ UNCHANGED <<script, child, hangs, task, inHand, queue, endsSeen, yielded,
                   expired, generator, outcome>>

Exits ==
    /\ child = "running" /\ wrote = Len(script) /\ ~hangs
    /\ child' = "exited"
    /\ UNCHANGED <<script, wrote, hangs, pipe, task, inHand, queue, endsSeen, yielded,
                   expired, generator, outcome>>

Expires ==
    /\ ~expired /\ generator # "over" /\ expired' = TRUE
    /\ UNCHANGED <<script, wrote, child, hangs, pipe, task, inHand, queue, endsSeen,
                   yielded, generator, outcome>>

-----------------------------------------------------------------------------
(* _consume, one task per pipe *)

\* A plausible bug: stdout is drained to its end before stderr is begun.
MayReadInTurn(o) == o = "out" \/ task["out"] = "done"

MayRead(o) == TRUE

\* A piece, or the pipe's end when the child is gone, or the deadline.
ReadsPipe(o) ==
    /\ task[o] = "reads" /\ MayRead(o)
    /\ \/ /\ ~expired /\ pipe[o] # <<>>
          /\ inHand' = [inHand EXCEPT ![o] = Head(pipe[o])]
          /\ pipe' = [pipe EXCEPT ![o] = Tail(@)]
          /\ task' = [task EXCEPT ![o] = "puts"]
       \/ /\ expired \/ (pipe[o] = <<>> /\ child # "running")
          /\ task' = [task EXCEPT ![o] = "eof"]
          /\ UNCHANGED <<inHand, pipe>>
    /\ UNCHANGED <<script, wrote, child, hangs, queue, endsSeen, yielded, expired,
                   generator, outcome>>

\* queue.put waits for room, for a piece as for the end the finally sends.
Puts(o) ==
    /\ task[o] \in {"puts", "eof"} /\ Len(queue) < QueueSize
    /\ LET piece == IF task[o] = "puts" THEN inHand[o] ELSE 0
       IN  queue' = Append(queue, [origin |-> o, piece |-> piece])
    /\ task' = [task EXCEPT ![o] = IF @ = "puts" THEN "reads" ELSE "done"]
    /\ inHand' = [inHand EXCEPT ![o] = 0]
    /\ UNCHANGED <<script, wrote, child, hangs, pipe, endsSeen, yielded, expired,
                   generator, outcome>>

-----------------------------------------------------------------------------
(* The generator *)

\* Cancelled tasks go to their finally, which still wants to send the end.
Cancelled == [o \in Origins |-> IF task[o] = "done" THEN "done" ELSE "eof"]

\* One piece to the caller, or the end of an origin.
Yields ==
    /\ generator = "drains" /\ queue # <<>>
    /\ LET q == Head(queue) IN
       /\ queue' = Tail(queue)
       /\ endsSeen' = IF q.piece = 0 THEN endsSeen \cup {q.origin} ELSE endsSeen
       /\ yielded' = IF q.piece = 0 THEN yielded ELSE Append(yielded, q.piece)
    /\ generator' = IF endsSeen' = Origins THEN "waits" ELSE "drains"
    /\ UNCHANGED <<script, wrote, child, hangs, pipe, task, inHand, expired, outcome>>

\* Both pipes are done: the exit code, or the time is up.
Concludes ==
    /\ generator = "waits"
    /\ \/ child = "exited" /\ outcome' = "done"
       \/ child = "running" /\ expired /\ outcome' = "timeout"
    /\ child' = IF child = "running" THEN "killed" ELSE child
    /\ task' = Cancelled /\ generator' = "cleans"
    /\ UNCHANGED <<script, wrote, hangs, pipe, inHand, queue, endsSeen, yielded, expired>>

\* The caller goes away at a yield: the finally kills the child and cancels.
CallerLeaves ==
    /\ generator = "drains" /\ yielded # <<>>
    /\ child' = IF child = "running" THEN "killed" ELSE child
    /\ task' = Cancelled /\ generator' = "cleans" /\ outcome' = "closed"
    /\ UNCHANGED <<script, wrote, hangs, pipe, inHand, queue, endsSeen, yielded, expired>>

\* The gather at the end waits for both tasks.
Gathers ==
    /\ generator = "cleans" /\ \A o \in Origins : task[o] = "done"
    /\ generator' = "over"
    /\ UNCHANGED <<script, wrote, child, hangs, pipe, task, inHand, queue, endsSeen,
                   yielded, expired, outcome>>

ShellNext ==
    \/ Writes \/ Exits \/ Expires
    \/ \E o \in Origins : ReadsPipe(o) \/ Puts(o)
    \/ Yields \/ Concludes \/ CallerLeaves \/ Gathers

-----------------------------------------------------------------------------
ShellTypeOK ==
    /\ script \in Scripts /\ wrote \in 0..Len(script)
    /\ child \in {"running", "exited", "killed"}
    /\ \A o \in Origins : Len(pipe[o]) <= PipeSize
    /\ task \in [Origins -> {"reads", "puts", "eof", "done"}]
    /\ Len(queue) <= QueueSize /\ endsSeen \subseteq Origins

\* A child that waits for room in a pipe is never waited for in turn: someone
\* can take what is in its way, whichever pipe it fills first.
NoStandstill ==
    (generator = "drains" /\ ~expired /\ child = "running" /\ wrote < Len(script)
       /\ Len(pipe[script[wrote + 1]]) = PipeSize)
    => \/ queue # <<>>
       \/ \E o \in Origins : task[o] \in {"puts", "eof"}
       \/ task[script[wrote + 1]] = "reads" /\ MayRead(script[wrote + 1])

\* An output that ended by itself within its time is complete; any other is cut,
\* but each pipe's pieces are in order and none is handed out twice.
OutputIsRight ==
    /\ outcome = "done" /\ ~expired => Len(yielded) = Len(script)
    /\ \A i, j \in DOMAIN yielded :
          (i < j /\ script[yielded[i]] = script[yielded[j]]) => yielded[i] < yielded[j]

\* Nothing outlives the generator; it can only be kept from its end when the
\* caller left while the queue was too full for the ends of the two pipes.
NothingIsLeft ==
    /\ generator = "over" => child # "running" /\ \A o \in Origins : task[o] = "done"
    /\ generator = "cleans" =>
          \/ outcome = "closed"
          \/ Len(queue) + Cardinality({o \in Origins : task[o] # "done"}) <= QueueSize

ShellRight == NoStandstill /\ OutputIsRight /\ NothingIsLeft
=============================================================================
