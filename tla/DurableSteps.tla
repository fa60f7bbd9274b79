---------------------------- MODULE DurableSteps ----------------------------
(***************************************************************************)
(* One turn's steps under DBOSExecutor: the minted id, model calls and     *)
(* tool calls in journaled steps that are tried again when they fail,      *)
(* streaming tools outside of any step, appended messages, and the end of  *)
(* the turn, in a process that may die at any point.  The agent loop is    *)
(* the core's; it does what the last result says.                          *)
(***************************************************************************)
EXTENDS Integers, Sequences, SequencesExt, FiniteSets

CONSTANTS
  MaxSteps,    \* bound on the results a turn sees
  MaxErrors,   \* bound on the attempts that fail
  MaxLives     \* bound on the processes a turn lives through

ASSUME StepsAssumption ==
  MaxSteps \in Nat /\ MaxErrors \in Nat /\ MaxLives \in Nat \ {0}

VARIABLES
  streaming,   \* the provider streams its answers to the user
  journal,     \* DBOS: the committed steps, with what each was computed on
  life,        \* which process this is
  view,        \* the results the loop has seen in this life
  replayed,    \* how many of them came from the journal or went there
  tries,       \* attempts of the step under way
  hand,        \* its outcome, not committed yet
  stepsAt,     \* "running", "done", "failed"
  bodies,      \* every run of a body: for which journal entry, in which life
  scratch,     \* files of streaming tools on disk: by life and place
  scratchPaths \* _scratch_paths_var

stepVars == <<streaming, journal, life, view, replayed, tries, hand, stepsAt, bodies, scratch,
              scratchPaths>>

\* A result tells in which life it was made.
Result(op, is) == [op |-> op, is |-> is, life |-> life]
NoResult == Result("none", "none")
Pending == hand.op # "none"

\* What the agent loop does upon a result, and its next operation.
OpAfter(result) ==
  CASE result.op \in {"mint", "append"} -> "chat"
    [] result.op \in {"tool", "stream"} -> "append"
    [] result.is = "overflow"           -> "chat"    \* after compaction
    [] result.is = "final"              -> "post"
    [] OTHER                            -> result.is
NextOp == IF view = <<>> THEN "mint" ELSE OpAfter(Last(view))

\* (Seeded bug: a streaming model call is tried again like any other.)
MaxTriesAlike(op) == CASE op = "chat" -> 3 [] op = "tool" -> 2 [] OTHER -> 1

\* max_attempts of the steps' decorators.
MaxTries(op) ==
  CASE op = "chat" /\ ~streaming -> 3
    [] op = "tool"            -> 2
    [] OTHER                  -> 1

\* (Seeded bug: an overflow is raised out of the step like other errors.)
HandedRaising(came) == IF came = "overflow" THEN "error" ELSE came

\* _run_chat: what the provider's answer is to the step, an overflow a result.
Handed(came) == came

\* What the provider, a tool or the conversation may come to.
Outcomes(op) ==
  CASE op = "chat" -> {"tool", "stream", "overflow", "final", "error"}
    [] op = "mint" -> {"ok"}
    [] OTHER       -> {"ok", "error"}

Failed == {b \in DOMAIN bodies : bodies[b].came = "error"}

StepRuns == stepsAt = "running" /\ ~Pending /\ Len(view) < MaxSteps

\* post_turn unlinks the registered files, best effort.
CleansUp(result) ==
  IF result.op = "post" /\ result.is # "error"
  THEN scratchPaths' = {} /\ scratch' = scratch \ scratchPaths
  ELSE UNCHANGED <<scratchPaths, scratch>>

\* The loop gets a result; a step that failed for good ends the turn.
Sees(result) ==
  /\ view' = Append(view, result)
  /\ stepsAt' = IF result.is = "error" THEN "failed"
                ELSE IF result.op = "post" THEN "done" ELSE stepsAt
  /\ CleansUp(result)

\* A step that is in the journal: its body is skipped.
Replay ==
  /\ StepRuns /\ NextOp # "stream" /\ replayed < Len(journal)
  /\ replayed' = replayed + 1 /\ Sees(journal[replayed + 1].result)
  /\ UNCHANGED <<streaming, journal, life, tries, hand, bodies>>

\* An attempt of the body; one that fails is followed by another or is the
\* step's outcome.
StepBody ==
  /\ StepRuns /\ NextOp # "stream" /\ replayed = Len(journal)
  /\ \E came \in Outcomes(NextOp) :
        /\ came = "error" => Cardinality(Failed) < MaxErrors
        /\ bodies' = Append(bodies, [entry |-> Len(journal) + 1, life |-> life, came |-> came])
        /\ IF Handed(came) = "error" /\ tries + 1 < MaxTries(NextOp)
           THEN tries' = tries + 1 /\ UNCHANGED hand
           ELSE tries' = 0 /\ hand' = Result(NextOp, Handed(came))
  /\ UNCHANGED <<streaming, journal, life, view, replayed, stepsAt, scratch, scratchPaths>>

StepCommit ==
  /\ stepsAt = "running" /\ Pending /\ hand' = NoResult
  /\ journal' = Append(journal, [result |-> hand, on |-> view])
  /\ replayed' = replayed + 1 /\ Sees(hand)
  /\ UNCHANGED <<streaming, life, tries, bodies>>

\* execute_tool_with_handle: the result is a file's preview, or an error text of
\* the registry; a tool that raises takes its file along.
StreamTool ==
  /\ StepRuns /\ NextOp = "stream"
  /\ \/ /\ \E file \in {<<life, Len(view)>>} :
              scratch' = scratch \cup {file} /\ scratchPaths' = scratchPaths \cup {file}
        /\ view' = Append(view, Result("stream", "ok")) /\ UNCHANGED stepsAt
     \/ /\ view' = Append(view, Result("stream", "refused"))
        /\ UNCHANGED <<scratch, scratchPaths, stepsAt>>
     \/ stepsAt' = "failed" /\ UNCHANGED <<view, scratch, scratchPaths>>
  /\ UNCHANGED <<streaming, journal, life, replayed, tries, hand, bodies>>

\* The process dies in the middle of a streaming tool, whose file stays, or
\* anywhere else; the workflow is recovered from its beginning.
DieAndRecover ==
  /\ stepsAt = "running" /\ life < MaxLives /\ life' = life + 1
  /\ scratch' = IF NextOp = "stream" THEN scratch \cup {<<life, Len(view)>>} ELSE scratch
  /\ view' = <<>> /\ replayed' = 0 /\ tries' = 0 /\ scratchPaths' = {}
  /\ hand' = [NoResult EXCEPT !.life = life']
  /\ UNCHANGED <<streaming, journal, stepsAt, bodies>>

StepsInit ==
  /\ streaming \in BOOLEAN /\ journal = <<>> /\ life = 1 /\ view = <<>> /\ replayed = 0
  /\ tries = 0 /\ hand = NoResult /\ stepsAt = "running" /\ bodies = <<>>
  /\ scratch = {} /\ scratchPaths = {}

StepsNext == Replay \/ StepBody \/ StepCommit \/ StreamTool \/ DieAndRecover

StepsSpec == StepsInit /\ [][StepsNext]_stepVars

-----------------------------------------------------------------------------
(* Properties *)

StepsTypeOK ==
  /\ stepsAt \in {"running", "done", "failed"} /\ life \in 1..MaxLives
  /\ Len(view) <= MaxSteps /\ replayed \in 0..Len(journal) /\ tries \in 0..2
  /\ scratchPaths \subseteq scratch

RunsOf(entry) == {b \in DOMAIN bodies : bodies[b].entry = entry}

\* execute_tool_with_handle: "on crash-mid-stream the parent workflow re-executes
\* the whole turn": a recovered loop sees again what every committed step was
\* computed on, but for the results of streaming tools.
ReplayAgrees ==
  \A i \in DOMAIN view : \A e \in DOMAIN journal :
     LET on == journal[e].on
     IN i <= Len(on) /\ e <= replayed =>
          \/ view[i] = on[i]
          \/ view[i].op = "stream" /\ on[i].op = "stream"

\* No body runs again once its step is committed, not in any later life.
CommittedNeverRuns ==
  \A e \in DOMAIN journal : \A b \in RunsOf(e) : bodies[b].life <= journal[e].result.life

\* _streaming_chat_step: "Retrying this step could replay already-delivered
\* content".  What is streamed to the user is streamed again only after a crash.
ShownOncePerLife ==
  streaming => \A b, c \in DOMAIN bodies :
     b # c /\ bodies[b].entry = bodies[c].entry /\ bodies[b].life = bodies[c].life
       /\ bodies[b].entry \in DOMAIN journal
     => journal[bodies[b].entry].result.op # "chat"

\* The sentinel's comment: "ContextWindowExceededError is deterministic", it is not
\* tried again but reaches the loop as itself.
OverflowIsItself ==
  \A b \in DOMAIN bodies : bodies[b].came = "overflow" =>
     /\ \A c \in b + 1..Len(bodies) :
          bodies[c].life = bodies[b].life => bodies[c].entry # bodies[b].entry
     /\ Pending => hand.is # "error" \/ b # Len(bodies)

\* A turn fails only by a step that used up its attempts, or by a streaming tool.
FailsOnlyWhenExhausted ==
  stepsAt = "failed" =>
    \/ NextOp = "stream"
    \/ /\ Last(view).is = "error" /\ journal[replayed].result = Last(view)
       /\ Cardinality({b \in RunsOf(replayed) : bodies[b].life = Last(view).life})
            = MaxTries(Last(view).op)

\* A turn that ends leaves no file behind but those of processes that died.
ScratchIsCleaned == stepsAt = "done" => \A f \in scratch : f[1] < life

StepsRight ==
  /\ ReplayAgrees /\ CommittedNeverRuns /\ ShownOncePerLife /\ FailsOnlyWhenExhausted
  /\ OverflowIsItself /\ ScratchIsCleaned
=============================================================================
