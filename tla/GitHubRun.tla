----------------------------- MODULE GitHubRun -----------------------------
(***************************************************************************)
(* One run of the GitHub agent (exoclaw-github): the event of the workflow *)
(* becomes a message or not (GitHubChannel), the agent answers, a relay    *)
(* posts the answer, and run() ends with the first of its three tasks that *)
(* does.  The agent's loop and GitHub are outside the repository.          *)
(***************************************************************************)
EXTENDS Naturals, Sequences, FiniteSets, SequencesExt

CONSTANTS
  GitEvents,    \* the events a workflow may start with
  GitSettings,  \* the channel's arguments
  MaxAnswers    \* messages the agent publishes

ASSUME GitAssumption == MaxAnswers \in Nat

VARIABLES
  settings, event,   \* of this run
  tasks,       \* "on", "ended" or "raised", of channel, relay and loop
  turnAsked,   \* the agent got the message
  response,    \* _response_event: "none", "clear", "set"
  toRelay,     \* messages of the agent on the bus
  answers,     \* how many it published, and whether one was a text
  posting,     \* the text the relay is posting, 0 if none
  comments,    \* the texts posted, in order
  runEnd       \* "running", "returned", "raised"

gitVars == <<settings, event, tasks, turnAsked, response, toRelay, answers, posting,
             comments, runEnd>>

-----------------------------------------------------------------------------
(* _parse_event *)

\* A comment counts only with the trigger, if there is one.
HasTrigger(e) == settings.trigger => e.mentions

\* _is_permitted_issue
Permitted(e) ==
  /\ settings.label => e.label
  /\ settings.authors => e.member

\* An opening or a new comment, of an issue or of a pull request, or a dispatch.
Accepted(e) ==
  /\ e.name \in settings.events
  /\ CASE e.name = "issues"              -> e.fresh /\ settings.issues /\ Permitted(e)
       [] e.name = "issue_comment"       -> e.fresh /\ HasTrigger(e)
       [] e.name = "pull_request"        -> e.fresh /\ settings.prs
       [] e.name = "pull_request_review_comment" -> e.fresh /\ HasTrigger(e)
       [] e.name = "workflow_dispatch"   -> TRUE
       [] OTHER                          -> FALSE

\* _post_comment: a review comment is replied to, everything else is commented
\* on by its number, and a dispatch is only logged.
Target(e) ==
  CASE e.name = "workflow_dispatch"           -> "log"
    [] e.name = "pull_request_review_comment" -> "thread"
    [] OTHER                                  -> "number"

-----------------------------------------------------------------------------
(* The channel *)

ChannelStart ==
  /\ tasks.channel = "on" /\ response = "none" /\ runEnd = "running"
  /\ IF Accepted(event)
     THEN response' = "clear" /\ turnAsked' = TRUE /\ UNCHANGED tasks
     ELSE tasks' = [tasks EXCEPT !.channel = "ended"] /\ UNCHANGED <<response, turnAsked>>
  /\ UNCHANGED <<settings, event, toRelay, answers, posting, comments, runEnd>>

ChannelWakes ==
  /\ tasks.channel = "on" /\ response = "set"
  /\ tasks' = [tasks EXCEPT !.channel = "ended"]
  /\ UNCHANGED <<settings, event, turnAsked, response, toRelay, answers, posting, comments, runEnd>>

-----------------------------------------------------------------------------
(* The agent *)

AgentAnswers ==
  /\ turnAsked /\ tasks.loop = "on" /\ answers.n < MaxAnswers
  /\ \E says \in {"text", "empty", "progress", "hint"} :
        /\ answers' = [n |-> answers.n + 1, texts |-> answers.texts \/ says = "text"]
        /\ toRelay' = Append(toRelay, [n |-> answers.n + 1, says |-> says])
  /\ UNCHANGED <<settings, event, tasks, turnAsked, response, posting, comments, runEnd>>

LoopEnds ==
  /\ tasks.loop = "on" /\ runEnd = "running"
  /\ \E how \in {"ended", "raised"} : tasks' = [tasks EXCEPT !.loop = how]
  /\ UNCHANGED <<settings, event, turnAsked, response, toRelay, answers, posting, comments, runEnd>>

-----------------------------------------------------------------------------
(* The relay *)

\* GitHubChannel.send returns before it posts progress and empty messages, and
\* the relay passes no hints on.
RelayTakes ==
  LET m == Head(toRelay)
  IN /\ tasks.relay = "on" /\ posting = 0 /\ toRelay # <<>> /\ toRelay' = Tail(toRelay)
     /\ posting' = IF m.says = "text" THEN m.n ELSE 0
     /\ UNCHANGED <<settings, event, tasks, turnAsked, response, answers, comments, runEnd>>

\* The post succeeds; a dispatch's answer goes to the log and cannot fail.
Posted ==
  /\ tasks.relay = "on" /\ posting # 0 /\ posting' = 0 /\ response' = "set"
  /\ comments' = Append(comments, posting)
  /\ UNCHANGED <<settings, event, tasks, turnAsked, toRelay, answers, runEnd>>

\* It fails: the error ends the relay.
PostFails ==
  /\ tasks.relay = "on" /\ posting # 0 /\ Target(event) # "log"
  /\ posting' = 0 /\ tasks' = [tasks EXCEPT !.relay = "raised"]
  /\ UNCHANGED <<settings, event, turnAsked, response, toRelay, answers, comments, runEnd>>

-----------------------------------------------------------------------------
(* run *)

\* (Seeded bug: the channel's task need not be among those that are done.)
GreenUnlessRaised == \A t \in DOMAIN tasks : tasks[t] # "raised"

\* Without the channel's task among those done, or with an error there, run
\* raises.
Green == tasks.channel = "ended" /\ \A t \in DOMAIN tasks : tasks[t] # "raised"

\* Once a task is done the others are cancelled, a post in flight with them.
RunEnds ==
  /\ runEnd = "running" /\ \E t \in DOMAIN tasks : tasks[t] # "on"
  /\ runEnd' = IF Green THEN "returned" ELSE "raised"
  /\ tasks' = [t \in DOMAIN tasks |-> IF tasks[t] = "on" THEN "ended" ELSE tasks[t]]
  /\ posting' = 0
  /\ UNCHANGED <<settings, event, turnAsked, response, toRelay, answers, comments>>

GitInit ==
  /\ settings \in GitSettings /\ event \in GitEvents
  /\ tasks = [channel |-> "on", relay |-> "on", loop |-> "on"]
  /\ turnAsked = FALSE /\ response = "none" /\ toRelay = <<>>
  /\ answers = [n |-> 0, texts |-> FALSE]
  /\ posting = 0 /\ comments = <<>> /\ runEnd = "running"

GitNext ==
  \/ ChannelStart \/ ChannelWakes \/ AgentAnswers \/ LoopEnds
  \/ RelayTakes \/ Posted \/ PostFails \/ RunEnds

GitSpec == GitInit /\ [][GitNext]_gitVars

-----------------------------------------------------------------------------
(* Properties *)

GitTypeOK ==
  /\ tasks \in [{"channel", "relay", "loop"} -> {"on", "ended", "raised"}]
  /\ response \in {"none", "clear", "set"} /\ runEnd \in {"running", "returned", "raised"}
  /\ posting \in 0..MaxAnswers

\* run returns in peace only when the event called for no answer or one was
\* posted: a job that is green has answered.
GreenMeansAnswered ==
  runEnd = "returned" =>
    IF turnAsked THEN comments # <<>> ELSE ~Accepted(event)

\* The run waits without end only for an agent that has said nothing: progress,
\* hints and empty answers do not end it.
WaitsOnlyForWords ==
  runEnd = "running" /\ response = "clear" /\ toRelay = <<>> /\ posting = 0
    /\ tasks.relay = "on" => ~answers.texts

\* Comments are posted in the order of the texts, each once.
CommentsInOrder == \A i, k \in DOMAIN comments : i < k => comments[i] < comments[k]

GitRight == GreenMeansAnswered /\ WaitsOnlyForWords /\ CommentsInOrder
=============================================================================
