---------------------------- MODULE DurableReply ----------------------------
(***************************************************************************)
(* How a durable turn answers its chat: the message tool                   *)
(* (exoclaw-tools-message), its sent_in_turn flag, and the last two steps  *)
(* of run_durable_turn (exoclaw-executor-dbos/turn.py), which publish the  *)
(* reply unless a tool has already told the user.                          *)
(*                                                                         *)
(* A step's body and its journal entry are two actions, between which the  *)
(* process may die; DBOS then runs the workflow again, takes journaled     *)
(* steps from the journal and runs the others.  The flag is in memory.     *)
(***************************************************************************)
EXTENDS Integers

CONSTANTS
  MaxSends,        \* bound on the message calls of the turn
  MaxReplyCrashes  \* bound on crashes

ASSUME ReplyAssumption == MaxSends \in Nat /\ MaxReplyCrashes \in Nat

VARIABLES
  publishes,    \* publish_response: a turn of a user, not of a subagent
  patterns,     \* suppress_patterns are configured
  at,           \* the step the workflow is in
  ran,          \* its body has run (in this process)
  call,         \* the message call under way, fixed by the journaled answer
  sentInTurn,   \* sent_in_turn
  \* what an observer has seen
  calls,        \* message calls made
  asked,        \* those for the turn's own chat
  told, replies,  \* messages the chat got: from the tool, and replies
  replyCrashes

replyVars == <<publishes, patterns, at, ran, call, sentInTurn, calls, asked, told, replies,
               replyCrashes>>

Call == [to : {"own", "other"}, content : {"clean", "partly", "matched"}]
NoCall == [to |-> "nobody", content |-> "none"]

ReplyTypeOK ==
  /\ publishes \in BOOLEAN /\ patterns \in BOOLEAN /\ ran \in BOOLEAN
  /\ at \in {"loop", "tool", "check", "publish", "done"}
  /\ call \in Call \cup {NoCall} /\ (call # NoCall <=> at = "tool")
  /\ sentInTurn \in BOOLEAN
  /\ calls \in 0..MaxSends /\ asked \in 0..calls
  /\ told \in Nat /\ replies \in Nat /\ replyCrashes \in 0..MaxReplyCrashes

ReplyInit ==
  /\ publishes \in BOOLEAN /\ patterns \in BOOLEAN
  /\ at = "loop" /\ ran = FALSE /\ call = NoCall /\ sentInTurn = FALSE
  /\ calls = 0 /\ asked = 0 /\ told = 0 /\ replies = 0 /\ replyCrashes = 0

\* filter_suppressed leaves nothing: every line matches a pattern.
Suppressed == patterns /\ call.content = "matched"

\* The model answers with a call of the message tool, ...
CallMessage ==
  /\ at = "loop" /\ calls < MaxSends
  /\ call' \in Call
  /\ at' = "tool" /\ calls' = calls + 1
  /\ asked' = IF call'.to = "own" THEN asked + 1 ELSE asked
  /\ UNCHANGED <<publishes, patterns, ran, sentInTurn, told, replies, replyCrashes>>

\* ... or with the final content, if any.
EndLoop ==
  /\ at = "loop"
  /\ at' = IF publishes THEN "check" ELSE "done"
  /\ UNCHANGED <<publishes, patterns, ran, call, sentInTurn, calls, asked, told, replies,
                 replyCrashes>>

\* (Seeded bug: a message to any chat counts.)
MessageBodyAnyChat ==
  /\ at = "tool" /\ ~ran
  /\ ran' = TRUE
  /\ \E delivered \in BOOLEAN :
        /\ delivered => ~Suppressed
        /\ sentInTurn' = (sentInTurn \/ delivered)
        /\ told' = IF delivered /\ call.to = "own" THEN told + 1 ELSE told
  /\ UNCHANGED <<publishes, patterns, at, call, calls, asked, replies, replyCrashes>>

\* MessageTool.execute: a suppressed message is not sent; a send that raises
\* becomes an error text.
MessageBody ==
  /\ at = "tool" /\ ~ran
  /\ ran' = TRUE
  /\ \E delivered \in BOOLEAN :
        /\ delivered => ~Suppressed
        /\ sentInTurn' = (sentInTurn \/ (delivered /\ call.to = "own"))
        /\ told' = IF delivered /\ call.to = "own" THEN told + 1 ELSE told
  /\ UNCHANGED <<publishes, patterns, at, call, calls, asked, replies, replyCrashes>>

MessageCommit ==
  /\ at = "tool" /\ ran
  /\ at' = "loop" /\ ran' = FALSE /\ call' = NoCall
  /\ UNCHANGED <<publishes, patterns, sentInTurn, calls, asked, told, replies, replyCrashes>>

\* _check_sent_in_turn_step, whose answer is journaled in the same breath: a
\* crash in between loses nothing but the flag, as one before it does.
Check ==
  /\ at = "check"
  /\ at' = IF sentInTurn THEN "done" ELSE "publish"
  /\ UNCHANGED <<publishes, patterns, ran, call, sentInTurn, calls, asked, told, replies,
                 replyCrashes>>

PublishReplyBody ==
  /\ at = "publish" /\ ~ran
  /\ ran' = TRUE /\ replies' = replies + 1
  /\ UNCHANGED <<publishes, patterns, at, call, sentInTurn, calls, asked, told, replyCrashes>>

PublishReplyCommit ==
  /\ at = "publish" /\ ran
  /\ at' = "done" /\ ran' = FALSE
  /\ UNCHANGED <<publishes, patterns, call, sentInTurn, calls, asked, told, replies, replyCrashes>>

\* The process dies and the workflow is recovered: up to the first step without
\* a journal entry everything is replayed, and no body run, no flag set.
CrashTurn ==
  /\ at # "done" /\ replyCrashes < MaxReplyCrashes
  /\ replyCrashes' = replyCrashes + 1
  /\ ran' = FALSE /\ sentInTurn' = FALSE
  /\ UNCHANGED <<publishes, patterns, at, call, calls, asked, told, replies>>

ReplyNext ==
  \/ CallMessage \/ EndLoop \/ MessageBody \/ MessageCommit \/ Check
  \/ PublishReplyBody \/ PublishReplyCommit \/ CrashTurn

ReplySpec == ReplyInit /\ [][ReplyNext]_replyVars

-----------------------------------------------------------------------------
\* turn.py: a user's turn never ends without a word in its chat, whatever was
\* suppressed, failed or sent elsewhere; the reply repeats no message of the
\* tool's; and a crash costs one redundant message at most ("Accepting that
\* risk", and the flag that "would be lost across a container restart").
ReplyRight ==
  at = "done" /\ publishes =>
     /\ told + replies > 0
     /\ told > 0 /\ replies > 0 => replyCrashes > 0
     /\ replies <= 1 + replyCrashes
     /\ told + replies <= (IF asked = 0 THEN 1 ELSE asked) + replyCrashes
=============================================================================
