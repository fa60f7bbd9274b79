--------------------------- MODULE OpenAIProvider ---------------------------
(***************************************************************************)
(* exoclaw-provider-openai: one chat() call.  It asks the models of a      *)
(* fallback chain in turn; to each it streams the request body, message by *)
(* message, tool results from their scratch files, and then reads the      *)
(* server-sent events until the answer is complete.                        *)
(*                                                                         *)
(* The server and the transport are external: they may refuse, stall, send *)
(* noise or stop at any line.  A call of send_streaming_body ("raw") takes *)
(* the same road once, without fallbacks.                                  *)
(***************************************************************************)
EXTENDS Integers, Sequences, FiniteSets, SequencesExt

CONSTANTS
  Chain,        \* number of models: the resolved one and its fallbacks
  Request,      \* the messages: "inline", "file", or "bare", a file without a preview
  FileChunks,   \* chunks of a scratch file
  Slots,        \* indices of streamed tool calls
  ServerLines,  \* what a line of the server may carry
  MaxLines      \* bound on the lines of one answer

ASSUME ProviderAssumption ==
  /\ Chain \in Nat \ {0} /\ Request \in Seq({"inline", "file", "bare"})
  /\ FileChunks \in Nat \ {0} /\ Slots \subseteq Nat /\ MaxLines \in Nat
  /\ \A l \in ServerLines : l.text \in BOOLEAN /\ l.slot \in Slots \cup {-1}

VARIABLES
  entry,     \* "chat" or "raw"
  model,    \* the candidate being asked, 1..Chain
  stance,       \* "sending", "status", "first", "reading", "answer", "raised"
  wire,     \* the body so far: what was sent of each message
  candidates,    \* candidates asked so far, in order
  parts,    \* content_parts and tool_call_parts, a piece by its model and line
  deltas,   \* what on_delta was given
  \* what an observer of the server knows
  sent,     \* the lines the server sent in this attempt
  why       \* how the last attempt ended

providerVars == <<entry, model, stance, wire, candidates, parts, deltas, sent, why>>

\* "status" is one of the seven codes of _RETRYABLE_STATUS, "refused" any other
\* error status.  The README and the comment there speak of "5xx": a 5xx that is
\* not among the seven (501, 529) is refused.
Retryable == {"connect", "timeout", "status", "not_sse", "ttft", "no_data"}
Fatal == {"refused", "context", "broken"}

\* A line carries a piece of content, a piece of the call in a slot (-1: of none),
\* both, or neither: a comment, an event without choices, broken JSON.  A call's
\* name and its arguments may be missing from the piece.
Missing == "missing"
NoSlot == [name |-> Missing, args |-> <<>>]
NothingHeard == [content |-> <<>>, calls |-> [i \in Slots |-> NoSlot]]

ProviderInit ==
  /\ entry \in {"chat", "raw"} /\ model = 1 /\ stance = "sending" /\ wire = <<>>
  /\ candidates = <<1>> /\ parts = NothingHeard /\ deltas = <<>>
  /\ sent = <<>> /\ why = "none"

-----------------------------------------------------------------------------
(* The ends of an attempt *)

\* A retryable error of chat() leads to the next model, whose request is built
\* anew; any other error is the caller's.
Fails(reason) ==
  /\ why' = reason
  /\ IF entry = "chat" /\ reason \in Retryable /\ model < Chain
     THEN /\ model' = model + 1 /\ candidates' = Append(candidates, model + 1)
          /\ stance' = "sending"
          /\ wire' = <<>> /\ parts' = NothingHeard /\ sent' = <<>>
     ELSE stance' = "raised" /\ UNCHANGED <<model, wire, candidates, parts, sent>>
  /\ UNCHANGED <<entry, deltas>>

Answers ==
  stance' = "answer" /\ UNCHANGED <<entry, model, wire, candidates, parts, deltas, sent, why>>

-----------------------------------------------------------------------------
(* _stream_body and _emit_message *)

Message == Len(wire)  \* the message being emitted, 0 before the first

Whole(n) == Request[n] = "inline" \/ wire[n].ended

Wire(w) == wire' = w /\ UNCHANGED <<entry, model, stance, candidates, parts, deltas, sent, why>>

\* The next message's opening.
EmitHead ==
  /\ stance = "sending" /\ Message < Len(Request) /\ (Message > 0 => wire[Message].ended)
  /\ LET kind == Request[Message + 1]
     IN Wire(Append(wire, [file |-> 0, preview |-> FALSE, failed |-> FALSE,
                           ended |-> kind = "inline"]))

\* A chunk of the scratch file, or its end.
Further(w) ==
  IF w.file < FileChunks THEN [w EXCEPT !.file = @ + 1] ELSE [w EXCEPT !.ended = TRUE]

EmitChunk ==
  /\ stance = "sending" /\ Message > 0 /\ ~wire[Message].ended
  /\ Wire([wire EXCEPT ![Message] = Further(@)])

\* The file cannot be opened, or read on: the inline preview takes its place, if
\* there is one.
EmitFallback ==
  /\ stance = "sending" /\ Message > 0 /\ ~wire[Message].ended
  /\ Wire([wire EXCEPT ![Message] =
             [@ EXCEPT !.preview = Request[Message] = "file", !.failed = TRUE, !.ended = TRUE]])

SendFails == stance = "sending" /\ \E reason \in {"connect", "timeout", "broken"} : Fails(reason)

BodySent ==
  /\ stance = "sending" /\ Message = Len(Request) /\ \A n \in 1..Message : Whole(n)
  /\ stance' = "status" /\ UNCHANGED <<entry, model, wire, candidates, parts, deltas, sent, why>>

-----------------------------------------------------------------------------
(* _chat_once and _consume_sse_stream *)

\* The status line and the content type.
Status ==
  /\ stance = "status"
  /\ \/ stance' = "first" /\ UNCHANGED <<entry, model, wire, candidates, parts, deltas, sent, why>>
     \/ \E reason \in {"status", "refused", "context", "not_sse", "timeout", "broken"} :
          Fails(reason)

\* The first line has a deadline of its own.
FirstLineFails ==
  stance = "first" /\ \E reason \in {"ttft", "no_data", "timeout", "broken"} : Fails(reason)

\* (Seeded bug: the first name of a slot stays.)
SlotNamedOnce(slot, line, piece) ==
  [name |-> IF slot.name = Missing THEN line.name ELSE slot.name,
   args |-> IF line.args = Missing THEN slot.args ELSE Append(slot.args, piece)]

\* tool_call_parts: a later name takes the place of an earlier one, an empty name
\* too; pieces of the arguments are appended.
Slot(slot, line, piece) ==
  [name |-> IF line.name = Missing THEN slot.name ELSE line.name,
   args |-> IF line.args = Missing THEN slot.args ELSE Append(slot.args, piece)]

\* A piece of content is kept and, in a chat, handed on at once.
Reads(line) ==
  LET piece == <<model, Len(sent) + 1>>
  IN /\ stance \in {"first", "reading"} /\ Len(sent) < MaxLines
     /\ stance' = "reading" /\ sent' = Append(sent, line)
     /\ parts' = [content |-> IF line.text THEN Append(parts.content, piece) ELSE parts.content,
                  calls |-> [i \in Slots |-> IF line.slot = i THEN Slot(parts.calls[i], line, piece)
                                             ELSE parts.calls[i]]]
     /\ deltas' = IF line.text /\ entry = "chat" THEN Append(deltas, piece) ELSE deltas
     /\ UNCHANGED <<entry, model, wire, candidates, why>>

\* "[DONE]", or the server closes the stream after some line: taken for the end.
Done == stance \in {"first", "reading"} /\ Answers

\* What json_repair makes of a call's arguments: they are an object, whole or
\* broken off, unless a piece makes a list or a number of them.
IsObject(args) == \A k \in 1..Len(args) : sent[args[k][2]].args # "other"

\* The response: the calls with a name, in the order of their slots; arguments
\* that are no object become the empty one.
ToolCalls ==
  [i \in {n \in Slots : parts.calls[n].name \notin {Missing, ""}} |->
     [name |-> parts.calls[i].name,
      args |-> IF IsObject(parts.calls[i].args) THEN parts.calls[i].args ELSE <<>>]]

ReadFails == stance = "reading" /\ \E reason \in {"timeout", "broken"} : Fails(reason)

ProviderNext ==
  \/ EmitHead \/ EmitChunk \/ EmitFallback \/ SendFails \/ BodySent \/ Status \/ FirstLineFails
  \/ \E line \in ServerLines : Reads(line)
  \/ Done \/ ReadFails

-----------------------------------------------------------------------------
ProviderTypeOK ==
  /\ entry \in {"chat", "raw"} /\ model \in 1..Chain
  /\ stance \in {"sending", "status", "first", "reading", "answer", "raised"}
  /\ Len(wire) <= Len(Request) /\ \A n \in 1..Len(wire) : wire[n].file \in 0..FileChunks
  /\ why \in Retryable \cup Fatal \cup {"none"}

\* chat: "Walks the fallback chain on retryable errors; raises the last error if
\* every model fails"; send_streaming_body: "No retry or fallback chain".
FallsBackRightly ==
  /\ candidates = [i \in 1..model |-> i]
  /\ model > 1 => entry = "chat"
  /\ stance = "raised" => why \in Fatal \/ entry = "raw" \/ model = Chain
  /\ stance # "raised" => why \notin Fatal

\* The pieces of a sequence are the lines of a set, in order, all of one model.
TakenFrom(asked, pieces, lines) ==
  /\ {pieces[k] : k \in 1..Len(pieces)} = {<<asked, l>> : l \in lines}
  /\ \A k, m \in 1..Len(pieces) : k < m => pieces[k][2] < pieces[m][2]

TextLines == {l \in 1..Len(sent) : sent[l].text}
Naming(i) == {l \in 1..Len(sent) : sent[l].slot = i /\ sent[l].name # Missing}
Arguing(i) == {l \in 1..Len(sent) : sent[l].slot = i /\ sent[l].args # Missing}

LastOf(l, lines) == l \in lines /\ \A m \in lines : m <= l

\* An answer is what its own model sent, in order, whatever earlier models had
\* begun: the content line by line; a call for each slot whose last name is not
\* empty, under that name, with the arguments of its slot alone, or with none
\* when they make no object.
AnswerIsOneModels ==
  stance = "answer" =>
    /\ TakenFrom(model, parts.content, TextLines)
    /\ \A i \in Slots :
         i \in DOMAIN ToolCalls <=> \E l \in Naming(i) : LastOf(l, Naming(i)) /\ sent[l].name # ""
    /\ \A i \in DOMAIN ToolCalls :
         /\ \A l \in Naming(i) : LastOf(l, Naming(i)) => ToolCalls[i].name = sent[l].name
         /\ IF \E l \in Arguing(i) : sent[l].args = "other" THEN ToolCalls[i].args = <<>>
            ELSE TakenFrom(model, ToolCalls[i].args, Arguing(i))

\* The listener of on_delta has heard the answer, and before it only the
\* beginnings of answers that broke off: they are not taken back.
DeltasEndInAnswer ==
  stance = "answer" /\ entry = "chat" =>
    /\ IsSuffix(parts.content, deltas)
    /\ \A k \in 1..(Len(deltas) - Len(parts.content)) : deltas[k][1] < model

\* _emit_message: a file-backed result goes out whole, unless its file fails; then
\* its preview goes out behind what was read, and a result without a preview is cut.
BodyIsWhole ==
  stance \notin {"sending", "raised"} =>
    /\ Len(wire) = Len(Request)
    /\ \A n \in 1..Len(wire) :
         /\ Request[n] # "inline" /\ ~wire[n].failed => wire[n].file = FileChunks
         /\ Request[n] = "file" => (wire[n].preview <=> wire[n].failed)

ProviderRight == FallsBackRightly /\ AnswerIsOneModels /\ DeltasEndInAnswer /\ BodyIsWhole
=============================================================================
