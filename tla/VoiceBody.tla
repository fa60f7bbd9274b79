----------------------------- MODULE VoiceBody -----------------------------
(***************************************************************************)
(* Speech (exoclaw-tools-voice): a recording becomes the body of a request *)
(* chunk by chunk (_AudioBodyIter over B64StreamEncoder), and its          *)
(* transcription the result of a tool call (ListenAndTranscribeTool) or a  *)
(* line of the serial console (MicListener for SerialChannel).  The        *)
(* microphone and the provider are outside.                                *)
(***************************************************************************)
EXTENDS Integers, Sequences, SequencesExt, FiniteSetsExt

CONSTANT Recordings   \* sequences of chunks, a chunk a sequence of bytes

ASSUME VoiceAssumption == \A r \in Recordings : r \in Seq(Seq(0..255))

VARIABLES
  recording,   \* what the microphone will deliver
  pulled,      \* how many chunks of it were pulled
  audioAt,     \* the state of the iterator; "raised" when the microphone did
  carry,       \* the encoder's zero to two bytes
  body,        \* the pieces yielded: digits, "=", and the ends of the envelope
  byTool,      \* who listens: the tool, or the console's interceptor
  heard,       \* the transcription: "none", "failed", "silence", "words"
  passed       \* what becomes of it: the tool's result or the console's line

voiceVars == <<recording, pulled, audioAt, carry, body, byTool, heard, passed>>

-----------------------------------------------------------------------------
(* B64StreamEncoder *)

\* The low bits of a group's last byte, shifted up to a whole digit.
LastDigit(b) == (b % 4) * 16

\* _encode_full, of whole groups of three.
Encoded(b0, b1, b2) ==
  <<b0 \div 4, (b0 % 4) * 16 + b1 \div 16, (b1 % 16) * 4 + b2 \div 64, b2 % 64>>

EncodeFull(data) ==
  FlattenSeq([g \in 1..(Len(data) \div 3) |->
                Encoded(data[3 * g - 2], data[3 * g - 1], data[3 * g])])

WholeGroups(data) == SubSeq(data, 1, (Len(data) \div 3) * 3)
Remainder(data) == SubSeq(data, (Len(data) \div 3) * 3 + 1, Len(data))

Flushed(rest) ==
  CASE rest = <<>>    -> <<>>
    [] Len(rest) = 1  -> <<rest[1] \div 4, LastDigit(rest[1]), "=", "=">>
    [] OTHER          -> <<rest[1] \div 4, (rest[1] % 4) * 16 + rest[2] \div 16,
                           (rest[2] % 16) * 4, "=">>

-----------------------------------------------------------------------------
(* _AudioBodyIter.__anext__ *)

\* The data at hand after chunk n.
Gathered(n) == carry \o FlattenSeq(SubSeq(recording, pulled + 1, n))

\* The first chunks that make a group together with the carry.
Enough == {n \in pulled + 1..Len(recording) : Len(Gathered(n)) >= 3}

Opening ==
  \/ audioAt = "head" /\ audioAt' = "prefix" /\ body' = <<"head">>
     /\ UNCHANGED <<recording, pulled, carry, byTool, heard, passed>>
  \/ audioAt = "prefix" /\ audioAt' = "audio" /\ body' = Append(body, "prefix")
     /\ UNCHANGED <<recording, pulled, carry, byTool, heard, passed>>

\* Chunks are pulled until they yield something.
Audio ==
  /\ audioAt = "audio" /\ Enough # {}
  /\ pulled' = Min(Enough) /\ carry' = Remainder(Gathered(Min(Enough)))
  /\ body' = body \o EncodeFull(WholeGroups(Gathered(Min(Enough))))
  /\ UNCHANGED <<recording, audioAt, byTool, heard, passed>>

\* The recording ends: the carry is flushed at once, or the tail follows.
FlushCarry ==
  /\ audioAt = "audio" /\ Enough = {}
  /\ \E rest \in {Gathered(Len(recording))} :
        /\ audioAt' = IF rest = <<>> THEN "done" ELSE "tail"
        /\ body' = body \o (IF rest = <<>> THEN <<"tail">> ELSE Flushed(rest))
  /\ pulled' = Len(recording) /\ carry' = <<>>
  /\ UNCHANGED <<recording, byTool, heard, passed>>

ClosingEnvelope ==
  /\ audioAt = "tail" /\ audioAt' = "done" /\ body' = Append(body, "tail")
  /\ UNCHANGED <<recording, pulled, carry, byTool, heard, passed>>

\* The microphone raises in the middle.
MicRaises ==
  /\ audioAt = "audio" /\ audioAt' = "raised"
  /\ UNCHANGED <<recording, pulled, carry, body, byTool, heard, passed>>

-----------------------------------------------------------------------------
(* The listeners *)

\* The microphone cannot be opened, or the provider takes no streamed body: an
\* error without a request.
CannotListen ==
  /\ audioAt = "head" /\ heard = "none" /\ heard' = "failed"
  /\ UNCHANGED <<recording, pulled, audioAt, carry, body, byTool, passed>>

\* send_streaming_body returns, with the body drained, or raises.
Transcribed ==
  /\ heard = "none"
  /\ heard' \in (IF audioAt = "done" THEN {"words", "silence"} ELSE {})
                  \cup (IF audioAt # "head" THEN {"failed"} ELSE {})
  /\ UNCHANGED <<recording, pulled, audioAt, carry, body, byTool, passed>>

\* execute returns the words or says why there are none; the console publishes
\* the words, and the error in their place, but no silence.
PassOnHeard ==
  /\ heard # "none" /\ passed = "none"
  /\ passed' = CASE byTool              -> "result"
                 [] heard = "silence"   -> "prompt"
                 [] OTHER               -> "published"
  /\ UNCHANGED <<recording, pulled, audioAt, carry, body, byTool, heard>>

VoiceInit ==
  /\ recording \in Recordings /\ byTool \in BOOLEAN
  /\ pulled = 0 /\ audioAt = "head" /\ carry = <<>> /\ body = <<>>
  /\ heard = "none" /\ passed = "none"

VoiceNext ==
  \/ heard = "none" /\ (Opening \/ Audio \/ FlushCarry \/ ClosingEnvelope \/ MicRaises)
  \/ CannotListen \/ Transcribed \/ PassOnHeard

VoiceSpec == VoiceInit /\ [][VoiceNext]_voiceVars

-----------------------------------------------------------------------------
(* Properties *)

\* Base64 by its definition: the bits of all bytes in a row, six to a digit, the
\* last digit filled up with zeros and the last group with "=".
BitWeight == <<128, 64, 32, 16, 8, 4, 2, 1>>
Bit(data, i) ==
  IF i < 8 * Len(data) THEN (data[i \div 8 + 1] \div BitWeight[(i % 8) + 1]) % 2 ELSE 0
Digit(data, d) ==
  32 * Bit(data, 6 * d - 6) + 16 * Bit(data, 6 * d - 5) + 8 * Bit(data, 6 * d - 4)
    + 4 * Bit(data, 6 * d - 3) + 2 * Bit(data, 6 * d - 2) + Bit(data, 6 * d - 1)
Digits(data) == (8 * Len(data) + 5) \div 6
Base64(data) ==
  [d \in 1..Digits(data) |-> Digit(data, d)]
    \o [i \in 1..((4 - (Digits(data) % 4)) % 4) |-> "="]

\* b64.py: "We can't pad mid-stream".  However the recording is cut into chunks,
\* empty ones and such of one byte among them, what is sent is at any time a
\* beginning of the whole recording's body, and all of it in the end.
RecordingIsWhole ==
  LET whole == <<"head", "prefix">> \o Base64(FlattenSeq(recording)) \o <<"tail">>
  IN IsPrefix(body, whole) /\ (audioAt = "done" => body = whole)

\* listener.py: no words of a recording that was cut short are taken for the
\* user's, and silence publishes nothing.
WordsAreHeard ==
  /\ passed = "published" => heard \in {"words", "failed"}
  /\ heard = "words" => audioAt = "done" /\ body[Len(body)] = "tail"

VoiceRight == RecordingIsWhole /\ WordsAreHeard
=============================================================================
