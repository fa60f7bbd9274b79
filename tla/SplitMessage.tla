---------------------------- MODULE SplitMessage ----------------------------
(***************************************************************************)
(* What the vendored chat channels get from exoclaw-nanobot-compat: a long *)
(* reply is split for a chat that takes max_len characters a message       *)
(* (split_message), and a user's message is let in (BaseChannel).          *)
(***************************************************************************)
EXTENDS Integers, Sequences, FiniteSetsExt

CONSTANTS
  LongTexts,    \* texts over "n", a newline, and other characters
  MaxLengths,   \* max_len
  AllowFroms    \* allow_from, over senders and "*"

ASSUME SplitAssumption ==
  /\ MaxLengths \subseteq Nat \ {0}
  /\ \A t \in LongTexts : t \in [1..Len(t) -> {"n", "x"}]

VARIABLES
  longText, maxLen,
  chunks,       \* those split off: longText[from + 1] to longText[to]
  restAt,       \* text, as the loop goes on, is longText[restAt + 1] and what follows
  allowFrom,
  busSet,       \* start() was called
  letIn         \* senders whose messages were published

splitVars == <<longText, maxLen, chunks, restAt, allowFrom, busSet, letIn>>

Senders == {"friend", "stranger"}

\* rfind(newlines, 0, max_len): the last place of k newlines in the first max_len
\* characters of the rest, from 0; -1 without any.
LastNewlines(k) ==
  Max({-1} \cup {p \in 0..(maxLen - k) : \A i \in 1..k : longText[restAt + p + i] = "n"})

LastBlankLine == LastNewlines(2)
LastLine == LastNewlines(1)

\* Where to cut the rest, longer than maxLen: at a blank line of its second half, at
\* a line's end past its first quarter, or right there.
CutLength ==
  CASE LastBlankLine >= maxLen \div 2                                -> LastBlankLine
    [] LastBlankLine < maxLen \div 2 /\ LastLine >= maxLen \div 4     -> LastLine
    [] OTHER                                                        -> maxLen

\* lstrip("\n"): the next place that is no newline's.
Unlined(p) == Min({q \in p..Len(longText) : q < Len(longText) => longText[q + 1] # "n"})

SplitOff ==
  /\ Len(longText) - restAt > maxLen
  /\ chunks' = Append(chunks, [from |-> restAt, to |-> restAt + CutLength])
  /\ restAt' = Unlined(restAt + CutLength)
  /\ UNCHANGED <<longText, maxLen, allowFrom, busSet, letIn>>

SplitEnds ==
  /\ restAt < Len(longText) /\ Len(longText) - restAt <= maxLen
  /\ chunks' = Append(chunks, [from |-> restAt, to |-> Len(longText)])
  /\ restAt' = Len(longText)
  /\ UNCHANGED <<longText, maxLen, allowFrom, busSet, letIn>>

\* is_allowed
Allowed(sender) == "*" \in allowFrom \/ sender \in allowFrom

\* _handle_message; without a bus or a permission the message is dropped.
HandleMessage ==
  /\ \E sender \in Senders :
        letIn' = IF Allowed(sender) /\ busSet THEN letIn \cup {sender} ELSE letIn
  /\ UNCHANGED <<longText, maxLen, chunks, restAt, allowFrom, busSet>>

ChannelStarts ==
  /\ busSet' = TRUE
  /\ UNCHANGED <<longText, maxLen, chunks, restAt, allowFrom, letIn>>

SplitInit ==
  /\ longText \in LongTexts /\ maxLen \in MaxLengths /\ chunks = <<>> /\ restAt = 0
  /\ allowFrom \in AllowFroms /\ busSet = FALSE /\ letIn = {}

SplitNext == SplitOff \/ SplitEnds \/ HandleMessage \/ ChannelStarts

SplitSpec == SplitInit /\ [][SplitNext]_splitVars

-----------------------------------------------------------------------------
(* Properties *)

SplitTypeOK ==
  /\ restAt \in 0..Len(longText) /\ busSet \in BOOLEAN /\ letIn \subseteq Senders
  /\ \A i \in 1..Len(chunks) : chunks[i].from \in 0..restAt /\ chunks[i].to \in chunks[i].from..restAt

\* "Split text at paragraph/line boundaries under max_len chars": the messages
\* follow one another, none is too long and none but the first is blank, only
\* newlines are lost, and a line is torn only where the last newline is in the
\* first quarter.
SplitRight ==
  /\ \A i, j \in 1..Len(chunks) : i < j => chunks[i].to <= chunks[j].from
  /\ \A p \in 1..restAt :
        longText[p] = "n" \/ \E i \in 1..Len(chunks) : chunks[i].from < p /\ p <= chunks[i].to
  /\ \A i \in 1..Len(chunks) :
        /\ chunks[i].to - chunks[i].from <= maxLen
        /\ i > 1 => chunks[i].from < chunks[i].to /\ longText[chunks[i].from + 1] # "n"
        /\ chunks[i].to - chunks[i].from = maxLen /\ chunks[i].to < Len(longText) =>
             \A p \in (maxLen \div 4)..(maxLen - 1) : longText[chunks[i].from + p + 1] # "n"
  /\ "stranger" \in letIn => allowFrom \cap {"stranger", "*"} # {}
=============================================================================
