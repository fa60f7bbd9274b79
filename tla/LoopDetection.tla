--------------------------- MODULE LoopDetection ---------------------------
(***************************************************************************)
(* exoclaw-loop-detection as create() in exoclaw-nanobot wires it: one     *)
(* LoopDetectionPolicy for every top-level turn.  A turn's start clears    *)
(* the history, every model answer's tool calls are recorded in it, and    *)
(* should_continue reads it; the turns of several sessions interleave at   *)
(* the awaits of their loops.  A call is its fingerprint.                  *)
(***************************************************************************)
EXTENDS Integers, Sequences, SequencesExt, FiniteSetsExt

CONSTANTS
  Loopers,     \* sessions
  Calls,       \* fingerprints (name and arguments)
  Sizes,       \* history_size, chosen at the start
  Critical,    \* critical_threshold
  Breaker      \* global_circuit_breaker

ASSUME LoopAssumption ==
  Sizes \subseteq Nat \ {0} /\ Critical \in Nat \ {0} /\ Breaker \in Nat

VARIABLES
  size,       \* history_size
  history,    \* what the policy keeps
  turn,       \* a session's turn: its last verdict, if no call was recorded since
  iteration,
  \* what an observer has seen
  mixed,      \* sessions whose turn met another one
  recorded    \* the calls of the turn of a session that is not

loopVars == <<size, history, turn, iteration, recorded, mixed>>

LoopTypeOK ==
  /\ size \in Sizes
  /\ history \in Seq(Calls) /\ Len(history) <= size
  /\ turn \in [Loopers -> {"idle", "asks", "goes on", "stopped"}]
  /\ iteration \in [Loopers -> 0..Breaker + 1]
  /\ recorded \in [Loopers -> Seq(Calls)] /\ mixed \subseteq Loopers

LoopInit ==
  /\ size \in Sizes /\ history = <<>>
  /\ turn = [s \in Loopers |-> "idle"] /\ iteration = [s \in Loopers |-> 0]
  /\ recorded = [s \in Loopers |-> <<>>] /\ mixed = {}

UnderWay == {s \in Loopers : turn[s] # "idle"}
LastN(s, n) == SubSeq(s, IF Len(s) > n THEN Len(s) - n + 1 ELSE 1, Len(s))

\* (Seeded bug: one call too few is kept.)
KeptLess(s) == LastN(s, size - 1)

\* history[-history_size:]
Kept(s) == LastN(s, size)

\* How many calls at the end of s equal the last one.
Streak(s) == Max({n \in 1..Len(s) : \A k \in 0..n - 1 : s[Len(s) - k] = Last(s)})

\* How many calls at the end of s repeat its last two, pair by pair.
Paired(s) ==
  2 * Max({n \in 1..Len(s) \div 2 :
              \A k \in 0..2 * n - 1 : s[Len(s) - k] = s[Len(s) - (k % 2)]})

Repeats(s) == Len(s) >= Critical /\ Streak(s) >= Critical

PingPong(s) ==
  /\ Len(s) >= Critical /\ Len(s) >= 4
  /\ s[Len(s)] # s[Len(s) - 1]
  /\ Paired(s) >= Critical

\* on_pre_context: a turn begins, and resets the policy.
BeginTurn(s) ==
  /\ turn[s] = "idle"
  /\ turn' = [turn EXCEPT ![s] = "asks"]
  /\ history' = <<>>
  /\ iteration' = [iteration EXCEPT ![s] = 0]
  /\ recorded' = [l \in Loopers |-> <<>>]
  /\ mixed' = IF UnderWay = {} THEN mixed \ {s} ELSE mixed \cup UnderWay \cup {s}
  /\ UNCHANGED size

\* should_continue, before the next model call.
ShouldContinue(s) ==
  /\ turn[s] = "asks"
  /\ turn' = [turn EXCEPT ![s] =
                 IF \/ iteration[s] >= Breaker
                    \/ history # <<>> /\ (Repeats(history) \/ PingPong(history))
                 THEN "stopped" ELSE "goes on"]
  /\ iteration' = [iteration EXCEPT ![s] = @ + 1]
  /\ UNCHANGED <<size, history, recorded, mixed>>

\* on_tool_calls: the answer's calls, here up to two, are recorded one by one.
RecordCalls(s) ==
  /\ turn[s] = "goes on"
  /\ \E n \in 1..2 : \E cs \in [1..n -> Calls] :
        /\ history' = Kept(IF n = 1 THEN Append(history, cs[1])
                           ELSE Append(Kept(Append(history, cs[1])), cs[2]))
        /\ recorded' = [recorded EXCEPT ![s] = IF s \in mixed THEN @ ELSE @ \o cs]
  /\ turn' = [turn EXCEPT ![s] = "asks"]
  /\ UNCHANGED <<size, iteration, mixed>>

\* The model answers without a tool call, or raises, or on_limit_reached words
\* the last answer.
TurnEnds(s) ==
  /\ turn[s] \in {"goes on", "stopped"}
  /\ turn' = [turn EXCEPT ![s] = "idle"]
  /\ recorded' = [recorded EXCEPT ![s] = <<>>]
  /\ UNCHANGED <<size, history, iteration, mixed>>

LoopNext == \E s \in Loopers : BeginTurn(s) \/ ShouldContinue(s) \/ RecordCalls(s) \/ TurnEnds(s)

LoopSpec == LoopInit /\ [][LoopNext]_loopVars

-----------------------------------------------------------------------------
EvenAbove(n) == n + (n % 2)

\* Two calls alternate over four calls at least.
PairRun == IF Critical > 4 THEN EvenAbove(Critical) ELSE 4

\* The last n of the calls have the given period, with no shorter one.
Cycling(calls, period, n) ==
  LET r == LastN(calls, n)
  IN /\ Len(r) = n
     /\ \A k \in period + 1..n : r[k] = r[k - period]
     /\ period = 2 => r[1] # r[2]

\* policy.py: a turn is stopped when one call is made critical_threshold times
\* in a row or two calls alternate over that many calls (four at least), and
\* "productive runs ... are never interrupted".  The docstring and config.py
\* speak of critical_threshold cycles A, B: the code counts two for each, so it
\* stops after half as many, and this property is about the calls it counts.
\* That is so, however the calls come in, for a turn that met no other (the
\* policy is shared), but for a history_size below the threshold.
LoopRight ==
  \A s \in Loopers \ mixed :
     /\ turn[s] = "stopped" =>
           \/ iteration[s] > Breaker
           \/ Cycling(recorded[s], 1, Critical) \/ Cycling(recorded[s], 2, EvenAbove(Critical))
     /\ turn[s] = "goes on" =>
           /\ Cycling(recorded[s], 1, Critical) => size < Critical
           /\ Cycling(recorded[s], 2, PairRun) => size < PairRun
=============================================================================
