----------------------------- MODULE BatchTool -----------------------------
(***************************************************************************)
(* exoclaw-tools-batch/tool.py: one BatchTool instance that several agent  *)
(* loops share.  A call runs a tool of a registry once per item, at most   *)
(* `concurrency` at a time.  ToolRegistry.current(), a context variable,   *)
(* names the registry that dispatched the call; set_registry leaves a      *)
(* fallback that the loop constructed last overwrites.                     *)
(***************************************************************************)
EXTENDS Integers, FiniteSets, Sequences, FiniteSetsExt

CONSTANTS
  Dispatches,   \* calls of the batch tool, each by a loop of its own
  NoLoop,
  Direct,       \* calls made without a registry's dispatch
  HasTool,      \* loops whose registry has the tool
  ItemCount,    \* items of each call
  Concurrency

ASSUME BatchToolAssumption ==
  /\ IsFiniteSet(Dispatches) /\ NoLoop \notin Dispatches
  /\ Direct \subseteq Dispatches /\ HasTool \subseteq Dispatches
  /\ ItemCount \in Nat /\ Concurrency \in Nat \ {0}

VARIABLES
  fallback,   \* _registry
  fan,        \* the calls: the registry resolved, and how each item stands
  written,    \* the output file of each call, and its usage
  \* what an observer has seen
  executed    \* the registry and context each item ran with

batchToolVars == <<fallback, fan, written, executed>>

Items == 1..ItemCount
ItemState == {"waiting", "running", "ok", "priced", "error"}
Answered == {"ok", "priced", "error"}
NoFile == [results |-> <<>>, usage |-> 0]

BatchToolTypeOK ==
  /\ fallback \in Dispatches \cup {NoLoop}
  /\ fan \in [Dispatches -> [at : {"new", "open", "closed", "refused"},
                             registry : Dispatches \cup {NoLoop},
                             item : [Items -> ItemState]]]
  /\ \A d \in Dispatches :
        /\ written[d].results \in Seq(Answered) /\ written[d].usage \in 0..ItemCount
        /\ Cardinality({i \in Items : fan[d].item[i] = "running"}) <= Concurrency
  /\ executed \in [Dispatches -> [Items -> [registry : Dispatches \cup {NoLoop},
                                            context : Dispatches \cup {NoLoop}]]]

BatchToolInit ==
  /\ fallback = NoLoop
  /\ fan = [d \in Dispatches |->
              [at |-> "new", registry |-> NoLoop, item |-> [i \in Items |-> "waiting"]]]
  /\ written = [d \in Dispatches |-> NoFile]
  /\ executed = [d \in Dispatches |-> [i \in Items |-> [registry |-> NoLoop, context |-> NoLoop]]]

\* set_registry, from the constructor of an AgentLoop.
SetRegistry(l) ==
  /\ fallback # l
  /\ fallback' = l
  /\ UNCHANGED <<fan, written, executed>>

\* ToolRegistry.current() and the context, of a call through a registry.
Current(d) == IF d \in Direct THEN NoLoop ELSE d

\* (Seeded bug: the stored reference comes first.)
ResolvedStored(d) == IF fallback # NoLoop THEN fallback ELSE Current(d)

\* _resolve_registry
Resolved(d) == IF Current(d) # NoLoop THEN Current(d) ELSE fallback

\* _fan_out, up to the gather: without a registry or the tool it is an error.
Dispatch(d) ==
  /\ fan[d].at = "new"
  /\ fan' = [fan EXCEPT ![d].at = IF Resolved(d) \in HasTool THEN "open" ELSE "refused",
                        ![d].registry = Resolved(d)]
  /\ UNCHANGED <<fallback, written, executed>>

Running(d) == {i \in Items : fan[d].item[i] = "running"}

\* _run_one gets the semaphore and calls registry.execute, ...
StartItem(d, i) ==
  /\ fan[d].at = "open" /\ fan[d].item[i] = "waiting"
  /\ Cardinality(Running(d)) < Concurrency
  /\ fan' = [fan EXCEPT ![d].item[i] = "running"]
  /\ executed' = [executed EXCEPT ![d][i] = [registry |-> fan[d].registry, context |-> Current(d)]]
  /\ UNCHANGED <<fallback, written>>

\* ... which answers, with a usage or without, or raises.
EndItem(d, i) ==
  /\ fan[d].item[i] = "running"
  /\ \E answer \in Answered : fan' = [fan EXCEPT ![d].item[i] = answer]
  /\ UNCHANGED <<fallback, written, executed>>

\* gather is done: the results in the items' order, and the sum of their usage.
WriteBatch(d) ==
  /\ fan[d].at = "open" /\ \A i \in Items : fan[d].item[i] \in Answered
  /\ fan' = [fan EXCEPT ![d].at = "closed"]
  /\ written' = [written EXCEPT ![d] =
                    [results |-> [i \in Items |-> fan[d].item[i]],
                     usage |-> Cardinality({i \in Items : fan[d].item[i] = "priced"})]]
  /\ UNCHANGED <<fallback, executed>>

BatchToolNext ==
  \E d \in Dispatches :
     \/ SetRegistry(d) \/ Dispatch(d) \/ WriteBatch(d)
     \/ \E i \in Items : StartItem(d, i) \/ EndItem(d, i)

BatchToolSpec == BatchToolInit /\ [][BatchToolNext]_batchToolVars

-----------------------------------------------------------------------------
\* tool.py: the lookup is per task "so concurrent dispatches don't interfere",
\* whoever is constructed meanwhile, and the context "is forwarded ... for every
\* item"; a failing item spoils no other, and each result stands at its item's
\* place.
BatchRight ==
  \A d \in Dispatches \ Direct :
     /\ d \in HasTool => fan[d].at # "refused"
     /\ \A i \in Items : fan[d].item[i] # "waiting" =>
           executed[d][i] = [registry |-> d, context |-> d]
     /\ fan[d].at = "closed" => \A i \in Items : written[d].results[i] = fan[d].item[i]
=============================================================================
