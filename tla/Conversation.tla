---------------------------- MODULE Conversation ----------------------------
(***************************************************************************)
(* exoclaw-conversation: one session's append-only log, the consolidation  *)
(* sidecar beside it, and the long-term memory files.                      *)
(*                                                                         *)
(* A turn appends its messages one by one; after it, post_turn starts a    *)
(* background pass (maintain) that summarizes the next chunk of the log    *)
(* when enough of it is unsummarized; a turn that overflows the context    *)
(* window summarizes a chunk itself (recover).  Both load the sidecar,     *)
(* await the model, and save what they made of the sidecar they loaded.    *)
(* clear resets the log and removes the sidecar.  What the next prompt     *)
(* shows is the summary and the log past the sidecar's boundary.           *)
(*                                                                         *)
(* The only await that suspends is the one for the summary.  What writes   *)
(* several files may fail, or the process die, after each of them; one     *)
(* file is written as a whole.  Turns of the session run one at a time,    *)
(* under the DBOS executor: a crash leaves the files and resumes the turn, *)
(* which may repeat its last append.  The model is assumed to fill in both *)
(* required fields of save_memory.                                         *)
(***************************************************************************)
EXTENDS Integers, Sequences, FiniteSets, SequencesExt

CONSTANTS
  Window,        \* memory_window
  CallShapes,    \* assistant messages: how many calls, with or without text
  Legacy,        \* possible last_consolidated values of an old log's header
  MaxMessages,   \* bound on messages ever appended
  MaxClears,     \* bound on clears
  MaxCrashes     \* bound on crashes

ASSUME ConstantsAssumption ==
  /\ Window \in Nat \ {0} /\ MaxMessages \in Nat
  /\ CallShapes \subseteq [calls : 1..2, text : BOOLEAN]
  /\ Legacy \subseteq 0..MaxMessages
  /\ MaxClears \in Nat /\ MaxCrashes \in Nat

VARIABLES
  \* files
  log,          \* messages of <session>.jsonl
  header,       \* last_consolidated in its metadata line (old versions wrote it)
  sidecar,      \* <session>.consolidation.json
  memory,       \* messages whose facts are in MEMORY.md
  entries,      \* messages summarized in HISTORY.md
  \* DBOS journal
  turn,         \* the turn in progress
  redo,         \* the last message is in the log but not in the journal
  \* process memory
  pass,         \* pass["maintain"], pass["recover"]: summaries in flight
  \* what an observer has seen
  count,        \* messages ever appended
  clears, crashes,
  leftover,     \* a boundary of an earlier log that is or was in this log's
                \* sidecar: a clear left it there, or a pass it overtook saved it
  torn,         \* messages of chunks that got into HISTORY.md, not MEMORY.md
  overlap       \* two passes have been in flight together

files == <<log, header, sidecar, memory, entries>>
journal == <<turn, redo>>
history == <<count, clears, crashes, leftover, torn, overlap>>
vars == <<files, journal, pass, history>>

Passes == {"maintain", "recover"}
NoSidecar == [through |-> 0, folded |-> {}, there |-> FALSE]
Sidecars == [through : Nat, folded : SUBSET (1..MaxMessages), there : BOOLEAN]
CallIds == 2..(2 * MaxMessages + 1)

\* calls: the ids of an assistant message's tool calls, re: the id a tool
\* message answers, text: whether it has content beside the calls.
Messages == [n : 1..MaxMessages, role : {"user", "assistant", "tool"},
             calls : SUBSET CallIds, re : CallIds \cup {0}, text : BOOLEAN]

Idle == [state |-> "idle", owed |-> {}, last |-> FALSE]
Off == [on |-> FALSE, loaded |-> NoSidecar, chunk |-> {}, end |-> 0, total |-> 0,
        seen |-> {}, stale |-> FALSE, clears |-> 0]

TypeOK ==
  /\ log \in Seq(Messages) /\ header \in Nat /\ sidecar \in Sidecars
  /\ memory \subseteq 1..MaxMessages /\ entries \subseteq 1..MaxMessages
  /\ turn \in [state : {"idle", "prompted", "open", "ending"}, owed : SUBSET CallIds,
               last : BOOLEAN]
  /\ redo \in BOOLEAN
  /\ pass \in [Passes -> [on : BOOLEAN, loaded : Sidecars, chunk : SUBSET (1..MaxMessages),
                          end : Nat, total : Nat, seen : SUBSET (1..MaxMessages),
                          stale : BOOLEAN, clears : 0..MaxClears]]
  /\ \A p \in Passes : pass[p].end <= pass[p].total
  /\ count \in 0..MaxMessages /\ clears \in 0..MaxClears /\ crashes \in 0..MaxCrashes
  /\ leftover \in Nat /\ torn \subseteq 1..MaxMessages /\ overlap \in BOOLEAN

User(n) == [n |-> n, role |-> "user", calls |-> {}, re |-> 0, text |-> TRUE]
Reply(n) == [User(n) EXCEPT !.role = "assistant"]
Calls(n, k, text) ==
  [User(n) EXCEPT !.role = "assistant", !.calls = (2 * n)..(2 * n + k - 1), !.text = text]
Tool(n, c) == [User(n) EXCEPT !.role = "tool", !.re = c]

\* A session of an old version starts with its log and a header.
Init ==
  /\ header \in Legacy
  /\ log = [i \in 1..header |-> User(i)]
  /\ count = header
  /\ sidecar = NoSidecar /\ memory = {} /\ entries = {}
  /\ turn = Idle /\ redo = FALSE
  /\ pass = [p \in Passes |-> Off]
  /\ clears = 0 /\ crashes = 0 /\ leftover = 0 /\ torn = {} /\ overlap = FALSE

-----------------------------------------------------------------------------
(* The sidecar and the view *)

\* (Seeded bug: an old header wins over the sidecar.)
LoadedHeaderFirst ==
  IF header > 0
  THEN [through |-> header, folded |-> {log[i].n : i \in 1..header}, there |-> TRUE]
  ELSE sidecar

\* load_state: without a sidecar the header of an old log seeds one.
Loaded ==
  IF ~sidecar.there /\ header > 0
  THEN [through |-> header, folded |-> {log[i].n : i \in 1..header}, there |-> TRUE]
  ELSE sidecar

\* The session's reader: messages start to end - 1 of the file.
Slice(start, end) == SubSeq(log, start + 1, IF end < Len(log) THEN end ELSE Len(log))

\* transform: the log past the boundary, after the summary.
Tailed(through) == Slice(through, Len(log))

\* (Seeded bug: a call counts as answered when it is declared.)
RepairedDeclaredOnly(view) ==
  LET declared == UNION {m.calls : m \in ToSet(view)}
  IN SelectSeq(view, LAMBDA m : m.role = "tool" => m.re \in declared)

\* The calls of a view that it both declares and answers.
Valid(view) ==
  (UNION {m.calls : m \in ToSet(view)}) \cap {m.re : m \in {x \in ToSet(view) : x.role = "tool"}}

\* Tool messages without their call go; so does a message that is left with
\* neither calls nor text.
Keeps(m, valid) ==
  IF m.role = "tool" THEN m.re \in valid
  ELSE m.calls # {} => (m.calls \cap valid # {}) \/ m.text

\* _repair_and_project: what is kept, without the calls that have no result.
Repaired(view) ==
  LET valid == Valid(view)
      repaired[i \in 0..Len(view)] ==
        IF i = 0 THEN <<>>
        ELSE IF Keeps(view[i], valid)
             THEN Append(repaired[i - 1], [view[i] EXCEPT !.calls = @ \cap valid])
             ELSE repaired[i - 1]
  IN repaired[Len(view)]

\* What build_prompt or a recovery would show now.
View == Repaired(Tailed(Loaded.through))

\* _repair_boundary: the first index from boundary on, at most total, that is
\* neither at a tool message nor behind an assistant's calls.
RepairBoundary(boundary, total) ==
  LET end == IF total < Len(log) THEN total ELSE Len(log)
      splits(i) == \/ log[i + 1].role = "tool"
                   \/ i \in DOMAIN log /\ log[i].calls # {}
  IN IF boundary >= end THEN boundary
     ELSE CHOOSE i \in boundary..end :
             /\ i < end => ~splits(i)
             /\ \A j \in boundary..(i - 1) : splits(j)

-----------------------------------------------------------------------------
(* The turn *)

\* build_prompt; transform may persist a migrated sidecar.
BuildPrompt ==
  /\ turn.state = "idle"
  /\ count < MaxMessages
  /\ turn' = [Idle EXCEPT !.state = "prompted"]
  /\ sidecar' = Loaded
  /\ UNCHANGED <<log, header, memory, entries, redo, pass, history>>

\* Every append waits for the one before it, and for a recovery of its turn.
CanAppend == ~redo /\ ~pass["recover"].on

AppendTo(m, next) ==
  /\ log' = Append(log, m)
  /\ count' = count + 1
  /\ turn' = [next EXCEPT !.last = TRUE]

\* _prepare_turn drops a message that is empty once it is cleaned.
Dropped(next) ==
  /\ turn' = [next EXCEPT !.last = FALSE]
  /\ UNCHANGED <<log, count>>

AppendUser ==
  /\ turn.state = "prompted" /\ CanAppend
  /\ LET next == [turn EXCEPT !.state = "open"]
     IN \/ count < MaxMessages /\ AppendTo(User(count + 1), next)
        \/ Dropped(next)
  /\ UNCHANGED <<header, sidecar, memory, entries, redo, pass,
                 clears, crashes, leftover, torn, overlap>>

AppendCalls ==
  /\ turn.state = "open" /\ turn.owed = {} /\ CanAppend
  /\ count < MaxMessages
  /\ \E shape \in CallShapes :
        LET m == Calls(count + 1, shape.calls, shape.text)
        IN AppendTo(m, [turn EXCEPT !.owed = m.calls])
  /\ UNCHANGED <<header, sidecar, memory, entries, redo, pass,
                 clears, crashes, leftover, torn, overlap>>

AppendTool ==
  /\ turn.state = "open" /\ CanAppend
  /\ count < MaxMessages
  /\ \E c \in turn.owed : AppendTo(Tool(count + 1, c), [turn EXCEPT !.owed = @ \ {c}])
  /\ UNCHANGED <<header, sidecar, memory, entries, redo, pass,
                 clears, crashes, leftover, torn, overlap>>

\* The final reply; a turn may also end in an error, without one.
AppendReply ==
  /\ turn.state = "open" /\ CanAppend
  /\ LET next == [turn EXCEPT !.state = "ending", !.owed = {}]
     IN \/ turn.owed = {} /\ count < MaxMessages /\ AppendTo(Reply(count + 1), next)
        \/ Dropped(next)
  /\ UNCHANGED <<header, sidecar, memory, entries, redo, pass,
                 clears, crashes, leftover, torn, overlap>>

\* The journal has no entry for the last append: it is made again.
AppendAgain ==
  /\ redo
  /\ log' = Append(log, Last(log))
  /\ redo' = FALSE
  /\ UNCHANGED <<header, sidecar, memory, entries, turn, pass, history>>

-----------------------------------------------------------------------------
(* Summaries *)

\* (Seeded bug: the end is not cut at the end of the log.)
ChunkEndUncut(through) == through + Window

\* The chunk past the boundary, one window long at most.
ChunkEnd(through) ==
  IF through + Window < Len(log) THEN through + Window ELSE Len(log)

\* Both read the sidecar, the log's length, the chunk and MEMORY.md, and await.
BeginPass(p) ==
  /\ pass' = [pass EXCEPT ![p] =
                 [on |-> TRUE, loaded |-> Loaded,
                  chunk |-> {m.n : m \in ToSet(Slice(Loaded.through, ChunkEnd(Loaded.through)))},
                  end |-> ChunkEnd(Loaded.through),
                  total |-> Len(log), seen |-> memory, stale |-> FALSE, clears |-> clears]]
  /\ overlap' = (overlap \/ \E q \in Passes \ {p} : pass[q].on)

\* The task of post_turn gives up when one is in flight or too little has come.
Maintain ==
  IF pass["maintain"].on THEN UNCHANGED <<sidecar, pass, overlap>>
  ELSE /\ sidecar' = Loaded
       /\ IF Len(log) - Loaded.through < Window
          THEN UNCHANGED <<pass, overlap>>
          ELSE BeginPass("maintain")

\* post_turn skips the turns whose remembered channel is "hook"; the task it
\* creates for the others begins before the next turn does.
PostTurn ==
  /\ turn.state = "ending" /\ ~redo
  /\ \/ Maintain
     \/ UNCHANGED <<sidecar, pass, overlap>>
  /\ turn' = Idle
  /\ UNCHANGED <<log, header, memory, entries, redo, count, clears, crashes, leftover,
                 torn>>

\* The model call of a turn overflows: with nothing left to summarize the turn
\* gives up at once, and nothing changes.
Recover ==
  /\ turn.state = "open" /\ turn.owed = {} /\ CanAppend
  /\ Len(log) > Loaded.through
  /\ sidecar' = Loaded
  /\ BeginPass("recover")
  /\ UNCHANGED <<log, header, memory, entries, journal,
                 count, clears, crashes, leftover, torn>>

\* (Seeded bug: what the model was not shown is lost.)
RememberOnlyChunk(w, written) ==
  /\ entries' = IF written = "none" THEN entries ELSE entries \cup w.chunk
  /\ memory' = IF written = "both" THEN w.chunk ELSE memory
  /\ torn' = IF written = "both" THEN torn \ w.chunk
             ELSE torn \cup (entries' \ (entries \cup memory))

\* MemoryStore.summarize: an entry for HISTORY.md, and then MEMORY.md as the
\* model rewrote what it was shown, as far as it gets.
Remember(w, written) ==
  /\ entries' = IF written = "none" THEN entries ELSE entries \cup w.chunk
  /\ memory' = IF written = "both" THEN w.seen \cup w.chunk ELSE memory
  /\ torn' = IF written = "both" THEN torn \ w.chunk
             ELSE torn \cup (entries' \ (entries \cup memory))

\* (Seeded bug: the boundary moves to the end of the log.)
AdvancedToTotal(w) ==
  [through |-> RepairBoundary(w.total, w.total),
   folded |-> w.loaded.folded \cup w.chunk, there |-> TRUE]

\* The sidecar a pass saves: what it loaded, advanced by its chunk.
Advanced(w) ==
  [through |-> RepairBoundary(w.end, w.total),
   folded |-> w.loaded.folded \cup w.chunk, there |-> TRUE]

Saved(p, new) ==
  /\ sidecar' = [new EXCEPT !.there = TRUE]
  /\ leftover' = IF pass[p].clears < clears /\ new.through > leftover
                 THEN new.through ELSE leftover

\* Any other pass in flight holds a sidecar that is no longer the one on disk.
EndPass(p) ==
  pass' = [q \in Passes |-> IF q = p THEN Off ELSE [pass[q] EXCEPT !.stale = (@ \/ pass[q].on)]]

\* The summary arrives: HISTORY.md, MEMORY.md and the sidecar are written.
Summarized(p) ==
  /\ pass[p].on
  /\ Remember(pass[p], "both")
  /\ Saved(p, Advanced(pass[p]))
  /\ EndPass(p)
  /\ UNCHANGED <<log, header, journal, count, clears, crashes, overlap>>

\* The model fails or declines, or one of the memory files cannot be written.
\* on_turn_complete saves the sidecar it loaded all the same; a recovery saves
\* nothing and its turn ends.
MaintainFails ==
  /\ pass["maintain"].on
  /\ \E written \in {"none", "entry"} : Remember(pass["maintain"], written)
  /\ Saved("maintain", pass["maintain"].loaded)
  /\ EndPass("maintain")
  /\ UNCHANGED <<log, header, journal, count, clears, crashes, overlap>>

RecoverFails ==
  /\ pass["recover"].on
  /\ \E written \in {"none", "entry"} : Remember(pass["recover"], written)
  /\ pass' = [pass EXCEPT !["recover"] = Off]
  /\ turn' = [turn EXCEPT !.state = "ending", !.last = FALSE]
  /\ UNCHANGED <<log, header, sidecar, redo, count, clears, crashes, leftover, overlap>>

\* Only the sidecar cannot be written: the pass of post_turn is over with that,
\* and so is the turn that was to recover.
SaveFails(p) ==
  /\ pass[p].on
  /\ Remember(pass[p], "both")
  /\ pass' = [pass EXCEPT ![p] = Off]
  /\ turn' = IF p = "recover" THEN [turn EXCEPT !.state = "ending", !.last = FALSE] ELSE turn
  /\ UNCHANGED <<log, header, sidecar, redo, count, clears, crashes, leftover, overlap>>

-----------------------------------------------------------------------------
(* clear, and crashes *)

\* clear between two turns rewrites the log without its messages.
ClearLog ==
  /\ turn.state = "idle"
  /\ clears < MaxClears /\ clears' = clears + 1
  /\ log' = <<>> /\ header' = 0

\* delete_state, which passes over an unlink that fails.  A pass of the last
\* turn's may be in flight.
Clear ==
  /\ ClearLog
  /\ \/ sidecar' = NoSidecar /\ leftover' = 0
     \/ sidecar' = sidecar /\ leftover' = sidecar.through
  /\ pass' = [p \in Passes |-> [pass[p] EXCEPT !.stale = (@ \/ pass[p].on)]]
  /\ UNCHANGED <<memory, entries, journal, count, crashes, torn, overlap>>

Dies ==
  /\ crashes < MaxCrashes /\ crashes' = crashes + 1
  /\ pass' = [p \in Passes |-> Off]

\* The process dies between the two.
CrashInClear ==
  /\ ClearLog
  /\ Dies
  /\ leftover' = sidecar.through
  /\ UNCHANGED <<sidecar, memory, entries, journal, count, torn, overlap>>

\* The process dies, perhaps when a summary has come and part of it is written.
\* DBOS resumes the turn, which builds its prompt again and repeats the last
\* append if its journal entry was not made.
Crash ==
  /\ Dies
  /\ \/ UNCHANGED <<memory, entries, torn>>
     \/ \E p \in Passes, written \in {"entry", "both"} :
           pass[p].on /\ Remember(pass[p], written)
  /\ redo' \in {redo, turn.last}
  /\ UNCHANGED <<log, header, sidecar, turn, count, clears, leftover, overlap>>

TurnStep == AppendUser \/ AppendReply \/ AppendAgain \/ PostTurn

Next ==
  \/ BuildPrompt
  \/ TurnStep \/ AppendCalls \/ AppendTool
  \/ \E p \in Passes : Summarized(p)
  \/ Recover \/ MaintainFails \/ RecoverFails
  \/ \E p \in Passes : SaveFails(p)
  \/ Clear \/ CrashInClear \/ Crash

Spec == Init /\ [][Next]_vars

-----------------------------------------------------------------------------
(* Properties *)

\* Every message is in the summary or in the tail that the next prompt shows,
\* whatever passes overlap, fail or are cut by a crash, but for those at which
\* the boundary was moved to keep a call and its results together, and those
\* that lie before a boundary of an earlier log: a clear leaves it in the
\* sidecar when the process dies or the unlink fails after the log was cleared,
\* and a pass that was in flight brings it back.
LeftOutOnlyByRepair ==
  /\ Loaded.through <= Len(log) \/ Loaded.through <= leftover
  /\ \A i \in (leftover + 1)..Loaded.through :
        \/ log[i].n \in Loaded.folded
        \/ log[i].role = "tool"
        \/ i > 1 /\ log[i - 1].calls # {}

\* The boundary moves back by a clear, or when a pass saves over a sidecar that
\* it did not load.
BackOnlyIfStale ==
  [][sidecar'.through < sidecar.through =>
        \/ log' = <<>>
        \/ \E p \in Passes : pass[p].stale /\ ~pass'[p].on]_vars

\* session/manager.py: a prompt has no tool result without its call earlier in
\* the list and no call without its result, wherever the boundary, a crash or a
\* turn in progress cut.
ViewPairsUp ==
  LET v == View
  IN \A i \in DOMAIN v :
        /\ v[i].role = "tool" => \E j \in 1..(i - 1) : v[i].re \in v[j].calls
        /\ \A c \in v[i].calls : \E j \in (i + 1)..Len(v) : v[j].re = c

\* MEMORY.md is rewritten from a reading made before the await: facts get lost
\* only when two passes overlap, and HISTORY.md is ahead of it only by the
\* chunks of passes that ended between the two files.
RememberedUnlessOverlap == overlap \/ entries \subseteq memory \cup torn

=============================================================================
