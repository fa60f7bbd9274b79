# exoclaw-plugins in TLA+

Specifications, model-checking configurations and proofs for the stateful parts
of the exoclaw plugin packages. Every definition is translated from the Python
source under `src/packages/`; `PROJECT.json` maps each definition to its lines.

## 1. The system

exoclaw is an agent framework: an `AgentLoop` takes inbound messages from a bus,
runs a turn (prompt, LLM call, tool calls, repeat) and publishes the reply. This
repository holds the plugins around that loop. One process, one asyncio event
loop, files in a workspace directory, and optionally DBOS (a durable-execution
library over SQLite or Postgres) for crash recovery.

| Component | State it keeps | Operations | Talks to |
|---|---|---|---|
| subagent manager (`exoclaw-subagent/manager.py`, `spawner.py`, `spawn_tool.py`) | `_handles`, `_sessions`, a semaphore, one asyncio task per subagent | `spawn`, `_run`, `cancel_by_session` | batch store, bus |
| batch store (`exoclaw-subagent/batch_store.py`) | a snapshot and three sets per batch, `_announced` | `register`, `record_completion_and_maybe_announce` | calls back `announce` |
| durable batch store (`exoclaw-executor-dbos/batch_store.py`) | `batches/<b>/<task>.json`, `.announced` | the same, as DBOS steps | file system |
| DBOS spawner and intents (`subagent.py`, `intents.py`) | intent buffer, workflow registry | `start`, `cancel`, `_subagent_workflow` | executor |
| DBOS executor (`executor.py`) | active-session registry, intent buffer, scratch files | chat, tool, append and recovery steps, `enqueue_inbound`, `run_turn` | DBOS journal and queue |
| steering inbox and durable turn (`steering.py`, `turn.py`) | one mailbox file per session (+ `.draining`) | store, drain, `run_inbound_turn`, `run_durable_turn` | executor, loop, bus |
| cron service (`exoclaw-tools-cron/service.py`) | `_store` and `cron.json`, `_timer_task`, `_deferred`, `_lock` | add, remove, update, enable, run, tick, flush, start, stop | `on_job` (an agent turn) |
| cron tool (`exoclaw-tools-cron/tool.py`, `backend.py`) | destination and in-cron mark per task | the tool's actions | cron service |
| conversation (`exoclaw-conversation`) | session log, consolidation sidecar, memory files, one lock per session | append, build prompt, consolidate, recover from overflow, clear | LLM (summaries) |
| skills (`skills.py`, `context.py`, `load_skill_tool.py`) | skill directories, the set of optional tools | list, load, hooks, `active_tools` | file system |
| turn budget (`exoclaw-turn-budget`) | token counters, warning marks, a JSON file for the day | chat wrapper, policy, reset | inner provider |
| loop detection (`exoclaw-loop-detection`) | a history of tool calls | record, check | - |
| heartbeat, gateway, terminals, GitHub run | tasks, an outbound queue, an answer awaited | tick and trigger, dispatch, read and answer, one turn and its post | loop, bus |
| batch, workspace, web, voice and message tools | a semaphore; pipes and a queue; a sink; a `sent_in_turn` flag | fan-out, tree reduction; exec, files; fetch; record; send | registry, OS |
| providers (`-provider-openai`, `-provider-litellm`) | permits per model, scratch files in a request | `chat` | model servers |
| screen (`exoclaw-screen`) | none that outlives a render | parse, lay out, paint | - |
| chat channels, firmware, import shims | adapters | - | third parties |

What is hard here, and what makes each correct:

- *Subagents.* Completions, registrations and cancellations interleave; the
  announcement is decided by comparing two counters, and nothing retries it.
  Correct: counters equal what they count, no permit or handle leaks, no recorded
  completion is dropped, one announcement when the last member is done.
- *Durable subagents.* A crash can fall between a step's body and its journal
  entry, between the entry and the dispatch of an intent, between publish and
  mark. Correct: nothing recorded is lost, the sentinel never hides an unpublished
  completion, a crash costs no more than one member.
- *Cron.* `on_job` is awaited inside the timer task and under the lock, API calls
  take no lock and cancel the timer task, the file may be edited by somebody else.
  Correct: a scheduled job always has a timer that rings for it, memory and file
  agree, no run without a cause, no due run forgotten.
- *Steering and durable turns.* Activity is checked in one step and used in a later
  one; drains unlink before their journal entry; flags die with the process.
  Correct: the registry counts what runs, every follow-up reaches some turn, once
  and in order, a turn says its answer once, committed steps never run again.
- *Conversation.* Background consolidation, overflow recovery and clear share a
  sidecar and the memory files without a common lock. Correct: nothing is left out
  of both summary and tail, no fact in memory is lost, calls and results pair up.
- *Budget and loop detection.* Check, await, charge; a policy shared by sessions.
  Correct: one hook per crossing, bounded overshoot, a restart forgets nothing, a
  turn is broken exactly when its calls repeat.
- *Tools.* Fan-outs finish in any order and partly fail; pipes and queues fill up;
  several sessions edit one file. Correct: results in their places, no standstill,
  nothing left running, edits local.
- *Streams* (providers, HTML, voice, fetch). Chunks end anywhere. Correct: where
  they end does not show, nothing is lost or doubled, an error leaves no half answer.
- *Host.* Channels, dispatcher, terminals and heartbeats share one bus and end at
  any time. Correct: order kept, nothing skipped, an awaited answer can come.

`PROJECT.json` lists the hazards with their source lines and the properties that
would catch each going wrong.

## 2. Modules

| Module | Models |
|---|---|
| `BatchContract` | what a batch store promises: join, finish, one announcement of everyone owed; no counters and no flags |
| `SubagentManager` | manager + in-memory store + asyncio spawner |
| `DurableBatch` | one batch under the DBOS executor, spawner and file-based store, with crashes |
| `CronService` | the cron service, its file, its timer, the API and the heartbeat flush |
| `Steering` | inbound hook, partitioned queue, mailbox and durable turns of one session, with crashes and channel retries |
| `Conversation` | one session's log, sidecar and memory; background pass, recovery, clear, failing writes, a crash |
| `SubagentManager_proofs`, `DurableBatch_proofs`, `CronService_proofs`, `Steering_proofs`, `Conversation_proofs` | the inductive invariants of the five above and their theorems |
| `TurnBudget`, `LoopDetection` | budgets and the loop-detection policy |
| `DurableReply`, `DurableSteps` | how a durable turn answers; its journaled steps and retries |
| `BatchTool`, `ReduceTool` | fan-out over a registry; merge, chunks, tree reduction |
| `ShellStream`, `FileTools` | a command's streamed output; the file tools |
| `Skills`, `CronTool` | the skills' shelf and optional tools; the cron tool over its backend |
| `Heartbeat`, `Gateway`, `Terminals`, `GitHubRun`, `SplitMessage` | the host side |
| `OpenAIProvider`, `LiteLLMProvider` | the two providers |
| `HtmlTokens`, `HtmlTree`, `HtmlSpace`, `WebFetch` | tokenizer, tree, white space; paging and cap |
| `ScreenParser`, `ScreenInline`, `ScreenLayout`, `ScreenIncludes` | the screen's Markdown dialect, boxes, includes |
| `VoiceBody` | a recording's request body and who hears the words |
| `Components` | twenty of them as one specification, each a part that runs alone: the four of a turn (budget, loop detection, reply, steps), the six of the application (skills, cron tool, heartbeat, gateway, terminals, GitHub run), eight tools (batch, reduce, shell, includes, fetch, split, voice, files) and the two providers |
| `Tools_proofs`, `Host_proofs` | invariants and theorems of the eight; of the six and the two |
| `Components_proofs` | those of the four, and of `Components` |
| `MC...` | values for constants; symmetry where it is sound, never with liveness |

Most modules mark a few definitions *Seeded bug*: a mutated form of the
definition that follows, unused by the specification. `PROJECT.json` "mutants"
says which property must fail when it takes the place of the original.

Variables that record what happened for the properties, and that no guard reads,
are called history below.

### SubagentManager

A step is the code between two suspension points. `spawn` has none on this path
(the store's lock is never held across an await, so it is never contended), so
`Spawn` registers, creates the task and stores the handle in one step. A task goes
`idle -> queued` (asyncio task created) `-> running` (permit taken, inside
`process_direct`) `-> ended`, passing through `announcing` and `published` only
when the bus suspends its publisher. Which kind of bus it is, `busSuspends` says: it
is chosen in `Init` and never changes, so that one run covers both. `CompleteMember`
is `_run` after `process_direct`: record, decide, and either announce or end.
`CancelBySession` ends every live task of a session whatever it awaits;
`WriteResultFails` is the `OSError` outside `_run`'s inner `try`. `LeaveRunner`
is the shared `finally` and semaphore exit: a task cancelled while queued never
entered the runner, so it returns no permit and leaves its handle behind.
`snapshot`, `recorded`, `reported` and `raced` are history.

### DurableBatch

A DBOS step is two steps here, body and commit. `Crash` forgets everything in
memory (`pc`, `current`, `vol`, `handles`) and keeps files and journal; what
follows is replay: a committed step is skipped, an uncommitted body runs again.
`SpawnBody` mints a *new* id (the code uses `os.urandom`), `Dispatch` starts the
child workflow unless its id exists. A child runs `RecordBody`, `RecordCommit`,
`Publish`, `MarkBody`, `MarkCommit`. Whether a replay whose dispatch is missing
is rejected by DBOS itself (its check on step order) is the library's business
and outside the model.

### CronService

Time is abstract: the next run of a job is `none`, `future` or `due`, and `Clock`
makes runs due. `TickBegins` runs `_on_timer` to its first await of `on_job` (or
to its end), `TickContinues` from one await to the next. The calls of the API are
single steps, as in the code, and may come at any time, also from inside `on_job`:
they share `Mutate` (load, change, save, re-arm and thereby cancel the tick).
`run_job` is two steps and takes no lock. `Edit` is somebody else writing the file.
`apart` says how file and memory differ: after an edit, or when a process has just
loaded, the file's modification time is not the one noted, and only a save notes it,
so that *every* call until then reads the file again (`Loaded`); `UpdateRefused` is
an `update_job` that changed the payload before its schedule was refused, and leaves
memory ahead of the file. `tick.stale` and `manual.stale` say that a reload
replaced the job objects an await still holds: their updates are lost, only removal
by id reaches the store, and `lost` (history, with `started`, `cut`, `repeats`,
`ghosts` and `owed`) names the jobs it happened to. `flush.host` tells a flush that
the host awaits, which `stop` does not cancel, from the heartbeat task's. A job keeps
its kind of schedule: an `update_job` that changes it is left out.

### Steering

One session, seen through its DBOS tables (`inbound`, `route`, `queue`, `turn`,
`given`), its two mailbox files and what the process holds in memory. `Receive`
reads the registry in `enqueue_inbound`; `StartDirectly` and `Enqueue` are what it
does with the answer one await later. `run_inbound_turn` then looks again:
`StoreIfActive` and, after the lock is released, `AppendBody`; or `Dispatch`,
which creates the child turn. A turn is `working` until a drain returns nothing,
then `ending`, `published`, `done`, or `failed` when something in it raises (`Fail`:
the `finally` still unregisters it); it is in `live` while its body executes.
`DrainOpen`, the two alternatives of `DrainRead` and `DrainCommit` are the renames
and unlinks between which a crash can fall; `_INBOX_LOCK` keeps appends out until
the last unlink, and no longer.

Three assumptions are about code outside the repository. The agent loop drains
after its last model call and goes on when that yields a message (`DrainCommit`).
DBOS puts a recovered queue workflow back at the head of its partition (`Crash`).
DBOS refuses a replay that takes a step where the journal has a child workflow, and
the workflow fails (`ReplayDiverges`): this happens when a turn is recovered
before the inbound workflow that dispatched it.

`arrivals`, `late`, `cut` and `crashes` are history. `late` names the messages
appended when no drain was to come or left behind by a turn that failed, `cut` those
that a drain had read when a crash kept it from the journal: `EventuallyTaken`
excepts these, which are the windows of the code, and `AcceptedIsKept` only the
second, as a late message is still in the mailbox. What the turn then says is
`DurableReply`.

### Conversation

The log is a sequence of messages, each with its role, the calls it makes or the
call it answers; the sidecar is `[there, through, folded]`, where `folded` is what
the summary covers, in place of its text, and `memory` and `entries` are whose facts
are in MEMORY.md and HISTORY.md. A turn reads its prompt (`BuildPrompt`) and appends
(`AppendUser`, `AppendCalls`, `AppendTool`, `AppendReply`; `AppendAgain` is the step
that a crash cut before its journal entry). `PostTurn` and `Maintain` lead to a
background pass under the session's lock, `Recover` to one in a turn without it:
each loads the sidecar and cuts a chunk (`BeginPass`), awaits the model, and then
writes HISTORY.md, MEMORY.md and, with the boundary repaired, the sidecar
(`Summarized`). It may fail before or between these files: the background pass then
saves the sidecar it had loaded (`MaintainFails`), a recovery saves nothing
(`RecoverFails`), and when only the sidecar cannot be written the pass is over
(`SaveFails`). `Crash` comes at any time, also between the files of a summary. `Clear`
rewrites the log and then unlinks the sidecar; the unlink may fail, which the code
passes over, and the process may die in between (`CrashInClear`). Each single file is
assumed to be written as a whole. `pass[p].stale`, `overlap`, `leftover` and `torn` are
history: a pass saves over a sidecar it did not load; two passes were in flight
together; a boundary of an earlier log stayed in the sidecar; a chunk got into
HISTORY.md and not into MEMORY.md. They name what the code leaves open, and the
properties hold but for them.

### The other components

They share no state with one another. Each module has an `Init`, a next-state
relation and a conjunction of its properties, under names of its own, so that one
module can extend several of them and one run check them: `Components` those that
theorems are about, `MCComponents`, which extends it, all the rest as well.

- `TurnBudget`: a chat looks at the tracker (`CallBegins`), awaits the provider, and
  records (`CallEnds`); other sessions' chats, resets, midnight and restarts from the stored file
  come in between. The hook's flag is cleared only by a chat that sees the counters
  below the limit after one that began at it; `spell` (history) tells from the calls
  alone whether the flag of an earlier crossing is still set (`Silenced`), where a
  crossing passes without the hook. `LoopDetection`: `policy.py` as the application wires it, one
  policy for all sessions; the history is cut to `history_size` per record, and the
  detector's answers are compared with the turn's own calls: identical ones in a row,
  two that alternate (`PairRun`, which counts calls as the code does, two for each
  cycle), or a cycle of theirs.
- `DurableReply`: the `message` tool's body and its journal entry, then
  `_check_sent_in_turn_step` and the publishing step; `CrashTurn` empties the flag.
  `DurableSteps`: a turn's journal and the bodies that ran for it; attempts fail, a
  context overflow is returned as a sentinel and not retried, streaming tools run
  outside any step, and results spill into scratch files.
- `BatchTool`: `_resolve_registry` and `_fan_out`, with other loops constructed
  meanwhile. `ReduceTool`: loading, deduplication, chunking, rounds of the tree.
- `ShellStream`: child, two OS pipes, two reader tasks, a bounded queue, the
  generator with its deadline and its `finally`; the caller may leave at any yield.
  `FileTools`: reads by range, whole or streamed, writes and edits of several sessions.
  A carriage return is a letter of its own: `edit_file` reads with universal newlines
  and writes what it read (`AsRead`), so that an edit rewrites such line endings.
- `Skills`: workspace, builtin and package directories, the precedence of the three
  readers of it (list, load, hooks), and who sees which optional tools. `CronTool`:
  each way an `add` is refused or made, and a job's own turn.
- `Heartbeat`: loop and `trigger_now` as beats with start and stop in between.
  `Gateway`: `ExoclawNanobot.run` with its dispatcher. `Terminals`: the REPL and the
  pipe, the consumer of the bus, end of input, signals. `GitHubRun`: the filters, the
  three tasks of `run` and the first of them to end. `SplitMessage`: the splitting
  loop and the allow-list of the vendored channels.
- `OpenAIProvider`: the fallback chain, the streamed request body, the reader of
  server-sent events. A line carries a piece of text, or for a slot a name or a piece
  of arguments; `sent` keeps the lines, `parts` what the code made of them, and the
  property computes the answer from the lines alone (a slot's last name, all of its
  arguments, no call without a name, `{}` for what is no object). `LiteLLMProvider`: clean-up of contents, the id map, permits,
  headers, the joining of choices. A server is a choice among lines or answers.
- `HtmlTokens`: `feed` and `finalize` over chunks that end anywhere. Each piece of
  text is a token of its own, as each is escaped by itself later; an "&" is held back
  only when it stands in the last `LookBack` characters (32 in the code, 2 here). `HtmlTree`: the
  tree, its implied ends, and the batches rendered and freed when a block closes at
  the top level. `HtmlSpace`: white space and the flanking rule of one paragraph.
  `WebFetch`: the bounded sink, the download to a file.
- `ScreenParser`: one round of `_parse_blocks` per step, with its cursor stack.
  `ScreenInline`: `_parse_inline` over what is typed so far. `ScreenLayout`: one
  top-level box per step. `ScreenIncludes`: the visited paths of nested includes.
- `VoiceBody`: base64 over chunk borders, the tool's and the listener's use of it.

## 3. Runs

| Run | Question | Bounds |
|---|---|---|
| `subagent` | do counters, permits, handles, delivery and the contract hold, when can a completion be dropped, and is everyone else reported? | 3 tasks, 1 batch id (reusable), 2 sessions, cap 2, both kinds of bus |
| `subagent_stranded` | *violation*: a dead member strands its batch | the same |
| `durable_batch` | is anything lost across crashes? | 4 ids, 2 calls, 2 crashes |
| `durable_lost_dispatch` | *violation*: a committed spawn call without a workflow | 4 ids, 3 calls, 1 crash |
| `cron` | timer coverage, file consistency, spurious and repeated runs; is each due job served? | a one-time job, deleted after its run and coalesced or not, and a recurring one; 1 deferred; 1 stop, crash or edit |
| `cron_reentry` | *violation*: flush from within `on_job` never returns | 1 job |
| `steering` | registry, loss, order and overlap under one crash | 3 messages, 1 crash |
| `steering_live` | retries by the channel; does every message get into a turn? | 2 messages, 1 retry, 1 crash |
| `steering_stored` | *violation*: a stored message that no turn will read | 3 messages, no crash |
| `conversation` | boundary, prompt and memory over overlapping passes | window 2, 4 messages, 1 clear, 1 crash, a new session or one with an old header |
| `components` | the properties of the components of *The other components* | `Components.cfg` and the small values in `MCComponents` |
| `skills_unseen` | *violation*: loaded tools that the turn does not offer | 2 skills, 2 turns |

Why the bounds are enough: three tasks are what a batch needs for one member
finishing early, one finishing last and one that joins late, dies or belongs to
the batch's second life; the cap of two makes one of them queue. Two calls with
two crashes put a crash in each window of a member while another member is in any
other window; the four ids are two calls plus one re-minted per crash. Cron's
hazards relate the job whose `on_job` is awaited to one that is due behind it or
one that is deferred: two jobs, the one-time one either way. One piece of trouble (a
stop, a crash, an edit) at a time: `MaxTrouble`. Steering needs one message
whose turn runs and two that are steered into it for order, or one steered and one
queued for overlap: three; order, loss and duplication are each broken by a single
crash. (With two crashes and `{m1, m2, retry}` the safety properties hold as well,
over some 850 thousand states.) A conversation of four messages with a window of two
has a chunk to summarize, a call with one or two results that a boundary may split,
and messages behind it; two passes are all that can be in flight, since the lock
admits one and a turn makes the other. `MaxMessages`, `MaxDeferred`, `MaxStops`,
`MaxEdits`, `MaxTrouble`, `MaxCrashes`, `MaxClears` and the `Max...` constants of `Components.cfg`
are the only bounds on counters.

In `components` a behaviour picks one component (`part`) and the variables of the
others rest: `MCComponents` has the parts of `Components` and more. Its properties
are conjunctions `part = "x" => XRight`, by theme:
`TurnsRight` (budget, loop detection, reply, steps), `BudgetStepsRight` (the action
properties of budgets), `HostRight` (skills, cron tool, heartbeat, gateway,
terminals, GitHub), `ToolsRight` (batch, reduce, shell, includes, fetch, split, voice,
files), `ProvidersRight` (the two), `TextRight` (the three of html_to_markdown)
and `ScreenRight` (parser, inline spans, layout). What each part states is above its
`...Right` definition. The registered mutant of a conjunction breaks one of its
parts; the modules hold 25 seeded bugs in 20 of the parts, and with each of them in
place its conjunction fails. The inputs there are small on purpose and chosen for the borders:
every class of line up to three lines and of nesting lines up to four, HTML pages of
up to three fragments in chunks of one to three characters, four inline strokes, four
nodes of a tree, all event scripts of up to four pieces with a queue of two, three
lines of a model's answer. `ServerLines` are the lines a server may send, `FileLetters`
the letters of files ("n" and "r" end lines), `LookBack` the tokenizer's 32 characters.

`CHECK_DEADLOCK FALSE` everywhere: these systems stop, when all subagents are done,
no job is left, no message comes or a bound is reached.

Fairness. `SubagentManager`: weak fairness of each task's own steps, as asyncio
runs every ready task and an agent loop ends (its iteration limit); none of
spawning, failing or cancelling. `DurableBatch`: weak fairness of parent and child
steps (DBOS resumes every pending workflow), none of crash or cancel. `CronService`:
weak fairness of the tick and of a flush under way, which presumes that every
`on_job` ends unless it waits for the lock itself. `Steering`: weak fairness of
the queue, of each inbound workflow and of each turn, as DBOS serves its queue and
resumes what is pending; none of arrivals and crashes. `DueIsServed` moreover assumes
that the API is left alone from some point on, as every call cancels the tick.
`Conversation` and the components state none.

What the violations show is under "findings" in `PROJECT.json`, with the document
each contradicts.

## 4. Proofs

Eight modules hold theorems, for every value of the constants. Each proves
`Init => IInv`, `IInv /\ [Next]_vars => IInv'` with one step per action, and
`IInv => P`, and joins them by one temporal step.

- `SubagentManager_proofs`. `SafeInv`: types, counters equal to the size of the sets
  they count, permits, handles of everything alive (`PermitsConserved` is not inductive
  without the types; a counter goes up exactly when its set grows). It holds over any
  bus and gives `TypeCorrect`, `CountersCorrect`, `PermitsCorrect`, `ReachableCorrect`.
  `NoRaceInv` is for a bus that does not suspend: no task rests in `announcing` or
  `published`, a task is in the roster of its own batch only, and what is recorded and
  unreported is in a roster that still waits for somebody. From it follow
  `AnnouncedCorrect`, `NothingDroppedCorrect` and `ContractImplemented`, the refinement
  of `BatchContract`: `DecisionIsRight` turns the comparison of counters into the
  contract's statement about sets, and `ContractStep` maps each action to a step of it
  or a stutter. `OwedInv` holds over any bus again: in a batch that no member joined
  during its announcement an announcement covers the whole roster (`CalmInv`). It
  gives `DroppedOnlyByRace`.
- `DurableBatch_proofs`. `DurableInv`: types, what the parent's and the children's
  program counters say about journal and files (`ParentInv`, `ChildInv`), one ghost per
  crash, and, unless a member joined during an announcement, `BatchInv`: an
  announcement under way and the sentinel cover the whole directory, nobody recorded
  is forgotten, and a full directory without a sentinel has a child that still
  decides. The last conjunct is what makes the third inductive. Hence `DurableTypes`,
  `SentinelTells`, `NothingLost`, `GhostsBounded`.
- `CronService_proofs`. `CronInv`: without an edit from outside no load of a running
  service reads the file (`NoEdit`), the lock admits one of tick and flush (`LockInv`),
  what a tick still holds is due unless a reload replaced it (`TickInv`), and of that it
  has started before only what was cut or taken back (`TodoInv`); jobs and owed runs are
  of jobs once added (`Known`), a job started and neither cut nor taken back is no longer
  due (`RanInv`), and nothing is owed before the service starts (`IdleInv`). Hence `CronTypes`, `TimerCoversAll`, `DiskKeepsUp`,
  `NoGhosts`, `OnceUnlessCut`, `OneShotsKept`.
- `Steering_proofs`. `SteeringInv`: the registry counts the live turns; a drain belongs
  to a working turn and holds nothing before it has read (`TurnInv`); the queue holds
  what is enqueued once, and one workflow of it runs at a time (`QueueInv`); what is
  accepted is in a turn, in a drain or in a mailbox file, or a crash cut its drain
  (`KeptInv`). Hence `SteeringTypes`, `RegistryCounts`, `AcceptedStays`,
  `OverlapExplained`. Two more invariants build on it. `OrderInv`: the first n arrivals
  have been read, each turn has some of them in their order, the rest lies in the two
  files, and one drain at a time opens and reads these (`LockInv`); it gives
  `ArrivalOrder`. `PlacesInv`: the places of a message, and one more if its workflow
  may still add one, are no more than one and one per crash; it counts finite sets by
  injections, as renames and drains move copies. It gives `PlacesBounded`.
- `Conversation_proofs`. `ConvInv`: the last append is in the log (`LogInv`); a pass holds
  a chunk past the boundary it loaded, which is the one on disk unless it is stale
  (`PassInv`); nothing before a boundary, saved or about to be, is left out but for a
  pair's sake or behind the boundary of an earlier log (`Accounts`, `BoundaryInv`, which
  says nothing of a pass that a clear overtook); the one pass in flight was shown all of
  MEMORY.md (`MemoryInv`). Lemma `RepairFacts` says what `_repair_boundary` returns: neither below
  what it is given nor past the log, and every step of it over a call or a result.
  Hence `ConversationTypes`, `NothingLeftOut`, `MemoryKept`, `BoundaryMovesOn`.
  `PairInv`: ids of calls are not used twice, and a result stands behind every message
  that has its call. The repair of a view, `Repaired`, is a recursive function; lemma
  `UpTo` takes the least number for which a step fails in place of an induction, and
  shows that it returns, in their order, the messages it keeps (`Leaves`). Hence
  `ViewsPairUp`.
- `Host_proofs`, an invariant for each of six components and the two providers.
  `HeartbeatInv`: the loop that goes on is the one held, and a beat that was cut by
  nobody read what is served (`ReadIsFresh`).
  `GatewayInv`: what was taken off the bus is older than what is on it,
  and what is being sent is newer than what a channel took (`DispatchInv`). `GitInv`: a
  text that is not posted is on its way (`WordsInv`), and messages are numbered, first the
  comments, then the one in hand, then the rest (`NumbersInv`). `CronToolInv`: a job that
  is on has a next run if its schedule can have one (`JobRight`), and a run answers at
  the home of its job unless that was redirected (`RunInv`). `SkillsInv`: a SKILL.md is in
  a directory (`ShelfInv`), and as soon as one turn has its prompt the tool holds
  another set than the turns' (`TurnsInv`). `TerminalInv`: who waits has a line or an
  answer under way (`AnswerComes`), what is on the bus are the latest messages
  (`TermTypes`), so that what the REPL took is all before them, printed or held
  (`ShownInv`), and no more lines and answers are under way than the one waited for and
  what was said besides (`FlightInv`), all of the last line if nothing was (`LineInv`).
  `ProviderInv`: the content kept is that of the lines of this attempt's model with
  text, in order, each slot's name that of the last line that names it and its arguments
  those of the lines that bring some (`PartsAreSent`); the content is the end of what the
  listener has heard (`DeltasInv`); only the last message of a body may be under way
  (`WireInv`). `LLMInv`: each chat sent what the
  clean-up makes of its prompt, for its own user, and its answer is of the response
  it heard (`ChatTrue`); lemmas on the clean-up and on the joining of choices say what these
  return for any history and any response.
  Hence `HeartbeatHolds`, `GatewayHolds`, `GitHolds`, `CronToolHolds`, `SkillsHold`,
  `TerminalsHold`, `ProviderHolds` and `LLMHolds`.
- `Tools_proofs`, an invariant for each of eight tools. Most of these
  promise that what comes out is the concatenation of what went in, so that they
  need facts about `FlattenSeq` and the folds. Without induction over data these come
  from one lemma, `GoesOn`: what holds for 0 and goes on from each number to the next
  holds for all, as there is no least counterexample. From it `ConcatGrows` and
  `FlattenPlaces` follow, the latter an index for each element of a concatenation and back.
  `BatchInv`: an item that was executed saw the registry and the context of its own
  turn, and what is written is what each item came to (`FanTrue`). `ReduceInv`: what is left
  is in the items' order and has what was merged behind it; in a round the chunks are
  those cut of the items, whichever of them came back (`CutsJoin`, `ResultsBehind`).
  `ShellInv`: each stream's pieces lie in order on their way, first those yielded, then
  queue, hand and pipe (`QueueInv`, `ConsumerInv`, `PipeInv`), nothing is missing on it
  until something is cancelled (`PlacesInv`), and a stream's end is behind all of it
  (`EndsInv`). `IncludesInv`: the files being painted are all different but for the
  first (`Nested`). `FetchInv`: while lines are fed the sink holds what was
  handed over, and once capped as much of the page as the cap admits (`CutShort`).
  `SplitInv`: the messages follow one another and between them lie newlines only.
  `VoiceInv`: for some m the body holds the digits of the first m groups of
  three bytes and the carry the bytes behind them (`AtGroup`); `ByteBits` and
  `GroupDigits` show, weight by weight, that the encoder's arithmetic on bytes is base64 as
  defined on bits. `FileInv`: what each session was last told keeps to the cap and to
  the file's lines (`ReadTrue`), and the last edit is local but for line endings; that pages
  and lines join to the file as it is read (`PagesMake`), what the counting loop of an edit finds (`CountsTwo`) and that both ends
  stay (`EndsStay`) are facts about any text. Hence `BatchHolds`, `ReduceHolds`,
  `ShellHolds`, `IncludesHolds`, `FetchHolds`, `SplitHolds`, `VoiceHolds` and `FilesHold`.
- `Components_proofs`. `StepsInv`: every entry of the journal was computed on a view in
  which those before it were replayed, and the loop's view is such a view (`ViewInv`),
  so that the next operation is determined by the journal even where streaming results,
  which are not in it, differ (`NextEntryOp`, `ViewsAgree`); what is in hand is of this
  life and of that operation (`HandInv`); attempts are the runs in this life
  (`TriesInv`); bodies run for the next entry at most (`BodiesInv`); this life's files
  are registered (`ScratchInv`). Hence `StepsHold`. `ReplyInv` keeps accounts: what the
  chat got, and is sure to get, is paid for by a call or by a crash. Hence `ReplyCorrect`.
  `BudgetInv`: a daily tracker is on disk or fresh (`StoreInv`),
  thresholds below a warned one count as warned (`TrackerInv`), the hook's flag is set
  exactly when it fired or an earlier crossing left it set, the limit being reached
  if it fired, which it did at most once (`HookInv`), and the overshoot is bounded by
  the chats in flight. `LoopInv`: the policy's history is the end of the calls of a
  turn that met no other (`OwnHistory`), and a turn that goes on is below the breaker.
  Hence `BudgetHolds`, `LoopHolds` and the action properties `BudgetWarnsUpwards` and
  `BudgetRestartRestores`. `ComponentsInv` is each part's invariant while it moves, and
  gives `TurnsCorrect`, `HostCorrect`, `ToolsCorrect`, `ProvidersCorrect` and
  `BudgetStepsCorrect` of the whole specification: `PartMoves` says that a step of it is
  one of the part that moves.

The only assumptions are those on the constants, named in the modules that declare
them, and evaluated in each run.

Only model-checked: liveness (`EventuallyReported`, `EventuallyTold`, `DueIsServed`,
`EventuallyTaken`), as fairness and ENABLED are out of the prover's reach; and two
conjunctions of `components`, `TextRight` and `ScreenRight`. Most of what these state
compares a loop with a recursive definition of its result (a tokenizer fed at once, the
blocks of a source, the boxes of a layout), which needs induction over data, and most
of their modules have RECURSIVE operators, which the SMT backend does not survive.

## 5. Observations

What the models brought to light beside the five findings, first where code and
documents disagree. The findings have a run each, which shows the disagreement on a
trace; these are stated where a property has to allow for them, in its comment, which
quotes the document:

- `on_limit_reached` fires "exactly once per crossing" (turn-budget README 178,
  `wrapper.py` 180): a crossing passes in silence while the flag of an earlier one is
  set, as only a call that begins below the limit clears it (`FiresOnce`).
- Ping-pong detection counts "cycles" (`policy.py` 28, `config.py` 16); the code counts
  calls, two in each cycle, and stops after half as many (`LoopRight`).
- `edit_file`: "The match must be unique" (`filesystem.py` 319), but places that
  overlap count as one; "replacing exact old_text", but the line endings of a file with
  carriage returns are all rewritten (`EditsAreLocal`).
- `clear` is to "remove the policy sidecar. Returns True on success" (`conversation.py`
  359): an unlink that fails is passed over, and a crash or a pass in flight has the same
  effect: the next messages are hidden behind the earlier log's boundary
  (`LeftOutOnlyByRepair`).
- A job "cannot schedule new jobs from within a cron job execution" (the cron skill's
  `SKILL.md` 66): nobody calls `set_cron_context`, so it may (`CronTool`, `Callers`).
- Retryable are "429, 5xx" (provider README 33, `provider.py` 76): of the latter four,
  so that a 501 or a 529 ends the chain (`Retryable`).
- Feeding a page: "Chunks may split a tag mid-token", and a fetch test has chunks
  stitched "correctly"; a stray quote in a tag makes chunk borders visible, and so does a
  text that is cut before a character to be escaped (`OnlyTextsAreCut`). "Emits in
  source order" and "At close(), batch-render any still-pending" (`html_to_markdown.py`
  1475, 1603) do not hold with something beside the body (`SourceOrder`).
- Screen: "single level only" (`GRAMMAR.md` 100, `pillow.py` 420), but includes nest to
  any depth (`NoEndlessNesting`); what the dialect does not know is "tolerated"
  (`parser.py` 28, `GRAMMAR.md` 108), but `:::` at the top level, `> :::` and
  `::: note` without braces keep the parser from ever returning (`HangsAtStrayFences`);
  "percentage of parent" and "equal split among siblings" (`GRAMMAR.md` 85,
  `layout.py` 16) hold in part (`EqualSplit` says in which).
- `get_agent_hooks` returns "one per skill that defines" the hook: an earlier directory
  of the same name silences it, with no skill in it or of another skill
  (`HooksGoWithTheirSkill`).

The rest are limits that the properties name as exceptions, or that no document speaks
of.

Agent and storage:

- A loop-detection policy is shared by all sessions and its history is emptied by each
  turn's start, and the set of active tools by concurrent turns
  (`LoopRight` and `TurnHasItsTools` except turns that met another).
- A crash in a streaming tool runs it again, perhaps with another result than the one
  that journaled model calls were computed on (`ReplayAgrees` excepts it). Scratch
  files of processes that died, or of turns that failed, stay.
- `turn._on_progress` is a global that sessions share.
- `DefaultConversation` has no `load_persisted_history`, so the executor's lazy source
  of earlier messages is never used with it.
- A package's directory may be called otherwise than its skill, and is then none of the
  names an allow-list knows.

Cron and heartbeat:

- After an edit of `cron.json` every call reads the file again until something is saved,
  and takes back what a run has changed since; an update that is refused leaves the
  payload it changed in memory.
- A failing save at the end of a tick ends it before it re-arms; a crash loses deferred
  runs; a coalesced job that is removed after it was queued still fires; a one-time
  job that fell due while the process was down gets no run.
- The cron tool says "Created" and "Enabled" of jobs that can never run; an update
  ignores `every_seconds` and `at`, and a new `to` counts from the next run.
- In the nanobot application jobs for the next heartbeat never run, as nobody calls
  `flush_deferred` and no interval is given. A comment of the firmware's `app.py` (437)
  on this does not fit `service.py` either.
- A heartbeat by `trigger_now` beside a tick executes the file's tasks twice.

Host:

- `ExoclawNanobot.run` stops neither heartbeat nor the cron timer; a channel whose start
  returns takes the application down; messages on the bus are then not sent.
- The REPL told to stop while it waits for an answer waits for ever; beside other
  channels the dispatcher may take its answers. A message nobody asked for ends its
  wait, and answers are then one late. The pipe ends at end of input after such a
  message, before the last reply.
- The GitHub run ends with its first text, perhaps not the final reply, and waits for
  ever for an agent that says nothing.
- The serial listener publishes error strings as the user's words.
- `split_message` may give a blank first message, and does not end for `max_len` 0.

Tools and streams:

- `execute_streaming` left by its caller with a full queue waits for ever in its
  `finally`. A negative chunk size of the reduction drops all items; a chunk that raises
  fails the call while its siblings run on in a directory that is removed.
- A response stream that closes without `[DONE]` counts as complete; deltas of a failed
  attempt are not taken back; a scratch file that fails midway leaves its beginning.
- HTML: text before `<body>` is lost; a page without `</head>` yields nothing; `x<b>&nbsp;</b>x` joins the words.
- `web_fetch` with a cap of 0 reports an empty response; the stripping of `save_to`'s
  prefix spoils names that begin like the workspace.

## 6. Not modelled, and why

- Code without state or order of its own: the turn pipeline (a sequential adapter),
  web search, MCP, the LLM-call and openrouter tools and the GitHub tools (one request
  per call), configuration and command line, import shims.
- Third-party adapters: the chat channels, taken over from another project; firmware
  assembly, boards, capture drivers.
- Data that no property is about: prompts, messages, logs; croniter and time zones;
  contents of result files; HTTP; drawing; tables, lists and code of the Markdown
  converter; the shell guard's patterns.
- The session store's cache, listing, migration and rewriting; the requirement checks
  of skills, which call a shell.
- DBOS's own protocol: its journal is taken as atomic per step.

## 7. What is left

- A failing save in `CronService`, the progress callback in `Steering`, and the
  session store's rewriting beside an append.
