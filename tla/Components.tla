----------------------------- MODULE Components -----------------------------
(***************************************************************************)
(* Components that share no state with one another, in one specification:  *)
(* a behaviour picks one of them, and the variables of the others rest.    *)
(* MCComponents adds the components that are only model-checked.           *)
(***************************************************************************)
EXTENDS TurnBudget, LoopDetection, DurableReply, BatchTool, ReduceTool,
        ShellStream, FileTools, Skills, CronTool, Heartbeat,
        Gateway, OpenAIProvider, LiteLLMProvider, ScreenIncludes, DurableSteps,
        VoiceBody, WebFetch, Terminals, GitHubRun, SplitMessage

CONSTANT Parts    \* the components that may move
VARIABLE part      \* the one that does

TurnBudgetRests ==
  /\ kind = 0 /\ enforcement = 0 /\ tracker = 0 /\ store = 0 /\ today = 0
  /\ hook = 0 /\ chat = 0 /\ shown = 0 /\ fires = 0 /\ spell = 0
  /\ restarts = 0

LoopDetectionRests ==
  /\ size = 0 /\ history = 0 /\ turn = 0 /\ iteration = 0 /\ recorded = 0
  /\ mixed = 0

DurableReplyRests ==
  /\ publishes = 0 /\ patterns = 0 /\ at = 0 /\ ran = 0 /\ call = 0
  /\ sentInTurn = 0 /\ calls = 0 /\ asked = 0 /\ told = 0 /\ replies = 0
  /\ replyCrashes = 0

BatchToolRests ==
  /\ fallback = 0 /\ fan = 0 /\ written = 0 /\ executed = 0

ReduceToolRests ==
  /\ input = 0 /\ mode = 0 /\ chunkSize = 0 /\ until = 0 /\ stage = 0
  /\ items = 0 /\ chunk = 0 /\ round = 0 /\ merged = 0 /\ emptied = 0

ShellStreamRests ==
  /\ script = 0 /\ wrote = 0 /\ child = 0 /\ hangs = 0 /\ pipe = 0 /\ task = 0
  /\ inHand = 0 /\ queue = 0 /\ endsSeen = 0 /\ yielded = 0 /\ expired = 0
  /\ generator = 0 /\ outcome = 0

FileToolsRests ==
  /\ exists = 0 /\ text = 0 /\ seen = 0 /\ lastEdit = 0 /\ fileCalls = 0

SkillsRests ==
  /\ shelf = 0 /\ allowedSkills = 0 /\ optionalTools = 0 /\ loaderTools = 0
  /\ sameSet = 0 /\ skilled = 0 /\ writes = 0

CronToolRests ==
  /\ marks = 0 /\ cronJobs = 0 /\ cronRun = 0 /\ strayed = 0

HeartbeatRests ==
  /\ beatOn = 0 /\ beatTask = 0 /\ beats = 0 /\ tasksFile = 0 /\ served = 0
  /\ again = 0

GatewayRests ==
  /\ gate = 0 /\ posts = 0 /\ halted = 0 /\ outbox = 0 /\ dispatch = 0
  /\ reached = 0 /\ unsent = 0

OpenAIProviderRests ==
  /\ entry = 0 /\ model = 0 /\ stance = 0 /\ wire = 0 /\ candidates = 0
  /\ parts = 0 /\ deltas = 0 /\ sent = 0 /\ why = 0

LiteLLMProviderRests ==
  /\ stream = 0 /\ extraBody = 0 /\ freePermits = 0 /\ llmChat = 0
  /\ chatsMade = 0

ScreenIncludesRests ==
  /\ contents = 0 /\ readable = 0 /\ painting = 0 /\ painted = 0

DurableStepsRests ==
  /\ streaming = 0 /\ journal = 0 /\ life = 0 /\ view = 0 /\ replayed = 0
  /\ tries = 0 /\ hand = 0 /\ stepsAt = 0 /\ bodies = 0 /\ scratch = 0
  /\ scratchPaths = 0

VoiceBodyRests ==
  /\ recording = 0 /\ pulled = 0 /\ audioAt = 0 /\ carry = 0 /\ body = 0
  /\ byTool = 0 /\ heard = 0 /\ passed = 0

WebFetchRests ==
  /\ site = 0 /\ cap = 0 /\ saving = 0 /\ fetchAt = 0 /\ linesFed = 0
  /\ sink = 0 /\ capped = 0 /\ fetched = 0 /\ target = 0

TerminalsRests ==
  /\ console = 0 /\ shared = 0 /\ termAt = 0 /\ termOpen = 0 /\ turnDone = 0
  /\ held = 0 /\ consumer = 0 /\ typedLines = 0 /\ inbox = 0 /\ turnOf = 0
  /\ said = 0 /\ extras = 0 /\ outgoing = 0 /\ printed = 0

GitHubRunRests ==
  /\ settings = 0 /\ event = 0 /\ tasks = 0 /\ turnAsked = 0 /\ response = 0
  /\ toRelay = 0 /\ answers = 0 /\ posting = 0 /\ comments = 0 /\ runEnd = 0

SplitMessageRests ==
  /\ longText = 0 /\ maxLen = 0 /\ chunks = 0 /\ restAt = 0 /\ allowFrom = 0
  /\ busSet = 0 /\ letIn = 0

ComponentsInit ==
  /\ part \in Parts
  /\ IF part = "budget" THEN BudgetInit ELSE TurnBudgetRests
  /\ IF part = "loop" THEN LoopInit ELSE LoopDetectionRests
  /\ IF part = "reply" THEN ReplyInit ELSE DurableReplyRests
  /\ IF part = "batch" THEN BatchToolInit ELSE BatchToolRests
  /\ IF part = "reduce" THEN ReduceInit ELSE ReduceToolRests
  /\ IF part = "shell" THEN ShellInit ELSE ShellStreamRests
  /\ IF part = "files" THEN FileInit ELSE FileToolsRests
  /\ IF part = "skills" THEN SkillsInit ELSE SkillsRests
  /\ IF part = "cron tool" THEN CronToolInit ELSE CronToolRests
  /\ IF part = "heartbeat" THEN HeartbeatInit ELSE HeartbeatRests
  /\ IF part = "gateway" THEN GatewayInit ELSE GatewayRests
  /\ IF part = "openai" THEN ProviderInit ELSE OpenAIProviderRests
  /\ IF part = "litellm" THEN LLMInit ELSE LiteLLMProviderRests
  /\ IF part = "includes" THEN IncludesInit ELSE ScreenIncludesRests
  /\ IF part = "steps" THEN StepsInit ELSE DurableStepsRests
  /\ IF part = "voice" THEN VoiceInit ELSE VoiceBodyRests
  /\ IF part = "fetch" THEN FetchInit ELSE WebFetchRests
  /\ IF part = "terminals" THEN TerminalInit ELSE TerminalsRests
  /\ IF part = "github" THEN GitInit ELSE GitHubRunRests
  /\ IF part = "split" THEN SplitInit ELSE SplitMessageRests

\* One component moves, the others rest.
Moves(p) ==
  /\ part = p /\ part' = part
  /\ p # "budget" => UNCHANGED budgetVars
  /\ p # "loop" => UNCHANGED loopVars
  /\ p # "reply" => UNCHANGED replyVars
  /\ p # "batch" => UNCHANGED batchToolVars
  /\ p # "reduce" => UNCHANGED reduceVars
  /\ p # "shell" => UNCHANGED shellVars
  /\ p # "files" => UNCHANGED fileVars
  /\ p # "skills" => UNCHANGED skillsVars
  /\ p # "cron tool" => UNCHANGED cronToolVars
  /\ p # "heartbeat" => UNCHANGED beatVars
  /\ p # "gateway" => UNCHANGED gatewayVars
  /\ p # "openai" => UNCHANGED providerVars
  /\ p # "litellm" => UNCHANGED llmVars
  /\ p # "includes" => UNCHANGED includesVars
  /\ p # "steps" => UNCHANGED stepVars
  /\ p # "voice" => UNCHANGED voiceVars
  /\ p # "fetch" => UNCHANGED fetchVars
  /\ p # "terminals" => UNCHANGED terminalVars
  /\ p # "github" => UNCHANGED gitVars
  /\ p # "split" => UNCHANGED splitVars

ComponentsNext ==
  \/ Moves("budget") /\ BudgetNext
  \/ Moves("loop") /\ LoopNext
  \/ Moves("reply") /\ ReplyNext
  \/ Moves("batch") /\ BatchToolNext
  \/ Moves("reduce") /\ ReduceNext
  \/ Moves("shell") /\ ShellNext
  \/ Moves("files") /\ FileNext
  \/ Moves("skills") /\ SkillsNext
  \/ Moves("cron tool") /\ CronToolNext
  \/ Moves("heartbeat") /\ HeartbeatNext
  \/ Moves("gateway") /\ GatewayNext
  \/ Moves("openai") /\ ProviderNext
  \/ Moves("litellm") /\ LLMNext
  \/ Moves("includes") /\ IncludesNext
  \/ Moves("steps") /\ StepsNext
  \/ Moves("voice") /\ VoiceNext
  \/ Moves("fetch") /\ FetchNext
  \/ Moves("terminals") /\ TerminalNext
  \/ Moves("github") /\ GitNext
  \/ Moves("split") /\ SplitNext

componentsVars ==
  <<part, budgetVars, loopVars, replyVars, batchToolVars, reduceVars,
    shellVars, fileVars, skillsVars, cronToolVars, beatVars, gatewayVars,
    providerVars, llmVars, includesVars, stepVars, voiceVars, fetchVars,
    terminalVars, gitVars, splitVars>>

ComponentsSpec == ComponentsInit /\ [][ComponentsNext]_componentsVars

-----------------------------------------------------------------------------
(* Properties: those of the components, each while it is the one that moves. *)

\* The agent's turns.  Concurrent sessions overshoot a budget's limit by one call
\* each at most and its hook fires once, but for a flag still set (BudgetWrapper.chat); the
\* loop is broken exactly when its calls repeat (LoopDetectionPolicy); a durable
\* turn says its answer once (run_durable_turn with the message tool), and its
\* committed steps neither run again nor change (DBOSExecutor).
TurnsRight ==
  /\ part = "budget" => BudgetTypeOK /\ OvershootBounded /\ FiresOnce
  /\ part = "loop" => LoopTypeOK /\ LoopRight
  /\ part = "reply" => ReplyTypeOK /\ ReplyRight
  /\ part = "steps" => StepsTypeOK /\ StepsRight

\* The application.  The skills a turn is told of are those it can load, and it
\* may call the tools they declare (SkillsLoader, ContextBuilder); a scheduled
\* job runs and answers where it should (CronTool, _on_cron_job); the heartbeat
\* makes one beat at a time (HeartbeatService); what a channel is sent comes in
\* order (ExoclawNanobot); a terminal waits for an answer that can come (CLIChannel,
\* PipeChannel), and a GitHub job that is green has answered.
HostRight ==
  /\ part = "skills" => SkillsRight
  /\ part = "cron tool" => CronToolRight
  /\ part = "heartbeat" => HeartbeatRight
  /\ part = "gateway" => GatewayRight
  /\ part = "terminals" => TerminalTypeOK /\ TerminalRight
  /\ part = "github" => GitTypeOK /\ GitRight

\* The tools.  Batch writes each item's result once, in its place; reduce loses no
\* item and keeps their order; ExecTool's streams lose nothing and leave no reader
\* behind; a screen's includes end; a page is returned without gaps (web_fetch), a
\* reply that is split is whole (split_message), and so is the body of a recording
\* (exoclaw-tools-voice); a file's pages are the file, a read of it is bounded and an
\* edit touches one place (read_file, edit_file).
ToolsRight ==
  /\ part = "batch" => BatchToolTypeOK /\ BatchRight
  /\ part = "shell" => ShellTypeOK /\ ShellRight
  /\ part = "includes" => IncludesTypeOK /\ IncludesRight
  /\ part = "reduce" => ReduceTypeOK /\ ReduceRight
  /\ part = "fetch" => FetchRight
  /\ part = "split" => SplitTypeOK /\ SplitRight
  /\ part = "voice" => VoiceRight
  /\ part = "files" => FileTypeOK /\ FileRight

\* The providers.  An answer is of one model, its deltas make it up, a request's
\* body is whole (provider-openai), and calls pair up with their results
\* (provider-litellm).
ProvidersRight ==
  /\ part = "openai" => ProviderTypeOK /\ ProviderRight
  /\ part = "litellm" => LLMTypeOK /\ LLMRight

\* A budget's warnings go upwards until a reset, and a restart within the day
\* restores the counters (DailyBudgetTracker, FileBudgetStore).
BudgetStepsRight ==
  [][part = "budget" =>
       /\ shown \subseteq shown' => \A p \in shown' \ shown, q \in shown : p > q
       /\ restarts' # restarts /\ kind = "daily" /\ tracker.day = today =>
            tracker' = tracker]_budgetVars
=============================================================================
