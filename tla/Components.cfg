CONSTANTS
  Parts = {"budget", "loop", "reply", "batch", "reduce", "shell", "files", "skills", "cron tool",
           "heartbeat", "gateway", "openai", "litellm", "tokens", "tree", "space", "parser",
           "inline", "layout", "includes", "steps", "voice", "fetch", "terminals",
           "github", "split"}
  \* turn budget
  Chats = {c1, c2}
  Limit = 4
  Iterations = 3
  Thresholds = {50, 75}
  StripAt = 75
  Usages <- SmallUsages
  CachedShare = 2
  MaxTokens = 7
  MaxDays = 1
  MaxRestarts = 1
  \* loop detection
  Loopers = {l1, l2}
  Calls = {a, b, c}
  Sizes = {2, 4}
  Critical = 3
  Breaker = 3
  \* durable reply
  MaxSends = 2
  MaxReplyCrashes = 2
  \* batch and reduce
  Dispatches = {l1, l2}
  Direct = {l2}
  HasTool = {l1}
  NoLoop = NoLoop
  ItemCount = 2
  Concurrency = 1
  Inputs <- SmallInputs
  FieldValues = {0, 1, 2, 3}
  ChunkSizes <- SmallChunkSizes
  Untils = {0, 1}
  NoField = 0
  MaxRounds = 2
  Permits = 2
  MaxItems = 2
  \* workspace
  Scripts <- SmallScripts
  PipeSize = 1
  QueueSize = 2
  Editors = {"s1", "s2"}
  FileLetters = {"a", "b", "n", "r"}
  FileTexts <- SmallFileTexts
  EditPieces <- SmallEditPieces
  PageSizes = {1, 2}
  ReadCap = 3
  MaxCalls = 3
  \* skills
  SkillNames = {"a", "b"}
  SkillTurns = {"k1", "k2"}
  Shelves <- SmallShelves
  AgentWrites <- SmallWrites
  AllowLists = {{"a", "b"}, {"b"}}
  MaxWrites = 1
  \* cron tool, heartbeat, gateway
  Homes = {"x", "y"}
  Nowhere = "nowhere"
  JobIds = {"j1", "j2"}
  AddCalls <- SmallAddCalls
  UpdateCalls <- SmallUpdateCalls
  MaxLoops = 2
  MaxTriggers = 1
  MaxServed = 2
  GateChannels <- TwoChannels
  MaxOut = 3
  \* providers
  Chain = 2
  Request <- SmallRequest
  FileChunks = 1
  Slots = {0, 1}
  ServerLines <- SmallLines
  MaxLines = 3
  LLMSessions = {"s1", "s2"}
  Limited = {"m1"}
  Unlimited = {"m2"}
  ModelPermits = 1
  Pinned = {"m2"}
  Prompts <- SmallPrompts
  Responses <- SmallResponses
  Streams = {TRUE, FALSE}
  MaxChats = 1
  \* HTML
  Fragments <- SmallFragments
  MaxFragments = 3
  MaxChunk = 3
  LookBack = 2
  MaxNodes = 4
  MaxEnds = 2
  Texts <- SmallTexts
  MaxInline = 4
  \* screen
  ScreenSources <- SmallSources
  Strokes <- SmallStrokes
  MaxStrokes = 4
  ScreenDocuments <- SmallDocuments
  PanelWidth = 21
  PanelHeight = 30
  CharRows = 10
  Contents <- SmallContents
  Screen = "screen"
  Snippets = {"a", "b"}
  \* durable steps
  MaxSteps = 6
  MaxErrors = 3
  MaxLives = 2
  \* voice and fetch
  Recordings <- SmallRecordings
  FetchLetters <- SmallFetchLetters
  FetchPages <- SmallPages
  Caps <- SmallCaps
  \* terminals, GitHub and the compatibility layer
  MaxTyped = 2
  MaxExtras = 1
  GitEvents <- SmallEvents
  GitSettings <- SmallSettings
  MaxAnswers = 2
  LongTexts <- SmallLongTexts
  MaxLengths = {1, 4, 5}
  AllowFroms <- SmallAllowFroms
SPECIFICATION Spec
INVARIANTS TurnsRight ToolsRight HostRight ProvidersRight TextRight ScreenRight
PROPERTY BudgetStepsRight
CHECK_DEADLOCK FALSE
