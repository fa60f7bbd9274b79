CONSTANTS
  SkillNames = {"a", "b"}
  SkillTurns = {"k1", "k2"}
  Shelves <- SmallShelves
  AgentWrites <- SmallWrites
  AllowLists = {{"a", "b"}, {"b"}}
  MaxWrites = 1
SPECIFICATION SkillsSpec
INVARIANT LoadedToolsAreSeen
CHECK_DEADLOCK FALSE
