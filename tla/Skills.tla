------------------------------- MODULE Skills -------------------------------
(***************************************************************************)
(* The skills of exoclaw-conversation: SkillsLoader over a workspace, a    *)
(* builtin directory and installed packages, ContextBuilder's set of the   *)
(* optional tools a turn may call, and the load_skill tool as the          *)
(* applications wire it.  A SKILL.md is its front matter: whether it is    *)
(* always active, the optional tools it declares, and whether what it      *)
(* requires is there.  Turns of several sessions share the ContextBuilder, *)
(* and an agent may write below workspace/skills between any two steps.    *)
(***************************************************************************)
EXTENDS Naturals, FiniteSets

CONSTANTS
  SkillNames, SkillTurns,
  Shelves,      \* what the builtin directory and the packages hold
  AgentWrites,  \* the directories an agent may write
  AllowLists,   \* allowed_names (None is every name)
  MaxWrites

\* A builtin SKILL.md is in a directory, by whose name the skill goes.  A package
\* gives its skill's name and content, and a directory ("path") or none.
ASSUME SkillsAssumption ==
  \A s \in Shelves : \A n \in SkillNames :
    /\ s["builtin"][n].called = n
    /\ s["builtin"][n].front.there => s["builtin"][n].dir
    /\ s["builtin"][n].nth \in Nat /\ s["package"][n].nth \in Nat

VARIABLES
  shelf,          \* source -> name -> a directory
  allowedSkills,  \* _allowed
  optionalTools,  \* ContextBuilder._active_optional_tools
  loaderTools,    \* the set the load_skill tool holds
  sameSet,        \* the two are still one object
  skilled,        \* a turn: the tools its own skills declared, and those it loaded
  writes          \* how often the workspace was written

skillsVars == <<shelf, allowedSkills, optionalTools, loaderTools, sameSet, skilled, writes>>

Sources == <<"workspace", "builtin", "package">>
Ranks == 1..3
NotLoaded == [on |-> FALSE, alone |-> FALSE, own |-> {}, loaded |-> {}]

\* A directory: whether it is there, its front matter (there: SKILL.md exists,
\* blank: it is empty), a hook file, the name its path ends in, and its place among
\* the directories of its source (for packages, the order in which they came).
NoFront == [there |-> FALSE, blank |-> FALSE, always |-> FALSE, tools |-> {}, met |-> TRUE]
NoDir(n) == [dir |-> FALSE, front |-> NoFront, hook |-> FALSE, called |-> n, nth |-> 0]

DirAt(r, n) == shelf[Sources[r]][n]
IsAllowed(n) == n \in allowedSkills

-----------------------------------------------------------------------------
(* SkillsLoader *)

\* (Seeded bug: the builtin directory is looked at first.)
LoadedFromBuiltin(n) ==
  IF ~IsAllowed(n) THEN 0
  ELSE IF DirAt(2, n).front.there THEN 2
  ELSE IF DirAt(1, n).front.there THEN 1
  ELSE IF DirAt(3, n).front.there THEN 3 ELSE 0

\* load_skill: the source it reads n from, 0 for None.
LoadedFrom(n) ==
  IF ~IsAllowed(n) THEN 0
  ELSE IF DirAt(1, n).front.there THEN 1
  ELSE IF DirAt(2, n).front.there THEN 2
  ELSE IF DirAt(3, n).front.there THEN 3 ELSE 0

\* get_skill_metadata: nothing for a missing and for an empty file.
Metadata(n) ==
  LET r == LoadedFrom(n)
  IN IF r = 0 \/ (r # 0 /\ DirAt(r, n).front.blank) THEN NoFront ELSE DirAt(r, n).front

\* list_skills: each name under the first source that has it.
Listed ==
  {e \in SkillNames \X Ranks :
     /\ IsAllowed(e[1]) /\ DirAt(e[2], e[1]).front.there
     /\ \A q \in Ranks : q < e[2] => ~DirAt(q, e[1]).front.there}
Available == {e \in Listed : Metadata(e[1]).met}

ToolsFor(names) == UNION {Metadata(n).tools : n \in names}
AlwaysSkills == {e[1] : e \in {x \in Available : Metadata(x[1]).always}}

\* _all_skill_dirs: a package's directory goes by its path's last name, the
\* allow-list by the name the package gives.
SkillDirs ==
  {[called |-> DirAt(e[2], e[1]).called, name |-> e[1], rank |-> e[2],
    nth |-> DirAt(e[2], e[1]).nth] :
     e \in {x \in SkillNames \X Ranks : IsAllowed(x[1]) /\ DirAt(x[2], x[1]).dir}}

ComesBefore(e, d) == e.rank < d.rank \/ (e.rank = d.rank /\ e.nth < d.nth)

\* get_agent_hooks and its two sisters: of the directories called alike only
\* the first is looked at (seen), whether or not it holds a hook.
Firing ==
  {d \in SkillDirs :
     /\ DirAt(d.rank, d.name).hook
     /\ ~\E e \in SkillDirs : e.called = d.called /\ ComesBefore(e, d)}

-----------------------------------------------------------------------------
(* Turns *)

SkillsInit ==
  /\ \E s \in Shelves :
       shelf = [q \in {"workspace", "builtin", "package"} |->
                  IF q = "workspace" THEN [n \in SkillNames |-> NoDir(n)] ELSE s[q]]
  /\ allowedSkills \in AllowLists
  /\ optionalTools = {} /\ loaderTools = {} /\ sameSet = TRUE
  /\ skilled = [t \in SkillTurns |-> NotLoaded] /\ writes = 0

\* (Seeded bug: the tools of earlier prompts stay.)
Rebound(tools) == optionalTools \cup tools

\* A new set replaces the old one; the tool keeps the old one.
Rebind(tools) == tools

\* build_system_prompt (isolated or not) of turn t, asked for some skills.
BuildSystemPrompt(t) ==
  \E extra \in SUBSET SkillNames :
    LET tools == ToolsFor(AlwaysSkills \cup extra)
    IN /\ optionalTools' = Rebind(tools) /\ sameSet' = FALSE
       /\ loaderTools' = loaderTools
       /\ skilled' = [u \in SkillTurns |->
                        IF u = t THEN [on |-> TRUE, alone |-> TRUE, own |-> tools, loaded |-> {}]
                        ELSE [skilled[u] EXCEPT !.alone = FALSE]]
       /\ UNCHANGED <<shelf, allowedSkills, writes>>

\* LoadSkillTool.execute and activate_skill.
ExecuteLoadSkill(t, n) ==
  /\ skilled[t].on
  /\ loaderTools' = loaderTools \cup Metadata(n).tools
  /\ optionalTools' = IF sameSet THEN loaderTools' ELSE optionalTools
  /\ skilled' = [skilled EXCEPT ![t].loaded = @ \cup Metadata(n).tools]
  /\ UNCHANGED <<shelf, allowedSkills, sameSet, writes>>

EndTurn(t) ==
  /\ skilled[t].on
  /\ skilled' = [skilled EXCEPT ![t] = NotLoaded]
  /\ UNCHANGED <<shelf, allowedSkills, optionalTools, loaderTools, sameSet, writes>>

\* The agent writes a directory below workspace/skills.
WriteSkill(n) ==
  /\ writes < MaxWrites
  /\ \E w \in AgentWrites : shelf' = [shelf EXCEPT !["workspace"][n] =
                         [dir |-> TRUE, front |-> w.front, hook |-> w.hook, called |-> n,
                          nth |-> 0]]
  /\ writes' = writes + 1
  /\ UNCHANGED <<allowedSkills, optionalTools, loaderTools, sameSet, skilled>>

SkillsNext ==
  \/ \E t \in SkillTurns : BuildSystemPrompt(t) \/ EndTurn(t)
  \/ \E t \in SkillTurns, n \in SkillNames : ExecuteLoadSkill(t, n)
  \/ \E n \in SkillNames : WriteSkill(n)

SkillsSpec == SkillsInit /\ [][SkillsNext]_skillsVars

-----------------------------------------------------------------------------
(* Properties *)

\* The summary tells the model of a skill exactly if load_skill finds it, and
\* in the place the summary names: list_skills and load_skill agree on the
\* precedence and on the allow-list.
SummaryIsLoadable ==
  /\ \A e \in Listed : LoadedFrom(e[1]) = e[2]
  /\ \A n \in SkillNames : LoadedFrom(n) # 0 => <<n, LoadedFrom(n)>> \in Listed

\* The hook of a skill runs with the skill: it comes from the directory the
\* skill is loaded from, and it does run: get_agent_hooks returns "one per skill
\* that defines the hook".  Not so, and named here: an earlier directory of that
\* name silences it, one without a SKILL.md of its own or a package's that goes by
\* another name than its skill.
HooksGoWithTheirSkill ==
  \A d \in {x \in SkillDirs : x.called = x.name /\ DirAt(x.rank, x.name).front.there} :
    /\ d \in Firing => LoadedFrom(d.name) = d.rank
    /\ LoadedFrom(d.name) = d.rank /\ DirAt(d.rank, d.name).hook =>
         \/ d \in Firing
         \/ \E e \in SkillDirs :
              /\ e.called = d.called /\ ComesBefore(e, d)
              /\ ~DirAt(e.rank, e.name).front.there \/ e.name # d.name

\* Nobody runs a hook whose name the allow-list refuses, unless a package calls
\* its directory so.
HooksAreAllowed ==
  \A d \in Firing : d.called \in allowedSkills \/ (d.rank = 3 /\ d.called # d.name)

\* active_tools gives a turn the tools of its own skills, as they were when its
\* prompt was built, unless another turn's prompt was built since.
TurnHasItsTools ==
  \A t \in SkillTurns : skilled[t].on /\ skilled[t].alone => optionalTools = skilled[t].own

\* What load_skill's comment promises, "subsequent LLM calls see those tools
\* available": refuted, for the tool adds to the set of before the first prompt.
LoadedToolsAreSeen ==
  \A t \in SkillTurns :
    skilled[t].on /\ skilled[t].alone => skilled[t].loaded \subseteq optionalTools

SkillsRight ==
  SummaryIsLoadable /\ HooksGoWithTheirSkill /\ HooksAreAllowed /\ TurnHasItsTools
=============================================================================
