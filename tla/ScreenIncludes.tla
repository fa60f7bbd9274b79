--------------------------- MODULE ScreenIncludes ---------------------------
(***************************************************************************)
(* exoclaw_screen.renderer.pillow: the painting of ".include" images.  The  *)
(* screen and the files it includes are drawn depth first; each level of    *)
(* _render_include carries its own copy of the paths visited above it.      *)
(***************************************************************************)
EXTENDS Integers, Sequences, SequencesExt

CONSTANTS
    Screen,        \* screen.md, the one the renderer is given
    Snippets,      \* the files an include may name
    Contents       \* what the files may hold: each a function from
                   \* {Screen} \cup Snippets to the list of files it includes

ASSUME IncludesAssumption ==
    Contents \subseteq [{Screen} \cup Snippets -> Seq({Screen} \cup Snippets)]

VARIABLES
    contents,      \* what they hold
    readable,      \* the files that can be opened
    painting,      \* the stack of files being painted: the file, the paths
                   \* visited, the includes it has left
    painted        \* what each include came out as: the files that hold it,
                   \* from screen.md down, the file it names, the outcome

includesVars == <<contents, readable, painting, painted>>

Level(file, visited, left) == [file |-> file, visited |-> visited, left |-> left]

IncludesInit ==
    /\ contents \in Contents
    /\ readable \in SUBSET ({Screen} \cup Snippets)
    /\ painting = <<Level(Screen, {}, contents[Screen])>>
    /\ painted = {}

Path == [k \in DOMAIN painting |-> painting[k].file]
TopLevel == Last(painting)

\* One include of the top file left, drawn as a file or as a note.
Noted(outcome) ==
    painted' = painted \cup {[path |-> Path, file |-> Head(TopLevel.left), outcome |-> outcome]}
Left == [TopLevel EXCEPT !.left = Tail(@)]
RestToPaint == Append(Front(painting), Left)

\* A plausible bug: one visited set for the whole screen.
VisitedBelowShared(file) == TopLevel.visited \cup {file} \cup {p.file : p \in painted}

\* sub_visited: a copy, so that a file may be included by two others.
VisitedBelow(file) == TopLevel.visited \cup {file}

\* _render_include: the cycle test comes before the file is opened.
Include ==
    /\ painting # <<>> /\ TopLevel.left # <<>>
    /\ LET file == Head(TopLevel.left) IN
       \/ /\ file \in TopLevel.visited
          /\ Noted("cycle") /\ painting' = RestToPaint
       \/ /\ file \notin TopLevel.visited /\ file \notin readable
          /\ Noted("missing") /\ painting' = RestToPaint
       \/ /\ file \notin TopLevel.visited /\ file \in readable
          /\ Noted("drawn")
          /\ painting' = Append(RestToPaint, Level(file, VisitedBelow(file), contents[file]))
    /\ UNCHANGED <<contents, readable>>

\* The file has no include left.  The test that should keep includes to one
\* level looks for an image among the blocks of the file; the parser puts every
\* image into a paragraph, so that it never holds and the includes nest.
Finished ==
    /\ painting # <<>> /\ TopLevel.left = <<>>
    /\ painting' = Front(painting)
    /\ UNCHANGED <<contents, readable, painted>>

AllPainted == painting = <<>> /\ UNCHANGED includesVars

IncludesNext == Include \/ Finished \/ AllPainted

-----------------------------------------------------------------------------
IncludesTypeOK ==
    /\ contents \in Contents /\ readable \subseteq {Screen} \cup Snippets
    /\ \A k \in DOMAIN painting : painting[k].visited \subseteq {Screen} \cup Snippets

\* Painting comes to an end: no snippet is open twice at a time, and the screen
\* itself at most twice, as its own path is not among the visited.  GRAMMAR.md and
\* _render_include promise a single level, which would make this easy; the code
\* nests, against both, and only the visited set bounds it.
NoEndlessNesting ==
    \A i, j \in DOMAIN painting :
        (i < j /\ painting[i].file = painting[j].file) => i = 1 /\ painting[i].file = Screen

\* An include is called a cycle only where the file it names is being painted,
\* so that a snippet two others share is drawn in both.
CyclesAreReal ==
    \A p \in painted : p.outcome = "cycle" => p.file \in ToSet(Tail(p.path))

IncludesRight == NoEndlessNesting /\ CyclesAreReal
=============================================================================
