---------------------------- MODULE MCComponents ----------------------------
(***************************************************************************)
(* Components, and the components that are only model-checked, in one run. *)
(* Here are also the small values each is checked with.                    *)
(***************************************************************************)
EXTENDS Components, MCSkills, HtmlTokens, HtmlTree, HtmlSpace,
        ScreenParser, ScreenInline, ScreenLayout

-----------------------------------------------------------------------------
(* Small values *)

\* Turn budget: one token, or three of which two are cached.
SmallUsages == {[total |-> 1, cached |-> 0], [total |-> 3, cached |-> 2]}

\* Reduce: a list; a missing file beside a list; lists without the field, a text.
File(k, fs) == [kind |-> k, fields |-> fs]
SmallInputs ==
  {<<File("list", <<1, 2, 3>>)>>,
   <<File("missing", <<>>), File("list", <<1, 1>>)>>,
   <<File("list", <<1, NoField>>), File("text", <<NoField>>), File("list", <<1, NoField>>)>>}
SmallChunkSizes == {-1, 1, 2}

\* Shell: up to four lines on the two streams.
SmallScripts == BoundedSeq({"out", "err"}, 4)

\* Files: line ends of all kinds beside two other pieces of text.
SmallFileTexts ==
  {<<>>, <<"a">>, <<"a", "n", "b", "n">>, <<"a", "a", "a">>, <<"n", "r", "a">>,
   <<"a", "b", "r", "n", "b">>, <<"a", "b", "n", "a", "b", "n", "b">>}
SmallEditPieces == {<<>>, <<"a">>, <<"a", "a">>, <<"b", "n">>, <<"b">>}

\* Cron tool: one call for every way an add is refused or made, and updates.
PlainAdd ==
  [message |-> TRUE, every |-> 0, expr |-> "", tz |-> "", at |-> "future", wake |-> "now"]
SmallAddCalls ==
  {PlainAdd, [PlainAdd EXCEPT !.message = FALSE], [PlainAdd EXCEPT !.wake = "bad"],
   [PlainAdd EXCEPT !.tz = "good"]}
    \cup {[PlainAdd EXCEPT !.at = t] : t \in {"", "bad", "past"}}
    \cup {[PlainAdd EXCEPT !.every = n, !.expr = "good"] : n \in {-1, 1}}
    \cup {[PlainAdd EXCEPT !.expr = e, !.tz = z] : e \in {"good", "bad"}, z \in {"", "good", "bad"}}
SmallUpdateCalls ==
  {[to |-> t, deliver |-> d, expr |-> e, tz |-> "", wake |-> "now"] :
     t \in {"x", Nowhere}, d \in {"keep", "no"}, e \in {"", "good"}}
    \cup {[to |-> "x", deliver |-> "keep", expr |-> "bad", tz |-> "", wake |-> "now"]}

TwoChannels == <<"c1", "c2">>

\* Providers: a request with a part in memory and two files, one without a preview;
\* lines that name a call, name it anew or empty, and argue; a chat with hollow
\* contents, long and short ids; answers of one and of two choices.
SmallRequest == <<"inline", "file", "bare">>
SmallLines ==
  {[text |-> t, slot |-> -1, name |-> "missing", args |-> "missing"] : t \in BOOLEAN}
    \cup {[text |-> FALSE, slot |-> 0, name |-> n[1], args |-> n[2]] :
            n \in {<<"f", "missing">>, <<"missing", "part">>, <<"", "missing">>}}
    \cup {[text |-> TRUE, slot |-> 1, name |-> "g", args |-> "other"]}
ShortId == <<"nine", 1>>
LongId == <<"long", 1>>
FullStr == Body("str", <<"full">>)
HollowStr == Body("str", <<"hollow">>)
SmallPrompts ==
  {<<Msg("system", FullStr, <<>>, <<>>), Msg("user", HollowStr, <<>>, <<>>),
     Msg("assistant", HollowStr, <<>>, <<>>)>>,
   <<Msg("assistant", Body("missing", <<>>), <<LongId, ShortId>>, <<>>),
     Msg("tool", Body("list", <<"hollow", "full">>), <<>>, LongId),
     Msg("tool", FullStr, <<>>, ShortId)>>,
   <<Msg("assistant", Body("list", <<"hollow">>), <<LongId>>, <<>>),
     Msg("tool", Body("dict", <<"full">>), <<>>, <<"long", 2>>),
     Msg("user", Body("dict", <<"hollow">>), <<>>, <<>>)>>}
SmallResponses ==
  {<<Choice("a", <<>>, "stop")>>,
   <<Choice("", <<>>, "length"), Choice("", <<"f", "g">>, "tool_calls")>>,
   <<Choice("", <<"f">>, "stop"), Choice("b", <<"g">>, "length")>>}

\* HTML: tags, entities, comments and attributes with a quoted ">", in pieces.
SmallFragments ==
  {<<"<", "p", ">">>, <<"<", "/", "p", ">">>, <<"<", "s", ">">>, <<"<", "/", "s", ">">>,
   <<"&", "p">>, <<";">>, <<"p">>, <<"<">>, <<"<", "!", "-", "-">>, <<"-", "-", ">">>,
   <<"<", "p", " ", "p", "=", "q", ">", "q", ">">>, <<"<", "s", "/", ">">>,
   <<"<", "p", " ", "p", "q", " ", "p", "=", "q", ">", "q", ">">>}
SmallTexts == {<<"x">>, <<" ">>, <<"x", " ">>, <<" ", "x">>, <<"n">>}

\* Screen: three lines of any class, four of the classes that nest.
ScreenLines ==
  {ScreenLine(c, FALSE) : c \in LineClasses}
    \cup {ScreenLine(c, TRUE) : c \in {"blank", "open", "close", "ial", "marked", "text", "bullet"}}
NestingLines ==
  {ScreenLine(c, FALSE) : c \in {"blank", "open", "close", "ial", "bullet", "text"}}
    \cup {ScreenLine(c, TRUE) : c \in {"open", "close"}}
SmallSources == BoundedSeq(ScreenLines, 3) \cup [1..4 -> NestingLines]
SmallStrokes ==
  {<<"x">>, <<"tick">>, <<"*">>, <<"_">>, <<"esc">>, <<"[">>, <<"!", "[">>, <<"]">>, <<"]", "(">>,
   <<")">>, <<"{", "x", "}">>, <<" ", " ", "n">>}
HalfOrNone == {NoSize, Percent(50)}
AWord == Leaf("paragraph", NoSize, NoSize, 1)
ScreenLeaves ==
  {AWord, Leaf("half", NoSize, NoSize, 1), Leaf("paragraph", Percent(50), NoSize, 1),
   Leaf("paragraph", NoSize, Percent(50), 2), Leaf("image", Px(3), Px(5), 1)}
InnerPanels ==
  {Panel(k, w, h, 1, 2, kids) : k \in Containers, w \in HalfOrNone, h \in HalfOrNone,
     kids \in {<<>>, <<AWord, AWord>>,
               <<AWord, Leaf("paragraph", Percent(50), Percent(50), 2), AWord>>}}
SmallDocuments ==
  {<<Panel(k, NoSize, h, g, 2, <<a, b>>), AWord>> :
     k \in Containers, h \in HalfOrNone, g \in {0, 2},
     a \in ScreenLeaves \cup InnerPanels, b \in ScreenLeaves \cup InnerPanels}
SmallContents ==
  [{"screen", "a", "b"} -> {<<>>, <<"a">>, <<"b">>, <<"screen">>, <<"a", "b">>, <<"b", "a">>,
                            <<"a", "a">>}]

\* Voice: chunks of no, one, two and three bytes.
SmallRecordings == BoundedSeq({<<>>, <<1>>, <<254, 77>>, <<129, 2, 255>>}, 3)

\* Fetch: an empty page; lines of no, one and several fragments, without and with a rest.
SmallPages ==
  {[lines |-> <<>>, rest |-> <<>>], [lines |-> << << <<1, 2>> >>, << <<3>> >> >>, rest |-> <<>>],
   [lines |-> << <<>>, << <<1>>, <<2, 3, 4>>, <<5>> >>, << <<6>> >> >>,
    rest |-> << <<7>>, <<8, 9>> >>],
   [lines |-> << << <<1, 2>> >> >>, rest |-> << <<3, 4, 5>>, <<6>> >>]}
SmallFetchLetters == 1..9
SmallCaps == {0, 1, 2, 3, 4, 5, 7, 10}

\* GitHub: the events it tells apart, with and without a trigger phrase.
GitNames ==
  {"issues", "issue_comment", "pull_request", "pull_request_review_comment",
   "workflow_dispatch", "push"}
SmallEvents ==
  {[name |-> n, fresh |-> f, mentions |-> g, label |-> g, member |-> g] :
     n \in GitNames, f \in BOOLEAN, g \in BOOLEAN}
DefaultSettings ==
  [events |-> GitNames, trigger |-> TRUE, issues |-> TRUE, prs |-> FALSE, label |-> FALSE,
   authors |-> FALSE]
SmallSettings ==
  {DefaultSettings, [DefaultSettings EXCEPT !.trigger = FALSE, !.prs = TRUE],
   [DefaultSettings EXCEPT !.events = {"issues"}, !.label = TRUE, !.authors = TRUE]}

\* Splitting: texts of up to six characters for messages of one, four or five.
SmallLongTexts == BoundedSeq({"n", "x"}, 6)
SmallAllowFroms == {{}, {"friend"}, {"*"}}

-----------------------------------------------------------------------------
(* One component moves, the others rest. *)

HtmlTokensRests ==
  /\ page = 0 /\ fed = 0 /\ buffer = 0 /\ raw = 0 /\ tokens = 0 /\ ended = 0

HtmlTreeRests ==
  /\ nodes = 0 /\ stack = 0 /\ gone = 0 /\ out = 0 /\ gaps = 0 /\ apart = 0
  /\ trailing = 0 /\ ends = 0 /\ closed = 0

HtmlSpaceRests ==
  /\ tree = 0 /\ markdown = 0

ScreenParserRests ==
  /\ screenLines = 0 /\ cursors = 0 /\ frames = 0 /\ parsed = 0

ScreenInlineRests ==
  /\ typed = 0 /\ strokes = 0

ScreenLayoutRests ==
  /\ unplaced = 0 /\ cursorY = 0 /\ boxes = 0

Init ==
  /\ ComponentsInit
  /\ IF part = "tokens" THEN TokensInit ELSE HtmlTokensRests
  /\ IF part = "tree" THEN TreeInit ELSE HtmlTreeRests
  /\ IF part = "space" THEN SpaceInit ELSE HtmlSpaceRests
  /\ IF part = "parser" THEN ParserInit ELSE ScreenParserRests
  /\ IF part = "inline" THEN InlineInit ELSE ScreenInlineRests
  /\ IF part = "layout" THEN LayoutInit ELSE ScreenLayoutRests

Still(p) ==
  /\ part = p
  /\ p # "tokens" => UNCHANGED tokensVars
  /\ p # "tree" => UNCHANGED treeVars
  /\ p # "space" => UNCHANGED spaceVars
  /\ p # "parser" => UNCHANGED parserVars
  /\ p # "inline" => UNCHANGED inlineVars
  /\ p # "layout" => UNCHANGED layoutVars

restVars ==
  <<tokensVars, treeVars, spaceVars, parserVars, inlineVars, layoutVars>>

Next ==
  \/ ComponentsNext /\ UNCHANGED restVars
  \/ Still("tokens") /\ TokensNext /\ UNCHANGED componentsVars
  \/ Still("tree") /\ TreeNext /\ UNCHANGED componentsVars
  \/ Still("space") /\ SpaceNext /\ UNCHANGED componentsVars
  \/ Still("parser") /\ ParserNext /\ UNCHANGED componentsVars
  \/ Still("inline") /\ InlineNext /\ UNCHANGED componentsVars
  \/ Still("layout") /\ LayoutNext /\ UNCHANGED componentsVars

vars == <<componentsVars, restVars>>

Spec == Init /\ [][Next]_vars

-----------------------------------------------------------------------------
(* Properties: those of the components, each while it is the one that moves. *)

\* Text.  Where a page is cut into chunks shows in nothing but the texts that are
\* cut, a page keeps its order unless something is beside its body, and words stay
\* words (html_to_markdown).
TextRight ==
  /\ part = "tokens" => TokensTypeOK /\ TokenizerRight
  /\ part = "tree" => TreeTypeOK /\ TreeRight
  /\ part = "space" => WordsKeepApart

\* exoclaw-screen.  A source is parsed without loss and its boxes tile the panel.
ScreenRight ==
  /\ part = "parser" => ParserTypeOK /\ ParserRight
  /\ part = "inline" => InlineRight
  /\ part = "layout" => LayoutRight
=============================================================================
