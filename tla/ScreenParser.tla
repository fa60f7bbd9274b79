---------------------------- MODULE ScreenParser ----------------------------
(***************************************************************************)
(* exoclaw_screen.parser, the block parser of screen.md: _parse_blocks, one *)
(* round of its loop per step.  A line is its class, what the tests on its *)
(* prefix tell apart; a line of a blockquote is the class of what follows  *)
(* its ">".  A block is kept as the numbers of the lines it was made from. *)
(***************************************************************************)
EXTENDS Integers, Sequences, SequencesExt

CONSTANT ScreenSources   \* the sources tried, sequences of lines

VARIABLES
    screenLines,   \* the source, by line number
    cursors,       \* the stack of _LineCursor: the lines left, <<number, line>>
    frames,        \* the stack of _parse_blocks calls: what each has emitted
    parsed         \* parse has returned

parserVars == <<screenLines, cursors, frames, parsed>>

LineClasses == {"blank", "open", "close", "colons", "ial", "heading", "hashes",
                "rule", "code", "bullet", "number", "text", "marked", "image"}

ScreenLine(c, quoted) == [class |-> c, quoted |-> quoted]

-----------------------------------------------------------------------------
\* A block: its kind, the lines it stands on, the line its attributes come
\* from (0: none) and its children.
ScreenBlock(kind, lines, attrs, kids) ==
    [kind |-> kind, lines |-> lines, attrs |-> attrs, kids |-> kids]
Frame(kind, lines, attrs) == ScreenBlock(kind, lines, attrs, <<>>)

Cursor == Last(cursors)
ClassAt(k) == IF Cursor[k].line.quoted THEN "quote" ELSE Cursor[k].line.class
Peek == ClassAt(1)
Numbers(k) == [j \in 1..k |-> Cursor[j].nr]
AtEof == Cursor = <<>>
InDiv == Last(frames).kind = "div"

\* How many lines at the cursor satisfy a test, one after the other.
Run(Test(_)) ==
    CHOOSE k \in 0..Len(Cursor) :
        /\ \A j \in 1..k : Test(ClassAt(j))
        /\ k < Len(Cursor) => ~Test(ClassAt(k + 1))

\* A plausible bug: every line that begins with "#" counts as a heading.
StartsBlockHashes(c) ==
    c \in {"heading", "hashes", "quote", "code", "open", "close", "colons", "rule",
           "bullet", "number"}

\* _line_starts_block: seven hashes are no heading, every ":::" is a fence.
StartsBlock(c) ==
    c \in {"heading", "quote", "code", "open", "close", "colons", "rule",
           "bullet", "number"}

\* parse_trailing_ial with _trailing_ial_belongs_to_image: the line a block's
\* attributes are stripped from.
TrailingIal(c) == c \in {"ial", "marked"}

Consume(k, b) ==
    /\ cursors' = [cursors EXCEPT ![Len(cursors)] = SubSeq(@, k + 1, Len(@))]
    /\ frames' = [frames EXCEPT ![Len(frames)].kids = Append(@, b)]
    /\ UNCHANGED <<screenLines, parsed>>

-----------------------------------------------------------------------------
ParserInit ==
    /\ screenLines \in ScreenSources
    /\ cursors = <<[k \in DOMAIN screenLines |->
                       [nr |-> k, line |-> screenLines[k]]]>>
    /\ frames = <<Frame("document", <<>>, 0)>>
    /\ parsed = FALSE

\* A frame ends: its block goes to the caller's list.
Return(closing) ==
    LET done == Last(frames) IN
    /\ frames' = [Front(frames) EXCEPT ![Len(frames) - 1].kids =
                     Append(@, [done EXCEPT !.lines = @ \o closing])]
    /\ UNCHANGED <<screenLines, parsed>>

\* A ":::" line closes the div it stands in.
CloseFence ==
    /\ ~AtEof /\ InDiv /\ Peek = "close"
    /\ Return(Numbers(1))
    /\ cursors' = [cursors EXCEPT ![Len(cursors)] = Tail(@)]

SkipBlank ==
    /\ ~AtEof /\ Peek = "blank"
    /\ cursors' = [cursors EXCEPT ![Len(cursors)] = Tail(@)]
    /\ UNCHANGED <<screenLines, frames, parsed>>

IsBlank(c) == c = "blank"
IsBullet(c) == c = "bullet"
IsNumber(c) == c = "number"
IsQuote(c) == c = "quote"
IsCode(c) == c # "code"
IsPlain(c) == c # "blank" /\ ~StartsBlock(c)

\* How many blank lines follow the first one.
BlanksAfterFirst ==
    CHOOSE k \in 0..(Len(Cursor) - 1) :
        /\ \A j \in 2..(k + 1) : IsBlank(ClassAt(j))
        /\ k + 2 <= Len(Cursor) => ~IsBlank(ClassAt(k + 2))

\* An IAL line on its own whose next line that is not blank opens a list.
ListAhead ==
    /\ Peek = "ial"
    /\ BlanksAfterFirst + 2 <= Len(Cursor)
    /\ ClassAt(BlanksAfterFirst + 2) \in {"bullet", "number"}

\* The list at the cursor, one marker all along.
ListOf(skip, attrs) ==
    LET marker == ClassAt(skip + 1)
        k == CHOOSE k \in (skip + 1)..Len(Cursor) :
                /\ \A j \in (skip + 1)..k : ClassAt(j) = marker
                /\ k < Len(Cursor) => ClassAt(k + 1) # marker
    IN  Consume(k, ScreenBlock(marker, SubSeq(Numbers(k), skip + 1, k), attrs, <<>>))

\* The two rounds of the loop, IAL line and list, nothing in between.
List ==
    /\ ~AtEof
    /\ \/ ListAhead /\ ListOf(1 + BlanksAfterFirst, Cursor[1].nr)
       \/ Peek \in {"bullet", "number"} /\ ListOf(0, 0)

OpenFence ==
    /\ ~AtEof /\ Peek = "open"
    /\ cursors' = [cursors EXCEPT ![Len(cursors)] = Tail(@)]
    /\ frames' = Append(frames, Frame("div", Numbers(1), 0))
    /\ UNCHANGED <<screenLines, parsed>>

OneLine ==
    /\ ~AtEof /\ Peek \in {"heading", "rule"}
    /\ Consume(1, ScreenBlock(Peek, Numbers(1), 0, <<>>))

\* The code block runs to the next fence or to the end.
CodeBlock ==
    /\ ~AtEof /\ Peek = "code"
    /\ LET inner == {j \in 2..Len(Cursor) : Peek = ClassAt(j)}
           k == IF inner = {} THEN Len(Cursor)
                ELSE CHOOSE j \in inner : \A i \in inner : j <= i
       IN  Consume(k, ScreenBlock("code", Numbers(k), 0, <<>>))

\* The contiguous ">" lines are parsed on a cursor of their own, at depth 0;
\* an IAL on the last one that is not blank is the quote's and is stripped.
Quote ==
    /\ ~AtEof /\ Peek = "quote"
    /\ LET k == Run(IsQuote)
           inner == [j \in 1..k |-> [nr |-> Cursor[j].nr,
                                     line |-> ScreenLine(Cursor[j].line.class, FALSE)]]
           full == {j \in 1..k : inner[j].line.class # "blank"}
           last == CHOOSE j \in full : \A i \in full : i <= j
           c == inner[last].line.class
           stripped == CASE c = "ial" -> "blank" [] c = "marked" -> "text"
                         [] c = "open" -> "close"
           ial == full # {} /\ (TrailingIal(c) \/ c = "open")
       IN  /\ cursors' = Append(
                 [cursors EXCEPT ![Len(cursors)] = SubSeq(@, k + 1, Len(@))],
                 IF ial THEN [inner EXCEPT ![last].line.class = stripped] ELSE inner)
           /\ frames' = Append(frames,
                 Frame("blockquote", <<>>, IF ial THEN inner[last].nr ELSE 0))
    /\ UNCHANGED <<screenLines, parsed>>

Paragraph ==
    /\ ~AtEof /\ Peek \in LineClasses \ {"blank"} /\ ~StartsBlock(Peek) /\ ~ListAhead
    /\ LET k == Run(IsPlain)
       IN  Consume(k, ScreenBlock("paragraph", Numbers(k),
                            IF TrailingIal(ClassAt(k)) THEN Cursor[k].nr ELSE 0, <<>>))

\* A line that no branch takes and that starts a block: the paragraph loop ends
\* before it and the block loop goes round with the cursor where it was.
Spins ==
    /\ ~AtEof /\ StartsBlock(Peek)
    /\ Peek \notin {"heading", "rule", "code", "quote", "bullet", "number", "open"}
    /\ ~(InDiv /\ Peek = "close")

GoRound == Spins /\ UNCHANGED parserVars

\* The cursor is at its end: the call returns, the quote's cursor with it.
EndOfLines ==
    /\ AtEof /\ ~parsed
    /\ IF Len(frames) = 1
         THEN parsed' = TRUE /\ UNCHANGED <<screenLines, cursors, frames>>
         ELSE /\ Return(<<>>)
              /\ cursors' = IF InDiv THEN cursors ELSE Front(cursors)

ParserDone == parsed /\ UNCHANGED parserVars

ParserNext ==
    \/ CloseFence \/ SkipBlank \/ List \/ OpenFence \/ OneLine \/ CodeBlock
    \/ Quote \/ Paragraph \/ GoRound \/ EndOfLines \/ ParserDone

-----------------------------------------------------------------------------
RECURSIVE LinesOf(_)
LinesOf(b) ==
    LET own == b.lines
        head == IF b.kind = "div" THEN SubSeq(own, 1, 1) ELSE own
        foot == IF b.kind = "div" THEN SubSeq(own, 2, Len(own)) ELSE <<>>
        inner == FoldLeft(LAMBDA s, kid : s \o LinesOf(kid), <<>>, b.kids)
    IN  head \o inner \o foot

RECURSIVE BlocksIn(_)
BlocksIn(b) == {b} \cup UNION {BlocksIn(b.kids[k]) : k \in DOMAIN b.kids}

Tree == frames[1]

\* Where parse never returns: at a ":::" line that closes nothing here, and at a
\* fence that is neither, no branch moves the cursor and the loop goes round for
\* ever.  The parser's docstring (28-30) and GRAMMAR.md (108) say that what the
\* dialect has no rule for is tolerated; that holds of every other line.
HangsAtStrayFences ==
    Spins <=> ~AtEof /\ (Peek = "colons" \/ (Peek = "close" /\ ~InDiv))

\* The tree accounts for the source: every line that is not blank belongs to one
\* block, once and in order, as its text or as the line of its attributes.
NothingLost ==
    parsed =>
        LET lines == LinesOf(Tree)
            attrs == {b.attrs : b \in BlocksIn(Tree)} \ {0}
        IN  /\ \A i, j \in DOMAIN lines : i < j => lines[i] < lines[j]
            /\ \A n \in DOMAIN screenLines :
                  screenLines[n].class # "blank" => n \in ToSet(lines) \cup attrs

\* A list's attributes come from the IAL line above it, nothing but blank lines
\* in between, and a div holds exactly the blocks between its two fences.
AttrsAreNear ==
    parsed => \A b \in BlocksIn(Tree) :
        /\ (b.kind \in {"bullet", "number"} /\ b.attrs # 0) =>
              \A n \in (b.attrs + 1)..(b.lines[1] - 1) : screenLines[n].class = "blank"
        /\ (b.kind = "div" /\ Len(b.lines) = 2) =>
              \A n \in (b.lines[1] + 1)..(b.lines[2] - 1) :
                  screenLines[n].class # "blank" =>
                      n \in ToSet(LinesOf(b)) \cup {c.attrs : c \in BlocksIn(b)}

ParserTypeOK ==
    /\ screenLines \in ScreenSources
    /\ parsed \in BOOLEAN
    /\ Len(frames) \in 1..(1 + Len(screenLines)) /\ Len(cursors) <= Len(frames)
    /\ \A k \in DOMAIN frames : frames[k].kind \in {"document", "div", "blockquote"}

ParserRight == HangsAtStrayFences /\ NothingLost /\ AttrsAreNear
=============================================================================
