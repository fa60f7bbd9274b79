---------------------------- MODULE ScreenInline ----------------------------
(***************************************************************************)
(* exoclaw_screen.parser, the inline parser: _parse_inline over a text that *)
(* is typed stroke by stroke.  A stroke is a few symbols, a symbol one of   *)
(* the characters the parser tests ("tick" and "esc" for the backquote and  *)
(* the backslash, "n" for a newline), or "x" for any other.                 *)
(***************************************************************************)
EXTENDS Integers, Sequences, SequencesExt

CONSTANTS
    Strokes,       \* the strokes, sequences of symbols
    MaxStrokes     \* bound on how many are typed

VARIABLES
    typed,         \* the text so far
    strokes        \* how many strokes made it

inlineVars == <<typed, strokes>>

None == 0          \* str.find's -1

\* A node: its kind, the symbols it shows, its children, what it was written with.
Inline(kind, own, kids, mark) == [kind |-> kind, own |-> own, kids |-> kids, mark |-> mark]
Plain(s) == Inline("text", s, <<>>, <<>>)

At(s, k) == IF k \in DOMAIN s THEN s[k] ELSE ""

\* src.find of a mark of n equal symbols, from a position on.
FindFrom(s, c, n, from) ==
    LET hits == {k \in from..(Len(s) - n + 1) : \A j \in 0..(n - 1) : s[k + j] = c}
    IN  IF hits = {} THEN None ELSE CHOOSE k \in hits : \A h \in hits : k <= h

\* Length of the run of one symbol at a position.
RunAt(s, i) ==
    CHOOSE n \in 1..(Len(s) - i + 1) :
        /\ \A j \in 0..(n - 1) : s[i + j] = s[i]
        /\ At(s, i + n) # s[i]

\* The ")" that ends the "(...)" behind the "]" of a link or an image.
Paren(s, bracket) ==
    IF bracket = None \/ At(s, bracket + 1) # "(" THEN None
    ELSE FindFrom(s, ")", 1, bracket + 2)

\* _split_url_title: the address ends at the first space; a title without
\* quotation marks is dropped.
Address(s) ==
    LET t == SelectInSeq(s, LAMBDA c : c # " ")
        trimmed == IF t = 0 THEN <<>> ELSE SubSeq(s, t, Len(s))
        e == SelectInSeq(trimmed, LAMBDA c : c = " ")
    IN  IF e = 0 THEN trimmed ELSE SubSeq(trimmed, 1, e - 1)

\* The end of the "{...}" right behind an image, braces matched, or its start.
IalEnd(s, j) ==
    LET depth(k) == Len(SelectSeq(SubSeq(s, j, k), LAMBDA c : c = "{"))
                      - Len(SelectSeq(SubSeq(s, j, k), LAMBDA c : c = "}"))
        ends == {k \in j..Len(s) : depth(k) = 0}
    IN  IF At(s, j) # "{" \/ ends = {} THEN j - 1
        ELSE CHOOSE k \in ends : \A h \in ends : k <= h

\* Where the closing mark of a span at i is, or None: of as many symbols, with
\* something between them for code and italics, and not the half of a "**".
Closing(s, i, n) ==
    LET k == FindFrom(s, s[i], n, i + n) IN
    CASE k = None -> None
      [] s[i] = "*" /\ n = 2 -> k
      [] k = i + n -> None
      [] s[i] \in {"tick", "*"} /\ At(s, k + n) = s[i] -> None
      [] OTHER -> k

RECURSIVE ParseInline(_)

\* What the parser makes of the symbols at i: one node, or literal text, and
\* where it goes on.
Piece(s, i) ==
    LET c == s[i]
        n == CASE c = "tick" -> RunAt(s, i) [] c = "*" /\ At(s, i + 1) = "*" -> 2 [] OTHER -> 1
        inside(k) == SubSeq(s, i + n, k - 1)
        span(kind, k) ==
            [next |-> k + n,
             node |-> IF kind = "code" THEN Inline(kind, inside(k), <<>>, SubSeq(s, i, i + n - 1))
                      ELSE Inline(kind, <<>>, ParseInline(inside(k)), SubSeq(s, i, i + n - 1))]
        literal == [next |-> i + n, node |-> Plain(SubSeq(s, i, i + n - 1))]
        text == IF c = "!" THEN i + 2 ELSE i + 1
        bracket == FindFrom(s, "]", 1, text)
        paren == Paren(s, bracket)
    IN  CASE c = " " /\ At(s, i + 1) = " " /\ At(s, i + 2) = "n" ->
                 [next |-> i + 3, node |-> Inline("break", SubSeq(s, i, i + 2), <<>>, <<>>)]
          [] c = "esc" /\ i < Len(s) -> [next |-> i + 2, node |-> Plain(<<s[i + 1]>>)]
          [] c \in {"tick", "*", "_"} ->
                 LET k == Closing(s, i, n)
                     kind == CASE c = "tick" -> "code" [] n = 2 -> "bold" [] OTHER -> "italic"
                 IN  IF k = None THEN literal ELSE span(kind, k)
          [] (c = "[" \/ (c = "!" /\ At(s, i + 1) = "[")) /\ paren # None ->
                 LET address == Address(SubSeq(s, bracket + 2, paren - 1))
                     shown == SubSeq(s, text, bracket - 1)
                     ial == IF c = "!" THEN IalEnd(s, paren + 1) ELSE paren
                 IN  [next |-> ial + 1,
                      node |-> IF c = "!"
                               THEN Inline("image", shown, <<>>,
                                           <<address, SubSeq(s, paren + 1, ial)>>)
                               ELSE Inline("link", <<>>, ParseInline(shown), <<address, <<>>>>)]
          [] OTHER -> literal

ParseInline(s) ==
    LET walk[i \in 1..(Len(s) + 1)] ==
            IF i > Len(s) THEN <<>>
            ELSE LET p == Piece(s, i) IN <<p.node>> \o walk[p.next]
    IN  walk[1]

-----------------------------------------------------------------------------
InlineInit == typed = <<>> /\ strokes = 0

Type ==
    /\ strokes < MaxStrokes
    /\ strokes' = strokes + 1
    /\ \E c \in Strokes : typed' = typed \o c

AllTyped == strokes = MaxStrokes /\ UNCHANGED inlineVars

InlineNext == Type \/ AllTyped

-----------------------------------------------------------------------------
RECURSIVE Written(_)
\* The nodes written out again.
Written(nodes) ==
    FoldLeft(LAMBDA s, d : s \o
        (CASE d.kind \in {"text", "break"} -> d.own
           [] d.kind = "code" -> d.mark \o d.own \o d.mark
           [] d.kind \in {"bold", "italic"} -> d.mark \o Written(d.kids) \o d.mark
           [] d.kind = "link" -> <<"[">> \o Written(d.kids) \o <<"]", "(">> \o d.mark[1] \o <<")">>
           [] d.kind = "image" ->
                <<"!", "[">> \o d.own \o <<"]", "(">> \o d.mark[1] \o <<")">> \o d.mark[2]),
        <<>>, nodes)

EscapesGone(s) == SelectSeq(s, LAMBDA c : c # "esc")

RECURSIVE NodesIn(_)
NodesIn(nodes) ==
    ToSet(nodes) \cup UNION {NodesIn(nodes[k].kids) : k \in DOMAIN nodes}

\* Written out again the nodes are the text but for the backslashes that
\* escape: no mark that found no partner is dropped, nothing is taken by two
\* nodes, and no span ends in another's mark.  An address that a space cuts is
\* left out, its title is not always kept.
WrittenBack ==
    \/ \E k \in 1..(Len(typed) - 1) : typed[k] = "(" /\ \E j \in k..Len(typed) : typed[j] = " "
    \/ EscapesGone(Written(ParseInline(typed))) = EscapesGone(typed)

\* A single "*" never closes on one half of a "**".
NoHalfMark ==
    \A d \in NodesIn(ParseInline(typed)) :
        d.kind = "italic" => Written(d.kids) # <<>>

InlineRight == WrittenBack /\ NoHalfMark
=============================================================================
