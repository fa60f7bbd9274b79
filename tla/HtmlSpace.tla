----------------------------- MODULE HtmlSpace -----------------------------
(***************************************************************************)
(* White space in exoclaw-tools-web's html_to_markdown: _collapse_ws and   *)
(* the flanking rule, which moves the spaces at the edges of an emphasis   *)
(* out of its delimiters.                                                  *)
(*                                                                         *)
(* The content of one paragraph is a tree of texts, b (any emphasis), span *)
(* (any element passed through), br and img, numbered in source order.  A  *)
(* character is "x" (visible), " " (ASCII white space) or "n" (other white *)
(* space, such as a no-break space).                                       *)
(***************************************************************************)
EXTENDS Integers, Sequences, FiniteSets, SequencesExt, FiniteSetsExt

CONSTANTS Texts, MaxInline  \* what a text node may hold; how many nodes there are

ASSUME SpaceAssumption == Texts \subseteq Seq({"x", " ", "n"}) /\ MaxInline \in Nat

VARIABLES tree, markdown

spaceVars == <<tree, markdown>>

-----------------------------------------------------------------------------
(* Trees *)

Leaves == {[tag |-> "text", data |-> d] : d \in Texts} \cup [tag : {"br", "img"}, data : {<<>>}]
Inners == [tag : {"b", "span"}, data : {<<>>}]

\* The elements the next node can be put in: 0 is the paragraph.
Open(t) ==
  LET up[n \in 0..Len(t)] == IF n = 0 THEN {0} ELSE up[t[n].parent] \cup {n}
  IN {n \in up[Len(t)] : n = 0 \/ t[n].tag \in {"b", "span"}}

Under(t, n) ==
  LET in[m \in n..Len(t)] == m = n \/ (t[m].parent >= n /\ in[t[m].parent])
  IN {m \in n..Len(t) : in[m]}

-----------------------------------------------------------------------------
(* _collapse_ws *)

\* _collapse_runs
Runs(s) == FoldSeq(LAMBDA c, out : IF c = " " /\ out # <<>> /\ Head(out) = " " THEN out
                                   ELSE <<c>> \o out, <<>>, s)

EndsBlank(s) == s # <<>> /\ Last(s) = " "
Trimmed(s) == IF EndsBlank(s) THEN Front(s) ELSE s

\* prev is the last text of the current line, 0 if there is none.
TextStep(s, i, t) ==
  LET text == Runs(t[i].data)
      cut == (s.prev = 0 \/ EndsBlank(s.data[s.prev])) /\ ~s.keep
      new == IF cut /\ text # <<>> /\ Head(text) = " " THEN Tail(text) ELSE text
  IN [s EXCEPT !.data[i] = new, !.prev = IF new = <<>> THEN @ ELSE i,
               !.dropped = IF new = <<>> THEN @ \cup {i} ELSE @]

\* At a line break the text before it loses its last space.
BreakStep(s) ==
  [s EXCEPT !.data = IF s.prev = 0 THEN @ ELSE [@ EXCEPT ![s.prev] = Trimmed(@)],
            !.prev = 0, !.keep = FALSE]

Collapsed(t) ==
  LET step[i \in 0..Len(t)] ==
        IF i = 0 THEN [prev |-> 0, keep |-> FALSE, dropped |-> {},
                       data |-> [n \in 1..Len(t) |-> <<>>]]
        ELSE LET s == step[i - 1] IN
             CASE t[i].tag = "text" -> TextStep(s, i, t)
               [] t[i].tag = "br"   -> BreakStep(s)
               [] t[i].tag = "img"  -> [s EXCEPT !.prev = 0, !.keep = TRUE]
               [] OTHER             -> [s EXCEPT !.keep = FALSE]
  IN BreakStep(step[Len(t)])

-----------------------------------------------------------------------------
(* Flanking *)

Content(t, data, n) == FlattenSeq([i \in 1..Len(t) |-> IF i \in Under(t, n) THEN data[i] ELSE <<>>])

Blanks == {" ", "n"}

\* Length of the longest prefix of s over the given characters.
Lead(s, chars) == Max({k \in 0..Len(s) : \A i \in 1..k : s[i] \in chars})

\* _edge_spans: ASCII white space, then any, from either side; all of a blank
\* text is its leading part.
EdgeSpans(s) ==
  LET la == Lead(s, {" "})
      l == Lead(s, Blanks)
      r == Reverse(s)
      ta == Lead(r, {" "})
      tt == Lead(r, Blanks)
  IN [la |-> SubSeq(s, 1, la), lna |-> SubSeq(s, la + 1, l),
      tna |-> IF l = Len(s) THEN <<>> ELSE SubSeq(s, Len(s) - tt + 1, Len(s) - ta),
      ta |-> IF l = Len(s) THEN <<>> ELSE SubSeq(s, Len(s) - ta + 1, Len(s))]

\* _is_flanked: the sibling on that side already provides a space.
Sibling(t, dropped, n, side) ==
  LET sibs == {m \in DOMAIN t \ dropped : t[m].parent = t[n].parent
                                          /\ IF side = "left" THEN m < n ELSE m > n}
  IN IF sibs = {} THEN {} ELSE {IF side = "left" THEN Max(sibs) ELSE Min(sibs)}

IsFlanked(t, c, n, side) ==
  \E m \in Sibling(t, c.dropped, n, side) :
     LET s == Content(t, c.data, m)
     IN s # <<>> /\ (IF side = "left" THEN Last(s) ELSE Head(s)) = " "

Flanking(t, c, n) ==
  LET e == EdgeSpans(Content(t, c.data, n))
  IN [leading |-> Reverse(Runs(Reverse(IF e.la # <<>> /\ IsFlanked(t, c, n, "left")
                                       THEN e.lna ELSE e.la \o e.lna))),
      trailing |-> Reverse(Runs(Reverse(IF e.ta # <<>> /\ IsFlanked(t, c, n, "right")
                                        THEN e.tna ELSE e.tna \o e.ta)))]

-----------------------------------------------------------------------------
(* Rendering: a delimiter is "*". *)

Strip(s) ==
  LET ws == Blanks \cup {"\n"}
  IN IF \A i \in 1..Len(s) : s[i] \in ws THEN <<>>
     ELSE SubSeq(s, Lead(s, ws) + 1, Len(s) - Lead(Reverse(s), ws))

\* _is_blank: only ASCII white space and neither br nor img inside.
Blank(t, c, n) ==
  /\ \A i \in DOMAIN Content(t, c.data, n) : Content(t, c.data, n)[i] = " "
  /\ \A m \in Under(t, n) : t[m].tag \notin {"br", "img"}

Render(t) ==
  LET c == Collapsed(t)
      out[n \in 0..Len(t)] ==
        LET kids == FlattenSeq([m \in 1..Len(t) |->
                       IF m > n /\ t[m].parent = n /\ m \notin c.dropped THEN out[m] ELSE <<>>])
            flank == Flanking(t, c, n)
        IN IF n = 0 THEN kids
           ELSE CASE t[n].tag = "text" -> c.data[n]
                  [] t[n].tag = "br"   -> <<" ", " ", "\n">>
                  [] t[n].tag = "img"  -> <<"I">>
                  [] OTHER ->
                     IF Blank(t, c, n) THEN flank.leading \o flank.trailing
                     ELSE IF t[n].tag = "span" THEN kids
                     ELSE IF Strip(kids) = <<>> THEN <<>>
                     ELSE flank.leading \o <<"*">> \o Strip(kids) \o <<"*">> \o flank.trailing
  IN out[0]

-----------------------------------------------------------------------------
SpaceInit == tree = <<>> /\ markdown = <<>>

\* The parser appends a node ...
Append1 ==
  /\ markdown = <<>> /\ Len(tree) < MaxInline
  /\ \E node \in Leaves \cup Inners, p \in Open(tree) :
        tree' = Append(tree, [tag |-> node.tag, data |-> node.data, parent |-> p])
  /\ UNCHANGED markdown

\* ... and at the end of the paragraph it is rendered.
Convert == markdown = <<>> /\ markdown' = <<"p">> \o Render(tree) /\ UNCHANGED tree

SpaceNext == Append1 \/ Convert

\* The words of a text, one blank between them.
Words(s) ==
  LET seen == SelectSeq(s, LAMBDA ch : ch \notin {"*", "p"})
  IN Strip(Reverse(Runs(Reverse([i \in 1..Len(seen) |->
                          IF seen[i] \in {"n", "\n"} THEN " " ELSE seen[i]]))))

Source == FlattenSeq([i \in 1..Len(tree) |->
            IF tree[i].tag = "br" THEN <<"\n">> ELSE IF tree[i].tag = "img" THEN <<"I">>
            ELSE tree[i].data])

Visible(n) == tree[n].tag = "img" \/ \E i \in DOMAIN tree[n].data : tree[n].data[i] = "x"

\* A line break at an edge of an emphasis, or an emphasis of white space that
\* is not all ASCII: strip() removes it and nothing puts it back.
BreakAtEdge ==
  \E n \in DOMAIN tree : \E k \in Under(tree, n) :
     /\ tree[n].tag = "b"
     /\ \/ /\ tree[k].tag = "br"
           /\ \/ \A m \in Under(tree, n) : m < k => ~Visible(m)
              \/ \A m \in Under(tree, n) : m > k => ~Visible(m)
        \/ \A m \in Under(tree, n) : ~Visible(m)

\* Spaces between an image and the text or the edge of an element beside it.
ImageNearby == \E k \in DOMAIN tree : tree[k].tag = "img"

\* _flanking: white space at the edges of an element surrounds its output, so
\* that words are neither glued together nor cut, but for a line break at the
\* edge of an emphasis and for the spaces around an image.
WordsKeepApart ==
  markdown # <<>> /\ ~BreakAtEdge /\ ~ImageNearby => Words(markdown) = Words(Source)
=============================================================================
