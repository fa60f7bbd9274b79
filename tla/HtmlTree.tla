------------------------------ MODULE HtmlTree ------------------------------
(***************************************************************************)
(* StreamingMarkdownConverter of exoclaw-tools-web: tokens build a tree,   *)
(* and each time a block closes at the top level the pending children of   *)
(* the top-level container are rendered, sunk and freed.                   *)
(*                                                                         *)
(* A node is its number: nodes are numbered in source order, which is the  *)
(* order in which a tree is rendered.  Of the rendering the model keeps    *)
(* which texts come out, in which order, and the newlines between blocks.  *)
(***************************************************************************)
EXTENDS Integers, Sequences, FiniteSets, SequencesExt, FiniteSetsExt

CONSTANTS MaxNodes, MaxEnds  \* bounds

ASSUME TreeAssumption == MaxNodes \in Nat /\ MaxEnds \in Nat

VARIABLES
  nodes,    \* node -> its tag, its parent and all it is under; 0 is the root
  stack,    \* open elements above the root, outermost first
  gone,     \* children that were rendered and freed
  out,      \* the texts and rules that were sunk
  gaps,     \* newlines sunk before each batch
  apart,    \* per batch, whether it begins and ends with a block
  trailing, \* _last_emit_trailing_nl
  ends,     \* closing tags so far
  closed

treeVars == <<nodes, stack, gone, out, gaps, apart, trailing, ends, closed>>

Block == {"p", "hr", "html", "body"}
Drop == {"head"}
Void == {"hr"}
Transparent == {"html", "body"}
Elements == Block \cup Drop \cup {"b"}

Ids == DOMAIN nodes
Top == IF stack = <<>> THEN 0 ELSE Last(stack)
Tag(n) == nodes[n].tag

TreeInit ==
  /\ nodes = <<>> /\ stack = <<>> /\ gone = {} /\ out = <<>> /\ gaps = <<>> /\ apart = <<>>
  /\ trailing = 0 /\ ends = 0 /\ closed = FALSE

-----------------------------------------------------------------------------
(* Where a batch comes from *)

\* top.children.append(...)
With(tag) == Append(nodes, [tag |-> tag, parent |-> Top, under |-> ToSet(stack)])

Children(c, ns) == {n \in DOMAIN ns \ gone : ns[n].parent = c}

AtTopLevel(st, ns) ==
  \/ st = <<>>
  \/ Len(st) = 1 /\ ns[st[1]].tag \in Transparent
  \/ Len(st) = 2 /\ ns[st[1]].tag = "html" /\ ns[st[2]].tag = "body"

\* The first child that is html or body and has children of its own.
Deeper(c, ns) ==
  LET in == {n \in Children(c, ns) : ns[n].tag \in Transparent /\ Children(n, ns) # {}}
  IN IF in = {} THEN c ELSE Min(in)

\* _top_level_container
Container(st, ns) ==
  IF st # <<>> /\ ns[st[1]].tag \in Transparent
  THEN IF Len(st) >= 2 /\ ns[st[2]].tag \in Transparent THEN st[2] ELSE st[1]
  ELSE LET down[k \in 0..MaxNodes] == IF k = 0 THEN 0 ELSE Deeper(down[k - 1], ns)
       IN down[MaxNodes]

-----------------------------------------------------------------------------
(* What a batch renders to *)

Below(c, ns) ==
  {n \in DOMAIN ns \ gone : /\ ns[n].under \cap gone = {}
                           /\ ({n} \cup ns[n].under) \cap Children(c, ns) # {}}

\* _strip_dropped
KeptText(c, ns) ==
  {n \in Below(c, ns) : ns[n].tag \notin Drop
                        /\ \A d \in ns[n].under \cap Below(c, ns) : ns[d].tag \notin Drop}

\* What a node contributes: texts and rules, itself included.
Shows(n, keep, ns) == {m \in keep : (m = n \/ n \in ns[m].under) /\ ns[m].tag \in {"text", "hr"}}

\* html and body are passed through, unless they are blank.
Pieces(keep, ns) ==
  LET through(n) == ns[n].tag \in Transparent /\ Shows(n, keep, ns) # {}
  IN {n \in keep : ~through(n) /\ \A a \in ns[n].under \cap keep : through(a)}

\* A block is framed by two newlines, also when it is blank.
Framed(n, ns) == ns[n].tag \in Block

-----------------------------------------------------------------------------
(* _flush_pending_blocks and _emit_block *)

\* (Seeded bug: the newlines a batch ends with are forgotten.)
TrailingForgotten(framed, blank) == IF blank THEN trailing ELSE 0

\* _last_emit_trailing_nl afterwards: a blank batch only raises it.
Trailing(framed, blank) ==
  IF ~blank THEN IF framed THEN 2 ELSE 0
  ELSE IF out # <<>> /\ framed THEN 2 ELSE trailing

Sorted(s) == SetToSortSeq(s, <)

\* A blank block before the first or after the last shown piece frames it too.
Leads(pieces, shown, ns) ==
  \E i \in 1..Len(pieces) : Framed(pieces[i], ns) /\ (shown = <<>> \/ pieces[i] <= Head(shown))
Trails(pieces, shown, ns) ==
  \E i \in 1..Len(pieces) : Framed(pieces[i], ns) /\ (shown = <<>> \/ pieces[i] >= Last(shown))

\* One batch goes to the sink: its pieces and those that are not blank.
Sink(pieces, shown, leads, trails) ==
  /\ trailing' = Trailing(trails, shown = <<>>)
  /\ IF shown = <<>> THEN UNCHANGED <<gaps, apart>>
     ELSE /\ gaps' = Append(gaps, IF out = <<>> THEN 0
                                  ELSE Max({trailing, IF leads THEN 2 ELSE 0}))
          /\ apart' = Append(apart, [leads |-> leads, trails |-> trails])

SinkPieces(pieces, keep, ns) ==
  \E shown \in {SelectSeq(pieces, LAMBDA n : Shows(n, keep, ns) # {})} :
     Sink(pieces, shown, Leads(pieces, shown, ns), Trails(pieces, shown, ns))

Flush(st, ns) ==
  \E c \in {Container(st, ns)} : \E keep \in {KeptText(c, ns)} :
     /\ gone' = gone \cup Children(c, ns)
     /\ out' = out \o Sorted({n \in keep : ns[n].tag \in {"text", "hr"}})
     /\ \E pieces \in {Sorted(Pieces(keep, ns))} : SinkPieces(pieces, keep, ns)

NoFlush == UNCHANGED <<gone, out, gaps, apart, trailing>>

-----------------------------------------------------------------------------
(* _on_token, feed and close *)

OnText ==
  /\ ~closed /\ Len(nodes) < MaxNodes
  /\ nodes' = With("text") /\ NoFlush /\ UNCHANGED <<stack, ends, closed>>

OnStart(tag) ==
  /\ ~closed /\ Len(nodes) < MaxNodes
  /\ nodes' = With(tag)
  /\ stack' = IF tag \in Void THEN stack ELSE Append(stack, Len(nodes) + 1)
  /\ IF tag \in Void \cap Block /\ AtTopLevel(stack, nodes) THEN Flush(stack, nodes') ELSE NoFlush
  /\ UNCHANGED <<ends, closed>>

\* A closing tag closes everything down to its element; a stray one is ignored.
OnEnd(tag) ==
  LET open == {i \in 1..Len(stack) : Tag(stack[i]) = tag}
  IN /\ ~closed /\ ends < MaxEnds /\ ends' = ends + 1
     /\ IF open = {} THEN NoFlush /\ UNCHANGED stack
        ELSE /\ stack' = SubSeq(stack, 1, Max(open) - 1)
             /\ IF AtTopLevel(stack', nodes) /\ tag \in Block THEN Flush(stack', nodes) ELSE NoFlush
     /\ UNCHANGED <<nodes, closed>>

\* close(): what is pending is rendered, unclosed elements included.
Close ==
  /\ ~closed /\ closed' = TRUE
  /\ Flush(stack, nodes)
  /\ UNCHANGED <<nodes, stack, ends>>

TreeNext ==
  \/ OnText \/ Close
  \/ \E tag \in Elements : OnStart(tag) \/ OnEnd(tag)

TreeSpec == TreeInit /\ [][TreeNext]_treeVars

-----------------------------------------------------------------------------
TreeTypeOK ==
  /\ \A n \in Ids : /\ Tag(n) \in Elements \cup {"text"}
                    /\ nodes[n].parent \in 0..(n - 1) /\ nodes[n].under \subseteq 1..(n - 1)
  /\ ToSet(stack) \subseteq Ids /\ gone \subseteq Ids /\ ToSet(out) \subseteq Ids
  /\ trailing \in {0, 2} /\ ends \in 0..MaxEnds /\ closed \in BOOLEAN
  /\ Len(gaps) = Len(apart)

\* Everything but what is inside a dropped element is to be rendered.
ToRender ==
  {n \in Ids : Tag(n) \in {"text", "hr"} /\ \A a \in nodes[n].under : Tag(a) \notin Drop}

\* Something visible beside an html or body element instead of inside it.
Misplaced ==
  \E n \in Ids, m \in Ids :
     /\ Tag(m) \in Transparent /\ Tag(n) \notin Transparent \cup Drop
     /\ nodes[n].parent = nodes[m].parent

\* Whatever the page, nothing is rendered twice, and nothing of a dropped
\* element.
RenderedOnce ==
  IsInjective(out) /\ ToSet(out) \subseteq ToRender

\* At the end everything was rendered in source order, and before that a prefix of
\* it, unless a page has something beside its body.  "Batching preserves that
\* context and emits in source order" (_on_token, _flush_pending_blocks) and "At
\* close(), batch-render any still-pending top-level children" know no such
\* exception: there a text may come behind one that follows it, or not at all.
SourceOrder ==
  ~Misplaced => IF closed THEN out = Sorted(ToRender) ELSE IsPrefix(out, Sorted(ToRender))

\* _emit_block: batches are glued as the renderer glues the blocks of one batch:
\* one blank line if either side of the seam is a block, else nothing.
SeamsAreBlankLines ==
  \A i \in 1..Len(gaps) :
     /\ i = 1 => gaps[i] = 0
     /\ i > 1 /\ (apart[i - 1].trails \/ apart[i].leads) => gaps[i] = 2

TreeRight == RenderedOnce /\ SourceOrder /\ SeamsAreBlankLines
=============================================================================
