---------------------------- MODULE ScreenLayout ----------------------------
(***************************************************************************)
(* exoclaw_screen.layout: lay_out places the top-level nodes of a document  *)
(* below one another, one step each; a container divides its box among its *)
(* children.  A box keeps the boxes of its children where the code appends *)
(* them to one flat list.                                                   *)
(***************************************************************************)
EXTENDS Integers, Sequences, FiniteSets, SequencesExt

CONSTANTS
    ScreenDocuments,   \* the documents tried, sequences of nodes
    PanelWidth, PanelHeight,
    CharRows           \* rows of text the panel holds

VARIABLES
    unplaced,    \* the top-level nodes still to be laid out
    cursorY,     \* where the next one goes
    boxes        \* the boxes placed so far

layoutVars == <<unplaced, cursorY, boxes>>

\* A size attribute: none, pixels, or a percentage.
NoSize == [unit |-> "none", n |-> 0]
Px(n) == [unit |-> "px", n |-> n]
Percent(n) == [unit |-> "%", n |-> n]

\* A node: its kind, its attributes, the rows of text it takes, its children.
\* "half" is the horizontal rule, half a row.
Leaf(kind, w, h, rows) ==
    [kind |-> kind, w |-> w, h |-> h, gap |-> 0, cols |-> 0, rows |-> rows, kids |-> <<>>]
Panel(kind, w, h, gap, cols, kids) ==
    [kind |-> kind, w |-> w, h |-> h, gap |-> gap, cols |-> cols,
     rows |-> Len(kids), kids |-> kids]

Containers == {"row", "col", "grid"}

Unset == -1   \* None
AtLeast(m, n) == IF n < m THEN m ELSE n
Total(s) == FoldLeft(+, 0, s)
Highest(s) == FoldLeft(LAMBDA m, n : AtLeast(m, n), 0, s)

\* _resolve_size: a malformed value is as none.
Resolve(size, extent, default) ==
    CASE size.unit = "none" -> default
      [] size.unit = "px" -> size.n
      [] size.unit = "%" -> AtLeast(0, (extent * size.n) \div 100)

\* _estimate_height
RowHeight == AtLeast(1, PanelHeight \div AtLeast(1, CharRows))
Estimate(node) ==
    IF node.kind = "half" THEN AtLeast(1, RowHeight \div 2)
    ELSE RowHeight * AtLeast(1, node.rows)

Box(node, x, y, w, h, kids) ==
    [node |-> node, x |-> x, y |-> y, w |-> w, h |-> h, kids |-> kids]

Widths(kids, extent) == [k \in DOMAIN kids |-> Resolve(kids[k].w, extent, Unset)]
Heights(kids, extent) == [k \in DOMAIN kids |-> Resolve(kids[k].h, extent, Unset)]

\* What each child without a size of its own gets of an extent.
AutoShare(sizes, extent) ==
    LET set == SelectSeq(sizes, LAMBDA n : n # Unset)
        autos == Len(sizes) - Len(set)
    IN  AtLeast(0, (extent - Total(set)) \div AtLeast(1, autos))

Shares(sizes, extent) ==
    [k \in DOMAIN sizes |-> IF sizes[k] = Unset THEN AutoShare(sizes, extent) ELSE sizes[k]]

\* A plausible bug: what the parent resolved is resolved again by the child.
OwnSizeTwice(node, w, h, sized) ==
    [w |-> Resolve(node.w, w, w),
     h |-> Resolve(node.h, IF h = Unset THEN PanelHeight ELSE h, h)]

\* The box a container starts from: its own w and h against the slot, unless
\* the parent has resolved them already (slot_sized).
OwnSize(node, w, h, sized) ==
    IF sized THEN [w |-> w, h |-> h]
    ELSE [w |-> Resolve(node.w, w, w),
          h |-> Resolve(node.h, IF h = Unset THEN PanelHeight ELSE h, h)]

RECURSIVE Place(_, _, _, _, _, _)

\* _layout_row: left to right; the sizes divide what the gaps leave.
PlaceRow(node, x, y, w, h) ==
    LET kids == node.kids
        inner == AtLeast(0, w - node.gap * (Len(kids) - 1))
        widths == Shares(Widths(kids, inner), inner)
        left(k) == x + Total(SubSeq(widths, 1, k - 1)) + node.gap * (k - 1)
        placed == [k \in DOMAIN kids |->
            Place(kids[k], left(k), y, widths[k],
                  Resolve(kids[k].h, IF h = Unset THEN 0 ELSE h, h), TRUE)]
    IN  [boxes |-> placed,
         h |-> IF h = Unset THEN Highest([k \in DOMAIN kids |-> placed[k].h]) ELSE h]

\* Boxes one below the other, each made where the one before it ends.
Stacked(n, y, gap, At(_, _)) ==
    FoldLeft(LAMBDA acc, k :
                 LET b == At(k, acc.y)
                 IN  [boxes |-> Append(acc.boxes, b),
                      y |-> acc.y + b.h + (IF k < n THEN gap ELSE 0)],
             [boxes |-> <<>>, y |-> y], [k \in 1..n |-> k])

\* _layout_col: percentages are of the box, what is left is shared out after
\* the gaps; a box without a height grows.
PlaceCol(node, x, y, w, h) ==
    LET kids == node.kids
        heights == Heights(kids, IF h = Unset THEN 0 ELSE h)
        inner == AtLeast(0, h - node.gap * (Len(kids) - 1))
        slots == IF h = Unset THEN heights ELSE Shares(heights, inner)
        at(k, ky) == Place(kids[k], x, ky, Resolve(kids[k].w, w, w), slots[k], TRUE)
        stack == Stacked(Len(kids), y, node.gap, at)
    IN  [boxes |-> stack.boxes, h |-> stack.y - y]

\* _layout_grid: cells of one width, rows as high as their highest cell.
PlaceGrid(node, x, y, w, h) ==
    LET cols == node.cols
        cell == AtLeast(0, (w - node.gap * (cols - 1)) \div cols)
        rows == (Len(node.kids) + cols - 1) \div cols
        line(r, ry) ==
            LET kids == SubSeq(node.kids, (r - 1) * cols + 1,
                               IF r * cols < Len(node.kids) THEN r * cols ELSE Len(node.kids))
                cells == [c \in DOMAIN kids |->
                    Place(kids[c], x + (c - 1) * (cell + node.gap), ry, cell, Unset, TRUE)]
            IN  [cells |-> cells, h |-> Highest([c \in DOMAIN cells |-> cells[c].h])]
        stack == Stacked(rows, y, node.gap, line)
    IN  [boxes |-> FoldLeft(LAMBDA s, l : s \o l.cells, <<>>, stack.boxes),
         h |-> stack.y - y]

\* _layout_node, _layout_container
Place(node, x, y, w, h, sized) ==
    IF node.kind \notin Containers
    THEN Box(node, x, y, w, IF h = Unset THEN Estimate(node) ELSE h, <<>>)
    ELSE LET own == OwnSize(node, w, h, sized)
             inside ==
                 CASE node.kids = <<>> -> [boxes |-> <<>>, h |-> 0]
                   [] node.kind = "row" -> PlaceRow(node, x, y, own.w, own.h)
                   [] node.kind = "grid" /\ node.cols > 0 ->
                          PlaceGrid(node, x, y, own.w, own.h)
                   [] OTHER -> PlaceCol(node, x, y, own.w, own.h)
             high == IF node.kids = <<>> \/ own.h \in {Unset, 0} THEN inside.h ELSE own.h
         IN  Box(node, x, y, own.w, high, inside.boxes)

-----------------------------------------------------------------------------
LayoutInit ==
    /\ unplaced \in ScreenDocuments
    /\ cursorY = 0
    /\ boxes = <<>>

Pad == 4

LayOut ==
    /\ unplaced # <<>>
    /\ LET b == Place(Head(unplaced), 0, cursorY, PanelWidth, Unset, FALSE)
       IN  boxes' = Append(boxes, b) /\ cursorY' = cursorY + b.h + Pad
    /\ unplaced' = Tail(unplaced)

LaidOut == unplaced = <<>> /\ UNCHANGED layoutVars

LayoutNext == LayOut \/ LaidOut

-----------------------------------------------------------------------------
RECURSIVE BoxesIn(_)
BoxesIn(b) == {b} \cup UNION {BoxesIn(b.kids[k]) : k \in DOMAIN b.kids}

AllBoxes == UNION {BoxesIn(boxes[k]) : k \in DOMAIN boxes}

Side(b) == b.node.kind = "row"
Grid(b) == b.node.kind = "grid" /\ b.node.cols > 0

\* The children of a row stand side by side, the next one where the one before
\* it ends, and those of a column below one another: nothing is resolved twice
\* on the way down and no slot is left half used.
Tiled ==
    \A b \in AllBoxes : \A k \in 1..(Len(b.kids) - 1) :
        LET one == b.kids[k] next == b.kids[k + 1] IN
        CASE Grid(b) -> TRUE
          [] Side(b) -> next.x = one.x + one.w + b.node.gap /\ next.y = b.y
          [] OTHER -> next.y = one.y + one.h + b.node.gap /\ next.x = b.x

\* The sizes a container's children ask for fit in it: gaps in the box, and
\* percentages of a hundred at most.
Fits(b) ==
    LET kids == b.node.kids
        axis == Total([k \in DOMAIN kids |-> IF Side(b) THEN kids[k].w.n ELSE kids[k].h.n])
    IN  /\ \A k \in DOMAIN kids : kids[k].w.unit # "px" /\ kids[k].h.unit # "px"
        /\ axis <= 100
        /\ b.node.gap * (Len(kids) - 1) <= b.w

\* Across the panel nothing leaves its container.
InsideAcross ==
    \A b \in AllBoxes : Fits(b) =>
        \A k \in DOMAIN b.kids : b.kids[k].x >= b.x /\ b.kids[k].x + b.kids[k].w <= b.x + b.w

\* Down the panel a container holds its children.  One whose height was set is
\* overrun by a column's gaps at most, as the percentages of a column are taken
\* before its gaps, or by what nobody can shrink: the rows of a grid, which never
\* look at the height, in this box or in one below it.
InsideDown ==
    \A b \in AllBoxes : Fits(b) => \A k \in DOMAIN b.kids :
        LET over == b.kids[k].y + b.kids[k].h - (b.y + b.h) IN
        \/ over <= 0
        \/ ~Side(b) /\ ~Grid(b) /\ over <= b.node.gap * (Len(b.kids) - 1)
        \/ \E c \in BoxesIn(b) : Grid(c)

\* What "equal split among siblings" (layout.py 16, GRAMMAR.md 88) comes to
\* across the panel: the children of a row that name no width share what is left
\* alike, and so do the cells of a grid.  The rest of what these lines say of
\* sizes is not so: a row's percentages are of what its gaps leave, a column's of
\* all its height; in a column without a height a percentage is of nothing and
\* each child takes what it needs; a grid heeds no child's w or h.
EqualSplit ==
    \A b \in AllBoxes : \A i, j \in DOMAIN b.kids :
        Grid(b) \/ (Side(b) /\ b.node.kids[i].w = NoSize /\ b.node.kids[j].w = NoSize)
            => b.kids[i].w = b.kids[j].w

LayoutRight == Tiled /\ InsideAcross /\ InsideDown /\ EqualSplit
=============================================================================
