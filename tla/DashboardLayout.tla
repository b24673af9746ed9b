-------------------------- MODULE DashboardLayout --------------------------
(***************************************************************************)
(* Where the widgets of a view lie: ui-react/src/pages/dashboardLayout.ts, *)
(* with the operations of Dashboard.tsx that use it.  GridStack, which     *)
(* moves the widgets on the screen, is external: any numbers may be in the *)
(* attributes that are read back.                                          *)
(*                                                                         *)
(* Sizes the code writes as 3 by 4 and 4 by 4 in 12 columns are constants, *)
(* so that small grids are full.                                           *)
(***************************************************************************)
EXTENDS Integers, Sequences, SequencesExt

CONSTANTS
    Columns,        \* layout_columns
    FallbackW, FallbackH,   \* for a size that is not positive
    NewW, NewH,     \* of a new widget
    MaxWidgets,     \* bound
    MaxY, MaxH      \* bounds of what GridStack reports

ASSUME GridAssumption ==
    /\ {Columns, FallbackW, FallbackH, NewW, NewH} \subseteq Nat \ {0}
    /\ {MaxWidgets, MaxY, MaxH} \subseteq Nat

VARIABLES
    grid,       \* the items of the view, in their order
    merged      \* history: they were merged with the nodes of the grid

gridVars == <<grid, merged>>

\* What may be stored in a view, or reported
Nodes == [x : -1..(Columns - 1), y : -1..MaxY, w : 0..Columns, h : 0..MaxH]

Higher(m, n) == IF m > n THEN m ELSE n
Clamp(n, low, high) == IF n < low THEN low ELSE IF n > high THEN high ELSE n

\* sanitizeGridNodeLayout
Sanitize(node) ==
    LET w == Clamp(IF node.w > 0 THEN node.w ELSE FallbackW, 1, Columns) IN
    [x |-> Clamp(node.x, 0, Columns - w),
     y |-> Higher(0, node.y),
     w |-> w,
     h |-> IF node.h > 0 THEN node.h ELSE FallbackH]

\* What buildViewFromGrid makes of the attributes of a widget
Read == {Sanitize(node) : node \in Nodes}

Overlaps(a, b) ==
    /\ a.x < b.x + b.w /\ a.x + a.w > b.x
    /\ a.y < b.y + b.h /\ a.y + a.h > b.y

Bottom(nodes) == FoldLeft(LAMBDA y, node : Higher(y, node.y + node.h), 0, nodes)
Fits(node, nodes) == \A k \in DOMAIN nodes : ~Overlaps(node, nodes[k])

\* findFirstAvailableGridPlacement: row by row, the first place that is free;
\* there is one below all items.
FirstAvailable(items) ==
    LET w == Clamp(NewW, 1, Columns)
        occupied == [k \in DOMAIN items |-> Sanitize(items[k])]
        At(x, y) == [x |-> x, y |-> y, w |-> w, h |-> NewH]
        Spots(y) == {x \in 0..(Columns - w) : Fits(At(x, y), occupied)}
        y == CHOOSE y \in 0..Bottom(occupied) :
                Spots(y) # {} /\ \A above \in 0..(y - 1) : Spots(above) = {}
    IN  At(CHOOSE x \in Spots(y) : \A other \in Spots(y) : x <= other, y)

\* settleWithoutOverlap: down, row by row, until it is free
Settle(node, placed) ==
    CHOOSE settled \in {[node EXCEPT !.y = y] : y \in node.y..Higher(node.y, Bottom(placed))} :
        /\ Fits(settled, placed)
        /\ \A y \in node.y..(settled.y - 1) : ~Fits([node EXCEPT !.y = y], placed)

\* Mutant of Placed: what is remembered is where the item was to go.
Placed_Candidate(places, node) ==
    [kept |-> Append(places.kept, node),
     items |-> Append(places.items, Settle(node, places.kept))]

\* One item of mergeViewItemsWithGridNodes
Placed(places, node) ==
    LET settled == Settle(node, places.kept) IN
    [kept |-> Append(places.kept, settled), items |-> Append(places.items, settled)]

\* mergeViewItemsWithGridNodes: every item where its node is
Merge(items) ==
    FoldLeft(LAMBDA places, item : Placed(places, Sanitize(item)),
             [kept |-> <<>>, items |-> <<>>], items).items

-----------------------------------------------------------------------------
\* A view is stored as somebody wrote it.
GridInit ==
    /\ grid \in {<<>>} \cup {<<a, b>> : a, b \in Nodes}
    /\ merged = (grid = <<>>)

HandleAddWidget ==
    /\ Len(grid) < MaxWidgets
    /\ grid' = Append(grid, FirstAvailable(grid))
    /\ merged' = merged

\* The user moves or resizes a widget: buildViewFromGrid reads the nodes.
HandleGridChange(k, node) ==
    /\ grid' = Merge([grid EXCEPT ![k] = node])
    /\ merged' = TRUE

\* The widget is removed, and the rest is read from the grid.
HandleDeleteWidget(k) ==
    /\ grid' = Merge([i \in 1..(Len(grid) - 1) |-> IF i < k THEN grid[i] ELSE grid[i + 1]])
    /\ merged' = TRUE

GridNext ==
    \/ HandleAddWidget
    \/ \E k \in DOMAIN grid :
          HandleDeleteWidget(k) \/ \E node \in Read : HandleGridChange(k, node)

GridSpec == GridInit /\ [][GridNext]_gridVars

-----------------------------------------------------------------------------
GridTypeOK ==
    \A k \in DOMAIN grid : grid[k] \in [x : Int, y : Int, w : Nat, h : Nat]

\* Once the items were read from the grid they are inside the columns and no
\* two lie on each other, whatever was stored and whatever GridStack reports,
\* and a widget that is added does not change that.
GridLegal ==
    merged =>
        /\ \A k \in DOMAIN grid : grid[k] = Sanitize(grid[k])
        /\ \A j, k \in DOMAIN grid : j # k => ~Overlaps(grid[j], grid[k])

=============================================================================
