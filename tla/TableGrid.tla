----------------------------- MODULE TableGrid -----------------------------
(***************************************************************************)
(* Lowering a resolved table to a drawn grid (data-lower/lib.rs,           *)
(* lower_table): columns as wide as their longest text, rows of one        *)
(* height, and the rules the host draws between them, in content space.    *)
(*                                                                         *)
(* A cell is the number of its characters: the widths are estimates from   *)
(* character counts, and nothing else of a text reaches the geometry.      *)
(***************************************************************************)
EXTENDS Integers, Sequences, FiniteSets

Sets == INSTANCE FiniteSetsExt

CONSTANTS
    CharWidth, Padding, RowHeight,  \* LowerOpts, in points
    NoGrid

ASSUME GridAssumption == CharWidth \in Nat /\ Padding \in Nat /\ RowHeight \in Nat

\* ResolvedTable, with LowerOpts.header_row.
GridTable == [headers : Seq(Nat), rows : Seq(Seq(Nat)), headerRow : BOOLEAN]

VARIABLES
    gridTable,  \* the resolved table: [headers, rows, headerRow]
    grid        \* the lowered one

gridVars == <<gridTable, grid>>

-----------------------------------------------------------------------------
(* The characters of column c: its header and the cells under it.  A row   *)
(* may be longer than the headers; its extra cells have no column. *)
CellsBelow(table, c) ==
    {table.rows[r][c] : r \in {q \in DOMAIN table.rows : c \in DOMAIN table.rows[q]}}

\* Mutant of CharsOf: the header is not measured.
CharsBelow(table, c) == Sets!Max({0} \cup CellsBelow(table, c))
CharsOf(table, c) == Sets!Max({table.headers[c]} \cup CellsBelow(table, c))

Widths(table) == [c \in DOMAIN table.headers |-> CharsOf(table, c) * CharWidth + 2 * Padding]

SumsOf(s) ==
    LET sum[n \in 0..Len(s)] == IF n = 0 THEN 0 ELSE sum[n - 1] + s[n]
    IN  sum
SumTo(s, n) == SumsOf(s)[n]

LoweredColumns(widths) == [c \in DOMAIN widths |-> [x |-> SumTo(widths, c - 1), width |-> widths[c]]]

(* The header row first when it is asked for, each row under the last. *)
LoweredRows(table) ==
    LET all == (IF table.headerRow THEN <<table.headers>> ELSE <<>>) \o table.rows
    IN  [r \in DOMAIN all |-> [cells |-> all[r], y |-> (r - 1) * RowHeight, height |-> RowHeight,
                               header |-> table.headerRow /\ r = 1]]

(* A rule at every row boundary and at every column boundary. *)
RowBoundaries(rows) == {i * RowHeight : i \in 0..Len(rows)}
ColumnBoundaries(widths) == {SumTo(widths, c) : c \in 0..Len(widths)}

Rule(x1, y1, x2, y2) == [x1 |-> x1, y1 |-> y1, x2 |-> x2, y2 |-> y2]

LowerTable(table) ==
    LET widths == Widths(table)
        rows   == LoweredRows(table)
        width  == SumTo(widths, Len(widths))
        height == Len(rows) * RowHeight
    IN  [columns |-> LoweredColumns(widths),
         rows    |-> rows,
         rules   |-> {Rule(0, y, width, y) : y \in RowBoundaries(rows)}
                        \cup {Rule(x, 0, x, height) : x \in ColumnBoundaries(widths)},
         bounds  |-> [width |-> width, height |-> height]]

-----------------------------------------------------------------------------
GridInit == gridTable = NoGrid /\ grid = NoGrid

ResolveGrid(table) ==
    /\ gridTable = NoGrid
    /\ gridTable' = table
    /\ UNCHANGED grid

LowerGrid ==
    /\ gridTable # NoGrid /\ grid = NoGrid
    /\ grid' = LowerTable(gridTable)
    /\ UNCHANGED gridTable

\* One table.
GridNext == (\E table \in GridTable : ResolveGrid(table)) \/ LowerGrid

Lowering == GridInit /\ [][GridNext]_gridVars

-----------------------------------------------------------------------------
(* The drawn grid encloses its text: every cell that has a column lies     *)
(* between two neighbouring rules each way, with room for its characters   *)
(* and their padding, and the rules reach the bounds and no further. *)
GridEncloses ==
    grid # NoGrid =>
        /\ \A r \in DOMAIN grid.rows, c \in DOMAIN grid.columns :
              c \in DOMAIN grid.rows[r].cells =>
                 LET x == grid.columns[c].x
                     y == grid.rows[r].y
                 IN  /\ \E v \in grid.rules : v.x1 = x /\ v.x2 = x /\ v.y1 <= y /\ v.y2 >= y + RowHeight
                     /\ \E v \in grid.rules :
                          /\ v.x1 = v.x2 /\ v.x1 >= x + grid.rows[r].cells[c] * CharWidth + 2 * Padding
                          /\ \A w \in grid.rules : w.x1 = w.x2 => ~(x < w.x1 /\ w.x1 < v.x1)
                     /\ \E h \in grid.rules : h.y1 = y /\ h.y2 = y
                     /\ \E h \in grid.rules : h.y1 = y + RowHeight /\ h.y2 = y + RowHeight
        /\ \A u \in grid.rules : u.x2 <= grid.bounds.width /\ u.y2 <= grid.bounds.height
=============================================================================
