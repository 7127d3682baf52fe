---------------------------- MODULE ReportTables ----------------------------
(***************************************************************************)
(* The summary table of a report: the cells that Report::summary() adds one by   *)
(* one at a cursor, many of them over several columns or rows (Document.cc), the *)
(* widths of columns and the padding of the text rendering (Text.cc), and the    *)
(* cells of each row of the HTML (HTML.cc). Of a cell's text only its length in  *)
(* bytes is kept.                                                            *)
(***************************************************************************)
EXTENDS Integers, Sequences, FiniteSets, SequencesExt, FiniteSetsExt

CONSTANTS
  Shapes,   \* how many devices, and how many volumes each host has
  Usual,    \* the length of most texts
  Lengths   \* of one or two others

ASSUME TableAssumption ==
  /\ \A s \in Shapes : s.devices \in Nat /\ s.hosts \in Seq(Nat)
  /\ Usual \in Nat /\ Lengths \subseteq Nat

VARIABLES
  shape,        \* the configuration
  texts,        \* which texts are of another length, and of which
  added,        \* how many of its cells and row ends it has
  cursor,       \* Table::x, y
  extent,       \* Table::width, height
  cellMap       \* the cell at each occupied place
table == <<shape, texts, added, cursor, extent, cellMap>>

-----------------------------------------------------------------------------
(* Report::summary(). A cell is its width, its height, and whether it is a       *)
(* heading.                                                                 *)
RowEnd == <<>>
Body == <<1, 1, FALSE>>
Heading(w, h) == <<w, h, TRUE>>
Times(n, s) == FlattenSeq([i \in 1 .. n |-> s])

Headings(n) ==
  Times(4, <<Heading(1, 3)>>) \o <<Heading(3 * n, 1), Heading(1, 2), RowEnd>>
  \o Times(n, <<Heading(3, 1)>>) \o <<RowEnd>>
  \o Times(3 * n, <<Heading(1, 1)>>) \o <<Heading(1, 1), RowEnd>>

VolumeRow(n) == Times(3 + 3 * n + 1, <<Body>>) \o <<RowEnd>>
HostRows(n, volumes) == <<<<1, volumes, FALSE>>>> \o Times(volumes, VolumeRow(n))

SummaryCells ==
  [s \in Shapes |->
    Headings(s.devices)
    \o FlattenSeq([i \in DOMAIN s.hosts |-> HostRows(s.devices, s.hosts[i])])]

CellCount(s) == Len(SummaryCells[s])

(* One text is of another length, and perhaps one of those over several columns.  *)
Columned(s) == 5 .. 6 + s.devices

TableInit ==
  /\ shape \in Shapes
  /\ texts \in {[cells |-> {j, k}, length |-> l] :
                 j \in 1 .. CellCount(shape), k \in Columned(shape), l \in Lengths}
  /\ added = 0
  /\ cursor = [x |-> 0, y |-> 0] /\ extent = [x |-> 0, y |-> 0]
  /\ cellMap = <<>>

-----------------------------------------------------------------------------
(* Table::findOverlappingCell()                                             *)
Taken(map, x, y) == <<x, y>> \in DOMAIN map

(* Faulty: one cell is stepped over.                                         *)
NextColumn(map, x, y) == IF Taken(map, x, y) THEN map[<<x, y>>].x + map[<<x, y>>].w ELSE x

(* The first column from x on that is free in row y.                          *)
FreeColumn(map, x, y) ==
  CHOOSE c \in x .. x + Cardinality(DOMAIN map) :
    ~Taken(map, c, y) /\ \A k \in x .. c - 1 : Taken(map, k, y)

Larger(a, b) == IF a < b THEN b ELSE a

Coming == SummaryCells[shape][added + 1]

(* Table::addCell()                                                         *)
AddCell ==
  /\ added < CellCount(shape) /\ Coming # RowEnd
  /\ LET w == Coming[1]
         h == Coming[2]
         cell == [x |-> cursor.x, y |-> cursor.y, w |-> w, h |-> h,
                  heading |-> Coming[3],
                  text |-> IF added + 1 \in texts.cells THEN texts.length ELSE Usual]
         places == (cursor.x .. cursor.x + w - 1) \X (cursor.y .. cursor.y + h - 1)
     IN  /\ cellMap' = [p \in DOMAIN cellMap \cup places |->
                         IF p \in places THEN cell ELSE cellMap[p]]
         /\ extent' = [x |-> Larger(extent.x, cursor.x + w), y |-> Larger(extent.y, cursor.y + h)]
         /\ cursor' = [x |-> FreeColumn(cellMap', cursor.x, cursor.y), y |-> cursor.y]
  /\ added' = added + 1
  /\ UNCHANGED <<shape, texts>>

(* Table::newRow()                                                          *)
NewRow ==
  /\ added < CellCount(shape) /\ Coming = RowEnd
  /\ cursor' = [x |-> FreeColumn(cellMap, 0, cursor.y + 1), y |-> cursor.y + 1]
  /\ added' = added + 1
  /\ UNCHANGED <<shape, texts, extent, cellMap>>

TableNext == AddCell \/ NewRow
TableSpec == TableInit /\ [][TableNext]_table

-----------------------------------------------------------------------------
(* Table::renderText(): the widths of columns, first for the cells of one         *)
(* column, then column by column for those of more.                           *)
Columns == 0 .. extent.x - 1
Lines == 0 .. extent.y - 1
CellAt(x, y) == cellMap[<<x, y>>]
Total(widths, c) == SumFunctionOnSet(widths, c.x .. c.x + c.w - 1) + 3 * (c.w - 1)

NarrowWidths ==
  [x \in Columns |->
    Max({0} \cup {CellAt(x, y).text : y \in {l \in Lines : Taken(cellMap, x, l)
                                                      /\ CellAt(x, l).w = 1}})]

Widen(widths, x, y) ==
  IF Taken(cellMap, x, y) /\ CellAt(x, y).x = x /\ CellAt(x, y).w > 1
  THEN [widths EXCEPT ![x] =
         widths[x] + Larger(0, CellAt(x, y).text - Total(widths, CellAt(x, y)))]
  ELSE widths

ColumnWidths ==
  LET widenAll(widths, x) ==
        FoldLeft(LAMBDA w, y : Widen(w, x, y - 1), widths, [i \in 1 .. extent.y |-> i])
  IN  FoldLeft(LAMBDA w, x : widenAll(w, x - 1), NarrowWidths, [i \in 1 .. extent.x |-> i])

(* What a line has for a place: " | " and the text with its padding, or blanks   *)
(* where a cell of a line above reaches down or there is none, or nothing of its *)
(* own.                                                                     *)
Printed(widths, x, y) ==
  LET before == IF x = 0 THEN 2 ELSE 3
  IN  IF Taken(cellMap, x, y) /\ CellAt(x, y).y = y
      THEN IF CellAt(x, y).x = x THEN before + Total(widths, CellAt(x, y)) ELSE 0
      ELSE before + widths[x]

LineLength(widths, y) == MapThenSumSet(LAMBDA x : Printed(widths, x, y), Columns) + 1

(* Table::renderHtml(): the columns at which a row has something.               *)
HtmlRow(y) ==
  FoldLeft(LAMBDA row, x :
             IF row.next # x - 1 THEN row
             ELSE IF Taken(cellMap, x - 1, y) /\ CellAt(x - 1, y).x = x - 1
                       /\ CellAt(x - 1, y).y = y
                  THEN [cells |-> row.cells \cup {CellAt(x - 1, y)},
                        next |-> row.next + CellAt(x - 1, y).w]
                  ELSE [cells |-> row.cells, next |-> row.next + 1],
           [cells |-> {}, next |-> 0], [i \in 1 .. extent.x |-> i]).cells

-----------------------------------------------------------------------------
(* "Don't add overlapping cells to a single table": the cells of a summary cover *)
(* each place of the table once, whatever devices and volumes there are; what   *)
(* is said of a volume stands in its row, and of a device under the device's     *)
(* heading; every text fits in its columns (or the padding, an unsigned number,  *)
(* would be enormous); the lines of the text are of one length; and the HTML     *)
(* has each cell in its row.                                                  *)
AllCells == Range(cellMap)
Area(C) == MapThenSumSet(LAMBDA c : c.w * c.h, C)
VolumesOf(hosts) == SumFunction(hosts)

SummarySet ==
  added = CellCount(shape) =>
    /\ DOMAIN cellMap = Columns \X Lines
    /\ Area(AllCells) = extent.x * extent.y
    /\ extent.x = 5 + 3 * shape.devices
    /\ extent.y = 3 + VolumesOf(shape.hosts)
    /\ \A x \in Columns \ {0} : \A y \in Lines : y >= 3 => CellAt(x, y).h = 1
    /\ \A d \in 1 .. shape.devices :
         LET c == CellAt(4 + 3 * (d - 1), 1)
         IN  c.heading /\ c.w = 3 /\ c.x = 4 + 3 * (d - 1)
    /\ \A i \in DOMAIN shape.hosts :
         shape.hosts[i] > 0 =>
           LET first == 3 + VolumesOf(SubSeq(shape.hosts, 1, i - 1))
           IN  CellAt(0, first).y = first /\ CellAt(0, first).h = shape.hosts[i]
    /\ \A c \in AllCells : c.text <= Total(ColumnWidths, c)
    /\ \A y \in Lines : LineLength(ColumnWidths, y) = LineLength(ColumnWidths, 0)
    /\ \A y \in Lines : HtmlRow(y) = {c \in AllCells : c.y = y}

=============================================================================
