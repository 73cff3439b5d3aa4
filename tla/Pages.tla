-------------------------------- MODULE Pages --------------------------------
(***************************************************************************)
(* The PostScript layout of the reports: class Pages of                    *)
(* shared/files/tessi_report_common.py and the blocks that report_pages    *)
(* and pages draw with it.  Only the vertical position matters: a cursor   *)
(* y that moves down the page, the lowest line a block draws, and the      *)
(* guards that start a new page first.                                     *)
(***************************************************************************)
EXTENDS Integers, Sequences

CONSTANTS
  KvLines,    \* the numbers of lines the value of a row may be wrapped into
  WrapLines,  \* the numbers of lines a minimum/maximum text may be wrapped into
  MaxServers  \* the largest number of nodes in a role

ASSUME LayoutAssumption ==
  KvLines \subseteq Nat \ {0} /\ WrapLines \subseteq Nat \ {0} /\ MaxServers \in Nat \ {0}

\* page(): the cursor of a new page; the footer is at 25.
Fresh == 675
Margin == 55
Lowest(a, b) == IF a < b THEN a ELSE b

\* Where a block leaves the cursor, and the lowest line it has drawn.
Placed(y, low) == [y |-> y, low |-> low]

\* The cursor when a guard starts a new page below a limit.
Below(y, limit) == IF y < limit THEN Fresh ELSE y

\* paragraph: a new page is started before any line that would be below 55.
Paragraph(y, n, size) ==
  LET Line[k \in 0..n] ==
        IF k = 0 THEN Placed(y, Fresh)
        ELSE LET at == Below(Line[k - 1].y, Margin)
             IN Placed(at - (size + 5), Lowest(Line[k - 1].low, at))
  IN Placed(Line[n].y - 8, Line[n].low)

\* Mutant: the rest of the page is compared with the first line only.
KvFirst(y, n) ==
  LET at == IF y - 14 < Margin THEN Fresh ELSE y
  IN Placed(at - 14 * n - 8, at - 14 * (n - 1))

\* kv: a key with all the lines of its value, on one page.
Kv(y, n) ==
  LET at == IF y - 14 * n < Margin THEN Fresh ELSE y
  IN Placed(at - 14 * n - 8, at - 14 * (n - 1))

\* A storage block of report_pages: a title, the mean, w lines of minimum and
\* maximum, a bar for each of n nodes.
Bars(y, w, n) ==
  LET at == IF y - (88 + 16 * n) < Margin THEN Fresh ELSE y
      first == at - 19 - 16 - 12 * w - 5
  IN Placed(first - 16 * n - 18, first - 16 * (n - 1))

\* The traffic of a role in pages(): a one-line text and a bar for each node.
Traffic(y, n) ==
  LET text == Paragraph(Below(y, 150 + n * 18), 1, 9)
  IN Placed(text.y - 19 * n - 20, Lowest(text.low, text.y - 19 * (n - 1)))

\* A row of the phase table.
PhaseRow(y) == Placed(Below(y, 95) - 23, Below(y, 95))

\* The rank statistics of a phase: a title and two texts.
RankBlock(y, w) ==
  LET at == Below(y, 145)
      mean == Paragraph(at - 21, 1, 9)
      ends == Paragraph(mean.y, w, 9)
  IN Placed(ends.y, Lowest(at, Lowest(mean.low, ends.low)))

-----------------------------------------------------------------------------
(* Blocks, and the scripts of the two reports *)

Page == [op |-> "page", size |-> 0]
Para(size) == [op |-> "para", size |-> size]
Row == [op |-> "kv", size |-> 0]
Fixed(y) == [op |-> "fixed", size |-> y]
Skip(n) == [op |-> "skip", size |-> n]
Heading(n) == [op |-> "heading", size |-> n]
Block(op) == [op |-> op, size |-> 0]

Times(n, block) == [k \in 1..n |-> block]
Repeated(n, blocks) == [k \in 1..(n * Len(blocks)) |-> blocks[((k - 1) % Len(blocks)) + 1]]
If(condition, blocks) == IF condition THEN blocks ELSE <<>>

\* The places the cursor and the lowest line may get to with a block.
Placements(block, y, n) ==
  CASE block.op = "page" -> {Placed(Fresh, Fresh)}
    [] block.op = "para" -> {Paragraph(y, w, block.size) : w \in WrapLines}
    [] block.op = "kv" -> {Kv(y, k) : k \in KvLines}
    \* the first loop of report_pages has a guard of its own
    [] block.op = "kv90" -> {Kv(Below(y, 90), k) : k \in KvLines}
    [] block.op = "fixed" -> {Placed(y, block.size)}
    [] block.op = "skip" -> {Placed(y - block.size, Fresh)}
    [] block.op = "heading" -> {Placed(y - block.size, y)}
    [] block.op = "bars" -> {Bars(y, w, n) : w \in WrapLines}
    [] block.op = "phase" -> {PhaseRow(y)}
    [] block.op = "rank" -> {RankBlock(y, w) : w \in WrapLines}
    [] block.op = "traffic" -> {Traffic(y, n)}

\* report_pages of performance/files/report.py.  The lines of system_id end at
\* 82 - 2 * 12: it names a directory, which has at most 255 characters.
BaselineScript(split) ==
  <<Page, Para(12), Para(9), Fixed(58), Page>> \o Times(16, Block("kv90"))
  \o <<Row, Page, Para(10), Row, Row, Row, Skip(12), Row, Row, Row, Skip(10),
       Para(12), Row, Row, Para(9), Para(9)>>
  \o Repeated(2, <<Page>> \o Times(4, Block("bars")) \o <<Para(9)>>)
  \o <<Page, Row, Row, Row, Row, Para(9), Row, Para(9), Para(12)>> \o Times(9, Para(9))
  \o If(split,
        <<Para(9), Page, Para(10)>> \o Times(16, Row) \o <<Para(9), Page>>
        \o Repeated(4, <<Para(11), Row, Para(9), Row, Para(9)>>))

\* pages of tessi_io500_report.py: a run has `phases` phases, of which `ranks`
\* have statistics; `estimated` when a baseline covers it.
Io500Script(type, split, estimated, phases, ranks) ==
  <<Page, Para(12), Para(9), Fixed(81), Page>> \o Times(13, Row)
  \o If(type = "pnfs", Times(10, Row) \o <<Para(9)>>) \o <<Para(8)>>
  \o <<Page, Para(10), Heading(22)>> \o Times(phases, Block("phase"))
  \o <<Skip(12), Para(9), Row, Row, Row, Para(9), Para(9)>>
  \o <<Page, Para(8), Row, Row, Row>> \o If(estimated, Times(5, Row))
  \o If(estimated /\ split, <<Row, Row, Para(9)>>)
  \o <<Para(9), Para(12)>> \o Times(phases \div 3, Row) \o <<Para(10), Para(9)>>
  \o <<Page, Para(10)>> \o Times(ranks, Block("rank"))
  \o <<Page, Para(10)>> \o Repeated(3, <<Row, Row, Block("traffic")>>)
  \o <<Para(9), Row, Para(9), Page>>
  \o If(type = "daos", Times(2, Row) \o Repeated(3, <<Para(12), Row, Row, Row>>))
  \o <<Para(9), Para(12), Para(9), Para(9)>>
=============================================================================
