---------------------------------- MODULE Ansi ----------------------------------
(***************************************************************************)
(* The serializer of screens (terminal/ansi.rs): `formatted` turns the     *)
(* displayed rows of a grid into a stream of terminal operations, which a  *)
(* terminal of the same size replays, and `contents` into plain text. A    *)
(* grid comes from the child: wide glyphs may have lost a half, a tab is a *)
(* cell, the cursor may be past the last column. The attributes of a cell  *)
(* are one value; escape sequences are operations. The terminal that       *)
(* replays is alacritty's, external.                                       *)
(***************************************************************************)
EXTENDS Naturals, Sequences, SequencesExt

Plain == "plain"    \* what SGR 0 establishes
Hidden == "hidden"  \* SGR 8
Blank == " "
Tab   == "tab"

\* part: a cell of its own, a wide glyph, or the spacer right of one.
Cell(c, part, style, marks) == [c |-> c, part |-> part, style |-> style, marks |-> marks]
Empty == Cell(Blank, "whole", Plain, <<>>)

\* A grid: its lines, the history first; how many are on the screen; how far the view is
\* scrolled back; the cursor, whether it waits to wrap, and whether it is shown.
Cols(g) == Len(g.lines[1])
Line(g, row) == g.lines[Len(g.lines) - g.rows + row]
ViewLine(g, row) == g.lines[Len(g.lines) - g.rows + row - g.offset]

PairedSpacer(line, col) ==
  line[col].part = "spacer" /\ col > 1 /\ line[col - 1].part = "wide"
PairedWide(line, col) ==
  line[col].part = "wide" /\ col < Len(line) /\ line[col + 1].part = "spacer"
Orphan(line, col) ==
  line[col].part # "whole" /\ ~PairedWide(line, col) /\ ~PairedSpacer(line, col)

-----------------------------------------------------------------------------
(* The stream.                                                             *)

Op(op, text, row, col) == [op |-> op, text |-> text, row |-> row, col |-> col]
Cup(row, col) == <<Op("cup", "", row, col)>>
Sgr(style)    == <<Op("sgr", style, 0, 0)>>
Put(c)        == <<Op("put", c, 0, 0)>>
PushZerowidth(cell) == [i \in DOMAIN cell.marks |-> Op("mark", cell.marks[i], 0, 0)]
PushChar(cell) == Put(cell.c) \o PushZerowidth(cell)

SyncSgr(state, cell) == IF state = cell.style THEN <<>> ELSE Sgr(cell.style)

\* A tab sets only the character of a blank cell, and jumps.
TabOps(cell, row, col) ==
  Put(Blank) \o Cup(row, col) \o Put(Tab) \o Cup(row, col + 1) \o PushZerowidth(cell)

CellOps(line, row, col) ==
  IF Orphan(line, col) THEN Put(Blank)
  ELSE IF line[col].c = Tab THEN TabOps(line[col], row, col)
  ELSE PushChar(line[col])

\* The row up to col, and the attributes in force after it. The spacer of a glyph comes with it.
RowOps(line, row, state) ==
  LET upTo[col \in 0 .. Len(line)] ==
        IF col = 0 THEN [ops |-> <<>>, state |-> state]
        ELSE LET before == upTo[col - 1]
             IN IF PairedSpacer(line, col) THEN before
                ELSE [ops |-> before.ops \o SyncSgr(before.state, line[col]) \o CellOps(line, row, col),
                      state |-> line[col].style]
  IN  upTo[Len(line)]

ScreenOps(g) ==
  LET upTo[row \in 0 .. g.rows] ==
        IF row = 0 THEN [ops |-> Sgr(Plain), state |-> Plain]
        ELSE LET before == upTo[row - 1]
                 this == RowOps(ViewLine(g, row), row, before.state)
             IN  [ops |-> before.ops \o Cup(row, 1) \o this.ops, state |-> this.state]
  IN  upTo[g.rows]

\* Mutant: the cursor is addressed, and the pending wrap is lost.
CursorOpsAddressed(g, state) == Cup(g.row, g.col)

\* Only a write into the last column leaves the cursor past it.
CursorOps(g, state) ==
  IF g.offset = 0 /\ g.wrap
    THEN LET line == Line(g, g.row)
             col  == IF PairedSpacer(line, Cols(g)) THEN Cols(g) - 1 ELSE Cols(g)
             base == line[col]
             unwritable == base.c = Tab \/ (col = Cols(g) /\ base.part = "wide")
         IN  Cup(g.row, col) \o SyncSgr(state, base)
               \o Put(IF unwritable THEN Blank ELSE base.c) \o PushZerowidth(base)
    ELSE Cup(g.row, g.col)

\* formatted: the bytes; the position and visibility of the cursor go with them.
Formatted(g) ==
  LET screen == ScreenOps(g)
  IN  screen.ops \o CursorOps(g, screen.state) \o Sgr(Plain)
        \o <<Op(IF g.shown THEN "show" ELSE "hide", "", 0, 0)>>

\* contents, before trailing blanks are trimmed.
CellText(line, col) ==
  IF line[col].style = Hidden THEN <<Blank>>
  ELSE IF PairedSpacer(line, col) THEN <<>>
  ELSE <<IF line[col].c = Tab \/ Orphan(line, col) THEN Blank ELSE line[col].c>> \o line[col].marks
RowText(line) == FlattenSeq([col \in 1 .. Len(line) |-> CellText(line, col)])
Trimmed(s) ==
  LET last == {i \in DOMAIN s : s[i] # Blank /\ \A j \in i + 1 .. Len(s) : s[j] = Blank}
  IN  SubSeq(s, 1, IF last = {} THEN 0 ELSE CHOOSE i \in last : TRUE)
Contents(g) == [row \in 1 .. g.rows |-> Trimmed(RowText(ViewLine(g, row)))]

-----------------------------------------------------------------------------
(* The terminal that replays the stream.                                   *)

FreshTerm(rows, cols) ==
  [lines |-> [r \in 1 .. rows |-> [c \in 1 .. cols |-> Empty]], rows |-> rows, offset |-> 0,
   row |-> 1, col |-> 1, wrap |-> FALSE, style |-> Plain, shown |-> TRUE]

Wrapped(t) ==
  IF ~t.wrap THEN t
  ELSE IF t.row < t.rows THEN [t EXCEPT !.row = @ + 1, !.col = 1, !.wrap = FALSE]
  ELSE [t EXCEPT !.lines = Append(Tail(@), [c \in 1 .. Cols(t) |-> Empty]), !.col = 1, !.wrap = FALSE]

\* A cell that is overwritten takes its other half along.
Written(t, cell) ==
  LET line == t.lines[t.row]
      clear(col, part) == IF col \in DOMAIN line /\ line[col].part = part
                            THEN [line EXCEPT ![col].part = "whole", ![col].c = Blank] ELSE line
      freed == CASE line[t.col].part = "wide"   -> clear(t.col + 1, "spacer")
                 [] line[t.col].part = "spacer" -> clear(t.col - 1, "wide")
                 [] OTHER -> line
  IN  [t EXCEPT !.lines[t.row] = [freed EXCEPT ![t.col] = cell]]

Advanced(t) == IF t.col < Cols(t) THEN [t EXCEPT !.col = @ + 1] ELSE [t EXCEPT !.wrap = TRUE]

CONSTANTS Wide  \* the glyphs two columns wide

ASSUME WideAssumption == Blank \notin Wide /\ Tab \notin Wide

PutWide(t, c) ==
  LET fits == IF t.col < Cols(t) THEN t ELSE Wrapped([t EXCEPT !.wrap = TRUE])
      left == Written(fits, Cell(c, "wide", t.style, <<>>))
  IN  Advanced(Written([left EXCEPT !.col = @ + 1], Cell(Blank, "spacer", t.style, <<>>)))

\* put_tab: to the next stop, of which there is one every eight columns, or to the last column.
NextStop(col, cols) ==
  LET stop == 8 * ((col - 1) \div 8 + 1) + 1
  IN  IF stop > cols THEN cols ELSE stop
PutTab(t) ==
  IF t.wrap THEN Wrapped(t)
  ELSE [t EXCEPT !.lines[t.row][t.col].c = IF @ = Blank THEN Tab ELSE @,
                 !.col = NextStop(@, Cols(t))]

PutMark(t, m) ==
  LET left == IF t.wrap \/ t.col = 1 THEN t.col ELSE t.col - 1
      col  == IF left > 1 /\ t.lines[t.row][left].part = "spacer" THEN left - 1 ELSE left
  IN  [t EXCEPT !.lines[t.row][col].marks = Append(@, m)]

PutChar(t, c) ==
  IF c = Tab THEN PutTab(t)
  ELSE IF c \in Wide THEN PutWide(Wrapped(t), c)
  ELSE Advanced(Written(Wrapped(t), Cell(c, "whole", t.style, <<>>)))

Apply(t, o) ==
  CASE o.op = "cup"  -> [t EXCEPT !.row = o.row, !.col = IF o.col > Cols(t) THEN Cols(t) ELSE o.col,
                                  !.wrap = FALSE]
    [] o.op = "sgr"  -> [t EXCEPT !.style = o.text]
    [] o.op = "mark" -> PutMark(t, o.text)
    [] o.op = "show" -> [t EXCEPT !.shown = TRUE]
    [] o.op = "hide" -> [t EXCEPT !.shown = FALSE]
    [] o.op = "put"  -> PutChar(t, o.text)

Replay(t, ops) ==
  LET after[n \in 0 .. Len(ops)] == IF n = 0 THEN t ELSE Apply(after[n - 1], ops[n])
  IN  after[Len(ops)]

-----------------------------------------------------------------------------
(* Properties.                                                             *)

CONSTANTS Grids  \* the grids that are serialized

\* What a terminal leaves in a grid: a cell is wide if its glyph is, and a spacer holds no glyph;
\* only a write into the last column waits to wrap.
Cells ==
  {cell \in [c : STRING, part : {"whole", "wide", "spacer"}, style : STRING, marks : Seq(STRING)] :
     /\ cell.part = "wide" <=> cell.c \in Wide
     /\ cell.part = "spacer" => cell.c \in {Blank, Tab}}
IsGrid(g) ==
  /\ g.lines \in Seq(Seq(Cells)) /\ \A i \in DOMAIN g.lines : Len(g.lines[i]) = Cols(g)
  /\ g.rows \in 1 .. Len(g.lines) /\ g.offset \in 0 .. Len(g.lines) - g.rows
  /\ g.row \in 1 .. g.rows /\ g.col \in 1 .. Cols(g) /\ {g.wrap, g.shown} \subseteq BOOLEAN
  /\ g.wrap => g.col = Cols(g)

ASSUME GridsAssumption == \A g \in Grids : IsGrid(g)

\* Grids that are not reproduced: halves of two glyphs side by side, of which the right one
\* gets the attributes of the left; the marks of a lost half, which are in the plain text and not
\* in the stream, or the reverse under a cursor that waits to wrap; the marks of a tab that was
\* shifted into the last column, which land one cell to its left.
Unfaithful(g) ==
  \E row \in 1 .. g.rows, col \in 1 .. Cols(g) :
    LET line == ViewLine(g, row)
    IN  \/ PairedWide(line, col) /\ line[col].style # line[col + 1].style
        \/ line[col].marks # <<>> /\ (Orphan(line, col) \/ (line[col].c = Tab /\ col = Cols(g)))

\* What of a cell can be seen: a lost half is a blank with its attributes, and so is a tab
\* under a cursor past the last column. The spacer of a glyph is not drawn, but for its attributes.
Drawn(line, col) ==
  IF Orphan(line, col) THEN [line[col] EXCEPT !.c = Blank, !.part = "whole"]
  ELSE IF PairedSpacer(line, col) THEN [line[col] EXCEPT !.c = Blank, !.marks = <<>>]
  ELSE line[col]
Seen(g, row, col) ==
  LET drawn == Drawn(ViewLine(g, row), col)
      phantom == g.offset = 0 /\ g.wrap /\ g.row = row /\ col = Cols(g)
  IN  IF phantom /\ drawn.c = Tab THEN [drawn EXCEPT !.c = Blank] ELSE drawn

Replayed(g) == Replay(FreshTerm(g.rows, Cols(g)), Formatted(g))

\* What a client shows of a grid that is not Unfaithful is what the grid displays: the replayed
\* stream gives every cell that can be seen, the cursor where it is and as it waits, and the same
\* plain text (formatted, contents). Of an Unfaithful grid, which the module's contract (ansi.rs:3-8)
\* promises as well, nothing is said: the code gets these wrong.
ReplayShows ==
  \A g \in {h \in Grids : ~Unfaithful(h)} :
    LET t == Replayed(g)
    IN  /\ \A row \in 1 .. g.rows, col \in 1 .. Cols(g) : t.lines[row][col] = Seen(g, row, col)
        /\ t.row = g.row /\ t.col = g.col /\ t.shown = g.shown /\ t.style = Plain
        /\ g.offset = 0 => t.wrap = g.wrap
        /\ Contents(t) = Contents(g)
=============================================================================
