-------------------------------- MODULE Listing --------------------------------
(***************************************************************************)
(* The dashboard's list (App::sections and the motions over it, app.rs;    *)
(* the windows of ui.rs), and the text of a drag (selection.rs). A view is *)
(* a record of the fields that place it; labels and directories have a     *)
(* folded and an exact order.                                              *)
(***************************************************************************)
EXTENDS Naturals, Sequences, FiniteSets

CONSTANTS Labels,  \* group names and directories
          Fold,    \* a function: the place of a label's lowercase form
          Exact,   \* a function: the place of a label itself
          Home,    \* the directory of the invocation
          Width,   \* a function: glyphs to columns
          Typed,   \* what is typed into the group picker, "" among it
          Begins,  \* a function: what is typed, to the labels that begin with it
          Lists,   \* the pairs of a mode and a snapshot that are looked at
          Screens, \* the sequences of rows that are looked at
          Sizes,   \* the heights and widths of what shows them
          Cells    \* the cells a pointer may be over, pairs of a row and a column

Unassigned == "Unassigned"
Blank      == " "
Ellipsis   == "..."

\* What a snapshot is: a sequence of views, no two with one ID. A view has at most one group.
Snapshot(views) ==
  /\ views \in Seq({views[i] : i \in DOMAIN views})
  /\ \A i \in DOMAIN views : /\ {"id", "tagged", "life", "cwd", "group"} \subseteq DOMAIN views[i]
                              /\ views[i].id \in Nat \ {0} /\ views[i].tagged \in BOOLEAN
                              /\ views[i].cwd \in Labels
                              /\ views[i].group \in {{}} \cup {{g} : g \in Labels}
  /\ \A i, j \in DOMAIN views : views[i].id = views[j].id => i = j

\* No group has the name that stands for none (normalize_group, supervisor.rs).
ASSUME ListingAssumption ==
  /\ Home \in Labels /\ Unassigned \notin Labels
  /\ Fold \in [Labels -> Nat] /\ Exact \in [Labels -> Nat]
  /\ \A a, b \in Labels : Exact[a] = Exact[b] => a = b
  /\ "" \in Typed /\ Begins \in [Typed -> SUBSET Labels] /\ Begins[""] = Labels
  /\ \A l \in Lists : l.mode \in {"State", "Dir", "Custom"} /\ Snapshot(l.views)
  /\ Width \in [DOMAIN Width -> Nat] /\ {Blank, Ellipsis} \subseteq DOMAIN Width
  /\ Width[Blank] = 1 /\ Width[Ellipsis] = 1
  /\ Screens \subseteq Seq(Seq(DOMAIN Width)) /\ Sizes \subseteq Nat /\ Cells \subseteq Nat \X Nat

Finished(v) == v.life \in {"ok", "failed", "stopped"}

StateRank(v)  == IF v.tagged THEN 0 ELSE IF Finished(v) THEN 3 ELSE IF v.life = "idle" THEN 2 ELSE 1
StateLabel(v) == <<"In use", "Running", "Idle", "Completed">>[StateRank(v) + 1]
RowRank(v)    == IF v.tagged THEN 0 ELSE IF Finished(v) THEN 2 ELSE 1

Least(a, b) == IF a < b THEN a ELSE b

\* The section of a view: its rank and label.
Section(mode, v) ==
  CASE mode = "State" -> [rank |-> StateRank(v), label |-> StateLabel(v)]
    [] mode = "Dir"   -> [rank |-> IF v.cwd = Home THEN 0 ELSE 1, label |-> v.cwd]
    [] OTHER -> [rank |-> IF v.group = {} THEN 1 ELSE 0,
                 label |-> IF v.group = {} THEN Unassigned ELSE CHOOSE g \in v.group : TRUE]

\* Mutant: names that differ in case alone fall together.
CollationFolded(label) == IF label \in Labels THEN <<Fold[label], 0>> ELSE <<0, 0>>

\* collation_key; a label that is alone in its rank has any key.
Collation(label) == IF label \in Labels THEN <<Fold[label], Exact[label]>> ELSE <<0, 0>>

Collations == [label \in Labels |-> Collation(label)]

SortKey(mode, v) ==
  LET s == Section(mode, v)
  IN  <<s.rank>> \o Collation(s.label) \o <<RowRank(v)>> \o Collation(v.cwd) \o <<v.id>>

Precedes(a, b) == \E n \in DOMAIN a : a[n] < b[n] /\ \A m \in 1 .. n - 1 : a[m] = b[m]

\* The elements of S in the order of their keys.
Ordered(S, key) ==
  CHOOSE s \in [1 .. Cardinality(S) -> S] :
    \A n \in DOMAIN s : \A m \in 1 .. n - 1 : Precedes(key[s[m]], key[s[n]])

\* Positions in order, and what a sequence has there.
Places(P)  == CHOOSE s \in [1 .. Cardinality(P) -> P] : \A n \in DOMAIN s : \A m \in 1 .. n - 1 : s[m] < s[n]
Only(s, P) == LET at == Places(P) IN [n \in DOMAIN at |-> s[at[n]]]

\* The views in order, as positions in the snapshot.
SortKeys(mode, views) == [i \in DOMAIN views |-> SortKey(mode, views[i])]
Sorted(mode, views)   == Ordered(DOMAIN views, SortKeys(mode, views))

\* Neighbours with one label make a section.
Grouped(order, labels) ==
  LET heads == {n \in DOMAIN order : n = 1 \/ labels[order[n - 1]] # labels[order[n]]}
      ends  == Places(heads \cup {Len(order) + 1})
  IN  [k \in 1 .. Len(ends) - 1 |->
        [label |-> labels[order[ends[k]]], tasks |-> SubSeq(order, ends[k], ends[k + 1] - 1)]]

Sections(mode, views) ==
  Grouped(Sorted(mode, views), [i \in DOMAIN views |-> Section(mode, views[i]).label])

Flat(parts) == LET upTo[k \in 0 .. Len(parts)] == IF k = 0 THEN <<>> ELSE upTo[k - 1] \o parts[k]
               IN  upTo[Len(parts)]

\* display_order: the sections, flattened.
DisplayOrder(ss) == Flat([k \in DOMAIN ss |-> ss[k].tasks])

\* list_rows: headers, as pairs of a label and no task, over their tasks.
ListRows(ss) ==
  LET row(k, i) == [label |-> ss[k].label, task |-> i]
  IN  Flat([k \in DOMAIN ss |-> <<row(k, 0)>> \o [n \in DOMAIN ss[k].tasks |-> row(k, ss[k].tasks[n])]])

-----------------------------------------------------------------------------
(* The motions, over the sections ss or their flat order. A selection is a *)
(* set with at most one task ID.                                           *)

Ids(views) == {views[i].id : i \in DOMAIN views}
Pos(order, views, sel) == {n \in DOMAIN order : views[order[n]].id \in sel}
The(S) == CHOOSE x \in S : TRUE

\* Mutant: the selection of a task that is gone is kept.
ResolveSelectionKept(order, views, sel) == sel

ResolveSelection(order, views, sel) ==
  IF sel \cap Ids(views) # {} THEN sel
  ELSE IF views = <<>> THEN {} ELSE {views[order[1]].id}

SelectWrap(order, views, sel, forward) ==
  LET pos == IF Pos(order, views, sel) = {} THEN 0 ELSE The(Pos(order, views, sel)) - 1
      step == IF forward THEN 1 ELSE Len(order) - 1
  IN  IF order = <<>> THEN {} ELSE {views[order[((pos + step) % Len(order)) + 1]].id}

SelectSectionWrap(ss, views, sel, forward) ==
  LET cur == {k \in DOMAIN ss : \E n \in DOMAIN ss[k].tasks : views[ss[k].tasks[n]].id \in sel}
      target == IF cur = {} THEN (IF forward THEN 0 ELSE Len(ss) - 1)
                ELSE (The(cur) - 1 + (IF forward THEN 1 ELSE Len(ss) - 1)) % Len(ss)
  IN  IF ss = <<>> THEN {} ELSE {views[ss[target + 1].tasks[1]].id}

\* From the row after the selection; nothing changes without a tag.
SelectNextTagged(order, views, sel) ==
  LET start == IF Pos(order, views, sel) = {} THEN 0 ELSE The(Pos(order, views, sel))
      at(off) == order[((start + off) % Len(order)) + 1]
      found == {off \in 0 .. Len(order) - 1 : views[at(off)].tagged}
  IN  IF found = {} THEN sel
      ELSE {views[at(CHOOSE off \in found : \A o \in found : off <= o)].id}

-----------------------------------------------------------------------------
(* The group picker, and what every picker shares; rows count from zero.   *)

\* Mutant: a match is never preselected.
PreselectedRowNever(filterEmpty, cands) == 0

\* preselected_row.
PreselectedRow(filterEmpty, cands) == IF ~filterEmpty /\ cands >= 2 THEN 1 ELSE 0
StepDown(sel, len) == Least(sel + 1, IF len = 0 THEN 0 ELSE len - 1)
StepUp(sel) == IF sel = 0 THEN 0 ELSE sel - 1

\* refresh_group_candidates: no group, then the groups that begin as what was typed.
GroupCandidates(views, typed) ==
  LET names == Ordered((UNION {views[i].group : i \in DOMAIN views}) \cap Begins[typed], Collations)
  IN  <<{}>> \o [n \in DOMAIN names |-> {names[n]}]

GroupIsNew(cands, typed) == typed # "" /\ Len(cands) < 2

\* What Enter assigns.
PickedGroup(cands, typed, sel) ==
  IF GroupIsNew(cands, typed) THEN {typed}
  ELSE IF sel + 1 \in DOMAIN cands THEN cands[sel + 1] ELSE {}

-----------------------------------------------------------------------------
(* Windows: of a list around its selection, of a screen at its end.        *)

\* Mutant: the window ends before the selection.
ScrollWindowShort(sel, total, max) ==
  IF total = 0 \/ max = 0 THEN <<0, 0>>
  ELSE LET count == Least(total, max) IN <<IF sel > count THEN sel - count ELSE 0, count>>

ScrollWindow(sel, total, max) ==
  IF total = 0 \/ max = 0 THEN <<0, 0>>
  ELSE LET count == Least(total, max) IN <<IF sel >= count THEN sel + 1 - count ELSE 0, count>>

\* peek_window: up to the last row that is not blank, or the whole alternate screen.
PeekWindow(lines, height, alt) ==
  LET full == {i \in DOMAIN lines : lines[i] # <<>>}
      end == IF alt THEN Len(lines) ELSE IF full = {} THEN 0 ELSE CHOOSE i \in full : \A j \in full : j <= i
  IN  SubSeq(lines, (IF end > height THEN end - height ELSE 0) + 1, end)

\* The columns of the first n glyphs of a line.
Columns(line, n) == LET upTo[k \in 0 .. n] == IF k = 0 THEN 0 ELSE upTo[k - 1] + Width[line[k]]
                    IN  upTo[n]

\* truncate: the longest part that leaves a column for the ellipsis, if it is cut.
Truncate(line, max) ==
  LET fits == {n \in 0 .. Len(line) : Columns(line, n) <= max - 1}
  IN  IF max = 0 THEN <<>>
      ELSE IF Columns(line, Len(line)) <= max THEN line
      ELSE Append(SubSeq(line, 1, CHOOSE n \in fits : \A m \in fits : m <= n), Ellipsis)

\* pad: a wide glyph that was cut leaves a column free.
Pad(line, width) ==
  LET t == Truncate(line, width)
  IN  t \o [n \in 1 .. width - Columns(t, Len(t)) |-> Blank]

-----------------------------------------------------------------------------
(* Selection: a row is a sequence of glyphs with widths; cells count from  *)
(* zero, as do the rows.                                                   *)

\* Mutant: the rows are ordered before they are clamped.
BoundsUnclamped(sel, bottom) ==
  LET clamp(p) == <<Least(p[1], bottom), p[2]>>
      ends == IF Precedes(sel.head, sel.anchor) THEN <<sel.head, sel.anchor>> ELSE <<sel.anchor, sel.head>>
  IN  <<clamp(ends[1]), clamp(ends[2])>>

\* Clamp to the last row, then order.
Bounds(sel, bottom) ==
  LET clamp(p) == <<Least(p[1], bottom), p[2]>>
      anchor == clamp(sel.anchor)
      head == clamp(sel.head)
  IN  IF Precedes(head, anchor) THEN <<head, anchor>> ELSE <<anchor, head>>

\* segment_span: the glyphs that overlap the cells, each with the marks after it.
Base(line, n) == CHOOSE k \in 0 .. n : /\ k = 0 \/ Width[line[k]] > 0
                                      /\ \A j \in k + 1 .. n : Width[line[j]] = 0
Overlaps(line, n, from, to) ==
  LET k == Base(line, n)
  IN  k > 0 /\ Columns(line, k - 1) < to /\ Columns(line, k) > from

\* The places of the row, in order, that segment_span takes and trim_end leaves.
SegmentSpan(line, from, to) == {n \in DOMAIN line : Overlaps(line, n, from, to)}
TrimEnd(line, span) == {n \in span : \E m \in span : m >= n /\ line[m] # Blank}

RowSegment(sel, row, line, bottom) ==
  LET ends == Bounds(sel, bottom)
      from == IF row = ends[1][1] THEN ends[1][2] ELSE 0
      to   == IF row = ends[2][1] THEN ends[2][2] + 1 ELSE Columns(line, Len(line)) + 1
  IN  IF row < ends[1][1] \/ row > ends[2][1] THEN {} ELSE TrimEnd(line, SegmentSpan(line, from, to))

\* extract: one line for each row, here the row and the places it takes there.
Extract(sel, rows) ==
  IF rows = <<>> THEN {}
  ELSE LET ends == Bounds(sel, Len(rows) - 1)
       IN  {<<row, RowSegment(sel, row, rows[row + 1], Len(rows) - 1)>> : row \in ends[1][1] .. ends[2][1]}

-----------------------------------------------------------------------------
(* What the list and the drag promise.                                     *)

\* The selections that the function f leads to from s in n calls.
Walk(f, s, n) == LET w[k \in 0 .. n] == IF k = 0 THEN s ELSE f[w[k - 1]] IN {w[k] : k \in 1 .. n}

\* Every task is listed once, no label heads two sections, and a task that falls
\* idle or wakes keeps its place outside the grouping by state (row_rank's comment).
ListWhole ==
  \A l \in Lists :
    LET ss == Sections(l.mode, l.views)
        order == DisplayOrder(ss)
        awake == [i \in DOMAIN l.views |-> IF l.views[i].life = "idle"
                                           THEN [l.views[i] EXCEPT !.life = "active"] ELSE l.views[i]]
    IN  /\ DOMAIN order = DOMAIN l.views
        /\ {order[n] : n \in DOMAIN order} = DOMAIN l.views
        /\ \A j, k \in DOMAIN ss : ss[j].label = ss[k].label => j = k
        /\ l.mode # "State" => DisplayOrder(Sections(l.mode, awake)) = order

\* The motions stay on tasks that are there; up undoes down; each of them, repeated,
\* reaches every task, section or tagged task it is about.
MotionsReach ==
  \A l \in Lists :
    LET n == Len(l.views)
        ids == Ids(l.views)
        ss == Sections(l.mode, l.views)
        order == DisplayOrder(ss)
        tagged == {l.views[i].id : i \in {i \in DOMAIN l.views : l.views[i].tagged}}
        heads == {l.views[ss[k].tasks[1]].id : k \in DOMAIN ss}
        singles(S) == {{x} : x \in S}
        sels == singles(ids) \cup {{}, {0}}
        down == [s \in sels |-> SelectWrap(order, l.views, s, TRUE)]
        up   == [s \in sels |-> SelectWrap(order, l.views, s, FALSE)]
        next == [s \in sels |-> SelectSectionWrap(ss, l.views, s, TRUE)]
        prev == [s \in sels |-> SelectSectionWrap(ss, l.views, s, FALSE)]
        tag  == [s \in sels |-> SelectNextTagged(order, l.views, s)]
    IN  \A s \in sels :
          LET r == ResolveSelection(order, l.views, s)
          IN  /\ IF ids = {} THEN r = {} ELSE r \in singles(ids)
              /\ s \in singles(ids) => r = s /\ up[down[s]] = s /\ down[up[s]] = s
              /\ n > 0 => /\ Walk(down, s, n) = singles(ids) /\ Walk(up, s, n) = singles(ids)
                          /\ Walk(next, s, n) = singles(heads) /\ Walk(prev, s, n) = singles(heads)
              /\ IF tagged = {} THEN tag[s] = s ELSE Walk(tag, s, n) = singles(tagged)

\* The picker's cursor stays on its rows and reaches each; what is preselected for a text is a
\* group that begins with it, a new group only if there is none, and no group for no text.
PickerHolds ==
  \A l \in {l \in Lists : l.mode = "Custom"}, typed \in Typed :
    LET cands == GroupCandidates(l.views, typed)
        groups == UNION {l.views[i].group : i \in DOMAIN l.views}
        first == PreselectedRow(typed = "", Len(cands))
        downs[k \in 0 .. Len(cands)] == IF k = 0 THEN 0 ELSE StepDown(downs[k - 1], Len(cands))
    IN  /\ {downs[k] : k \in 0 .. Len(cands)} = 0 .. Len(cands) - 1
        /\ \A k \in 1 .. Len(cands) : StepUp(k - 1) \in 0 .. Len(cands) - 1
        /\ \A j, k \in DOMAIN cands : cands[j] = cands[k] => j = k
        /\ IF typed = "" THEN PickedGroup(cands, typed, first) = {}
           ELSE IF groups \cap Begins[typed] = {} THEN PickedGroup(cands, typed, first) = {typed}
           ELSE \E g \in groups \cap Begins[typed] : PickedGroup(cands, typed, first) = {g}

\* The window of a list, headers included, holds the selected row and no row that is not
\* there; that of a screen ends where the screen does. A padded text has the width it was given.
WindowsHold ==
  /\ \A l \in Lists : LET rows == ListRows(Sections(l.mode, l.views)) IN
       \A n \in {n \in DOMAIN rows : rows[n].task # 0}, max \in Sizes \ {0} :
         LET w == ScrollWindow(n - 1, Len(rows), max)
         IN  /\ \E m \in w[1] + 1 .. w[1] + w[2] : rows[m].task = rows[n].task
             /\ \E m \in 1 .. n : /\ rows[m].task = 0
                                  /\ \A k \in m .. n : rows[k].label = Section(l.mode, l.views[rows[n].task]).label
  /\ \A lines \in Screens, n \in Sizes : \A i \in DOMAIN lines :
       LET p == Pad(lines[i], n)
           kept == {k \in 0 .. Least(Len(p), Len(lines[i])) : SubSeq(p, 1, k) = SubSeq(lines[i], 1, k)}
       IN  /\ Columns(p, Len(p)) = n
           /\ Columns(lines[i], Len(lines[i])) <= n /\ n > 0 => Len(lines[i]) \in kept
           /\ n < Columns(lines[i], Len(lines[i])) /\ n > 0 =>
                \E k \in kept : p[k + 1] = Ellipsis /\ Columns(lines[i], k) < n
  /\ \A total, max \in Sizes : \A sel \in 0 .. total - 1 :
       LET w == ScrollWindow(sel, total, max)
       IN  /\ w[2] = Least(total, max) /\ w[1] + w[2] <= total
           /\ max > 0 => w[1] <= sel /\ sel < w[1] + w[2]
  /\ \A lines \in Screens : \A height \in Sizes : \A alt \in BOOLEAN :
       LET w == PeekWindow(lines, height, alt)
           below == {i \in DOMAIN lines : lines[i] # <<>>}
       IN  /\ Len(w) <= height
           /\ alt => Len(w) = Least(height, Len(lines))
           /\ ~alt /\ height > 0 => (w = <<>> <=> below = {})
           /\ w # <<>> /\ ~alt => /\ w[Len(w)] # <<>>
                                 /\ \E i \in below : w[Len(w)] = lines[i] /\ \A j \in below : j <= i

\* A drag takes, in whichever direction it went, each glyph a cell of which lies
\* between its ends in reading order, whole and with its marks, without the blanks
\* at the end of a row.
TextIsDragged ==
  \A rows \in Screens : \A a, h \in Cells :
    LET sel == [anchor |-> a, head |-> h]
        clamp(p) == <<Least(p[1], Len(rows) - 1), p[2]>>
        Upto(p, q) == p = q \/ Precedes(p, q)
        between(p) == \/ Upto(clamp(a), p) /\ Upto(p, clamp(h))
                      \/ Upto(clamp(h), p) /\ Upto(p, clamp(a))
        covered(row, n) == LET k == Base(rows[row + 1], n) IN
          k > 0 /\ \E c \in Columns(rows[row + 1], k - 1) .. Columns(rows[row + 1], k) - 1 : between(<<row, c>>)
        text(row) == {n \in DOMAIN rows[row + 1] : covered(row, n)}
        touched == {row \in 0 .. Len(rows) - 1 : Upto(<<Least(clamp(a)[1], clamp(h)[1])>>, <<row>>)
                                               /\ (row <= clamp(a)[1] \/ row <= clamp(h)[1])}
    IN  /\ Extract(sel, rows) = Extract([anchor |-> h, head |-> a], rows)
        /\ rows # <<>> => Extract(sel, rows) = {<<row, TrimEnd(rows[row + 1], text(row))>> : row \in touched}
=============================================================================
