--------------------------------- MODULE Vt ---------------------------------
(***************************************************************************)
(* The screen of the terminal emulator (term/vt.c): two grids of rows, the *)
(* ring of lines that scrolled off the main one, the cursor with its       *)
(* pending wrap, the scroll region, the saved cursors, the replies to the  *)
(* host, and the spans of columns a view has to draw again.                *)
(*                                                                         *)
(* One operation is one control or one dispatched sequence; VtParser shows *)
(* how they come out of the bytes.  Each is a function from a struct vt to *)
(* a struct vt, so that a write of several (TerminalView) is their         *)
(* composition.  A cell is a character and a background: the foreground    *)
(* and the attributes go with the character and meet nothing else.         *)
(* Numbers start at 0, as in the code; a row is a sequence as long as the  *)
(* buffer it is kept in.  The modes no operation here reads are left to    *)
(* the modules that read them.                                             *)
(***************************************************************************)
EXTENDS Integers, FiniteSets, SequencesExt

CONSTANTS
    Plain,        \* characters both character sets show alike
    DEC_GFX,      \* the others, each with what DEC special graphics shows for it
    Backgrounds,  \* backgrounds the host may set
    DefaultBg,    \* the background after a reset
    SbMax,        \* scrollback_lines
    OutMax,       \* VT_OUTBUF
    TabEvery,     \* the 8 of init_tabs()
    Most,         \* bound: the largest parameter of a sequence
    Loads         \* bounds: what the host may send, one element per workload

Graphic == DOMAIN DEC_GFX

\* A workload: the operations of the host and the view (ops), the characters printed
\* (prints), the size the window begins with (start) and those it takes (sizes).

ASSUME VtAssumption ==
    /\ SbMax \in Nat /\ OutMax \in Nat /\ TabEvery \in Nat \ {0} /\ Most \in Nat
    /\ DefaultBg \in Backgrounds
    /\ Plain \cap Graphic = {}
    /\ \A l \in Loads : /\ l.start \in l.sizes /\ l.sizes \subseteq (Nat \ {0}) \X (Nat \ {0})
                        /\ l.prints \subseteq Plain \cup Graphic \cup {"astral", "combining"}

VARIABLES
    t,            \* the struct vt
    load          \* the workload

vars == <<t, load>>

-----------------------------------------------------------------------------
(* Cells, rows, screens *)

Cell(ch, bg) == <<ch, bg>>
blank_cell(s) == Cell(" ", s.pen)
Row(n, cell) == [i \in 1..n |-> cell]
Grid(rows, cols, cell) == [r \in 1..rows |-> Row(cols, cell)]

\* fill() of a whole row: the row keeps its buffer
Fill(row, cell) == Row(Len(row), cell)

\* t->line: a pointer to one of the two grids
Line(s) == s.grid[s.line]
SetLine(s, rows) == [s EXCEPT !.grid[s.line] = rows]

Least(a, b) == IF a < b THEN a ELSE b
Most2(a, b) == IF a > b THEN a ELSE b
Clamp(x, lo, hi) == Least(Most2(x, lo), hi)

Repeatedly(Op(_), s, n) == FoldLeft(LAMBDA a, i : Op(a), s, [i \in 1..n |-> i])

\* the columns [a, b) of a row that is drawn as it should be: none
Clean == <<0, 0>>

mark_cols(s, row, a, b) ==
    LET lo == Most2(a, 0)  hi == Least(b, s.cols)
    IN  IF row \notin 0..(s.rows - 1) \/ lo >= hi THEN s
        ELSE [s EXCEPT !.dirty[row] = IF @ = Clean THEN <<lo, hi>>
                                      ELSE <<Least(lo, @[1]), Most2(hi, @[2])>>]

mark_range(s, a, b) ==
    [s EXCEPT !.dirty = [r \in DOMAIN @ |-> IF r \in a..b THEN <<0, s.cols>> ELSE @[r]]]

mark_all(s) == mark_range([s EXCEPT !.all_dirty = TRUE], 0, s.rows - 1)

-----------------------------------------------------------------------------
(* Scrollback: a ring of rows.  live counts the row buffers allocated. *)

\* what malloc() leaves in a row
Fresh(n) == Row(n, Cell("garbage", DefaultBg))

\* Mutants of sb_push: a buffer reused whatever its width; a ring whose head stays.
sb_push_anywidth(s, row) ==
    IF SbMax > 0 /\ s.sb_count = SbMax
    THEN <<[s EXCEPT !.sb[s.sb_head] = row, !.sb_w[s.sb_head] = s.cols, !.sb_head = (@ + 1) % SbMax],
           s.sb[s.sb_head]>>
    ELSE <<[s EXCEPT !.sb[(s.sb_head + s.sb_count) % SbMax] = row,
                     !.sb_w[(s.sb_head + s.sb_count) % SbMax] = s.cols, !.sb_count = @ + 1,
                     !.live = @ + 1], Fresh(s.cols)>>
sb_push_fixedhead(s, row) ==
    IF SbMax > 0 /\ s.sb_count = SbMax
    THEN <<[s EXCEPT !.sb[s.sb_head] = row, !.sb_w[s.sb_head] = s.cols], Fresh(s.cols)>>
    ELSE <<[s EXCEPT !.sb[(s.sb_head + s.sb_count) % SbMax] = row,
                     !.sb_w[(s.sb_head + s.sb_count) % SbMax] = s.cols, !.sb_count = @ + 1,
                     !.live = @ + 1], Fresh(s.cols)>>

\* sb_push(): the ring takes the row; the second component is a buffer to use in its place
sb_push(s, row) ==
    IF SbMax = 0 THEN <<s, row>>
    ELSE IF s.sb_count = SbMax
    THEN LET old == s.sb[s.sb_head]
             over == [s EXCEPT !.sb[s.sb_head] = row, !.sb_w[s.sb_head] = s.cols,
                               !.sb_head = (@ + 1) % SbMax]
         IN  IF s.sb_w[s.sb_head] = s.cols THEN <<over, old>> ELSE <<over, Fresh(s.cols)>>
    ELSE LET idx == (s.sb_head + s.sb_count) % SbMax
         IN  <<[s EXCEPT !.sb[idx] = row, !.sb_w[idx] = s.cols, !.sb_count = @ + 1,
                         !.live = @ + 1], Fresh(s.cols)>>

\* vt_line_at(idx), idx < 0: -1 is the newest
SbLine(s, idx) == s.sb[(s.sb_head + s.sb_count + idx) % SbMax]

-----------------------------------------------------------------------------
(* Scrolling *)

scroll_up(s, top, bottom, n, to_sb) ==
    LET One(a) ==
            LET v == Line(a)
                row == v[top + 1]
                p == IF to_sb /\ top = 0 /\ ~a.in_alt THEN sb_push(a, row) ELSE <<a, row>>
            IN  SetLine(p[1], [r \in DOMAIN v |->
                    IF r \in (top + 1)..bottom THEN v[r + 1]
                    ELSE IF r = bottom + 1 THEN Fill(p[2], blank_cell(a)) ELSE v[r]])
        k == Least(n, bottom - top + 1)
    IN  IF k <= 0 THEN s ELSE mark_range(Repeatedly(One, s, k), top, bottom)

scroll_down(s, top, bottom, n) ==
    LET k == Least(n, bottom - top + 1)
        v == Line(s)
    IN  IF k <= 0 THEN s
        ELSE mark_range(SetLine(s, [r \in DOMAIN v |->
                 IF r \in (top + k + 1)..(bottom + 1) THEN v[r - k]
                 ELSE IF r \in (top + 1)..(top + k) THEN Fill(v[r], blank_cell(s))
                 ELSE v[r]]), top, bottom)

index_down(s) ==
    IF s.cy = s.bottom THEN scroll_up(s, s.top, s.bottom, 1, TRUE)
    ELSE IF s.cy < s.rows - 1 THEN [s EXCEPT !.cy = @ + 1] ELSE s

index_up(s) ==
    IF s.cy = s.top THEN scroll_down(s, s.top, s.bottom, 1)
    ELSE IF s.cy > 0 THEN [s EXCEPT !.cy = @ - 1] ELSE s

-----------------------------------------------------------------------------
(* The cursor, and what is said to the host *)

NoWrap(s) == [s EXCEPT !.wrap_pending = FALSE]
Return(s) == [s EXCEPT !.cx = 0, !.wrap_pending = FALSE]

cursor_to(s, row, col) ==
    LET lo == IF s.origin THEN s.top ELSE 0
        hi == IF s.origin THEN s.bottom ELSE s.rows - 1
    IN  [s EXCEPT !.cy = Clamp(IF s.origin THEN row + s.top ELSE row, lo, hi),
                  !.cx = Clamp(col, 0, s.cols - 1), !.wrap_pending = FALSE]

\* the row the cursor-moving sequences count from
Base(s) == s.cy - (IF s.origin THEN s.top ELSE 0)

\* Pieces of replies: emit() drops the one it has no room for.
PieceLen == [status |-> 4, identity |-> 7, csi |-> 2, number |-> 1, semicolon |-> 1, R |-> 1]
OutLen(out) == FoldLeft(LAMBDA n, p : n + PieceLen[p], 0, out)
emit(s, piece) ==
    IF OutLen(s.out) + PieceLen[piece] > OutMax THEN s ELSE [s EXCEPT !.out = Append(@, piece)]

next_tab(s, n) ==
    LET One(a) == [a EXCEPT !.cx = CHOOSE c \in 0..(s.cols - 1) :
                       /\ c > @ \/ c = s.cols - 1
                       /\ c = s.cols - 1 \/ c \in s.tabs
                       /\ \A d \in 0..(s.cols - 1) : d > @ /\ d < c => d \notin s.tabs]
    IN  NoWrap(Repeatedly(One, s, n))

prev_tab(s, n) ==
    LET One(a) == [a EXCEPT !.cx = CHOOSE c \in 0..(s.cols - 1) :
                       /\ c < @ \/ c = 0
                       /\ c = 0 \/ c \in s.tabs
                       /\ \A d \in 0..(s.cols - 1) : d < @ /\ d > c => d \notin s.tabs]
    IN  NoWrap(Repeatedly(One, s, n))

-----------------------------------------------------------------------------
(* Printing *)

\* last_ch before anything is printed
None == "none"

\* The columns a character changes: in insert mode the rest of the row moves along.  The
\* mutant forgets that.
PlaceEnd_one(s) == s.cx + 1
PlaceEnd(s) == IF s.insert THEN s.cols ELSE s.cx + 1
place_cp(s, ch) ==
    LET w == IF s.wrap_pending /\ s.autowrap THEN index_down([s EXCEPT !.cx = 0]) ELSE s
        row == Line(w)[w.cy + 1]
        pushed == IF w.insert THEN [i \in DOMAIN row |-> IF i > w.cx + 1 THEN row[i - 1] ELSE row[i]]
                  ELSE row
        put == SetLine(w, [Line(w) EXCEPT ![w.cy + 1] = [pushed EXCEPT ![w.cx + 1] = Cell(ch, w.pen)]])
        marked == mark_cols(put, w.cy, w.cx, PlaceEnd(w))
        edge == w.cx = w.cols - 1
    IN  [marked EXCEPT !.last_ch = ch, !.cx = IF edge THEN @ ELSE @ + 1,
                       !.wrap_pending = edge /\ w.autowrap]

\* put_cp(): a graphic character of the other set, a character beyond 16 bits, a mark without a cell
Charset(s) == IF s.shift THEN s.g1 ELSE s.g0
put_cp(s, cp) ==
    IF cp = "combining" THEN s
    ELSE place_cp(s, IF cp = "astral" THEN "?"
                     ELSE IF Charset(s) /\ cp \in Graphic THEN DEC_GFX[cp] ELSE cp)

-----------------------------------------------------------------------------
(* Erasing, inserting, deleting *)

erase_cells(s, row, from, to) ==
    LET lo == Most2(from, 0)  hi == Least(to, s.cols)
    IN  IF lo >= hi THEN s
        ELSE mark_cols(SetLine(s, [Line(s) EXCEPT ![row + 1] =
                 [i \in DOMAIN @ |-> IF i \in (lo + 1)..hi THEN blank_cell(s) ELSE @[i]]]), row, lo, hi)

EraseRows(s, rows) == FoldLeft(LAMBDA a, r : erase_cells(a, r, 0, s.cols), s, SetToSeq(rows))

\* ED 3: the scrollback is freed, unless the alternate screen is up.
Forget(s) ==
    IF s.in_alt THEN s ELSE [s EXCEPT !.live = @ - s.sb_count, !.sb_count = 0, !.sb_head = 0]

erase_display(s, mode) ==
    CASE mode = 0 -> EraseRows(erase_cells(s, s.cy, s.cx, s.cols), (s.cy + 1)..(s.rows - 1))
      [] mode = 1 -> erase_cells(EraseRows(s, 0..(s.cy - 1)), s.cy, 0, s.cx + 1)
      [] mode = 2 -> EraseRows(s, 0..(s.rows - 1))
      [] mode = 3 -> Forget(s)
      [] OTHER -> s

erase_line(s, mode) ==
    CASE mode = 0 -> erase_cells(s, s.cy, s.cx, s.cols)
      [] mode = 1 -> erase_cells(s, s.cy, 0, s.cx + 1)
      [] mode = 2 -> erase_cells(s, s.cy, 0, s.cols)
      [] OTHER -> s

\* the cells of the cursor's row from the cursor on, moved
Edit(s, Moved(_)) ==
    LET row == Line(s)[s.cy + 1]
    IN  NoWrap(mark_cols(SetLine(s, [Line(s) EXCEPT ![s.cy + 1] =
            [i \in DOMAIN row |-> IF i > s.cx THEN Moved(i) ELSE row[i]]]), s.cy, s.cx, s.cols))

insert_chars(s, n) ==
    LET row == Line(s)[s.cy + 1]  k == Least(n, s.cols - s.cx)
    IN  Edit(s, LAMBDA i : IF i <= s.cx + k THEN blank_cell(s) ELSE row[i - k])

delete_chars(s, n) ==
    LET row == Line(s)[s.cy + 1]  k == Least(n, s.cols - s.cx)
    IN  Edit(s, LAMBDA i : IF i > s.cols - k THEN blank_cell(s) ELSE row[i + k])

InRegion(s) == s.cy \in s.top..s.bottom
insert_lines(s, n) == IF InRegion(s) THEN Return(scroll_down(s, s.cy, s.bottom, n)) ELSE s
\* (the mutant deletes down to the last row of the screen)
delete_lines_screen(s, n) ==
    IF InRegion(s) THEN Return(scroll_up(s, s.cy, s.rows - 1, n, FALSE)) ELSE s
delete_lines(s, n) == IF InRegion(s) THEN Return(scroll_up(s, s.cy, s.bottom, n, FALSE)) ELSE s

repeat(s, n) ==
    IF s.last_ch = None THEN s
    ELSE Repeatedly(LAMBDA a : place_cp(a, s.last_ch), s, Least(n, s.rows * s.cols))

-----------------------------------------------------------------------------
(* Saved cursors, screens, the region, a reset *)

Saved(s) == [cx |-> s.cx, cy |-> s.cy, wrap_pending |-> s.wrap_pending, origin |-> s.origin,
             g0 |-> s.g0, g1 |-> s.g1, shift |-> s.shift, pen |-> s.pen]
save_cursor(s, slot) == [s EXCEPT !.saved[slot] = Saved(s)]

restore_cursor(s, slot) ==
    LET o == s.saved[slot]
    IN  [s EXCEPT !.cx = Least(o.cx, s.cols - 1), !.cy = Least(o.cy, s.rows - 1),
                  !.wrap_pending = o.wrap_pending, !.origin = o.origin,
                  !.g0 = o.g0, !.g1 = o.g1, !.shift = o.shift, !.pen = o.pen]

switch_screen(s, alt) ==
    IF alt = s.in_alt THEN s
    ELSE LET u == [s EXCEPT !.in_alt = alt, !.line = IF alt THEN "alt" ELSE "main"]
             cleared == [r \in DOMAIN u.grid.alt |-> Fill(u.grid.alt[r], blank_cell(s))]
         IN  mark_all(IF alt THEN SetLine(u, cleared) ELSE u)

\* mode 1049
AltScreen(s, on) ==
    IF on THEN switch_screen(save_cursor(s, "alt"), TRUE)
    ELSE restore_cursor(switch_screen(s, FALSE), "alt")

\* CSI r; a parameter of 0 stands for the first or the last row
Margins(s, first, last) ==
    LET top == IF first = 0 THEN 0 ELSE first - 1
        bot == Least(IF last = 0 THEN s.rows - 1 ELSE last - 1, s.rows - 1)
    IN  cursor_to(IF top < bot THEN [s EXCEPT !.top = top, !.bottom = bot] ELSE s, 0, 0)

PositionReport(s) ==
    emit(emit(emit(emit(emit(s, "csi"), "number"), "semicolon"), "number"), "R")

AlignmentTest(s) ==
    mark_range(SetLine(s, [r \in DOMAIN Line(s) |-> Fill(Line(s)[r], Cell("E", s.pen))]),
               0, s.rows - 1)

TabStops(cols) == {c \in 0..(cols - 1) : c % TabEvery = 0}
Home == [cx |-> 0, cy |-> 0, wrap_pending |-> FALSE, origin |-> FALSE,
         g0 |-> FALSE, g1 |-> FALSE, shift |-> FALSE, pen |-> DefaultBg]

vt_reset(s) ==
    LET plain == [s EXCEPT
            !.last_ch = None, !.saved = [slot \in {"main", "alt"} |-> Home], !.pen = DefaultBg,
            !.in_alt = FALSE, !.line = "main", !.cx = 0, !.cy = 0, !.wrap_pending = FALSE,
            !.top = 0, !.bottom = s.rows - 1, !.autowrap = TRUE, !.origin = FALSE,
            !.insert = FALSE, !.newline_mode = FALSE, !.g0 = FALSE, !.g1 = FALSE,
            !.shift = FALSE, !.out = <<>>, !.tabs = TabStops(s.cols), !.cursor_visible = TRUE]
        cleared == [r \in DOMAIN s.grid.main |-> Fill(s.grid.main[r], blank_cell(plain))]
    IN  mark_all(SetLine(plain, cleared))

\* vt_new(), up to its vt_reset()
Calloc(cols, rows) ==
    [cols |-> cols, rows |-> rows,
     grid |-> [g \in {"main", "alt"} |-> Grid(rows, cols, Cell(" ", DefaultBg))],
     line |-> "main", in_alt |-> FALSE, last_ch |-> None,
     dirty |-> [r \in 0..(rows - 1) |-> Clean], all_dirty |-> FALSE,
     cx |-> 0, cy |-> 0, wrap_pending |-> FALSE, top |-> 0, bottom |-> 0, pen |-> DefaultBg,
     tabs |-> {}, autowrap |-> FALSE, origin |-> FALSE, insert |-> FALSE, newline_mode |-> FALSE,
     cursor_visible |-> FALSE, saved |-> [slot \in {"main", "alt"} |-> Home], g0 |-> FALSE, g1 |-> FALSE, shift |-> FALSE,
     sb |-> [i \in 0..(SbMax - 1) |-> <<>>], sb_w |-> [i \in 0..(SbMax - 1) |-> 0],
     sb_count |-> 0, sb_head |-> 0, out |-> <<>>, live |-> 2 * rows]
vt_new(cols, rows) == vt_reset(Calloc(cols, rows))

-----------------------------------------------------------------------------
(* Resizing *)

\* the first drop rows leave at the top; those of the main screen into the scrollback
PushTop(s, drop) ==
    IF SbMax = 0 THEN s
    ELSE FoldLeft(LAMBDA a, r : sb_push(a, s.grid.main[r])[1], s, [r \in 1..drop |-> r])

\* resize_screen(): what is left of a grid, cut or widened
Resized(s, g, cols, rows, drop) ==
    [r \in 1..rows |-> [c \in 1..cols |->
        IF r + drop <= s.rows /\ c <= s.cols THEN s.grid[g][r + drop][c] ELSE blank_cell(s)]]

\* How many rows leave at the top for the cursor's to stay.
Drop(s, rows) == IF rows < s.rows /\ s.cy >= rows THEN s.cy - rows + 1 ELSE 0

vt_resize(s, cols, rows) ==
    LET drop == Drop(s, rows)
        from == [main |-> IF s.in_alt THEN 0 ELSE drop, alt |-> IF s.in_alt THEN drop ELSE 0]
        u == PushTop(s, from.main)
        cy == Clamp(s.cy - drop, 0, rows - 1)
        v == [u EXCEPT !.grid = [g \in {"main", "alt"} |-> Resized(s, g, cols, rows, from[g])],
                       !.live = @ + 2 * rows - 2 * s.rows, !.cols = cols, !.rows = rows,
                       !.dirty = [r \in 0..(rows - 1) |-> Clean], !.tabs = TabStops(cols),
                       !.cy = cy, !.cx = Least(@, cols - 1), !.wrap_pending = FALSE,
                       !.top = 0, !.bottom = rows - 1,
                       !.saved = [slot \in {"main", "alt"} |-> [@[slot] EXCEPT !.cx = 0, !.cy = 0]]]
    IN  IF cols = s.cols /\ rows = s.rows THEN s ELSE mark_all(v)

vt_clear_dirty(s) == [s EXCEPT !.dirty = [r \in DOMAIN @ |-> Clean], !.all_dirty = FALSE]
vt_take_output(s) == [s EXCEPT !.out = <<>>]

-----------------------------------------------------------------------------
(* The operations: what the host sends, and what the view calls *)

Becomes(op, s) == op \in load.ops /\ t' = s /\ UNCHANGED load

\* a parameter as it is given, and as prm() takes it when 0 or none means 1
Params == 0..Most
Or1(n) == IF n = 0 THEN 1 ELSE n

PutChar == \E ch \in load.prints : Becomes("print", put_cp(t, ch))
Repeat == \E n \in Params : Becomes("repeat", repeat(t, Or1(n)))

Backspace == Becomes("left", NoWrap([t EXCEPT !.cx = Most2(@ - 1, 0)]))
CarriageReturn == Becomes("print", Return(t))
LineFeed ==
    LET s == NoWrap(index_down(t))
    IN  Becomes("feed", IF t.newline_mode THEN [s EXCEPT !.cx = 0] ELSE s)
Index == Becomes("index", NoWrap(index_down(t)))
NextLine == Becomes("index", Return(index_down(t)))
ReverseIndex == Becomes("reverse", NoWrap(index_up(t)))

CursorUp == \E n \in Params, cr \in BOOLEAN :
    Becomes("move", cursor_to(t, Base(t) - Or1(n), IF cr THEN 0 ELSE t.cx))
CursorDown == \E n \in Params, cr \in BOOLEAN :
    Becomes("move", cursor_to(t, Base(t) + Or1(n), IF cr THEN 0 ELSE t.cx))
CursorForward == \E n \in Params : Becomes("move", cursor_to(t, Base(t), t.cx + Or1(n)))
CursorBack == \E n \in Params : Becomes("move", cursor_to(t, Base(t), t.cx - Or1(n)))
CursorColumn == \E n \in Params : Becomes("move", cursor_to(t, Base(t), Or1(n) - 1))
CursorRow == \E n \in Params : Becomes("move", cursor_to(t, Or1(n) - 1, t.cx))
CursorTo == \E r, c \in Params : Becomes("goto", cursor_to(t, Or1(r) - 1, Or1(c) - 1))

TabForward == \E n \in Params : Becomes("tab", next_tab(t, Or1(n)))
TabBack == \E n \in Params : Becomes("tab", prev_tab(t, Or1(n)))
SetTab == Becomes("tab", [t EXCEPT !.tabs = @ \cup {t.cx}])
ClearTab == Becomes("tab", [t EXCEPT !.tabs = @ \ {t.cx}])
ClearTabs == Becomes("tab", [t EXCEPT !.tabs = {}])

EraseDisplay == \E mode \in 0..2 : Becomes("erase", erase_display(t, mode))
EraseScrollback == Becomes("forget", erase_display(t, 3))
EraseLine == \E mode \in 0..2 : Becomes("erase", erase_line(t, mode))
EraseChars == \E n \in Params : Becomes("erase", erase_cells(t, t.cy, t.cx, t.cx + Or1(n)))
InsertChars == \E n \in Params : Becomes("chars", insert_chars(t, Or1(n)))
DeleteChars == \E n \in Params : Becomes("chars", delete_chars(t, Or1(n)))
InsertLines == \E n \in Params : Becomes("lines", insert_lines(t, Or1(n)))
DeleteLines == \E n \in Params : Becomes("lines", delete_lines(t, Or1(n)))
ScrollUp == \E n \in Params : Becomes("scroll", scroll_up(t, t.top, t.bottom, Or1(n), TRUE))
ScrollDown == \E n \in Params : Becomes("scroll", scroll_down(t, t.top, t.bottom, Or1(n)))
SetMargins == \E first, last \in Params : Becomes("margins", Margins(t, first, last))

SetPen == \E bg \in Backgrounds : Becomes("pen", [t EXCEPT !.pen = bg])
AutoWrap == \E on \in BOOLEAN : Becomes("wrap", [t EXCEPT !.autowrap = on])
Origin == \E on \in BOOLEAN : Becomes("origin", cursor_to([t EXCEPT !.origin = on], 0, 0))
InsertMode == \E on \in BOOLEAN : Becomes("insert", [t EXCEPT !.insert = on])
NewLineMode == \E on \in BOOLEAN : Becomes("newline", [t EXCEPT !.newline_mode = on])
ReverseScreen == Becomes("invert", mark_all(t))
CursorVisible == \E on \in BOOLEAN : Becomes("show", [t EXCEPT !.cursor_visible = on])
DesignateG0 == \E gfx \in BOOLEAN : Becomes("charset", [t EXCEPT !.g0 = gfx])
DesignateG1 == \E gfx \in BOOLEAN : Becomes("charset", [t EXCEPT !.g1 = gfx])
Shift == \E out \in BOOLEAN : Becomes("charset", [t EXCEPT !.shift = out])

SaveCursor == \E slot \in {"main", "alt"} : Becomes("save", save_cursor(t, slot))
RestoreCursor == \E slot \in {"main", "alt"} : Becomes("save", restore_cursor(t, slot))
SwitchScreen == \E alt \in BOOLEAN : Becomes("screen", switch_screen(t, alt))
SwitchAndSave == \E on \in BOOLEAN : Becomes("alt", AltScreen(t, on))

Align == Becomes("align", AlignmentTest(t))
Reset == Becomes("reset", vt_reset(t))
ReportStatus == Becomes("report", emit(t, "status"))
ReportPosition == Becomes("report", PositionReport(t))
Identify == Becomes("report", emit(t, "identity"))

Resize == \E size \in load.sizes : Becomes("resize", vt_resize(t, size[1], size[2]))
ClearDirty == Becomes("draw", vt_clear_dirty(t))
MarkAllDirty == Becomes("draw", mark_all(t))
TakeOutput == Becomes("report", vt_take_output(t))

Init == load \in Loads /\ t = vt_new(load.start[1], load.start[2])

Scrolls == \/ LineFeed \/ Index \/ NextLine \/ ReverseIndex
           \/ InsertLines \/ DeleteLines \/ ScrollUp \/ ScrollDown

\* What a write is made of
Receives ==
    \/ PutChar \/ Repeat \/ Backspace \/ CarriageReturn \/ Scrolls
    \/ CursorUp \/ CursorDown \/ CursorForward \/ CursorBack \/ CursorColumn \/ CursorRow
    \/ CursorTo \/ TabForward \/ TabBack \/ SetTab \/ ClearTab \/ ClearTabs
    \/ EraseDisplay \/ EraseScrollback \/ EraseLine \/ EraseChars
    \/ InsertChars \/ DeleteChars \/ SetMargins
    \/ SetPen \/ AutoWrap \/ Origin \/ InsertMode \/ NewLineMode \/ ReverseScreen
    \/ CursorVisible
    \/ DesignateG0 \/ DesignateG1 \/ Shift
    \/ SaveCursor \/ RestoreCursor \/ SwitchScreen \/ SwitchAndSave
    \/ Align \/ Reset \/ ReportStatus \/ ReportPosition \/ Identify

Next == Receives \/ Resize \/ ClearDirty \/ MarkAllDirty \/ TakeOutput

Spec == Init /\ [][Next]_vars

-----------------------------------------------------------------------------
(* Properties *)

Shown == Plain \cup Graphic \cup {DEC_GFX[ch] : ch \in Graphic} \cup {"?"}
Cells == (Shown \cup {" ", "E"}) \X Backgrounds

\* Every row is as wide as whoever reads it takes it to be: a row of either screen has
\* cols cells, a line of the scrollback the sb_w cells noted with it.  Buffers go round
\* between the three, through resizes, and fill() and memmove() trust their width.  No
\* cell is shown that malloc() left.  And no buffer is lost or freed twice: what is
\* allocated is the two screens and the lines in the scrollback.
RowsFit ==
    /\ \A g \in {"main", "alt"} :
          /\ Len(t.grid[g]) = t.rows
          /\ \A r \in 1..t.rows : Len(t.grid[g][r]) = t.cols /\ \A c \in 1..t.cols : t.grid[g][r][c] \in Cells
    /\ \A i \in 0..(t.sb_count - 1) : LET k == (t.sb_head + i) % SbMax
                                      IN  Len(t.sb[k]) = t.sb_w[k]
    /\ t.live = 2 * t.rows + t.sb_count

\* The cursor is on the screen, the region and the tab stops within it, whatever the window
\* is resized to and whatever cursor is restored: each indexes an array without a check
\* (vt.c:247, 581, 640).  A region is more than a row except on a screen of one.  And the
\* rows are as wide as they are taken to be (RowsFit).
TypeOK ==
    /\ t.cx \in 0..(t.cols - 1) /\ t.cy \in 0..(t.rows - 1)
    /\ 0 <= t.top /\ t.top <= t.bottom /\ t.bottom < t.rows /\ (t.rows > 1 => t.top < t.bottom)
    /\ t.tabs \subseteq 0..(t.cols - 1)
    /\ t.sb_count \in 0..SbMax /\ t.sb_head \in 0..Most2(SbMax - 1, 0)
    /\ OutLen(t.out) <= OutMax
    /\ t.line = (IF t.in_alt THEN "alt" ELSE "main")
    /\ RowsFit

\* A row the user sees, 0 at the top
Look(s, r) == Line(s)[r + 1]

Covered(s, r, c) == s.all_dirty \/ (s.dirty[r][1] <= c /\ c < s.dirty[r][2])

\* Every cell that a step changes is in the dirty span of its row, and stays there until the
\* view has taken the spans (vt_clear_dirty): a view that redraws only what is marked shows
\* what the terminal holds.
RedrawMarked ==
    [][\A r \in 0..(t'.rows - 1), c \in 0..(t'.cols - 1) :
          /\ \/ t'.rows # t.rows \/ t'.cols # t.cols
             \/ Look(t, r)[c + 1] # Look(t', r)[c + 1]
             => Covered(t', r, c)
          /\ t'.rows = t.rows /\ t'.cols = t.cols /\ Covered(t, r, c)
             => Covered(t', r, c) \/ ClearDirty]_vars

\* The lines in the scrollback, oldest first.
Kept(s) == [i \in 1..s.sb_count |-> SbLine(s, i - 1 - s.sb_count)]
Newest(q, n) == IF Len(q) <= n THEN q ELSE SubSeq(q, Len(q) - n + 1, Len(q))

\* The scrollback is the SbMax lines that left the top of the main screen last, unchanged
\* and in order, as wide as they were: a step adds the top lines of the main screen, or
\* nothing, and drops the oldest only for want of room; what is scrolled off in the
\* alternate screen, or out of a region below the top, is not in it.  Only ED 3 empties it,
\* and not from the alternate screen.  (A repeated character may push lines it filled
\* itself: of it only the first part is said.)
ScrollbackKept ==
    [][\/ \E n \in 0..t.rows :
             /\ Kept(t') = Newest(Kept(t) \o SubSeq(t.grid.main, 1, n), SbMax)
             /\ n > 0 => t.top = 0 \/ Resize
             /\ n > 0 => ~t.in_alt
       \/ Kept(t') = <<>> /\ EraseScrollback /\ ~t.in_alt
       \/ Repeat /\ \E n \in 1..SbMax : Kept(t') = Newest(Kept(t) \o Newest(Kept(t'), n), SbMax)]_vars

\* What an operation does not concern stays where it is.  While the alternate screen is up
\* nothing changes the main one, except a resize, which cuts or widens its rows, and a reset:
\* a program that leaves the alternate screen finds the text as it was.  Scrolling, whether
\* by a line feed, an index, or lines inserted and deleted, moves the rows of the region and
\* no other.  And a resize keeps the line the cursor is on, and the ones above it that fit,
\* where they are relative to the cursor.
OnlyTheRegion ==
    [][/\ t.in_alt => \/ t'.grid.main = t.grid.main
                      \/ Reset
                      \/ /\ Resize
                         /\ \A r \in 1..Least(t.rows, t'.rows), c \in 1..Least(t.cols, t'.cols) :
                                t'.grid.main[r][c] = t.grid.main[r][c]
       /\ Scrolls => \A r \in (0..(t.rows - 1)) \ (t.top..t.bottom) : Look(t', r) = Look(t, r)
       /\ Resize => \A up \in 0..Least(t.cy, t'.cy), c \in 1..Least(t.cols, t'.cols) :
                        Look(t', t'.cy - up)[c] = Look(t, t.cy - up)[c]]_vars
=============================================================================
