---------------------------- MODULE TerminalView ----------------------------
(***************************************************************************)
(* The view of a terminal (app/TerminalView.m): the part of the scrollback *)
(* it shows, the selection, and what of it is painted.  Vt is the struct   *)
(* vt it owns.                                                             *)
(*                                                                         *)
(* A write is several operations of the host, and nothing else happens     *)
(* until it returns.  What changed is handed to AppKit by a flush, at once *)
(* or, under the frame cap, when the timer fires; AppKit draws what it was *)
(* handed when it likes, and so after further writes too.  Cells are       *)
(* <<row, column>> of the view; a line is numbered as in vt_line_at(): 0   *)
(* is the top of the screen, -1 the newest line of the scrollback.         *)
(* Fonts, keys and mouse reports, which hold no place on the screen, are   *)
(* left out; the workloads of Vt run with the view asleep.                 *)
(***************************************************************************)
EXTENDS Vt

\* A workload with the view awake bounds the operations of the host in one write (writes).
ASSUME ViewAssumption == \A l \in Loads : "write" \in l.ops => l.writes \in Nat \ {0}

VARIABLE view
(* scrollBack, pendingFlush, sel (selActive, selAnchor.., selEnd..,
   and whether the button was ever pressed), last (lastCy, lastCx)
   and, of AppKit, invalid: the cells to be drawn; shown: what is painted in each.
   writing: the write under way.  History: reading, chosen and lost, of that write, below;
   ghosts: the cells where the cursor was painted between a write and its flush;
   pulled: the host erased the scrollback the user was reading, and not all was drawn since,
   or the position is below the bottom. *)

viewVars == <<t, load, view>>

\* The workloads with the view awake.
Awake == "write" \in load.ops

-----------------------------------------------------------------------------
(* What is drawn *)

Places(s) == (0..(s.rows - 1)) \X (0..(s.cols - 1))

vt_line_at(s, line) ==
    IF line >= s.rows \/ -line > s.sb_count THEN <<>>
    ELSE IF line >= 0 THEN Line(s)[line + 1] ELSE SbLine(s, line)

Before(p, q) == p[1] < q[1] \/ (p[1] = q[1] /\ p[2] <= q[2])
Selection(w) == IF Before(w.sel.anchor, w.sel.end) THEN <<w.sel.anchor, w.sel.end>>
                ELSE <<w.sel.end, w.sel.anchor>>
cellIsSelected(w, p) == w.sel.active /\ Before(Selection(w)[1], p) /\ Before(p, Selection(w)[2])

HasCursor(s, w, p) == w.scrollBack = 0 /\ s.cursor_visible /\ p = <<s.cy, s.cx>>

\* drawRow: a cell beyond the line, or of no line, is blank
Drawn(s, w, p) ==
    LET line == p[1] - w.scrollBack
        row == vt_line_at(s, line)
    IN  [cell |-> IF p[2] < Len(row) THEN row[p[2] + 1] ELSE Cell(" ", DefaultBg),
         cursor |-> HasCursor(s, w, p), selected |-> cellIsSelected(w, <<line, p[2]>>)]

\* setNeedsDisplay:YES
Redraw(s, w) == [w EXCEPT !.invalid = Places(s), !.pulled = w.scrollBack < 0]

\* The columns [a, b) of a row, as far as there are any.
Span(s, r, a, b) == Places(s) \cap ({r} \X (a..(b - 1)))
Around(s, p) == Span(s, p[1], p[2] - 1, p[2] + 2)

\* What is handed to AppKit: the columns changed and one more on each side, the cell the
\* cursor was in at the last flush and the one it is in.  The mutant leaves out the former.
Changed(s) == UNION {Span(s, r, s.dirty[r][1] - 1, s.dirty[r][2] + 1) :
                        r \in {q \in DOMAIN s.dirty : s.dirty[q] # Clean}}
markDirty_cursor(s, w) ==
    IF s.all_dirty \/ w.scrollBack > 0 THEN Redraw(s, w)
    ELSE [w EXCEPT !.invalid = @ \cup Changed(s) \cup Around(s, <<s.cy, s.cx>>)]
markDirty(s, w) ==
    IF s.all_dirty \/ w.scrollBack > 0 THEN Redraw(s, w)
    ELSE [w EXCEPT !.invalid = @ \cup Changed(s) \cup Around(s, w.last) \cup Around(s, <<s.cy, s.cx>>)]

\* flushDisplay; with it goes a vt_clear_dirty()
flushDisplay(s, w) == [markDirty(s, w) EXCEPT !.pendingFlush = FALSE, !.last = <<s.cy, s.cx>>]

-----------------------------------------------------------------------------
(* A write *)

\* The lines of the scrollback on show, and those selected.
Reading(s, w) == [r \in 1..Clamp(w.scrollBack, 0, s.rows) |-> vt_line_at(s, r - 1 - w.scrollBack)]
Chosen(s, w) == IF w.sel.active
                THEN {<<n, vt_line_at(s, n)>> : n \in Selection(w)[1][1]..Least(-1, Selection(w)[2][1])}
                ELSE {}

NoWrite == [on |-> FALSE, left |-> 0, sb0 |-> 0, reading |-> <<>>, chosen |-> {}, lost |-> FALSE]

StartWrite ==
    /\ Awake /\ ~view.writing.on
    /\ view' = [view EXCEPT !.writing = [on |-> TRUE, left |-> load.writes, sb0 |-> t.sb_count,
                    reading |-> Reading(t, view), chosen |-> Chosen(t, view), lost |-> FALSE]]
    /\ UNCHANGED <<t, load>>

\* lost: a line has left the scrollback
Receive ==
    /\ view.writing.on /\ view.writing.left > 0
    /\ Receives
    /\ view' = [view EXCEPT !.writing.left = @ - 1,
                            !.writing.lost = @ \/ ~IsPrefix(Kept(t), Kept(t'))]

\* The position that keeps in place what the user reads.  (The mutant leaves it.)
Follow_not(back, sb0, sb1) == back
Follow(back, sb0, sb1) == IF back > 0 THEN Least(back + sb1 - sb0, sb1) ELSE back

\* writeBytes after its vt_write(); due: the frame interval is over
EndWrite ==
    /\ view.writing.on /\ view.writing.left < load.writes
    /\ LET same == t.sb_count = view.writing.sb0
           back == Follow(view.scrollBack, view.writing.sb0, t.sb_count)
           s == vt_take_output(t)
           w == IF same THEN view
                ELSE [view EXCEPT !.sel.active = FALSE, !.scrollBack = back,
                                  !.pulled = @ \/ (view.scrollBack > 0 /\ back <= 0)]
           pending == [w EXCEPT !.pendingFlush = TRUE, !.writing = NoWrite]
       IN  \E due \in BOOLEAN :
              /\ t' = IF due THEN vt_clear_dirty(s) ELSE s
              /\ view' = IF due THEN flushDisplay(s, pending) ELSE pending
    /\ UNCHANGED load

-----------------------------------------------------------------------------
(* Between writes *)

Calls(op) == Awake /\ op \in load.ops /\ ~view.writing.on
Shows(w) == view' = w /\ UNCHANGED <<t, load>>

FlushTimer ==
    /\ Calls("write") /\ view.pendingFlush
    /\ view' = flushDisplay(t, view) /\ t' = vt_clear_dirty(t) /\ UNCHANGED load

\* AppKit has drawRect: draw what is invalid.
Display ==
    /\ Calls("display") /\ view.invalid # {}
    /\ Shows([view EXCEPT
           !.invalid = {},
           !.shown = [p \in DOMAIN @ |-> IF p \in view.invalid THEN Drawn(t, view, p) ELSE @[p]],
           !.ghosts = (@ \ view.invalid) \cup
               {p \in view.invalid : view.pendingFlush /\ p # view.last /\ HasCursor(t, view, p)}])

\* scrollByLines, scrollerMoved: the position stays within the scrollback
ScrollTo == \E want \in 0..t.sb_count :
    /\ Calls("read") /\ want # view.scrollBack
    /\ Shows(Redraw(t, [view EXCEPT !.scrollBack = want]))

\* keyDown, and paste, which leaves the selection
AtBottom == IF view.scrollBack # 0 THEN Redraw(t, [view EXCEPT !.scrollBack = 0]) ELSE view
KeyDown == Calls("keys") /\ Shows([AtBottom EXCEPT !.sel.active = FALSE])
Paste == Calls("keys") /\ Shows(AtBottom)

\* pointToCell: a cell of the view to a place in the text
PointToCell(p) == <<p[1] - view.scrollBack, p[2]>>
Select(active, anchor, end, pressed) ==
    Shows(Redraw(t, [view EXCEPT !.sel = [active |-> active, anchor |-> anchor, end |-> end,
                                          pressed |-> pressed]]))

\* The word of a line around a column: the characters up to the next that are in none.
isWordChar(cell) == cell[1] # " "
Word(row, c) ==
    LET Inside(a, b) == \A k \in a..b : isWordChar(row[k + 1])
        last == Len(row) - 1
    IN  IF ~Inside(c, c) THEN <<c, c>>
        ELSE <<CHOOSE a \in 0..c : Inside(a, c) /\ (a > 0 => ~Inside(a - 1, c)),
               CHOOSE b \in c..last : Inside(c, b) /\ (b < last => ~Inside(c, b + 1))>>

MouseDown == \E p \in Places(t), clicks \in 1..3 :
    LET at == PointToCell(p)
        row == vt_line_at(t, at[1])
    IN  /\ Calls("mouse")
        /\ \/ clicks = 1 /\ Select(FALSE, at, at, TRUE)
           \/ clicks = 2 /\ at[2] < Len(row) /\ LET w == Word(row, at[2])
                                                IN  Select(TRUE, <<at[1], w[1]>>, <<at[1], w[2]>>, TRUE)
           \/ clicks = 2 /\ at[2] >= Len(row) /\ Select(FALSE, at, at, TRUE)
           \/ clicks = 3 /\ Select(TRUE, <<at[1], 0>>, <<at[1], t.cols - 1>>, TRUE)

\* The button may be held from its first press on.
MouseDragged == \E p \in Places(t) :
    LET at == PointToCell(p)
    IN  /\ Calls("mouse") /\ view.sel.pressed
        /\ at # view.sel.end \/ ~view.sel.active
        /\ Select(TRUE, view.sel.anchor, at, TRUE)

SelectAll ==
    /\ Calls("mouse")
    /\ Select(TRUE, <<-view.scrollBack, 0>>, <<t.rows - 1 - view.scrollBack, t.cols - 1>>,
              view.sel.pressed)

ClearScrollback ==
    /\ Calls("forget") /\ EraseScrollback
    /\ view' = Redraw(t', [view EXCEPT !.scrollBack = 0, !.sel.active = FALSE])

\* The window takes another size; what is painted in it then is anything.
Unpainted(s) == [p \in Places(s) |-> [cell |-> Cell("garbage", DefaultBg), cursor |-> FALSE, selected |-> FALSE]]
FitToFrame ==
    /\ Calls("resize") /\ Resize /\ <<t'.cols, t'.rows>> # <<t.cols, t.rows>>
    /\ view' = Redraw(t', [view EXCEPT !.scrollBack = Least(@, t'.sb_count), !.sel.active = FALSE,
                               !.shown = Unpainted(t'), !.ghosts = {}])

InitView ==
    /\ Init
    /\ view = [scrollBack |-> 0, pendingFlush |-> FALSE, last |-> <<0, 0>>,
               sel |-> [active |-> FALSE, anchor |-> <<0, 0>>, end |-> <<0, 0>>, pressed |-> FALSE],
               invalid |-> Places(t), shown |-> Unpainted(t), writing |-> NoWrite,
               ghosts |-> {}, pulled |-> FALSE]

\* Every call of the terminal's own is one of the view's while the view is awake.
NextView ==
    \/ ~Awake /\ Next /\ UNCHANGED view
    \/ StartWrite \/ Receive \/ EndWrite \/ FlushTimer \/ Display
    \/ ScrollTo \/ KeyDown \/ Paste \/ MouseDown \/ MouseDragged \/ SelectAll
    \/ ClearScrollback \/ FitToFrame
ViewSpec == InitView /\ [][NextView]_viewVars

-----------------------------------------------------------------------------
(* Properties *)

\* When nothing waits to be flushed or drawn, the window shows the terminal: each cell what
\* drawing it now would show, the cursor where it is, every selected cell as selected -
\* whatever was written, flushed, drawn, scrolled and resized in which order, and although
\* only the columns changed are drawn.  Two things are excepted, which the code does: a
\* cursor painted between a write and its flush is not taken away when it moves on, and a
\* host that erases the scrollback while the user reads in it leaves the old lines painted,
\* and leaves the position below the bottom when it erased more lines than the user was above
\* it: then the view shows the lower part of the screen until a key is typed.
ShowsTheTerminal ==
    ~view.pendingFlush /\ view.invalid = {} /\ ~view.writing.on =>
        \A p \in Places(t) :
            LET is == view.shown[p]  due == Drawn(t, view, p)
            IN  /\ is.cell = due.cell \/ view.pulled
                /\ due.cursor => is.cursor
                /\ is.cursor => due.cursor \/ p \in view.ghosts
                /\ due.selected => is.selected

\* "keep what the user is reading in place": the lines of the scrollback on show when a
\* write begins are those on show when it ends, at the same place, however many lines it
\* adds; and what is selected of the scrollback is the same text after it, or is no longer
\* selected.  Unless the ring is full, or the host erases it: a line that leaves the
\* scrollback takes the others along.
ReadingStays ==
    [][view.writing.on /\ ~view'.writing.on /\ ~view.writing.lost =>
          /\ IsPrefix(view.writing.reading, Reading(t', view'))
          /\ Chosen(t', view') \in {{}, view.writing.chosen}]_viewVars
=============================================================================
