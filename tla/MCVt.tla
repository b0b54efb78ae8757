-------------------------------- MODULE MCVt --------------------------------
(* Vt and the view of it for TLC: the workloads. *)
EXTENDS TerminalView

LineDrawing == [q |-> "hline"]

Load(ops, prints, start, sizes) ==
    [ops |-> ops, prints |-> prints, start |-> start, sizes |-> sizes \cup {start}]

\* Lines leave the top of a screen of two rows, into a ring of two, through changes of its
\* width and height, with the alternate screen coming and going.
Scrolling == Load({"print", "feed", "screen", "resize", "forget"}, {"a"}, <<1, 2>>, {<<2, 1>>})
Shrinking == Load({"print", "feed", "resize", "forget"}, {"a"}, <<1, 2>>, {<<2, 1>>, <<1, 1>>})
Programs == Load({"print", "feed", "alt", "forget"}, {"a"}, <<1, 2>>, {})

\* Editing in place, with the view drawing whenever it likes.
Editing == Load({"print", "goto", "chars", "insert", "draw"}, {"a"}, <<3, 1>>, {})
Erasing == Load({"print", "goto", "erase", "draw", "align"}, {"a"}, <<2, 1>>, {})
Colouring == Load({"print", "erase", "pen", "draw"}, {"a"}, <<1, 2>>, {})

\* Regions: what scrolls in them; the cursor in them, saved, and restored after a resize; and
\* above and below them, also in origin mode, when lines are inserted, deleted or fed.
Regions == Load({"print", "margins", "feed", "reverse", "lines", "scroll", "index"}, {"a"}, <<1, 3>>, {})
Cursors == Load({"save", "origin", "margins", "move", "resize"}, {}, <<2, 2>>, {<<1, 3>>})
Outside == Load({"align", "origin", "margins", "move", "lines", "feed"}, {}, <<1, 3>>, {})
Restored == Load({"align", "origin", "margins", "move", "lines", "save"}, {}, <<1, 3>>, {})
Wrapping == Load({"print", "save", "resize", "wrap"}, {"a"}, <<2, 1>>, {<<1, 2>>})

\* Tab stops; characters repeated and of both sets; replies; a reset.
Tabs == Load({"tab", "left", "newline", "feed", "index"}, {}, <<4, 1>>, {<<3, 1>>})
Repeating == Load({"print", "repeat", "wrap"}, {"a", "b"}, <<2, 2>>, {})
Charsets == Load({"print", "charset"}, {"a", "q", "astral", "combining"}, <<1, 1>>, {})
Replies == Load({"report", "move", "reset"}, {}, <<2, 1>>, {})
Resets == Load({"print", "pen", "screen", "reset", "invert", "draw"}, {"a"}, <<1, 1>>, {})

\* The view awake: what it paints of a row, of a cursor that moves, and of a taller window;
\* what of the scrollback; what of the selection; and places in the scrollback through writes of
\* two operations.
Viewing(ops, start, sizes, writes) ==
    [ops |-> ops \cup {"write", "draw"}, prints |-> {"a"}, start |-> start,
     sizes |-> sizes \cup {start}, writes |-> writes]
Painting == Viewing({"display", "print"}, <<3, 1>>, {}, 1)
Pointing == Viewing({"display", "move", "show"}, <<3, 1>>, {}, 1)
Resizing == Viewing({"display", "print", "resize"}, <<2, 1>>, {<<2, 2>>}, 1)
Browsing == Viewing({"display", "align", "lines", "feed", "forget", "read", "invert"}, <<2, 2>>, {}, 1)
Selecting == Viewing({"display", "print", "mouse", "keys"}, <<2, 1>>, {}, 1)
Reads == Viewing({"print", "feed", "forget", "read"}, <<2, 1>>, {}, 2)
Picks == Viewing({"align", "feed", "read", "mouse"}, <<2, 1>>, {}, 1)
ViewLoads == {Painting, Pointing, Resizing, Browsing, Selecting, Reads, Picks}

AllLoads == ViewLoads \cup
             {Scrolling, Shrinking, Programs, Editing, Erasing, Colouring, Regions, Cursors,
             Outside, Restored, Wrapping, Tabs, Repeating, Charsets, Replies, Resets}
=============================================================================
