----------------------------- MODULE MCSession -----------------------------
(* Session for TLC: the workloads. *)
EXTENDS Session

Calm == [k \in {"slots", "adds", "removes", "conns", "x11", "sftp", "asks", "typed", "up",
             "down", "bad", "quits"} |->
             IF k = "slots" THEN 2 ELSE 0]

\* The keyboard against a full backlog.
Typing == [Calm EXCEPT !.slots = 1, !.typed = 3, !.down = 1, !.quits = 1]
\* A connection to a forwarded port; two in one slot; one whose rule is removed.
Forward == [Calm EXCEPT !.adds = 1, !.conns = 1, !.up = 1, !.down = 2]
Forwards == [Calm EXCEPT !.adds = 1, !.conns = 2, !.slots = 3]
Removed == [Calm EXCEPT !.adds = 2, !.removes = 1, !.conns = 1, !.down = 1]
\* Programs that send more than the backlog holds.
Overrun == [Calm EXCEPT !.adds = 1, !.conns = 1, !.up = 3]
Overdrawn == [Calm EXCEPT !.x11 = 1, !.up = 3]
\* An X11 client; two of them in turn or at once; one beside a forwarded connection.
Client == [Calm EXCEPT !.x11 = 1, !.up = 1, !.down = 2, !.bad = 1]
Clients == [Calm EXCEPT !.x11 = 2]
Both == [Calm EXCEPT !.slots = 3, !.x11 = 1, !.adds = 1, !.conns = 1]
\* The file browser, twice; beside an X11 client.
Browse == [Calm EXCEPT !.sftp = 2, !.asks = 1]
Transfer == [Calm EXCEPT !.sftp = 1, !.asks = 2, !.down = 1, !.bad = 1]
Beside == [Calm EXCEPT !.slots = 3, !.sftp = 1, !.asks = 1, !.x11 = 1]

MixedLoads == {Typing, Forward, Forwards, Removed, Overrun, Overdrawn, Client, Clients, Both,
               Browse, Transfer, Beside}
=============================================================================
