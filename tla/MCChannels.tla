----------------------------- MODULE MCChannels -----------------------------
(* Channels for TLC: the workloads. *)
EXTENDS Channels

Quiet == [k \in {"slots", "opens", "x11", "write", "svdata", "req", "svreq", "misc", "rekey"} |->
              IF k \in {"slots", "opens"} THEN 1 ELSE 0]

\* Data on one channel, across a key re-exchange: both ways, up only, down only.
BothWays == [Quiet EXCEPT !.write = 1, !.svdata = 2, !.rekey = 1]
Up == [Quiet EXCEPT !.write = 3, !.rekey = 1]
Down == [Quiet EXCEPT !.svdata = 3, !.rekey = 1]
\* Two channels one after the other in the same slot.
Reuse == [Quiet EXCEPT !.opens = 2, !.svdata = 1]
\* A session and an x11 channel, together in a table of two, or in turn in one slot;
\* in the second the setup arrives in pieces, with data behind it.
Table == [Quiet EXCEPT !.slots = 2, !.x11 = 1]
Setup == [Quiet EXCEPT !.x11 = 1, !.svdata = 3]
\* Requests both ways; global requests and channel opens to refuse.
Requests == [Quiet EXCEPT !.req = 1, !.svreq = 1]
Refused == [Quiet EXCEPT !.misc = 1]

MixedLoads == {BothWays, Up, Down, Reuse, Table, Setup, Requests, Refused}
LiveLoads == {[Quiet EXCEPT !.write = 2, !.svdata = 1, !.rekey = 1]}
=============================================================================
