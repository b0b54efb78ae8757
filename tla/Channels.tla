------------------------------ MODULE Channels ------------------------------
(***************************************************************************)
(* The connection protocol of StepSSH (core/ssh_chan.c): the table of      *)
(* channels, the two windows of each, the backlog of data waiting for the  *)
(* server's window, half-closing and closing, the x11 channels the server  *)
(* opens, and the events the application learns all this from.             *)
(*                                                                         *)
(* Below is the transport, here only what Transport shows it to be: two    *)
(* ordered pipes, the outgoing one held back while a key exchange is in    *)
(* flight.  ssh_input() handles the packets of a chunk one after another   *)
(* and flushes every channel at the end; the application runs between two  *)
(* chunks (~busy), taking one event at a time and calling what it likes.   *)
(*                                                                         *)
(* Data is counted in units.  The server keeps the protocol: it numbers    *)
(* its channels (a label per incarnation, so that a message can be told    *)
(* from one of an earlier channel of the same slot), sends within the      *)
(* window, and is quiet while it re-keys.                                  *)
(***************************************************************************)
EXTENDS FiniteSets, SequencesExt, Sums

CONSTANTS
    NumSlots,     \* the largest SSH_MAX_CHANNELS of a workload
    Window,       \* SSH_LOCAL_WINDOW
    Backlog,      \* SSH_MAX_BACKLOG
    MaxPacket,    \* the least of the server's maximum packet and the 16384 of chan_flush
    WindowLimit,  \* the 2^32 - 1 a window saturates at
    SetupLen,     \* length of an X11 ConnectionSetup request
    SvWindow,     \* the window the server opens a channel with
    MaxRids,      \* bound: channels, opened by either side
    Loads         \* bounds: what the two sides may do, one element per workload

\* A workload: the SSH_MAX_CHANNELS it runs with (slots), the channels the application
\* opens (opens) and the x11 channels the server does (x11), the units each sends
\* (write, svdata), the channel requests of each (req, svreq), the global requests and
\* channel opens to refuse (misc), the key re-exchanges (rekey).
Load == [{"slots", "opens", "x11", "write", "svdata", "req", "svreq", "misc", "rekey"} -> Nat]

ASSUME ChannelsAssumption ==
    /\ {NumSlots, Window, Backlog, MaxPacket, SetupLen, SvWindow, MaxRids} \subseteq Nat \ {0}
    /\ Loads \subseteq Load /\ \A load \in Loads : load.slots \in 1..NumSlots
    /\ WindowLimit \in Nat /\ SvWindow <= WindowLimit

VARIABLES
    chan,         \* the table of ssh_chan
    x11_active,   \* an x11-req has gone out
    closed, err,  \* the session has failed, and why
    locked,       \* ssh_kex_locked(): between our KEXINIT and our NEWKEYS
    deferred,     \* messages ssh_send_packet() holds back meanwhile
    busy,         \* inside ssh_input(), between two packets of a chunk
    events,       \* lifecycle events the application has not taken yet
    c2s, s2c,     \* messages on their way
    sv,           \* the server
    left          \* what is left of the workload

client == <<chan, x11_active, closed, err, locked, deferred, busy, events>>
vars == <<client, c2s, s2c, sv, left>>

Slots == 1..NumSlots
Rids == 1..MaxRids

-----------------------------------------------------------------------------
(* Messages *)

\* What the client sends: ch is the server's number of the channel (in an OPEN the
\* slot), n an amount (in an OPEN_CONFIRM the slot; in EOF and CLOSE the units
\* written so far), x a detail.
Out(type, ch, n, x) == [type |-> type, ch |-> ch, n |-> n, x |-> x]
\* What the server sends: ch is the slot, rid its own number.
In(type, ch, rid, n, x) == [type |-> type, ch |-> ch, rid |-> rid, n |-> n, x |-> x]

OutTypes == {"OPEN", "OPEN_CONFIRM", "OPEN_FAIL", "REQUEST", "DATA", "EOF", "CLOSE",
             "ADJUST", "FAILURE", "REQUEST_FAILURE"}
InTypes == {"OPEN", "OPEN_CONFIRM", "OPEN_FAIL", "REQUEST", "DATA", "EOF", "CLOSE",
            "ADJUST", "REPLY", "GLOBAL_REQUEST", "KEXINIT", "KEX_REPLY"}
\* Those that name one of the client's channels as already open.
ChannelTypes == {"REQUEST", "DATA", "EOF", "CLOSE", "ADJUST", "REPLY"}

\* The units of a kind on their way on channel r, in what the client has sent and in what
\* the server has.
UpUnits(q, type, r) ==
    Total([k \in 1..Len(q) |-> IF q[k].type = type /\ q[k].ch = r THEN q[k].n ELSE 0])
DownUnits(q, type, r) ==
    Total([k \in 1..Len(q) |-> IF q[k].type = type /\ q[k].rid = r THEN q[k].n ELSE 0])
ToServer(type, r) == UpUnits(c2s \o deferred, type, r)
ToClient(type, r) == DownUnits(s2c, type, r)

\* ssh_send_packet(): held back by a key exchange, refused once closed.
Send(ms) ==
    /\ c2s' = IF locked \/ closed THEN c2s ELSE c2s \o ms
    /\ deferred' = IF locked /\ ~closed THEN deferred \o ms ELSE deferred

-----------------------------------------------------------------------------
(* A channel of the client *)

\* ssh_chan_reset().  eof_recv, which nothing reads, is left out; written (units
\* accepted by ssh_channel_write), surfaced (units given to the application) and
\* rejected (the X11 setup was) are history.
FreeChan ==
    [state |-> "FREE", remote_id |-> 0, remote_window |-> 0, local_window |-> 0,
     eof_sent |-> FALSE, close_recv |-> FALSE, close_sent |-> FALSE,
     want_eof |-> FALSE, want_close |-> FALSE, out |-> 0,
     is_x11 |-> FALSE, x11_setup_done |-> FALSE, x11_pending |-> 0,
     written |-> 0, surfaced |-> 0, rejected |-> FALSE]

FreeSlots == {i \in 1..left.slots : chan[i].state = "FREE"}
find_free_chan == Min(FreeSlots)

Event(type, i) == [type |-> type, ch |-> i]

\* chan_flush(): data as the window allows, in packets; once none is left, the EOF
\* and the CLOSE that were waiting for it.
CanFlush(c) == c.state = "OPEN" /\ ~c.close_sent /\ ~locked /\ ~closed
Sendable(c) == IF CanFlush(c) THEN Min({c.out, c.remote_window}) ELSE 0
Drained(c) == CanFlush(c) /\ Sendable(c) = c.out
SendsEof(c) == Drained(c) /\ c.want_eof /\ ~c.eof_sent
\* Bug: a CLOSE is sent only after an EOF.
SendsClose_ended(c) == Drained(c) /\ c.want_close /\ c.eof_sent
SendsClose(c) == Drained(c) /\ c.want_close

\* Bug: the server's packet size is overlooked.
DataPackets_whole(c) ==
    IF Sendable(c) = 0 THEN <<>> ELSE <<Out("DATA", c.remote_id, Sendable(c), "none")>>
DataPackets(c) ==
    LET n == Sendable(c)
        full == n \div MaxPacket
        rest == n % MaxPacket
    IN  [k \in 1..full |-> Out("DATA", c.remote_id, MaxPacket, "none")]
        \o (IF rest = 0 THEN <<>> ELSE <<Out("DATA", c.remote_id, rest, "none")>>)

FlushMsgs(c) ==
    DataPackets(c)
    \o (IF SendsEof(c) THEN <<Out("EOF", c.remote_id, c.written, "none")>> ELSE <<>>)
    \o (IF SendsClose(c) THEN <<Out("CLOSE", c.remote_id, c.written, "asked")>> ELSE <<>>)

\* Bug: a channel is released without waiting for the server's CLOSE.
Released_early(c) == SendsClose(c)
Released(c) == SendsClose(c) /\ c.close_recv
Flushed(c) ==
    IF Released(c) THEN FreeChan
    ELSE [c EXCEPT !.out = @ - Sendable(c), !.remote_window = @ - Sendable(c),
                   !.eof_sent = IF SendsEof(c) THEN TRUE ELSE @,
                   !.close_sent = IF SendsClose(c) THEN TRUE ELSE @]

FlushEvents(i, c) == IF Released(c) THEN <<Event("CLOSE", i)>> ELSE <<>>

\* Slot i becomes c and is flushed; es are the events already pushed.
chan_flush(i, c, es) ==
    /\ chan' = [chan EXCEPT ![i] = Flushed(c)]
    /\ Send(FlushMsgs(c))
    /\ events' = events \o es \o FlushEvents(i, c)

-----------------------------------------------------------------------------
(* The application.  Its calls come between two chunks of input. *)

AppMay == ~busy /\ ~closed

\* It opens channels with all events taken, as ssh.h tells it to.
ssh_channel_open ==
    /\ AppMay /\ events = <<>> /\ FreeSlots # {}
    /\ left.opens > 0
    /\ left' = [left EXCEPT !.opens = @ - 1]
    /\ chan' = [chan EXCEPT ![find_free_chan] =
                   [FreeChan EXCEPT !.state = "OPENING", !.local_window = Window]]
    /\ Send(<<Out("OPEN", find_free_chan, 0, "none")>>)
    /\ UNCHANGED <<x11_active, closed, err, locked, busy, events, s2c, sv>>

\* pty-req, shell, exec, subsystem and env want a reply, window-change does not.
ssh_channel_request(i, want) ==
    /\ AppMay /\ chan[i].state = "OPEN"
    /\ left.req > 0
    /\ left' = [left EXCEPT !.req = @ - 1]
    /\ Send(<<Out("REQUEST", chan[i].remote_id, 0, want)>>)
    /\ UNCHANGED <<chan, x11_active, closed, err, locked, busy, events, s2c, sv>>

ssh_channel_request_x11(i) ==
    /\ AppMay /\ chan[i].state = "OPEN" /\ ~x11_active
    /\ x11_active' = TRUE
    /\ Send(<<Out("REQUEST", chan[i].remote_id, 0, "want")>>)
    /\ UNCHANGED <<chan, closed, err, locked, busy, events, s2c, sv, left>>

\* Bug: the limit of the backlog is overlooked.
Room_any(c) == left.write
\* What is written beyond the room in the backlog is not taken.
Room(c) == Backlog - c.out
ssh_channel_write(i, len) ==
    LET c == chan[i]
        n == Min({len, Room(c)})
    IN  /\ AppMay /\ c.state # "FREE" /\ ~c.want_eof /\ ~c.want_close
        /\ len <= left.write
        /\ left' = [left EXCEPT !.write = @ - len]
        /\ chan_flush(i, [c EXCEPT !.out = @ + n, !.written = @ + n], <<>>)
        /\ UNCHANGED <<x11_active, closed, err, locked, busy, s2c, sv>>

ssh_channel_eof(i) ==
    /\ AppMay /\ chan[i].state # "FREE" /\ ~chan[i].want_eof
    /\ chan_flush(i, [chan[i] EXCEPT !.want_eof = TRUE], <<>>)
    /\ UNCHANGED <<x11_active, closed, err, locked, busy, s2c, sv, left>>

\* A channel still opening is closed as soon as it opens (CanFlush is false of it).
ssh_channel_close(i) ==
    /\ AppMay /\ chan[i].state # "FREE" /\ ~chan[i].want_close
    /\ chan_flush(i, [chan[i] EXCEPT !.want_close = TRUE], <<>>)
    /\ UNCHANGED <<x11_active, closed, err, locked, busy, s2c, sv, left>>

ssh_next_event ==
    /\ ~busy /\ events # <<>>
    /\ events' = Tail(events)
    /\ UNCHANGED <<chan, x11_active, closed, err, locked, deferred, busy, c2s, s2c, sv, left>>

-----------------------------------------------------------------------------
(* ssh_input(): the next packet of a chunk *)

\* A chunk begins once the events of the one before have been taken.
Incoming(type) ==
    /\ s2c # <<>> /\ Head(s2c).type = type /\ ~closed
    /\ busy \/ events = <<>>
Taken == s2c' = Tail(s2c) /\ busy' = TRUE /\ UNCHANGED <<sv, left>>
NoFailure == UNCHANGED <<closed, err>>
Fail(text) ==
    /\ closed' = TRUE /\ err' = text
    /\ UNCHANGED <<chan, events, c2s, deferred>>

\* The server begins to re-key: our KEXINIT goes out, and the lock is on until our
\* NEWKEYS has gone out, which the deferred messages then follow.
RecvKexInit ==
    /\ Incoming("KEXINIT") /\ Taken
    /\ locked' = TRUE
    /\ UNCHANGED <<chan, x11_active, closed, err, deferred, events, c2s>>
RecvKexReply ==
    /\ Incoming("KEX_REPLY") /\ Taken
    /\ locked' = FALSE
    /\ c2s' = c2s \o deferred /\ deferred' = <<>>
    /\ UNCHANGED <<chan, x11_active, closed, err, events>>

RecvGlobalRequest ==
    /\ Incoming("GLOBAL_REQUEST") /\ Taken
    /\ Send(IF Head(s2c).x = "want" THEN <<Out("REQUEST_FAILURE", 0, 0, "none")>> ELSE <<>>)
    /\ UNCHANGED <<chan, x11_active, closed, err, locked, events>>

\* A channel the server opens is refused, but for x11 once it has been asked for,
\* while there is a free slot.
RecvOpen ==
    LET m == Head(s2c)
        accepts == x11_active /\ m.x = "x11" /\ FreeSlots # {}
        i == find_free_chan
    IN  /\ Incoming("OPEN") /\ Taken
        /\ IF accepts
           THEN /\ chan' = [chan EXCEPT ![i] =
                       [FreeChan EXCEPT !.state = "OPEN", !.remote_id = m.rid,
                            !.remote_window = m.n, !.local_window = Window, !.is_x11 = TRUE]]
                /\ Send(<<Out("OPEN_CONFIRM", m.rid, i, "none")>>)
                /\ events' = Append(events, Event("X11_OPEN", i))
           ELSE /\ Send(<<Out("OPEN_FAIL", m.rid, 0, "none")>>)
                /\ UNCHANGED <<chan, events>>
        /\ UNCHANGED <<x11_active, closed, err, locked>>

\* The slot a message names; one that is free makes it stale, and ignored.
Slot == Head(s2c).ch
Stale == chan[Slot].state = "FREE"
Dispatch(type) == Incoming(type) /\ Taken /\ UNCHANGED <<x11_active, locked>>
Ignored == UNCHANGED <<chan, closed, err, deferred, events, c2s>>

RecvConfirm ==
    LET m == Head(s2c)
        c == [chan[Slot] EXCEPT !.state = "OPEN", !.remote_id = m.rid, !.remote_window = m.n]
        opened == <<Event("OPEN", Slot)>>
    IN  /\ Dispatch("OPEN_CONFIRM")
        /\ IF Stale THEN Ignored
           ELSE IF chan[Slot].state # "OPENING" THEN Fail("malformed channel confirmation")
           ELSE /\ NoFailure
                /\ IF c.want_close THEN chan_flush(Slot, c, opened)
                   ELSE /\ chan' = [chan EXCEPT ![Slot] = c]
                        /\ events' = events \o opened
                        /\ Send(<<>>)

RecvOpenFail ==
    /\ Dispatch("OPEN_FAIL")
    /\ IF Stale THEN Ignored
       ELSE /\ chan' = [chan EXCEPT ![Slot] = FreeChan]
            /\ events' = Append(events, Event("OPEN_FAILED", Slot))
            /\ Send(<<>>) /\ NoFailure

\* Saturates.
RecvAdjust ==
    LET c == chan[Slot] IN
    /\ Dispatch("ADJUST")
    /\ IF Stale THEN Ignored
       ELSE /\ chan_flush(Slot, [c EXCEPT !.remote_window =
                                     Min({@ + Head(s2c).n, WindowLimit})], <<>>)
            /\ NoFailure

\* What x11_rewrite_setup() may say of the units gathered so far: a bad setup may
\* show before it is whole.
x11_rewrite_setup(pending, cookie) ==
    (IF pending < SetupLen THEN {"NEED_MORE"} ELSE IF cookie = "right" THEN {"OK"} ELSE {})
    \cup (IF cookie = "wrong" THEN {"BAD"} ELSE {})

\* The rewritten setup is emitted, and whatever came behind it.
Rewritten(c, pending) ==
    [c EXCEPT !.x11_setup_done = TRUE, !.x11_pending = 0, !.surfaced = @ + pending]
\* What becomes of channel c with the data of m: on an x11 channel nothing reaches
\* the application before the whole setup has been rewritten.
Inspect(c, m) ==
    IF c.is_x11 /\ ~c.x11_setup_done
    THEN LET pending == c.x11_pending + m.n
             after(rc) ==
               CASE rc = "NEED_MORE" -> [c EXCEPT !.x11_pending = pending]
                 [] rc = "OK"  -> Rewritten(c, pending)
                 [] rc = "BAD" -> [c EXCEPT !.x11_setup_done = TRUE, !.x11_pending = pending,
                                            !.rejected = TRUE]
         IN  {after(rc) : rc \in x11_rewrite_setup(pending, m.x)}
    ELSE {[c EXCEPT !.surfaced = @ + m.n]}

Reopened(c) == [c EXCEPT !.local_window = Window]
\* Data and extended data.  A rejected x11 channel is closed; the window is opened
\* again once half of it is used, unless our CLOSE has gone out.
RecvData ==
    LET m == Head(s2c)
        overrun == m.n > chan[Slot].local_window
        counted == [chan[Slot] EXCEPT !.local_window = @ - m.n]
        adjusts(c) == 2 * c.local_window < Window /\ ~c.close_sent
    IN  /\ Dispatch("DATA")
        /\ IF Stale THEN Ignored
           ELSE IF overrun THEN Fail("server overran the channel window")
           ELSE /\ NoFailure
                /\ \E c \in Inspect(counted, m) :
                     LET bad == c.rejected /\ ~counted.rejected
                         asked == [c EXCEPT !.want_close = TRUE]
                         d == IF bad THEN Flushed(asked) ELSE c
                     IN  /\ chan' = [chan EXCEPT ![Slot] =
                                        IF adjusts(d) THEN Reopened(d) ELSE d]
                         /\ Send((IF bad THEN FlushMsgs(asked) ELSE <<>>)
                                 \o (IF adjusts(d)
                                     THEN <<Out("ADJUST", d.remote_id, Window - d.local_window, "none")>>
                                     ELSE <<>>))
                /\ UNCHANGED events

\* Only an event.
RecvEof == Dispatch("EOF") /\ Ignored
\* SUCCESS or FAILURE of a request: only an event.
RecvReply == Dispatch("REPLY") /\ Ignored

Answer(c) ==
    IF c.close_sent THEN <<>> ELSE <<Out("CLOSE", c.remote_id, c.written, "answer")>>
RecvClose ==
    /\ Dispatch("CLOSE")
    /\ IF Stale THEN Ignored
       ELSE /\ Send(Answer(chan[Slot]))
            /\ chan' = [chan EXCEPT ![Slot] = FreeChan]
            /\ events' = Append(events, Event("CLOSE", Slot))
            /\ NoFailure

\* exit-status and the like; a reply is always a FAILURE.
RecvRequest ==
    /\ Dispatch("REQUEST")
    /\ IF Stale THEN Ignored
       ELSE /\ Send(IF Head(s2c).x = "want"
                    THEN <<Out("FAILURE", chan[Slot].remote_id, 0, "none")>> ELSE <<>>)
            /\ UNCHANGED <<chan, events>> /\ NoFailure

\* Bug: no flush at the end of a chunk.
InputEnds_noflush ==
    /\ busy /\ busy' = FALSE
    /\ UNCHANGED <<chan, x11_active, closed, err, locked, deferred, events, c2s, s2c, sv, left>>
\* The end of the chunk: ssh_chan_flush_all().
InputEnds ==
    /\ busy /\ busy' = FALSE
    /\ chan' = [i \in Slots |-> Flushed(chan[i])]
    /\ Send(FlattenSeq([i \in Slots |-> FlushMsgs(chan[i])]))
    /\ events' = events \o FlattenSeq([i \in Slots |-> FlushEvents(i, chan[i])])
    /\ UNCHANGED <<x11_active, closed, err, locked, s2c, sv, left>>

ssh_input ==
    \/ RecvKexInit \/ RecvKexReply \/ RecvGlobalRequest \/ RecvOpen
    \/ RecvConfirm \/ RecvOpenFail \/ RecvAdjust \/ RecvData \/ RecvEof
    \/ RecvReply \/ RecvClose \/ RecvRequest

-----------------------------------------------------------------------------
(* The server *)

SvNone == [state |-> "none", slot |-> 0, cookie |-> "none", win |-> 0, grant |-> 0,
           got |-> 0, sent |-> 0, owed |-> -1,
           eof_in |-> FALSE, eof_out |-> FALSE, close_in |-> FALSE, close_out |-> FALSE]

SvFresh == {r \in Rids : sv.ch[r].state = "none"}
\* A channel it may still send on, now.
SvTalks(r) == ~sv.kex /\ sv.ch[r].state = "open" /\ ~sv.ch[r].close_out
SvSend(m) == s2c' = Append(s2c, m)
SvSet(r, c) == sv' = [sv EXCEPT !.ch[r] = c]
SvIn(type, r, n, x) == In(type, sv.ch[r].slot, r, n, x)

SvData(r, n) ==
    /\ SvTalks(r) /\ ~sv.ch[r].eof_out
    /\ n <= sv.ch[r].win /\ n <= left.svdata
    /\ left' = [left EXCEPT !.svdata = @ - n]
    /\ SvSend(SvIn("DATA", r, n, sv.ch[r].cookie))
    /\ SvSet(r, [sv.ch[r] EXCEPT !.win = @ - n, !.sent = @ + n])
    /\ UNCHANGED <<client, c2s>>

\* It tops the client's window up, by as much as it likes.
SvGrant(r) ==
    /\ SvTalks(r) /\ ~sv.ch[r].close_in
    /\ \E n \in 1..(SvWindow - sv.ch[r].grant) :
          /\ SvSend(SvIn("ADJUST", r, n, "none"))
          /\ SvSet(r, [sv.ch[r] EXCEPT !.grant = @ + n])
    /\ UNCHANGED <<client, c2s, left>>

SvEof(r) ==
    /\ SvTalks(r) /\ ~sv.ch[r].eof_out
    /\ SvSend(SvIn("EOF", r, 0, "none"))
    /\ SvSet(r, [sv.ch[r] EXCEPT !.eof_out = TRUE])
    /\ UNCHANGED <<client, c2s, left>>

SvClose(r) ==
    /\ SvTalks(r)
    /\ SvSend(SvIn("CLOSE", r, 0, "none"))
    /\ SvSet(r, [sv.ch[r] EXCEPT !.close_out = TRUE,
                                 !.state = IF sv.ch[r].close_in THEN "done" ELSE @])
    /\ UNCHANGED <<client, c2s, left>>

SvRequest(r, want) ==
    /\ SvTalks(r) /\ left.svreq > 0
    /\ left' = [left EXCEPT !.svreq = @ - 1]
    /\ SvSend(SvIn("REQUEST", r, 0, want))
    /\ UNCHANGED <<client, c2s, sv>>

\* An x11 connection, whose client may or may not know the cookie.
SvOpenX11(cookie) ==
    /\ ~sv.kex /\ SvFresh # {} /\ left.x11 > 0
    /\ left' = [left EXCEPT !.x11 = @ - 1]
    /\ SvSend(In("OPEN", 0, Min(SvFresh), SvWindow, "x11"))
    /\ SvSet(Min(SvFresh), [SvNone EXCEPT !.state = "opening", !.cookie = cookie,
                                          !.grant = SvWindow])
    /\ UNCHANGED <<client, c2s>>

\* A global request, or a kind of channel the client does not take.
SvMisc ==
    /\ ~sv.kex /\ left.misc > 0
    /\ left' = [left EXCEPT !.misc = @ - 1]
    /\ \/ \E want \in {"want", "nowant"} : SvSend(In("GLOBAL_REQUEST", 0, 0, 0, want))
       \/ SvSend(In("OPEN", 0, 0, SvWindow, "other"))
    /\ UNCHANGED <<client, c2s, sv>>

SvKexInit ==
    /\ ~sv.kex /\ left.rekey > 0
    /\ left' = [left EXCEPT !.rekey = @ - 1]
    /\ SvSend(In("KEXINIT", 0, 0, 0, "none"))
    /\ sv' = [sv EXCEPT !.kex = TRUE]
    /\ UNCHANGED <<client, c2s>>
\* The reply answers the client's half; NEWKEYS follows it, and the server talks again.
SvKexReply ==
    /\ sv.kex /\ locked
    /\ SvSend(In("KEX_REPLY", 0, 0, 0, "none"))
    /\ sv' = [sv EXCEPT !.kex = FALSE]
    /\ UNCHANGED <<client, c2s, left>>

\* It reads a message: what it answers, and what it would complain of.
SvReads(type) ==
    /\ ~sv.kex /\ c2s # <<>> /\ Head(c2s).type = type
    /\ c2s' = Tail(c2s)
    /\ UNCHANGED <<client, left>>

SvRecvOpen ==
    LET m == Head(c2s) r == Min(SvFresh) IN
    /\ SvReads("OPEN") /\ SvFresh # {}
    /\ \/ /\ SvSend(In("OPEN_CONFIRM", m.ch, r, SvWindow, "none"))
          /\ SvSet(r, [SvNone EXCEPT !.state = "open", !.slot = m.ch, !.win = Window,
                                     !.grant = SvWindow])
       \/ SvSend(In("OPEN_FAIL", m.ch, 0, 0, "none")) /\ UNCHANGED sv

SvRecvConfirm ==
    LET m == Head(c2s) IN
    /\ SvReads("OPEN_CONFIRM")
    /\ SvSet(m.ch, [sv.ch[m.ch] EXCEPT !.state = "open", !.slot = m.n, !.win = Window])
    /\ UNCHANGED s2c

SvRecvFail ==
    LET m == Head(c2s) IN
    /\ SvReads("OPEN_FAIL")
    /\ IF m.ch = 0 THEN UNCHANGED sv ELSE SvSet(m.ch, [SvNone EXCEPT !.state = "done"])
    /\ UNCHANGED s2c

\* What a channel makes of the client's DATA, EOF, CLOSE and ADJUST.
SvTaken(c, m) ==
    CASE m.type = "DATA"   -> [c EXCEPT !.got = @ + m.n, !.grant = @ - m.n]
      [] m.type = "EOF"    -> [c EXCEPT !.eof_in = TRUE, !.owed = m.n]
      [] m.type = "ADJUST" -> [c EXCEPT !.win = @ + m.n]
      [] m.type = "CLOSE"  -> [c EXCEPT !.close_in = TRUE,
                                        !.owed = IF m.x = "asked" THEN m.n ELSE @,
                                        !.state = IF c.close_out THEN "done" ELSE @]
\* Of a request, or the answer to one of its own, after the client's CLOSE it may, too:
\* req_begin() and the dispatch of REQUEST look at the state only, which stays OPEN until the
\* server's CLOSE.
Late == "request after CLOSE"
SvComplaint(c, m) ==
    IF m.type \in {"REQUEST", "FAILURE"} /\ c.close_in THEN Late
    ELSE IF c.state # "open" \/ c.close_in THEN "closed channel"
    ELSE IF m.type \in {"DATA", "EOF"} /\ c.eof_in THEN "after EOF"
    ELSE IF m.type = "DATA" /\ m.n > c.grant THEN "window overrun"
    ELSE IF m.type = "DATA" /\ m.n > MaxPacket THEN "packet too long"
    ELSE "none"
SvBlames(complaint) == sv' = [sv EXCEPT !.accused = IF complaint = "none" THEN @ ELSE complaint]
SvRecvChannel(type) ==
    LET m == Head(c2s) complaint == SvComplaint(sv.ch[m.ch], m) IN
    /\ SvReads(type)
    /\ IF complaint = "none" THEN SvSet(m.ch, SvTaken(sv.ch[m.ch], m)) ELSE SvBlames(complaint)
    /\ UNCHANGED s2c

SvRecvRequest ==
    LET m == Head(c2s) IN
    /\ SvReads("REQUEST")
    /\ s2c' = IF m.x = "want" /\ SvTalks(m.ch)
              THEN Append(s2c, SvIn("REPLY", m.ch, 0, "none")) ELSE s2c
    /\ SvBlames(SvComplaint(sv.ch[m.ch], m))

SvRecvAnswer ==
    LET m == Head(c2s) IN
    /\ \/ SvReads("FAILURE") /\ SvBlames(SvComplaint(sv.ch[m.ch], m))
       \/ SvReads("REQUEST_FAILURE") /\ UNCHANGED sv
    /\ UNCHANGED s2c

SvRecv ==
    \/ SvRecvOpen \/ SvRecvConfirm \/ SvRecvFail \/ SvRecvRequest \/ SvRecvAnswer
    \/ \E type \in {"DATA", "EOF", "CLOSE", "ADJUST"} : SvRecvChannel(type)

-----------------------------------------------------------------------------
Init ==
    /\ chan = [i \in Slots |-> FreeChan]
    /\ x11_active = FALSE /\ closed = FALSE /\ err = "none" /\ locked = FALSE
    /\ busy = FALSE /\ deferred = <<>> /\ events = <<>> /\ c2s = <<>> /\ s2c = <<>>
    /\ sv = [kex |-> FALSE, accused |-> "none", ch |-> [r \in Rids |-> SvNone]]
    /\ left \in Loads

App ==
    \/ ssh_channel_open \/ ssh_next_event
    \/ \E i \in Slots :
         \/ \E want \in {"want", "nowant"} : ssh_channel_request(i, want)
         \/ ssh_channel_request_x11(i)
         \/ \E len \in 1..left.write : ssh_channel_write(i, len)
         \/ ssh_channel_eof(i) \/ ssh_channel_close(i)

Server ==
    \/ SvRecv \/ SvMisc \/ SvKexInit \/ SvKexReply
    \/ \E cookie \in {"right", "wrong"} : SvOpenX11(cookie)
    \/ \E r \in Rids :
         \/ \E n \in 1..left.svdata : SvData(r, n)
         \/ SvGrant(r) \/ SvEof(r) \/ SvClose(r)
         \/ \E want \in {"want", "nowant"} : SvRequest(r, want)

Next == App \/ ssh_input \/ InputEnds \/ Server

Spec == Init /\ [][Next]_vars

\* The run loop reads what arrives and takes the events; the server reads, ends its
\* key exchanges, opens the window when it is used up, and answers a CLOSE.
FairSpec ==
    /\ Spec
    /\ WF_vars(ssh_input) /\ WF_vars(InputEnds) /\ WF_vars(ssh_next_event)
    /\ WF_vars(SvRecv) /\ WF_vars(SvKexReply)
    /\ \A r \in Rids : /\ WF_vars(sv.ch[r].grant = 0 /\ SvGrant(r))
                       /\ WF_vars(sv.ch[r].close_in /\ SvClose(r))

-----------------------------------------------------------------------------
(* Properties *)

UpMessage == [type : OutTypes, ch : Nat, n : Nat,
              x : {"none", "want", "nowant", "asked", "answer"}]
DownMessage == [type : InTypes, ch : Slots \cup {0}, rid : Rids \cup {0}, n : Nat,
                x : {"none", "want", "nowant", "x11", "other", "right", "wrong"}]
Chan == [state : {"FREE", "OPENING", "OPEN"}, remote_id : Rids \cup {0},
         remote_window : 0..WindowLimit, local_window : 0..Window,
         eof_sent : BOOLEAN, close_recv : BOOLEAN, close_sent : BOOLEAN,
         want_eof : BOOLEAN, want_close : BOOLEAN, out : 0..Backlog,
         is_x11 : BOOLEAN, x11_setup_done : BOOLEAN, x11_pending : Nat,
         written : Nat, surfaced : Nat, rejected : BOOLEAN]
\* The shape of the state; types of the messages, bounds of what is counted.
TypeOK ==
    /\ chan \in [Slots -> Chan]
    /\ {x11_active, closed, locked, busy, sv.kex} \subseteq BOOLEAN
    /\ err \in {"none", "malformed channel confirmation", "server overran the channel window"}
    /\ \A q \in {c2s, deferred} : q \in Seq(UpMessage)
    /\ s2c \in Seq(DownMessage)
    /\ events \in Seq([type : {"OPEN", "OPEN_FAILED", "X11_OPEN", "CLOSE"}, ch : Slots])
    /\ ~locked => deferred = <<>>

\* A server that keeps the protocol has nothing to complain of: no data beyond the
\* window or the packet size it granted, no data and no EOF after EOF, neither these nor a
\* window adjustment or a CLOSE after CLOSE, nothing on a channel it does not know
\* (chan_flush, release, dispatch of CLOSE and DATA).  Only a request, or the answer to one,
\* may come after CLOSE (Late).  Nor does the client find fault with it: the window the server
\* believes it has, the data and the adjustments under way make up local_window, so that
\* "server overran the channel window" is never said of a server that did not; and likewise
\* for the window the server granted.
NeverAccused ==
    /\ sv.accused \in {"none", Late}
    /\ err = "none"
    /\ \A i \in Slots : LET c == chan[i] r == c.remote_id IN
         (c.state = "OPEN" /\ sv.ch[r].state = "open") =>
            /\ sv.ch[r].win + ToClient("DATA", r) + ToServer("ADJUST", r) = c.local_window
            /\ c.remote_window + ToClient("ADJUST", r) + ToServer("DATA", r) = sv.ch[r].grant

\* Nothing is held back that could leave.
Emptied(c) ==
    c.state = "OPEN" /\ ~c.close_sent =>
        IF c.out = 0 THEN ~c.want_close /\ (c.want_eof => c.eof_sent) ELSE c.remote_window = 0
\* Every unit written is in the backlog, under way or at the server; and when EOF or
\* a CLOSE the application asked for gets there, all of them are.  Every unit the server
\* sent is under way, held back for the X11 setup, or has been given to the application.
\* And between two chunks, outside a key exchange, a channel holds back nothing the
\* server's window has room for, nor an EOF or CLOSE with no data before it: there
\* is no other occasion to send it (ssh_chan_flush_all after each chunk).
NothingLost ==
    /\ \A i \in Slots : LET c == chan[i] r == c.remote_id IN
         c.state = "OPEN" =>
            /\ c.written = c.out + ToServer("DATA", r) + sv.ch[r].got
            /\ sv.ch[r].sent = ToClient("DATA", r) + c.x11_pending + c.surfaced
    /\ \A r \in Rids : sv.ch[r].owed # -1 => sv.ch[r].got = sv.ch[r].owed
    /\ (~busy /\ ~locked /\ ~closed) => \A i \in Slots : Emptied(chan[i])

\* A message of the server reaches the channel it was sent on: the slot it names has
\* been released and used again by no other.
ReachesItsChannel ==
    ~closed =>
    \A k \in 1..Len(s2c) : LET m == s2c[k] IN
        (/\ m.type \in ChannelTypes
         /\ ~\E j \in 1..k : s2c[j].type = "OPEN_CONFIRM" /\ s2c[j].rid = m.rid)
            => chan[m.ch].state = "OPEN" /\ chan[m.ch].remote_id = m.rid

\* A slot is handed back: a channel the application asked to close is released.
ClosesFinish ==
    \A i \in Slots : chan[i].want_close ~> chan[i].state = "FREE"

-----------------------------------------------------------------------------
(* Why.  Below u is what the client has sent and d what the server has,    *)
(* t the table of the client and s that of the server.                     *)

Talk == {"DATA", "EOF", "CLOSE", "ADJUST"}
Outcomes == {"OPEN_CONFIRM", "OPEN_FAIL"}
SvChan == [state : {"none", "opening", "open", "done"}, slot : Slots \cup {0},
           cookie : {"none", "right", "wrong"}, win : Nat, grant : 0..SvWindow, got : Nat,
           sent : Nat, owed : Nat \cup {-1}, eof_in : BOOLEAN, eof_out : BOOLEAN,
           close_in : BOOLEAN, close_out : BOOLEAN]
Typed(t, u, d, s) ==
    /\ t \in [Slots -> Chan] /\ u \in Seq(UpMessage)
    /\ d \in Seq(DownMessage) /\ s \in [Rids -> SvChan]

Holds(t, i, r) == t[i].state = "OPEN" /\ t[i].remote_id = r
Unheld(t, r) == \A i \in Slots : ~Holds(t, i, r)
\* The client has yet to say something about the server's channel r.
Unnamed(u, r) == \A k \in 1..Len(u) : u[k].type # "OPEN" => u[k].ch # r
ConfirmsUp(u, n, r) == \E j \in 1..n : u[j].type = "OPEN_CONFIRM" /\ u[j].ch = r
ConfirmsDown(d, n, r) == \E j \in 1..n : d[j].type = "OPEN_CONFIRM" /\ d[j].rid = r

\* A message to the server, the k-th, is about a channel it knows, or will by then, and on
\* which it has not been told that there is no more.
UpFits(m, k, t, u, s) ==
    LET r == m.ch IN
    /\ m.type = "OPEN" => r \in Slots /\ t[r].state = "OPENING"
    /\ m.type = "OPEN_CONFIRM" =>
          r \in Rids /\ s[r].state = "opening" /\ m.n \in Slots /\ Holds(t, m.n, r)
    /\ m.type = "REQUEST_FAILURE" => r = 0
    /\ m.type = "OPEN_FAIL" /\ r # 0 => r \in Rids /\ s[r].state = "opening" /\ Unheld(t, r)
    /\ m.type \in Talk \cup {"REQUEST", "FAILURE"} =>
          r \in Rids /\ (s[r].state \in {"open", "done"} \/ ConfirmsUp(u, k - 1, r))
    /\ m.type \in Talk => s[r].state # "done" /\ ~s[r].close_in
    /\ m.type \in {"REQUEST", "FAILURE"} => s[r].state # "done" \/ s[r].close_in
    /\ m.type \in {"DATA", "EOF"} => ~s[r].eof_in
    /\ m.type = "DATA" => m.n <= MaxPacket
    /\ m.type = "EOF" \/ (m.type = "CLOSE" /\ m.x = "asked") =>
          m.n = s[r].got + UpUnits(u, "DATA", r)
UpRight(t, u, s) == \A k \in 1..Len(u) : UpFits(u[k], k, t, u, s)
\* Of two messages, m before n.
UpFollows(m, n) ==
    (m.ch = n.ch /\ m.ch # 0 /\ m.type # "OPEN" /\ n.type # "OPEN") =>
        /\ m.type # "OPEN_FAIL" /\ n.type \notin Outcomes
        /\ m.type = "CLOSE" => n.type \notin Talk
        /\ m.type = "EOF" => n.type \notin {"DATA", "EOF"}
UpOrder(u) == \A j, k \in 1..Len(u) : j < k => UpFollows(u[j], u[k])

\* A channel confirmed and not yet in the client's table.
Confirmed(i, r, u, d, s) ==
    /\ s[r].state \in {"open", "done"} /\ s[r].slot = i /\ Unnamed(u, r)
    /\ s[r].win + DownUnits(d, "DATA", r) = Window
    /\ SvWindow + DownUnits(d, "ADJUST", r) = s[r].grant
    /\ s[r].sent = DownUnits(d, "DATA", r) /\ s[r].got = 0
    /\ ~s[r].eof_in /\ ~s[r].close_in
\* A message to the client is about a slot that belongs to its channel, or will by then.
DownFits(m, k, t, u, d, s) ==
    LET i == m.ch r == m.rid IN
    /\ m.type = "OPEN" =>
          /\ m.n = SvWindow /\ (m.x = "x11" => r # 0)
          /\ r # 0 => s[r].state = "opening" /\ Unheld(t, r) /\ Unnamed(u, r)
    /\ m.type = "OPEN_CONFIRM" =>
          /\ i \in Slots /\ t[i].state = "OPENING" /\ m.n = SvWindow
          /\ r \in Rids /\ Unheld(t, r) /\ Confirmed(i, r, u, d, s)
    /\ m.type = "OPEN_FAIL" => i \in Slots /\ t[i].state = "OPENING" /\ r = 0
    /\ m.type \in ChannelTypes =>
          /\ r \in Rids /\ s[r].state \in {"open", "done"} /\ i \in Slots /\ s[r].slot = i
          /\ Holds(t, i, r) \/ ConfirmsDown(d, k - 1, r)
    /\ m.type = "CLOSE" => s[r].close_out
    /\ m.type \in {"KEXINIT", "KEX_REPLY", "GLOBAL_REQUEST"} => r = 0
DownRight(t, u, d, s) == \A k \in 1..Len(d) : DownFits(d[k], k, t, u, d, s)
DownFollows(m, n) ==
    (m.rid = n.rid /\ m.rid # 0) =>
        m.type \notin {"OPEN", "CLOSE"} /\ n.type \notin {"OPEN", "OPEN_CONFIRM"}
DownOrder(d) == \A j, k \in 1..Len(d) : j < k => DownFollows(d[j], d[k])

\* Each channel the client opens is asked for, confirmed or refused, once.
OneOutcome(u, d) ==
    /\ \A j, k \in 1..Len(u) :
          u[j].type = "OPEN" /\ u[k].type = "OPEN" /\ u[j].ch = u[k].ch => j = k
    /\ \A j, k \in 1..Len(d) :
          d[j].type \in Outcomes /\ d[k].type \in Outcomes /\ d[j].ch = d[k].ch => j = k
    /\ \A j \in 1..Len(u) : \A k \in 1..Len(d) :
          u[j].type = "OPEN" /\ d[k].type \in Outcomes => u[j].ch # d[k].ch

\* A slot in use is linked to one channel of the server, with windows and data that add up.
Mute(u, type, r) == \A k \in 1..Len(u) : u[k].ch = r => u[k].type # type
Bound(u, s, i, r) ==
    \/ s[r].state \in {"open", "done"} /\ s[r].slot = i
    \/ /\ s[r].state = "opening"
       /\ \E k \in 1..Len(u) : u[k].type = "OPEN_CONFIRM" /\ u[k].ch = r /\ u[k].n = i
Adds(c, u, d, v, r) ==
    /\ (IF v.state = "opening" THEN Window ELSE v.win)
          + DownUnits(d, "DATA", r) + UpUnits(u, "ADJUST", r) = c.local_window
    /\ c.remote_window + DownUnits(d, "ADJUST", r) + UpUnits(u, "DATA", r) = v.grant
    /\ c.written = c.out + UpUnits(u, "DATA", r) + v.got
    /\ v.sent = DownUnits(d, "DATA", r) + c.x11_pending + c.surfaced
SlotFits(c, i, u, d, s) ==
    LET r == c.remote_id IN
    /\ c.state = "FREE" => c = FreeChan
    /\ c.state = "OPENING" =>
          c = [FreeChan EXCEPT !.state = "OPENING", !.local_window = Window, !.out = c.out,
               !.written = c.out, !.want_eof = c.want_eof, !.want_close = c.want_close]
    /\ c.state = "OPEN" =>
          /\ r \in Rids /\ Bound(u, s, i, r) /\ Adds(c, u, d, s[r], r)
          /\ ~c.close_sent => ~s[r].close_in /\ Mute(u, "CLOSE", r)
          /\ ~c.eof_sent => ~s[r].eof_in /\ Mute(u, "EOF", r)
    /\ ~c.close_recv
    /\ c.eof_sent => c.out = 0 /\ c.want_eof
SlotsRight(t, u, d, s) == \A i \in Slots : SlotFits(t[i], i, u, d, s)

\* The channels of the server: one the client still may use has its slot, or will.
SvFits(v, r, t, u, d) ==
    /\ v.state = "none" => v = SvNone
    /\ v.state = "opening" =>
          v = [SvNone EXCEPT !.state = "opening", !.cookie = v.cookie, !.grant = SvWindow]
    /\ v.state = "open" =>
          v.slot \in Slots /\ (v.close_out \/ Holds(t, v.slot, r) \/ ConfirmsDown(d, Len(d), r))
    /\ v.state = "done" /\ v.slot # 0 => v.close_in /\ v.close_out
    /\ UpUnits(u, "DATA", r) <= v.grant
    /\ v.owed # -1 => v.got = v.owed /\ (v.eof_in \/ v.close_in)
SvRight(t, u, d, s) == \A r \in Rids : SvFits(s[r], r, t, u, d)

\* The two tables and the two queues agree.
Linked(t, u, d, s) ==
    /\ Typed(t, u, d, s) /\ UpRight(t, u, s) /\ UpOrder(u) /\ DownRight(t, u, d, s)
    /\ DownOrder(d) /\ OneOutcome(u, d) /\ SlotsRight(t, u, d, s) /\ SvRight(t, u, d, s)

\* The strengthening of the invariants above that every step keeps: the two tables and the
\* two queues are linked, nobody is accused, and nothing is held back between two chunks.
ChannelsInv ==
    /\ TypeOK /\ Linked(chan, c2s \o deferred, s2c, sv.ch)
    /\ ~closed /\ err = "none" /\ left \in Load /\ left.slots \in Slots
    /\ sv \in [kex : BOOLEAN, accused : {"none", Late}, ch : [Rids -> SvChan]]
    /\ ~busy /\ ~locked => \A i \in Slots : Emptied(chan[i])
=============================================================================
