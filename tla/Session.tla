------------------------------- MODULE Session -------------------------------
(***************************************************************************)
(* A logged-in window of StepSSH (app/SSHSession.m): one connection whose  *)
(* channels have different owners - the shell, the file browser's SFTP     *)
(* channel, a channel for each connection made to a forwarded local port   *)
(* ("-L"), a channel for each X11 client the server reports - and the poll *)
(* loop that gives every event to the owner of its channel, and moves the  *)
(* bytes between the local sockets and the channels.                       *)
(*                                                                         *)
(* Of the engine below (core/ssh_chan.c, see Channels) the slot of a       *)
(* channel, its backlog, the server's window and the two half-closes are   *)
(* kept; what it flushes the server has at once, since a server may take   *)
(* as long as it likes before it does anything about it.  The local ends   *)
(* of the tunnels are programs on this machine.  A byte is <<owner,        *)
(* number>>.                                                               *)
(***************************************************************************)
EXTENDS Integers, FiniteSets, SequencesExt

CONSTANTS
    MaxSlots,     \* the largest number of channel slots of a workload
    Backlog,      \* SSH_MAX_BACKLOG
    SvWindow,     \* the window the server opens a channel with
    MaxConns,     \* bound: connections made to the forwarded port
    MaxX11,       \* bound: x11 channels the server opens
    MaxSftp,      \* bound: times the file browser's channel is opened
    MaxBytes,     \* bound: bytes from each end of a channel
    Loads         \* bounds: what happens, one element per workload

\* A workload: the channel slots it runs with (slots), forwarding rules added (adds)
\* and removed (removes), connections to the forwarded port (conns), x11 channels
\* (x11), file browsers and bytes the SFTP engine puts out (sftp, asks), bytes typed
\* (typed), bytes of the programs (up) and of the server on each channel (down), failures
\* of programs, of the SFTP answers, of the network (bad), whether the shell exits (quits).
Load == [{"slots", "adds", "removes", "conns", "x11", "sftp", "asks", "typed", "up", "down",
          "bad", "quits"} -> Nat]

ASSUME SessionAssumption ==
    /\ {MaxSlots, Backlog, SvWindow, MaxConns, MaxX11, MaxSftp, MaxBytes} \subseteq Nat \ {0}
    /\ Loads \subseteq Load
    /\ \A load \in Loads :
          /\ load.slots \in 1..MaxSlots
          /\ load.conns <= MaxConns /\ load.x11 <= MaxX11 /\ load.sftp <= MaxSftp
          /\ load.up <= MaxBytes /\ load.down <= MaxBytes /\ load.typed <= MaxBytes
          /\ load.asks <= MaxBytes /\ (load.sftp > 0 => load.asks > 0)

VARIABLES
    app,      \* the session object's own fields
    tun,      \* the tunnels: PortTunnel and X11Tunnel
    chan,     \* the engine's table of channels
    events,   \* the engine's events not taken yet
    phase,    \* where the poll loop is
    todo,     \* tunnels it has still to pump in this tick
    net,      \* messages from the server on their way
    sv,       \* the server's end of every channel
    peer,     \* the local program at the end of every tunnel
    hist,     \* history: whose events reached the shell's switch (heard), what the terminal
              \* was given (shown), how much was typed, asked for by the file browser, the
              \* rules' connections removed with them, whether sftpClosing is left from a
              \* channel that was refused (stale)
    left      \* what is left of the workload

vars == <<app, tun, chan, events, phase, todo, net, sv, peer, hist, left>>

Shell == <<"shell", 1>>
Conns == {"L"} \X (1..MaxConns)
Displays == {"X"} \X (1..MaxX11)
Browsers == {"sftp"} \X (1..MaxSftp)
Tunnels == Conns \cup Displays
Owners == {Shell} \cup Browsers \cup Tunnels
Slots == 1..MaxSlots

-----------------------------------------------------------------------------
(* The engine's channels, as functions of a world w = [chan, sv] *)

FreeChan == [st |-> "FREE", own |-> Shell, win |-> 0, out |-> <<>>,
             eof |-> FALSE, close |-> FALSE, esent |-> FALSE, csent |-> FALSE]
World == [chan |-> chan, sv |-> sv]
Becomes(w) == chan' = w.chan /\ sv' = w.sv

FreeSlots == {i \in 1..left.slots : chan[i].st = "FREE"}
\* find_free_chan(), 0 standing for -1.
find_free_chan == IF FreeSlots = {} THEN 0 ELSE Min(FreeSlots)

\* chan_flush(): what the window allows, then the EOF and the CLOSE that waited.
chan_flush(w, i) ==
    LET c == w.chan[i]
        s == w.sv[c.own]
        n == IF Len(c.out) < c.win THEN Len(c.out) ELSE c.win
        done == n = Len(c.out)
    IN  IF c.st # "OPEN" \/ c.csent THEN w
        ELSE [chan |-> [w.chan EXCEPT ![i] =
                 [c EXCEPT !.out = SubSeq(c.out, n + 1, Len(c.out)), !.win = c.win - n,
                           !.esent = c.esent \/ (done /\ c.eof), !.csent = done /\ c.close]],
              sv |-> [w.sv EXCEPT ![c.own] =
                 [s EXCEPT !.got = s.got \o SubSeq(c.out, 1, n), !.owes = s.owes + n,
                           !.eof = s.eof \/ (done /\ c.eof), !.close = done /\ c.close]]]

\* Bug: the channel's close, asked for while it opened, is forgotten.
Confirmed_only(w, i) == w
\* A channel whose OPEN has been confirmed; it may have to be closed at once.
Confirmed(w, i) == IF w.chan[i].close THEN chan_flush(w, i) ELSE w

\* How much of the data ssh_channel_write() takes; nothing where it returns -1.
Room(w, i, data) ==
    IF i = 0 THEN 0
    ELSE LET c == w.chan[i] IN
         IF c.st = "FREE" \/ c.eof \/ c.close THEN 0 ELSE Min({Len(data), Backlog - Len(c.out)})
ssh_channel_write(w, i, data) ==
    IF Room(w, i, data) = 0 THEN w
    ELSE chan_flush([w EXCEPT !.chan[i].out = @ \o SubSeq(data, 1, Room(w, i, data))], i)

ssh_channel_eof(w, i) ==
    IF i = 0 \/ w.chan[i].st = "FREE" THEN w
    ELSE chan_flush([w EXCEPT !.chan[i].eof = TRUE], i)
ssh_channel_close(w, i) ==
    IF i = 0 \/ w.chan[i].st = "FREE" THEN w
    ELSE chan_flush([w EXCEPT !.chan[i].close = TRUE], i)

\* A request that wants a reply (req_begin, req_send): sent on any open channel, even
\* one whose CLOSE has gone out, which the server has no channel for.  The answers to
\* the shell's are not looked at, and left out.
ChannelRequest(w, i) ==
    IF i = 0 \/ w.chan[i].st # "OPEN" THEN w
    ELSE IF w.chan[i].own = Shell THEN w
    ELSE IF w.chan[i].csent THEN [w EXCEPT !.sv[w.chan[i].own].accused = TRUE]
    ELSE [w EXCEPT !.sv[w.chan[i].own].asked = @ + 1]

\* open_begin() and open_send() by owner o in slot i.
OpenChannel(w, i, o) ==
    [chan |-> [w.chan EXCEPT ![i] = [FreeChan EXCEPT !.st = "OPENING", !.own = o]],
     sv |-> [w.sv EXCEPT ![o].st = "asked", ![o].slot = i]]

-----------------------------------------------------------------------------
(* Init: logged in.  SSH_EV_AUTH_OK has opened the shell's channel. *)

NoServerEnd == [st |-> "none", slot |-> 0, got |-> <<>>, owes |-> 0, eof |-> FALSE,
                close |-> FALSE, asked |-> 0, accused |-> FALSE, sent |-> 0, ended |-> FALSE]
\* The fields of PortTunnel and of X11Tunnel; those only one of them has are constant in
\* the other (localOpen TRUE in a PortTunnel, channelOpen TRUE in an X11Tunnel).  fd:
\* localFD >= 0; st tells a tunnel in its list from one not yet, or no longer, there.
NoTunnel == [st |-> "none", channel |-> 0, channelOpen |-> FALSE, connecting |-> FALSE,
             localOpen |-> FALSE, localClosed |-> FALSE, remoteClosed |-> FALSE,
             closeRequested |-> FALSE, fd |-> FALSE, outToLocal |-> <<>>]
\* (lost: what the channel's backlog had no room for, a history.)
NoPeer == [st |-> "none", unread |-> <<>>, sent |-> 0, got |-> <<>>, lost |-> {}]

Init ==
    /\ left \in Loads
    /\ app = [state |-> "active", channel |-> 1, sftpChannel |-> 0, sftpClosing |-> FALSE,
              sftpCore |-> FALSE, sftpOut |-> <<>>, browser |-> 0, opened |-> 0,
              listening |-> FALSE, x11_active |-> FALSE, pendingIn |-> <<>>]
    /\ tun = [k \in Tunnels |-> NoTunnel]
    /\ LET w == OpenChannel([chan |-> [i \in Slots |-> FreeChan],
                             sv |-> [o \in Owners |-> NoServerEnd]], 1, Shell)
       IN  chan = w.chan /\ sv = w.sv
    /\ events = <<>> /\ net = <<>>
    /\ phase = "recv" /\ todo = {}
    /\ peer = [k \in Tunnels |-> NoPeer]
    /\ hist = [heard |-> {}, shown |-> <<>>, typed |-> 0, asked |-> [b \in Browsers |-> 0],
               removed |-> {}, stale |-> FALSE]

Active == app.state = "active"
\* Between two chunks of input.  The user is served there (between two ticks), and so the
\* programs and the server may be taken to be: what they do meanwhile commutes with the
\* steps of the loop, which looks at each socket once in a tick.
Idle == Active /\ phase = "recv" /\ events = <<>>
Tracked == {k \in Tunnels : tun[k].st = "tracked"}
Has(what) == left[what] > 0
Spend(what) == left' = [left EXCEPT ![what] = @ - 1]
Byte(o, n) == <<o, n>>

\* endWithMessage: every socket is closed, every list emptied, the engine freed.
Ended(a) == [a EXCEPT !.state = "ended", !.channel = 0, !.sftpChannel = 0,
                      !.sftpCore = FALSE, !.sftpOut = <<>>, !.listening = FALSE]
Untracked(t) == [t EXCEPT !.st = "gone", !.channel = 0, !.fd = FALSE]
endWithMessage ==
    /\ app' = Ended(app)
    /\ tun' = [k \in Tunnels |-> IF k \in Tracked THEN Untracked(tun[k]) ELSE tun[k]]
    /\ events' = <<>> /\ net' = <<>> /\ todo' = {} /\ phase' = "recv"
    /\ UNCHANGED <<chan, sv, peer>>

-----------------------------------------------------------------------------
(* The poll loop: receive.  ssh_input() handles all the packets of a chunk, *)
(* then processEvents takes all the events they made.                       *)

Event(type, i, o, b) == [type |-> type, ch |-> i, own |-> o, byte |-> b]
NoByte == <<Shell, 0>>
Push(es) == events' = events \o es

\* ssh_chan_dispatch(): one packet.
Receive ==
    /\ Active /\ phase = "recv" /\ net # <<>>
    /\ net' = Tail(net)
    /\ LET m == Head(net)
           i == m.ch
           open == [chan EXCEPT ![i] = [@ EXCEPT !.st = "OPEN", !.win = SvWindow]]
       IN  IF m.type = "X11_OPEN"
           THEN IF find_free_chan = 0
                THEN /\ sv' = [sv EXCEPT ![m.own].st = "refused"]
                     /\ UNCHANGED <<chan, events>>
                ELSE /\ chan' = [chan EXCEPT ![find_free_chan] =
                                    [FreeChan EXCEPT !.st = "OPEN", !.own = m.own, !.win = SvWindow]]
                     /\ sv' = [sv EXCEPT ![m.own] = [@ EXCEPT !.st = "open", !.slot = find_free_chan]]
                     /\ Push(<<Event("X11_OPEN", find_free_chan, m.own, NoByte)>>)
           ELSE IF m.type = "DISCONNECT"
           THEN Push(<<Event("DISCONNECT", 0, m.own, NoByte)>>) /\ UNCHANGED <<chan, sv>>
           ELSE IF chan[i].st = "FREE" THEN UNCHANGED <<chan, sv, events>>
           ELSE \/ /\ m.type = "OPEN_CONFIRM"
                   /\ Push(<<Event("OPEN", i, m.own, NoByte)>>)
                   /\ Becomes(Confirmed([chan |-> open, sv |-> sv], i))
                \/ /\ m.type = "OPEN_FAIL"
                   /\ Push(<<Event("OPEN_FAILED", i, m.own, NoByte)>>)
                   /\ chan' = [chan EXCEPT ![i] = FreeChan]
                   /\ UNCHANGED sv
                \/ /\ m.type = "WINDOW_ADJ"
                   /\ Becomes(chan_flush([World EXCEPT !.chan[i].win = @ + m.n], i))
                   /\ UNCHANGED events
                \/ /\ m.type \in {"DATA", "EOF", "SUCCESS", "FAILURE"}
                   /\ Push(<<Event(m.type, i, m.own, <<m.own, m.n>>)>>)
                   /\ UNCHANGED <<chan, sv>>
                \/ /\ m.type = "CLOSE"
                   /\ Push(<<Event("CLOSE", i, m.own, NoByte)>>)
                   /\ chan' = [chan EXCEPT ![i] = FreeChan]
                   /\ sv' = [sv EXCEPT ![m.own].close = TRUE]
    /\ UNCHANGED <<app, tun, phase, todo, peer, hist, left>>

-----------------------------------------------------------------------------
(* The poll loop: processEvents, one event, to the owner of its channel *)

TunnelsOf(i) == {k \in Tracked : i # 0 /\ tun[k].channel = i}
ForwardOf(e) == TunnelsOf(e.ch) \cap Conns
DisplayOf(e) == TunnelsOf(e.ch) \cap Displays

Keep == UNCHANGED <<net, todo, peer, hist, left>>
Taken == /\ events' = Tail(events)
         /\ phase' = IF Tail(events) = <<>> THEN "recv" ELSE "handle"

\* handleForwardEvent:, handleX11Event: for a tunnel k that exists already.
TunnelEvent(e, k) ==
    /\ LET t == tun[k]
       IN  tun' = [tun EXCEPT ![k] =
              CASE e.type = "OPEN" -> [t EXCEPT !.channelOpen = TRUE]
                [] e.type = "OPEN_FAILED" -> IF k \in Conns THEN Untracked(t) ELSE t
                [] e.type = "DATA" -> [t EXCEPT !.outToLocal = Append(t.outToLocal, e.byte)]
                [] e.type = "EOF" -> [t EXCEPT !.remoteClosed = TRUE]
                [] e.type = "CLOSE" -> Untracked(t)
                [] OTHER -> t]
    /\ Taken /\ Keep /\ UNCHANGED <<app, chan, sv>>

\* handleX11Event: for SSH_EV_X11_OPEN: dial the display.
DialDisplay(e) ==
    \E how \in {"now", "in progress", "failed"} :
        /\ how = "failed" => Has("bad")
        /\ tun' = [tun EXCEPT ![e.own] =
              [NoTunnel EXCEPT !.st = "tracked", !.channel = e.ch, !.channelOpen = TRUE,
                               !.fd = how # "failed", !.connecting = how = "in progress",
                               !.localOpen = how = "now", !.localClosed = how = "failed",
                               !.remoteClosed = how = "failed"]]
        /\ peer' = [peer EXCEPT ![e.own].st = IF how = "now" THEN "open" ELSE @]
        /\ IF how = "failed" THEN Spend("bad") ELSE UNCHANGED left
        /\ Taken /\ UNCHANGED <<net, todo, hist, app, chan, sv>>

\* flushSFTP: what the channel takes of the SFTP engine's output.
flushSFTP(a, w) ==
    LET n == Room(w, a.sftpChannel, a.sftpOut)
    IN  IF ~a.sftpCore \/ a.sftpClosing THEN [app |-> a, w |-> w]
        ELSE [app |-> [a EXCEPT !.sftpOut = SubSeq(@, n + 1, Len(@))],
              w |-> ssh_channel_write(w, a.sftpChannel, a.sftpOut)]
\* closeSFTPChannel: sftp_abort leaves the engine without output to come.
closeSFTPChannel(a, w) ==
    IF a.sftpChannel = 0 \/ a.sftpClosing THEN [app |-> a, w |-> w]
    ELSE [app |-> [a EXCEPT !.sftpClosing = TRUE], w |-> ssh_channel_close(w, a.sftpChannel)]

AppBecomes(r) == app' = r.app /\ Becomes(r.w)
\* The SFTP engine puts out the next byte of browser b.
Asks(a, b) == [a EXCEPT !.sftpOut = Append(@, Byte(b, hist.asked[b] + 1))]
Asked(b) == hist' = [hist EXCEPT !.asked[b] = @ + 1]
MayAsk(b) == b \in Browsers /\ hist.asked[b] < left.asks

\* handleSFTPEvent:.  The engine may answer what it is given, or choke on it.  Only CLOSE
\* resets sftpClosing: a browser closed while its channel opened leaves it set if the
\* server refuses the channel.
SftpEvent(e) ==
    LET b == <<"sftp", app.opened>>
        here == [app |-> app, w |-> World]
    IN  /\ Taken /\ UNCHANGED <<tun, net, todo, peer>>
        /\ \/ /\ e.type = "OPEN"
              /\ AppBecomes([here EXCEPT !.w = ChannelRequest(World, app.sftpChannel)])
              /\ UNCHANGED <<hist, left>>
           \/ /\ e.type = "OPEN_FAILED"
              /\ AppBecomes([here EXCEPT !.app.sftpChannel = 0])
              /\ hist' = [hist EXCEPT !.stale = app.sftpClosing]
              /\ UNCHANGED left
           \/ /\ e.type = "FAILURE"
              /\ AppBecomes(closeSFTPChannel(app, World))
              /\ UNCHANGED <<hist, left>>
           \/ /\ e.type = "SUCCESS" /\ ~app.sftpCore
              /\ MayAsk(b)
              /\ AppBecomes(flushSFTP(Asks([app EXCEPT !.sftpCore = TRUE], b), World))
              /\ Asked(b) /\ UNCHANGED left
           \/ /\ e.type = "DATA" /\ app.sftpCore /\ ~app.sftpClosing
              /\ \/ AppBecomes(flushSFTP(app, World)) /\ UNCHANGED <<hist, left>>
                 \/ MayAsk(b) /\ AppBecomes(flushSFTP(Asks(app, b), World)) /\ Asked(b) /\ UNCHANGED left
                 \/ Has("bad") /\ AppBecomes(closeSFTPChannel(app, World)) /\ Spend("bad") /\ UNCHANGED hist
           \/ /\ e.type = "CLOSE"
              /\ AppBecomes([here EXCEPT !.app = [app EXCEPT !.sftpChannel = 0, !.sftpClosing = FALSE,
                                                            !.sftpCore = FALSE, !.sftpOut = <<>>]])
              /\ hist' = [hist EXCEPT !.stale = FALSE]
              /\ UNCHANGED left
           \/ /\ \/ e.type = "EOF"
                 \/ e.type = "SUCCESS" /\ app.sftpCore
                 \/ e.type = "DATA" /\ ~(app.sftpCore /\ ~app.sftpClosing)
              /\ UNCHANGED <<app, chan, sv, hist, left>>

\* The switch of processEvents, written for the shell's channel: what no owner claimed.
Hears(e) == [hist EXCEPT !.heard = @ \cup {e.own}]
ShellEvent(e) ==
    IF e.type \in {"CLOSE", "OPEN_FAILED", "DISCONNECT"}
    THEN /\ endWithMessage
         /\ hist' = Hears(e)
         /\ UNCHANGED left
    ELSE /\ IF e.type = "OPEN"
            THEN /\ Becomes(ChannelRequest(World, app.channel))
                 /\ app' = [app EXCEPT !.x11_active = left.x11 > 0]
            ELSE UNCHANGED <<app, chan, sv>>
         /\ hist' = IF e.type = "DATA" THEN [Hears(e) EXCEPT !.shown = Append(@, e.byte)]
                    ELSE Hears(e)
         /\ Taken /\ UNCHANGED <<tun, net, todo, peer, left>>

Handle ==
    /\ Active /\ phase \in {"recv", "handle"} /\ events # <<>>
    /\ LET e == Head(events) IN
          IF ForwardOf(e) # {} THEN \E k \in ForwardOf(e) : TunnelEvent(e, k)
          ELSE IF e.type = "X11_OPEN" THEN DialDisplay(e)
          ELSE IF DisplayOf(e) # {} THEN \E k \in DisplayOf(e) : TunnelEvent(e, k)
          ELSE IF app.sftpChannel # 0 /\ e.ch = app.sftpChannel THEN SftpEvent(e)
          ELSE ShellEvent(e)

-----------------------------------------------------------------------------
(* The poll loop: the end of a tick, pumpForwards and pumpX11 *)

\* flushPending: the keyboard's bytes the shell's channel had no room for.
\* Bug: what there was no room for is forgotten.
flushPending_all(a, w) ==
    [app |-> [a EXCEPT !.pendingIn = <<>>], w |-> ssh_channel_write(w, a.channel, a.pendingIn)]
flushPending(a, w) ==
    LET n == Room(w, a.channel, a.pendingIn)
    IN  [app |-> [a EXCEPT !.pendingIn = SubSeq(@, n + 1, Len(@))],
         w |-> ssh_channel_write(w, a.channel, a.pendingIn)]

\* Connections the listening socket has not had accepted; the first is accepted.
Waiting == {k \in Conns : peer[k].st # "none" /\ tun[k].st = "none"}
PumpBegins ==
    /\ Active /\ phase = "recv" /\ events = <<>>
    /\ LET p == flushPending(app, World)
           s == flushSFTP(p.app, p.w)
           k == CHOOSE first \in Waiting : \A other \in Waiting : first[2] <= other[2]
           i == find_free_chan
       IN  IF app.listening /\ Waiting # {}
           THEN /\ AppBecomes(IF i = 0 THEN s ELSE [s EXCEPT !.w = OpenChannel(s.w, i, k)])
                /\ tun' = [tun EXCEPT ![k] = IF i = 0 THEN Untracked(@)
                              ELSE [NoTunnel EXCEPT !.st = "tracked", !.channel = i,
                                                    !.fd = TRUE, !.localOpen = TRUE]]
                /\ todo' = Tracked \cup (IF i = 0 THEN {} ELSE {k})
           ELSE AppBecomes(s) /\ todo' = Tracked /\ UNCHANGED tun
    /\ phase' = IF todo' = {} THEN "recv" ELSE "pump"
    /\ UNCHANGED <<events, net, peer, hist, left>>

\* What can come of the three system calls a tunnel is pumped with: sets of
\* [t, p, w, bad], the tunnel, its peer, the world, and the failures it took.
Connects(x) ==
    IF ~x.t.connecting THEN {x}
    ELSE {x, [x EXCEPT !.t.connecting = FALSE, !.t.localOpen = TRUE, !.p.st = "open"]}
         \cup (IF Has("bad")
               THEN {[x EXCEPT !.bad = 1, !.t.connecting = FALSE, !.t.localClosed = TRUE,
                               !.t.remoteClosed = TRUE]} ELSE {})

\* send(): a part of outToLocal, perhaps none; or an error, which marks both ends closed.
Sends(x) ==
    LET out == x.t.outToLocal
        took(n) == [x EXCEPT !.t.outToLocal = SubSeq(out, n + 1, Len(out)),
                             !.p.got = IF x.p.st = "gone" THEN @ ELSE @ \o SubSeq(out, 1, n)]
        broken == [x EXCEPT !.t.localClosed = TRUE, !.t.remoteClosed = TRUE]
    IN  IF out = <<>> \/ ~x.t.localOpen THEN {x}
        ELSE (IF x.t.fd THEN {took(n) : n \in 0..Len(out)} ELSE {})
             \cup (IF ~x.t.fd \/ x.p.st = "gone" THEN {broken} ELSE {})

\* recv(), once nothing waits to be sent: data into the channel, the end, or an error.
\* It reads no more than its buffer, which is less than the backlog; how much of that
\* ssh_channel_write() took is not looked at: the rest is lost.
Receives(x, k) ==
    LET i == x.t.channel
        closed == [x EXCEPT !.t.localClosed = TRUE]
        n == Min({Len(x.p.unread), Backlog})
        buf == SubSeq(x.p.unread, 1, n)
        took == Room(x.w, i, buf)
        reads == [x EXCEPT !.p.unread = SubSeq(@, n + 1, Len(@)), !.w = ssh_channel_write(x.w, i, buf),
                           !.p.lost = @ \cup ToSet(SubSeq(buf, took + 1, n))]
        ends == [closed EXCEPT !.w = ssh_channel_eof(x.w, i)]
        fails == IF k \in Displays /\ x.t.closeRequested THEN closed
                 ELSE [closed EXCEPT !.w = ssh_channel_close(x.w, i),
                                     !.t.closeRequested = k \in Displays]
    IN  IF ~x.t.localOpen \/ ~x.t.channelOpen \/ x.t.localClosed \/ x.t.outToLocal # <<>>
        THEN {x}
        ELSE IF x.p.unread # <<>> THEN {reads}
        ELSE IF x.p.st = "open" THEN {x}
        ELSE {ends} \cup (IF x.p.st = "gone" THEN {fails} ELSE {})

Over(t) == t.localClosed /\ t.remoteClosed /\ t.outToLocal = <<>>
\* The end of a connection to a forwarded port: its channel is closed, its id and the
\* tunnel forgotten at once.
FinishForward(x) ==
    IF Over(x.t) THEN [x EXCEPT !.t = Untracked(@), !.w = ssh_channel_close(x.w, x.t.channel)]
    ELSE x
\* The end of an X11 connection: its channel is closed, once, and its socket; the tunnel
\* stays until the server's CLOSE.
\* Bug: the tunnel is forgotten at once.
FinishX11_forgets(x) ==
    IF Over(x.t) THEN [x EXCEPT !.t = Untracked(@), !.w = ssh_channel_close(x.w, x.t.channel)]
    ELSE x
FinishX11(x) ==
    LET y == IF Over(x.t) /\ ~x.t.closeRequested
             THEN [x EXCEPT !.t.closeRequested = TRUE, !.w = ssh_channel_close(x.w, x.t.channel)]
             ELSE x
    IN  [y EXCEPT !.t.fd = @ /\ ~y.t.closeRequested]

\* One tunnel's turn; pumpForwards comes before pumpX11.
Pump(k) ==
    /\ Active /\ phase = "pump" /\ k \in todo
    /\ k \in Displays => todo \cap Conns = {}
    /\ \E c \in Connects([t |-> tun[k], p |-> peer[k], w |-> World, bad |-> 0]) :
       \E s \in Sends(c) :
       \E r \in Receives(s, k) :
          LET x == IF k \in Conns THEN FinishForward(r) ELSE FinishX11(r)
          IN  /\ tun' = [tun EXCEPT ![k] = x.t]
              /\ peer' = [peer EXCEPT ![k] = x.p]
              /\ Becomes(x.w)
              /\ left' = [left EXCEPT !.bad = @ - x.bad]
    /\ todo' = todo \ {k}
    /\ phase' = IF todo' = {} THEN "recv" ELSE "pump"
    /\ UNCHANGED <<app, events, net, hist>>

-----------------------------------------------------------------------------
(* The user, between two ticks *)

Elsewhere == UNCHANGED <<events, phase, todo, net, peer>>

\* terminalView:sendBytes:.
SendBytes ==
    /\ Idle /\ hist.typed < left.typed
    /\ LET b == Byte(Shell, hist.typed + 1)
       IN  AppBecomes(flushPending([app EXCEPT !.pendingIn = Append(@, b)], World))
    /\ hist' = [hist EXCEPT !.typed = @ + 1]
    /\ Elsewhere /\ UNCHANGED <<tun, left>>

openFileBrowser ==
    /\ Idle /\ app.browser = 0 /\ app.sftpChannel = 0 /\ Has("sftp")
    /\ LET n == app.opened + 1
           i == find_free_chan
       IN  AppBecomes([app |-> [app EXCEPT !.browser = n, !.opened = n, !.sftpChannel = i],
                       w |-> IF i = 0 THEN World ELSE OpenChannel(World, i, <<"sftp", n>>)])
    /\ Spend("sftp") /\ Elsewhere /\ UNCHANGED <<tun, hist>>

browserClosed ==
    /\ Idle /\ app.browser # 0
    /\ AppBecomes(closeSFTPChannel([app EXCEPT !.browser = 0], World))
    /\ Elsewhere /\ UNCHANGED <<tun, hist, left>>

\* The browser starts a transfer or a listing: the SFTP engine puts out a request
\* (sftpKick).
SftpJob ==
    LET b == <<"sftp", app.browser>>
    IN  /\ Idle /\ app.browser # 0 /\ app.sftpCore /\ ~app.sftpClosing /\ MayAsk(b)
        /\ AppBecomes(flushSFTP(Asks(app, b), World))
        /\ Asked(b)
        /\ Elsewhere /\ UNCHANGED <<tun, left>>

addForward ==
    /\ Idle /\ ~app.listening /\ Has("adds")
    /\ app' = [app EXCEPT !.listening = TRUE]
    /\ Spend("adds") /\ Elsewhere /\ UNCHANGED <<tun, chan, sv, hist>>

\* removeForward: stopListening closes the sockets and empties the list; what was not
\* accepted yet is refused by the system.
removeForward ==
    /\ Idle /\ app.listening /\ Has("removes")
    /\ app' = [app EXCEPT !.listening = FALSE]
    /\ tun' = [k \in Tunnels |->
                  IF k \in Conns /\ (k \in Tracked \/ k \in Waiting) THEN Untracked(tun[k])
                  ELSE tun[k]]
    /\ hist' = [hist EXCEPT !.removed = @ \cup (Tracked \cap Conns)]
    /\ Spend("removes") /\ Elsewhere /\ UNCHANGED <<chan, sv>>

\* The network fails, or the user closes the window (shutdown).
Ends ==
    /\ Active /\ phase = "recv" /\ Has("bad")
    /\ endWithMessage
    /\ Spend("bad") /\ UNCHANGED hist

-----------------------------------------------------------------------------
(* The programs at the local ends of the tunnels *)

Live(k) == Idle /\ tun[k].st # "gone"
Local == UNCHANGED <<app, tun, chan, events, phase, todo, net, sv, hist>>

Connect(k) ==
    /\ Idle /\ k \in Conns /\ peer[k].st = "none" /\ app.listening /\ Has("conns")
    /\ \A j \in Conns : j[2] < k[2] => peer[j].st # "none"
    /\ peer' = [peer EXCEPT ![k].st = "open"]
    /\ Spend("conns") /\ Local

PeerSends(k) ==
    /\ Live(k) /\ peer[k].st = "open" /\ peer[k].sent < left.up
    /\ peer' = [peer EXCEPT ![k].sent = @ + 1,
                            ![k].unread = Append(@, Byte(k, peer[k].sent + 1))]
    /\ UNCHANGED left /\ Local

\* It has no more to send, but still reads; or it is gone.
PeerShuts(k) ==
    /\ Live(k) /\ peer[k].st = "open"
    /\ peer' = [peer EXCEPT ![k].st = "shut"]
    /\ UNCHANGED left /\ Local
PeerGoes(k) ==
    /\ Live(k) /\ peer[k].st \in {"open", "shut"} /\ Has("bad")
    /\ peer' = [peer EXCEPT ![k].st = "gone"]
    /\ Spend("bad") /\ Local

-----------------------------------------------------------------------------
(* The server *)

Msg(type, i, o, n) == [type |-> type, ch |-> i, own |-> o, n |-> n]
SvSends(o, type, n) == net' = Append(net, Msg(type, sv[o].slot, o, n))
Remote == UNCHANGED <<app, tun, chan, events, phase, todo, peer, hist>>
SvOpen(o) == Idle /\ sv[o].st = "open"
\* The shell is taken to end, or to show anything, in some workloads only.
MayEnd(o) == o = Shell => Has("quits")

SvAnswersOpen(o) ==
    /\ Idle /\ sv[o].st = "asked"
    /\ \/ SvSends(o, "OPEN_CONFIRM", 0) /\ sv' = [sv EXCEPT ![o].st = "open"]
       \/ SvSends(o, "OPEN_FAIL", 0) /\ sv' = [sv EXCEPT ![o].st = "refused"]
    /\ UNCHANGED left /\ Remote

SvData(o) ==
    /\ SvOpen(o) /\ ~sv[o].ended /\ MayEnd(o) /\ sv[o].sent < left.down
    /\ SvSends(o, "DATA", sv[o].sent + 1)
    /\ sv' = [sv EXCEPT ![o].sent = @ + 1]
    /\ UNCHANGED left /\ Remote

SvEof(o) ==
    /\ SvOpen(o) /\ ~sv[o].ended /\ MayEnd(o)
    /\ SvSends(o, "EOF", 0)
    /\ sv' = [sv EXCEPT ![o].ended = TRUE]
    /\ UNCHANGED left /\ Remote

\* It closes when it likes, and in answer to a CLOSE.
SvCloses(o) ==
    /\ SvOpen(o) /\ MayEnd(o)
    /\ SvSends(o, "CLOSE", 0)
    /\ sv' = [sv EXCEPT ![o].st = "closed"]
    /\ UNCHANGED left /\ Remote

\* It has read what it owes window for.
SvReads(o) ==
    /\ SvOpen(o) /\ sv[o].owes > 0
    /\ SvSends(o, "WINDOW_ADJ", sv[o].owes)
    /\ sv' = [sv EXCEPT ![o].owes = 0]
    /\ UNCHANGED left /\ Remote

SvReplies(o) ==
    /\ SvOpen(o) /\ sv[o].asked > 0
    /\ SvSends(o, "SUCCESS", 0) \/ SvSends(o, "FAILURE", 0)
    /\ sv' = [sv EXCEPT ![o].asked = @ - 1]
    /\ UNCHANGED left /\ Remote

\* An X11 client runs over there, once x11-req has been sent.
SvOpensX11(o) ==
    /\ Idle /\ o \in Displays /\ sv[o].st = "none" /\ app.x11_active /\ Has("x11")
    /\ \A j \in Displays : j[2] < o[2] => sv[j].st # "none"
    /\ net' = Append(net, Msg("X11_OPEN", 0, o, 0))
    /\ sv' = [sv EXCEPT ![o].st = "asked here"]
    /\ Spend("x11") /\ Remote

\* A request on a channel it has closed: it disconnects.
SvDisconnects ==
    /\ Idle /\ \E o \in Owners : sv[o].accused
    /\ net' = Append(net, Msg("DISCONNECT", 0, Shell, 0))
    /\ sv' = [o \in Owners |-> [sv[o] EXCEPT !.accused = FALSE, !.st = "gone"]]
    /\ UNCHANGED left /\ Remote

App == Receive \/ Handle \/ PumpBegins \/ (\E k \in Tunnels : Pump(k))
User == SendBytes \/ openFileBrowser \/ browserClosed \/ SftpJob \/ addForward
        \/ removeForward \/ Ends
Programs == \E k \in Tunnels : Connect(k) \/ PeerSends(k) \/ PeerShuts(k) \/ PeerGoes(k)
Server == \/ SvDisconnects
          \/ \E o \in Owners : \/ SvAnswersOpen(o) \/ SvData(o) \/ SvEof(o) \/ SvCloses(o)
                               \/ SvReads(o) \/ SvReplies(o) \/ SvOpensX11(o)
Next == App \/ User \/ Programs \/ Server
Spec == Init /\ [][Next]_vars

-----------------------------------------------------------------------------
(* Properties *)

Bytes == {<<o, n>> : o \in Owners, n \in 0..MaxBytes}
EventTypes == {"OPEN", "OPEN_FAILED", "DATA", "EOF", "CLOSE", "SUCCESS", "FAILURE", "X11_OPEN",
               "DISCONNECT"}

\* The fields are what SSHSession.h, PortForward.h and X11Tunnel.h declare them to be; the
\* loop handles events only while there are some, and pumps only tunnels that exist.
TypeOK ==
    /\ app.state \in {"active", "ended"}
    /\ app.channel \in 0..1 /\ app.sftpChannel \in 0..MaxSlots
    /\ app.browser \in {0, app.opened} /\ app.opened \in 0..MaxSftp
    /\ \A k \in Tunnels :
          /\ tun[k].st \in {"none", "tracked", "gone"}
          /\ tun[k].channel \in 0..MaxSlots
          /\ tun[k].outToLocal \in Seq(Bytes)
          /\ peer[k].st \in {"none", "open", "shut", "gone"}
    /\ \A i \in Slots : /\ chan[i].st \in {"FREE", "OPENING", "OPEN"} /\ chan[i].own \in Owners
                        /\ chan[i].win \in Nat /\ Len(chan[i].out) <= Backlog
    /\ events \in Seq([type : EventTypes, ch : 0..MaxSlots, own : Owners, byte : Bytes \cup {NoByte}])
    /\ phase \in {"recv", "handle", "pump"}
    /\ (phase = "handle") = (phase # "recv" /\ events # <<>>)
    /\ (phase = "pump") = (todo # {}) /\ todo \subseteq Tracked
    /\ hist.heard \subseteq Owners

\* The event that tells owner o its channel is no more is on its way to it.
Leaving(o) == \E n \in 1..Len(events) : events[n].own = o /\ events[n].type \in {"CLOSE", "OPEN_FAILED"}

\* An id kept by the application names its own channel until the event that ends it has
\* been taken, although the engine may have given the slot away (find_free_chan).
IdsCurrent ==
    LET Holds(o, i) == i # 0 => (\/ chan[i].st # "FREE" /\ chan[i].own = o
                                 \/ Leaving(o))
    IN  Active => /\ Holds(Shell, app.channel)
                  /\ Holds(<<"sftp", app.opened>>, app.sftpChannel)
                  /\ \A k \in Tracked : Holds(k, tun[k].channel)
\* No channel is left without an owner to close it: each belongs to the shell, to a
\* browser whose window is there and whose close will be heard, or to a tunnel, or is being
\* closed, or was of a rule the user removed (removeForward leaves those to the server).
\* One kind of channel has nobody: a browser's, opened while sftpClosing was left set by an
\* earlier browser, closed while its channel opened and then refused (hist.stale): at its
\* close closeSFTPChannel returns at once.
NoOrphans ==
    \A i \in Slots :
        LET o == chan[i].own IN
        (Active /\ chan[i].st # "FREE") =>
            \/ chan[i].close
            \/ o = Shell \/ o \in hist.removed
            \/ /\ o \in Browsers /\ o[2] = app.opened /\ app.sftpChannel = i
               /\ hist.stale \/ (app.browser # 0 /\ ~app.sftpClosing)
            \/ o \in Tunnels /\ tun[o].st = "tracked" /\ tun[o].channel = i
            \/ \E n \in 1..Len(events) : events[n].type = "X11_OPEN" /\ events[n].own = o
\* No socket is left open behind a tunnel that is no longer in a list (each removal
\* closes it; endWithMessage and stopListening close them all).
SocketsOwned == \A k \in Tunnels : tun[k].fd => tun[k].st = "tracked"
\* The application and the engine agree on whose each channel is (IdsCurrent), every
\* channel and every socket has someone to close it, but for a browser's channel under a
\* stale sftpClosing (NoOrphans); and the shell's switch, where CLOSE means the end of the
\* session, never sees an event of the file browser's channel nor of an X11 channel,
\* whatever order they come in.  (Of a forwarded connection's it does, see TunnelsApart.)
\* All along the fields are what they are declared to be (TypeOK).
OwnersAgree == TypeOK /\ IdsCurrent /\ NoOrphans /\ SocketsOwned /\ hist.heard \subseteq {Shell} \cup Conns

From(o, n) == [j \in 1..n |-> Byte(o, j)]
Own(o, bytes) == SelectSeq(bytes, LAMBDA b : b[1] = o)
\* The bytes of owner o among the events, and among the server's messages.
InEvents(o) == LET es == SelectSeq(events, LAMBDA e : e.own = o /\ e.type = "DATA")
               IN  [j \in 1..Len(es) |-> es[j].byte]
InNet(o) == LET ms == SelectSeq(net, LAMBDA m : m.own = o /\ m.type = "DATA")
            IN  [j \in 1..Len(ms) |-> Byte(o, ms[j].n)]

\* Downwards: what the server sent on a tunnel's channel is, in order and once, at the
\* program, in outToLocal, among the events or on its way, as long as there is a tunnel
\* and a program; and the terminal is shown the shell's bytes in order.
DownInOrder ==
    /\ \A k \in Tracked : peer[k].st # "gone" =>
          peer[k].got \o tun[k].outToLocal \o InEvents(k) \o InNet(k) = From(k, sv[k].sent)
    /\ Own(Shell, hist.shown) = From(Shell, Len(Own(Shell, hist.shown)))

\* Upwards: what a program, the SFTP engine or the keyboard produced is, in order and
\* once, at the server, in the channel's backlog, or not taken yet; and a channel's EOF
\* comes after all of it.  Only what a program sent while the backlog was full is missing
\* (peer[k].lost, see NeedsNoBuffer), which takes more than the backlog holds: pumpForwards
\* and pumpX11 pass over how much ssh_channel_write() took.  (Bytes of others may come between: a
\* slot freed and taken again in one chunk is written to under its old owner's number.)
UpInOrder ==
    LET Rest(o) == IF o = Shell THEN app.pendingIn
                   ELSE IF o \in Browsers THEN app.sftpOut ELSE peer[o].unread
        Sent(o) == IF o = Shell THEN hist.typed
                   ELSE IF o \in Browsers THEN hist.asked[o] ELSE peer[o].sent
        Lost(o) == IF o \in Tunnels THEN peer[o].lost ELSE {}
        Due(o) == SelectSeq(From(o, Sent(o)), LAMBDA b : b \notin Lost(o))
        Whole(o, i) == (i # 0 /\ chan[i].st # "FREE" /\ chan[i].own = o) =>
                           Own(o, sv[o].got \o chan[i].out) \o Rest(o) = Due(o)
    IN  /\ Active => /\ Whole(Shell, app.channel)
                     /\ app.sftpCore /\ ~app.sftpClosing =>
                           Whole(<<"sftp", app.opened>>, app.sftpChannel)
                     /\ \A k \in Tracked : peer[k].st # "gone" => Whole(k, tun[k].channel)
        /\ \A k \in Tunnels : sv[k].eof /\ peer[k].st # "gone" =>
              Own(k, sv[k].got) = Due(k)
        /\ \A k \in Tunnels : peer[k].lost # {} => peer[k].sent > Backlog

\* Each byte arrives where it belongs, once and in order, on either way, what a program sent
\* while its channel's backlog was full apart.
BytesInOrder == DownInOrder /\ UpInOrder

\* A close, once asked for, never waits for nothing: the channel's OPEN is unanswered, the
\* server has data to make room for or a CLOSE to answer, or one of these is on its way
\* (or the server has disconnected).
\* And a tunnel that waits for its channel to go has asked for that, or will be told.
ClosesProceed ==
    /\ \A i \in Slots :
          LET o == chan[i].own IN
          (Active /\ chan[i].st # "FREE" /\ chan[i].close) =>
              \/ sv[o].st \in {"asked", "gone"} \/ (sv[o].st = "open" /\ (sv[o].close \/ sv[o].owes > 0))
              \/ \E n \in 1..Len(net) : net[n].own = o
                    /\ net[n].type \in {"OPEN_CONFIRM", "OPEN_FAIL", "WINDOW_ADJ", "CLOSE"}
    /\ \A k \in Tracked : (Active /\ tun[k].closeRequested) =>
          LET c == chan[tun[k].channel] IN (c.own = k /\ c.close) \/ Leaving(k)

\* What the sources say of it, and the code does not do.

\* closeSFTPChannel asks the server to close the channel: once a browser's window is gone,
\* the close of its channel has been asked for (browserClosed, SSHSession.m).
ClosedBrowsersAsk ==
    LET c == chan[app.sftpChannel] IN
    (Active /\ app.browser = 0 /\ app.sftpChannel # 0)
        => c.st = "FREE" \/ c.own \notin Browsers \/ c.close

\* A tunnel stays in its list until the server's CLOSE, so that none of its events falls
\* through into the shell's switch (pumpX11 and handleX11Event; pumpForwards does not).
TunnelsApart == hist.heard \cap Tunnels = {}

\* A tunnel needs no buffer towards its channel, since the channel keeps one: when the EOF
\* gets to the server, so has all the program sent (PortForward.h, X11Tunnel.h; pumpForwards).
NeedsNoBuffer ==
    \A k \in Tunnels : sv[k].eof /\ peer[k].st # "gone" => Own(k, sv[k].got) = From(k, peer[k].sent)
=============================================================================
