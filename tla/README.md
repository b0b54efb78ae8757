# A TLA+ model of StepSSH

StepSSH (`src/`) is an SSH-2 client for OPENSTEP 4.2: a protocol engine in C without threads or
system calls (`src/core/`), a terminal emulator (`src/term/`), an application in Objective-C
(`src/app/`) and command line tools (`src/tools/`).  This directory holds TLA+ modules of its
protocol and event-handling logic, TLC configurations that check them on small instances, and
proofs, checked by TLAPS, that hold for every instance.

    tlc -workers 2 -config MCTransport.cfg MCTransport     # any of the runs below
    tlapm TransportProofs.tla                              # the proofs

`PROJECT.json` lists components, runs, the source lines each definition stands for, the hazards,
the findings and the theorems.


## 1. Inventory

Everything runs in one thread.  The concurrency is between the client, the server, the user, the
timer and the local programs at the ends of tunnels; the engine is driven by calls, and answers by
filling an output buffer and a queue of events.

| component | state it keeps | operations | talks to |
|---|---|---|---|
| transport, `core/ssh.c` | exchange state, keys and sequence numbers per direction, strict-kex and first-kex flags, messages deferred during an exchange, host key decision, closed | `ssh_start`, `ssh_input` (one packet at a time), `ssh_hostkey_accept`, `ssh_send_packet`, `ssh_send_ignore`, `ssh_disconnect` | server by packets; application by events; calls authentication and channels |
| authentication, `core/ssh_auth.c` | `auth_state`, the pending method, prompts | `ssh_auth_password`, `_publickey`, `_kbdint_start`, `_kbdint_respond`, dispatch | transport; application by events |
| channels, `core/ssh_chan.c` | a table of 32 channels: two windows, backlog, half-close flags, X11 setup buffer | open, request, write, eof, close, dispatch of 11 messages, flush | transport (deferral, kex lock); application by events |
| X11 setup, `core/x11.c` | none (pure) | rewrite of the first packet of an X client | channels |
| SFTP, `core/sftp.c` | pending requests, one record per transfer or listing | `sftp_input`, requests, transfers, listings, `sftp_abort` | application by callbacks from inside `sftp_input` |
| session, `app/SSHSession.m`, `PortForward.m`, `X11Tunnel.h` | which channel is whose: shell, file browser, tunnels; sockets; keyboard buffer | the timer's `tick` and `pump`, `processEvents`, forwards, X11 tunnels, closing | everything above; local sockets |
| file browser, `app/SFTPBrowser.m` | queue of jobs, busy, listing, dirty, cancelled walk | navigate, queue, run next job, folder transfers | SFTP, session |
| terminal, `term/vt.c` | parser state, two screens, cursor, margins, ring of scrollback lines, spans to redraw | `vt_write`, resize, key and mouse encoding | session, view |
| terminal view, `app/TerminalView.m` | scroll position, selection, frame timer, held ESC and its timer, mouse button held | keys, mouse, scrolling, drawing | terminal, session |
| known hosts, `core/knownhosts.c` | a text file | check, add | session |
| wire formats, `core/wire.c` | growing buffers | put, consume, read, base64 | all of core |
| random numbers, `core/rng.c` | pool, credit, counter, seed file | add, bytes, load and save seed | transport, keys |
| big integers and public keys, `core/bignum.c`, `ecc.c`, `rsa.c` | none between calls | arithmetic, curve points, ECDH, ECDSA, RSA | transport, authentication |
| key files, ciphers, hashes | none between calls | parse, encrypt, hash | transport, authentication |
| tools, `tools/*.c` | their own small event loops | `stepssh`, `stepscp`, `sshc`, `sftpc` | core |

Where it is hard, and what makes a component correct:

* **Transport.**  Each side may start an exchange while messages are under way; NEWKEYS changes
  keys, and with strict key exchange counters, per direction and at different moments; upper
  layers go on sending meanwhile; the user answers the host key question whenever he likes.
  Correct when both ends always agree on key and counter, nothing is sent inside an exchange that
  may not be, nothing is lost or reordered by the deferral, nothing of authentication precedes an
  accepted host key, and a conforming server is neither accused nor confused.
* **Channels.**  Flow control in both directions with data cut by three limits, EOF and CLOSE that
  must wait for the backlog, closes that cross, slots reused while messages and events of their
  former channel may be around, x11 channels whose first bytes are held back.
* **SFTP.**  Eight requests under way, answered in any order and partly; an end of file learnt in
  three ways; errors from either side; a cancel or a lost connection at any point; completion to
  be reported exactly once and only after the last answer.
* **Session.**  One switch routes events of many owners by a channel number; events are handled
  after the whole chunk has gone through the engine, so they may be stale; tunnels are forgotten on
  one side's word; sockets, buffers and channels must end together.
* **Login.**  Questions to the user between messages of the server, methods tried in turn over one
  request under way, files that several programs read and replace and that may be cut short.
  Correct when a host is judged by its own lines, what is typed is sent, every attempt ends, and a
  seed is never used twice.
* **File browser.**  Jobs that queue jobs, a cancel that only some callbacks look at, directories
  that change while they are read.  Correct when no job is forgotten, the window shows what is
  there, folders arrive whole, and nothing cancelled begins.
* **stepscp.**  A growing array of items read while it grows; many ways to end.  Correct when exit
  code 0 means that there is a copy.
* **Terminal.**  A long input-driven state machine.  Row buffers go round between two screens and a
  ring, through changes of width; a redraw trusts the spans that every operation marks; bytes come
  cut anywhere, and sequences broken off anywhere.  Correct when rows fit their width, the
  scrollback is what scrolled off, the main screen outlives full-screen programs, nothing outside a
  region moves, and a sequence means the same whatever came before it.
* **View.**  A position in a scrollback that moves, timers against the next key or the next bytes.
* **Big integers, keys, negotiation.**  Carries and estimates that are rare at 32 bits, points that
  meet at infinity, offers of two sides that share some names only.
* **Wire formats, key files.**  Boundary cases of pure code.

The list of hazards, each at its line with the property that would show it, is in `PROJECT.json`.


## 2. Plan

| order | module | of | state |
|---|---|---|---|
| A | `Transport`, `OrderedPipe` (abstract), two modules of proofs | `core/ssh.c` | done; every safety property and the refinement proved |
| B | `Channels` over `Sums`, proofs | `core/ssh_chan.c` | done; every safety property proved |
| C | `SftpTransfer`, proofs | `core/sftp.c`, transfers | done; every safety property proved |
| D | `Session` (composes the application with an engine reduced to what `Channels` shows), proofs | `app/SSHSession.m` | done for safety; `OwnersAgree` proved |
| E | `Vt`, `VtParser` | `term/vt.c` | done, model-checked |
| F | `TerminalView`, over `Vt` | `app/TerminalView.m` | done but for keys and mouse reports, model-checked |
| G | `SftpBrowser` over `Trees`, with listings | `app/SFTPBrowser.m`, rest of `core/sftp.c` | done, model-checked |
| H | `Login` over `KnownHosts` and `Seed` | `core/ssh_auth.c`, `knownhosts.c`, `rng.c`, the login of `SSHSession.m` and the tools | done; `SeedFresh` and `NothingTypedInVain` proved |
| I | `Bignum`, `PublicKey`, `Negotiate`, together in `Calls` | `core/bignum.c`, `ecc.c`, `rsa.c`, `ssh.c` | done, model-checked |
| J | `StepScp` over `Trees` | `tools/stepscp.c` | done, model-checked |
| K | proofs | | see below |

Abstract specifications: `OrderedPipe`, which `Transport` implements (checked, its safety proved); a file tree copied
to another, for `SftpBrowser` and `StepScp` (in `FoldersWhole` and `ZeroIsACopy`); the numbers,
group laws and RFC 4253's choice of names that `Calls` compares results with.

Theorems still to prove, in order: `BytesInOrder` and `ClosesProceed` for `Session`; `CancelHolds` for `SftpBrowser`;
the type invariants of `VtParser` and `Vt`.  The modules are written
for it: no RECURSIVE operator, one action per operation, constants with named assumptions.


## 3. The modules

In every module an action is one call into the code, with all the calls that call makes; the
order of effects inside it is the code's.  Operators and variables carry the source's names.
Operators with a comment that calls them a mutant or a bug are used nowhere: each is a plausible
mistake in the definition it precedes, and the property named for it in `PROJECT.json` fails when
that definition is replaced by it.

### Transport (`core/ssh.c`), MCTransport, OrderedPipe

`struct ssh_session` becomes the first group of variables; `submitted`, `dispatched` and `misc`
count messages, `hostkey_event` and `err` stand for the events the application sees.  `c2s` and
`s2c` are the two directions of the TCP connection.  Actions: `ssh_start`, `ssh_hostkey_accept`,
`Submit` (any upper layer through `ssh_send_packet`), `ssh_send_ignore`, `ssh_disconnect`,
`read_version`, and for `ssh_input` one action per kind of packet with the checks of
`read_packet` and `dispatch` as `Refusals` and `Rejections`.

A set of keys is the number of the exchange that derived it, and a packet opens if it was sealed
under the receiver's key and sequence number.  So a packet under wrong keys, or one off in the
counter, is a failed MAC, as in the program.

One packet per step loses nothing, since the application runs only between two chunks and chunks
may be single packets.  A chunk of several packets is then a sequence of steps between which the
application does nothing.

The server is an environment that keeps RFC 4253: it starts the first exchange and re-exchanges at
any moment, with strict key exchange or not, group exchange or not, a guessed packet or not
(always a wrong guess: the other kind needs no reaction), is quiet while it does, may name
`kex-strict` differently in later KEXINITs, sends IGNOREs, unknown messages and DISCONNECT.  It
sends a guessed packet, IGNORE or DISCONNECT in the first exchange only if that exchange is not
strict, because `ssh.c:1220` ends the session on any of them and the strict-kex extension allows
it to.

Not modelled: the client never starts a re-exchange (no code for it exists), sequence numbers are
not taken modulo 2^32 (both ends wrap alike), memory exhaustion, the bytes of packets, which
algorithms are chosen (`Negotiate` is about that).  Authentication is reduced to the service
request, its acceptance, and messages that upper layers send afterwards (`Login` has the rest).

`OrderedPipe` numbers messages as they are accepted and keeps the set of numbers under way; it delivers
the next one after the last delivered, until it is cut, and a cut takes the last messages only.
`Transport` reads as a pipe like this: accepted are the messages submitted, under way those on the
wire or deferred, delivered those the server has got, and the cut is the close of the session.  That
the messages on the wire and in the queue are in order is therefore a thing to show, not the shape
of the abstract state.

### Channels (`core/ssh_chan.c`), MCChannels, Sums

`chan` is the table; three fields of it (`written`, `surfaced`, `rejected`) are history.  Below is
the transport as Transport shows it to be: two ordered pipes, the outgoing one held back between
our KEXINIT and our NEWKEYS (`locked`, `deferred`).  `ssh_input` takes one message, `InputEnds` is
the flush of all channels at the end of a chunk, and the application's operations are enabled
between two chunks only.  Data is counted in units.

`UpUnits` and `DownUnits` are the units of a kind and a channel under way in a queue: totals of what
each message counts, by the one recursive function of `Sums`.

The server labels each channel it takes part in with a number of its own, never used again, so
that the properties can tell a message of one incarnation of a slot from another's; the client
does not compare them.  It sends within the window it has, tops up the client's window by any
amount, closes, half-closes and requests at any time, opens x11 channels whose clients know or do
not know the cookie, in setups of any pieces.

`eof_recv` is left out because nothing reads it, and `chan_flush`'s own release of a channel
(`ssh_chan.c:71`) is kept although no run reaches it: the dispatch of CLOSE releases first.
The application takes all pending events before it opens a channel, and a chunk follows only when
the events of the last have been taken: that is how `pump` calls `processEvents`.  What happens
to events that are taken late is Session's subject.

### SftpTransfer (`core/sftp.c`)

One transfer over a server that answers requests in any order: `x` is `struct sftp_xfer`, `pend`
the engine's list, `in` the answers in flight.  `Work` records carry the effect of the nested
calls (`xf_pump`, `xf_check_finished`) through a handler.  Unit k of the file is the number k, so a
misplaced block is seen.  Reads are answered with data as short as the server likes, EOF, or an
error; hints may be right, too small, too large or missing.  `failed` is the engine's, after an
answer that does not parse; `sftp_abort` the loss of the connection.

Two of the code's own exceptions stand in the properties.  `FinishedIsOver` does not speak of a
transfer cancelled before its OPEN is answered, and `Finishes` lets a transfer wait whose request an
answer that did not parse has taken off the list (`forgotten`): see the end of section 4.

### Session (`app/SSHSession.m`, `PortForward.m`, `X11Tunnel.h`), MCSession

A logged-in window.  `app` has the object's fields, `tun` the PortTunnels and X11Tunnels, `chan`
and `events` the engine as far as it matters here.  The loop has phases: `Receive` takes a chunk of
any length through the engine (`ssh_input`) without the application doing anything; `Handle` takes
one event and does what `processEvents` and the handler it routes to do, with every call they make;
`PumpBegins` and `Pump` are the sends and receives of each tunnel in the second half of the tick.
The user types, opens and closes file browsers, adds and removes rules, closes the window; programs
connect, send, stop sending, go away.

All others act between two ticks only (`Idle`).  That hides no behaviour: a message put on the net,
a byte put into a socket or a key pressed during a tick has the effect it would have just after
it, or just before it, because the tick reads each of these at most once after which it does not
look at them again; and a dialog, the one place where the program waits inside a tick, is modal: it
takes no input for other windows and stops the timer.  The server gets what is flushed at once; it may take any time to act on it.

Restrictions: one forwarding rule at a time (rules differ only in their list), sockets can always
be created.  In two workloads a program sends more than the backlog holds: what a partial
`ssh_channel_write` leaves behind is noted in `peer[k].lost`.

The exceptions in the properties are the code's own: connections of removed rules are left to the
server, and a browser's channel opened while an earlier browser's `sftpClosing` was left set
(`hist.stale`) is closed by nobody (both in `NoOrphans`, a part of `OwnersAgree`); events of
forwarded connections do reach the shell's switch (the last part of `OwnersAgree`); what a full
backlog lost does not arrive (`BytesInOrder`); the last three are findings of section 4.  And a
stranger's bytes are not
looked at by `UpInOrder`, a part of `BytesInOrder`, because they do occur: when the SUCCESS and the CLOSE of the SFTP channel and the OPEN of an x11 channel come
in one chunk, the SFTP engine's first bytes are written to the X11 client, whose channel has taken
the slot.  `ClosesProceed` states in every state what a close waits for:
fairness with twelve workloads is beyond TLC, so Session has no liveness property.

### Vt (`term/vt.c`), MCVt

`t` is the `struct vt`.  Each operation of the terminal is a function from one such record to the
next, under the name it has in the code (`sb_push`, `scroll_up`, `place_cp`, `erase_display`,
`restore_cursor`, `vt_resize`, ...), and an action for each control and each sequence that calls
them with the parameters the host may give.  The resize, the view's taking of the spans
(`vt_clear_dirty`) and of the replies are actions as well; they come between any two operations, and
so between any two writes.  The ring is an array with a head and a count as in the code, and each line
in it a row buffer with a width noted beside it, so that a buffer that comes back with a wrong width,
or a width read for a wrong slot, shows; `live` counts the buffers allocated.

A cell is a character and its background: the rest of the pen goes with the character and is read by
nothing here.  Wide numbers (parameters up to 100000) are cut to `Most`, the largest that differs on
screens this small.  `malloc` never fails: with the ring full, a failure at line 109 would make a null
row, and the model has nothing to say of it.

Two things the code does are in the model as they are, and the properties allow them: a shrinking
window cuts the rows of the main screen below it while the alternate one is up (`OnlyTheRegion`), and
REP pushes lines it filled itself (`ScrollbackKept`).

### TerminalView (`app/TerminalView.m`), over Vt, in MCVt

The view extends `Vt`: its `term` is `t`.  `view` has the ivars `scrollBack`, `pendingFlush`, the
selection and `lastCx`, `lastCy`, and what AppKit keeps for it: the cells to be drawn (`invalid`) and
what is painted (`shown`).  A write is the steps `StartWrite`, one `Receive` per operation of the host,
which is any action of `Vt` that `vt_write` calls, and `EndWrite`, which does the rest of `writeBytes:`;
while it is under way nothing else happens, as in the code.  Whether a frame interval is over (`due`) is
left open: if it is not, the view's timer flushes later.  `Display` is `drawRect:` for all that is
invalid, at any moment between two calls, and so also between a write and its flush.  AppKit may draw
more than it was handed; the model draws exactly that, which is the hardest for the view.  Then there is
scrolling (`ScrollTo` is each of `scrollByLines:` and `scrollerMoved:`), a key or a paste, which go to
the bottom, mouse presses, words, lines and drags, Select All, Clear Scrollback, and the window's size.

`ShowsTheTerminal` says that the window shows the terminal when nothing waits to be flushed or drawn;
`ReadingStays` that what is read and selected in the scrollback stays through a write.  Both allow for
what the code gets wrong (section 4, *View*): the history variables `ghosts`, `pulled` and `lost` say
where.  A highlight that is left painted after the selection is dropped without a redraw (`keyDown:` at
the bottom, `writeBytes:`) is not spoken of: only that what is selected is shown as selected.

### VtParser (`term/vt.c`: `vt_write` and what it calls first), MCVtParser

From bytes to operations.  Bytes are named by what the parser tells apart; `Parse` is one turn of the
loop of `vt_write`, and as a byte is a step, a write is any number of steps.  What the parser calls
on the screen is logged in `acts`.  The host's sequences are generated with what they mean apart from
the parser (`Csi`, `Title`, `Within`, ...); in between the host breaks off anywhere, by CAN, or by a
byte that belongs to nothing and then CAN.  Of the bytes each state treats alike one or two stand for
all: `(` and `%` for the intermediates, where `)` and `#` do other things to the screen than `(` but
the same to the parser; `P` for the four strings nobody reads.


### SftpBrowser (`app/SFTPBrowser.m`, listings and requests of `core/sftp.c`), MCSftpBrowser, Trees

`b` is the window's object together with the engine's pending requests and the local files;
`remote` is the server's tree.  A path is the sequence of its names, a tree a function from paths to
kinds (`Trees`).  Each method of the browser is an operator from one `b` to the next (`navigate`,
`runNextJob`, `stepDone`, `WalkOn`, `listFinished`, `finishTransfer`), so that the calls they make of
one another, of themselves included, are part of the step that makes them.  `Answer` and `AnswerNames` are the server carrying out
a request and the callback of its answer, in any order of the requests; `Malformed`, `sessionEnded`
and `windowWillClose` end the engine through `sftp_abort`, which tells every request; `cancelTransfer`
and the buttons are the user's.  A directory comes in any number of READDIR answers.

Answering in one step hides nothing: until the answer the only other actor is the user, whose buttons
add requests, and the engine does not look at the server's files.  A file transfer is one request
after its OPEN: `SftpTransfer` has its inside.  Panels are modal.

History variables inside `b` name what the properties except: what was read while something changed
or while two navigations ran (they share `wanted`), a folder whose own MKDIR failed (`unmade`), and
folder transfers dropped by an earlier cancel (`dropped`), of which there are no more than cancels
that met a plain step (`plain`).  `asked` are the folder transfers asked for and neither failed nor
cancelled, each with the tree it was to copy.

### Login (`core/ssh_auth.c`, the login in `SSHSession.m`, `stepssh.c`, `stepscp.c`), KnownHosts, Seed, MCLogin

`s` is the session from `connect` to AUTH_OK, with the engine's `auth_pending`, the host key decision
and the events not yet handled; `hosts` the known_hosts file; `proc` and `seed` the programs that
share a seed file.  `ssh_input` takes any prefix of what has arrived through the engine before any
event of it is handled, as `pump` does.  `handleHostKey` includes the check of the file, the user's
answer, and the new line with what its write may leave; `handleAuth` the choice of a method by what
was tried before, for the application (three passwords, three interactive attempts), `stepssh` (one
of each) and `stepscp` (one password).

`ssh_input` reads one message a step, while `reading`: nothing else of the program happens between the
messages of a chunk, as in the code.  `s.vain` is history: something typed was not sent, because a
request was already under way or the server had gone on.  It leaves out what is tried after the
server has closed the connection (a refusal and a DISCONNECT in one chunk are handled in turn, with
the next question in between), and a key that cannot sign, for which nothing is asked.

`KnownHosts` gives patterns as sequences of characters, negated or hashed, and the verdict as a fold
over the file's lines; MCLogin compares `glob_match` with the definition of a glob over every pattern
and name of three characters, and asks that names with ports differ from those without.  `Seed` is a
module of its own: a program loads, credits and replaces the seed in separate steps, the open that
empties the file and the write that fills it apart, and may be killed between any two of them, while
another program does the same.  `SeedFresh` is about what the file holds; that a seed is credited
once (`SeedOnce`) fails where two programs load it before either has replaced it, see the findings.

`handleKbdInt` and `ssh_auth_kbdint_respond` are not in the model because they are never reached:
see the finding.

### StepScp (`tools/stepscp.c`), MCStepScp

The program `c` with its item array, the request under way, the events of one read, its exit code and
the local files.  The server answers the request, fails it, sends something that does not parse,
closes the channel or disconnects.  The array of items is reallocated while the entry being listed
is read through a pointer into its former block (lines 101, 117, 125): what is read then is
undefined, so the outcome is any of the right names, garbage, or a dead program, and `c.freed` says
so.  The exceptions in `ZeroIsACopy` and `Ends` are the code's (`cut`, `freed`, `unheard`): see the
end of section 4.

### Calls over Bignum, PublicKey and Negotiate, MCCalls

Functions that keep nothing between calls; a behaviour is one call, and the properties compare its
result with a definition.  `Bignum` is `bignum.c` limb by limb: carries, borrows, Knuth's division
with its two corrections, Montgomery's product with its last subtraction, the window of the
exponentiation, and the two encodings as bytes; the width of a limb is a parameter, and bytes of
two bits with limbs of two bytes make every rare carry happen.  `PublicKey` is the curve arithmetic of
`ecc.c` in Jacobian coordinates with the case distinctions of `jp_double` and `jp_madd`, ECDSA with
its retries, ECDH with the check that a point is on the curve, and RSA by the Chinese remainder
theorem with the check that a signature is released only if it verifies; over numbers, since Bignum
is about limbs.  `Negotiate` is what KEXINIT offers and what `handle_kexinit` settles.


## 4. The runs

Twelve runs: eleven pass, one shows a finding.  Each checks with deadlock checking off, as all these
systems really may stop: the user leaves, the server disconnects, the program ends, and the bounds are used up.

| run | instance | shows |
|---|---|---|
| `transport` | 2 exchanges, 3 messages up, 1 down, 1 keep-alive or unknown message | keys and counters agree; nothing leaves early; no false alarm on either side; it implements `OrderedPipe` with its liveness; every exchange ends, and authentication starts |
| `channels` | eight workloads, window 3, server's window 2, packet 1, setup of 2 units, 1 or 2 slots | nobody is accused, nothing lost or held back, every message reaches its channel |
| `channels_live` | one channel, 2 units up, 1 down, one re-exchange | a close that is asked for finishes, after what was written |
| `sftp_transfer` | 5 units in blocks of 2, 2 under way, hints 0, 4, 5, 6, one failure, malformed answers | transfers are right, over when they say so, and end |
| `session` | twelve workloads over 1 to 3 slots, a backlog of 2 against programs that send 3 | channels, sockets and owners agree; bytes arrive in order; a close never waits for nothing |
| `vt` | twenty-three workloads on screens of 1 to 4 columns and 1 to 3 rows, a ring of 2 lines, parameters up to 2; seven of them with the view, in writes of 1 or 2 operations | what changes is marked; the scrollback is what left the screen; an operation moves its region only; the window shows the terminal; what is read stays |
| `vt_parser` | 38 sequences, two in a row, the first broken off anywhere; 3 parameters, a title of 3 bytes in a buffer of 6 | a sequence means what it means, whatever came before; the buffers hold; text comes back |
| `browser` | nine worlds: trees of up to six entries and three levels, a link among them; up to two actions of a kind; one failure or malformed answer | no job is forgotten, the window shows the server, folders arrive whole, nothing cancelled begins, all comes to rest |
| `login` | seven worlds of client, key, known_hosts, server, seed; up to three starts of two programs, two connections, two questions, one file that cannot be written | a spent seed does not stay in its file, hosts are judged by their lines, what is typed is sent, a login ends |
| `stepscp` | seventeen worlds in both directions, onto nothing, a folder or a file; an array of 2 items, paths of 3 names, two failures | exit code 0 means a copy; every run ends |
| `calls` | limbs of 4 bits, numbers of up to 4; three curves of 5, 11 and 19 points; five RSA keys; 4608 offers against four preferences | results are what they are defined to be |
| `login_kbdint` | that of `login` | finding: the server's question is never put |

The largest passing runs have 567,324 (`session`), 570,029 (`vt`), 256,388 (`login`), 123,799 (`browser`) and
55,569 (`calls`) distinct states.

Why the bounds are enough.  *Transport*: the flags distinguish the first exchange from all others
and no two later ones, so two show every transition; the first message goes
out before there can be a re-exchange, and two deferred behind it tell an order.  *Channels*: the three limits that cut
data (backlog, window, packet) differ and each is the least in some state; a window of 3 is
adjusted at half, once above and once below; two incarnations of a slot are enough for one to be
mistaken for the other.  Workloads are used instead of one large instance since properties concern
at most two channels and one or two of the features (data, closing, reuse, X11, requests, exchanges)
at a time.  *SftpTransfer*: five units are two whole blocks and a short one; two requests under way
overtake each other; a hint may be on either side of the size, on a block boundary or off it.
*Session*: two tunnels, browsers or kinds of owner over a table that is just too small give every
reuse of a slot; chunks are of any length; three bytes against a backlog of two is the least that is
cut.  *Vt*: the code compares columns with 0, the last and
the cursor, rows with the region's ends, lines with the ring's size; two columns or rows, three where
something must lie outside a region or behind an insertion, and a ring of two make all of these
differ.  Each workload is explored to its end, with no bound on the number of operations.
*TerminalView*: a span is a column wider on each side than what changed, so three columns are the fewest on
which a redraw of a part differs from one of all; a ring of two is full, and read above its newest
line; a write of two operations can add lines and lose them.
*VtParser*: what one sequence can leave behind for the next is a part of the parser's state that
the sequence or its first bytes fixed, so two in a row show it; every state of the parser is broken
off.  *SftpBrowser*: a folder in a folder is walked by a job that a job queued; two files or two jobs
tell an order and leave one behind a cancel; one failure at any place suffices, since a failure
clears the queue.  *Login*: the methods' counters go to their ends (two questions and refusals
without limit); two programs race over the seed, the third start finds what they left.
*StepScp*: an array of two doubles twice in a tree of six; a path of three names is one too short for
the deepest.  *Calls*: limbs are at their boundaries (0, 1, half, all ones), up to four of them by
three; curves have points that are their own limits (x of 0, x beyond n); `login_kbdint` and
`login` are explored in full.

Bounds on environment actions appear as guards (`MaxKex`, `left.*`, `MaxErrors`, `MaxRounds`,
`MaxFaults`), and none bounds the client's own actions, `ssh_send_ignore`, `Submit`, `beginConnect`
and the calls in `left` excepted.

### Findings

`login_kbdint` is a run in which TLC finds a property violated that states what a line of the
repository says.  Seven more configurations show one such violation each, on the instance of the run
of their module (`tlc -config SessionStale.cfg MCSession`); the properties of the passing runs name
these cases as their exceptions.

* `login_kbdint` (`KbdintGoesOn`): keyboard-interactive never gets anywhere, because `auth_pending`
  keeps 15 characters of the method's name and `ssh_auth_dispatch` compares them with all 20.
* `TransportRekey.cfg` (`AuthWaits`): `ssh_send_packet` says that authentication waits for an
  exchange in flight (`ssh.c:443`).  The service request does not: its number is 5, and only numbers
  from 50 on are deferred (`ssh.c:449`), so it leaves between KEXINIT and NEWKEYS when the user
  accepts the host key during a re-exchange, and the server may end the connection.  Therefore
  `QuietDuringKex` speaks of messages of the upper layers only, and `NoFalseAlarm` excepts this one
  (`SvOffended`).
* `SessionStale.cfg` (`ClosedBrowsersAsk`): a file browser closed while its channel opens, and
  refused, leaves `sftpClosing` set (`SSHSession.m:731`): the next browser never works, and its
  channel is never closed.  Excepted in `OwnersAgree` by `hist.stale`, in `BytesInOrder` by
  `~app.sftpClosing`.
* `SessionForward.cfg` (`TunnelsApart`): a `-L` connection that ends normally is forgotten before
  the server's CLOSE comes (`SSHSession.m:901`), which is then taken for the shell's and ends the
  session: what `SSHSession.m:1012`-`1019` and `README.md:65` of the repository say a tunnel must
  not do.  Excepted in `OwnersAgree` by `\cup Conns`.
* `SessionBacklog.cfg` (`NeedsNoBuffer`): what does not fit into a channel's backlog is dropped
  (`SSHSession.m:891`, `:1112`), where `PortForward.h:6` and `X11Tunnel.h:10` say that the channel's
  buffer is enough.  Excepted in `BytesInOrder` by `peer[k].lost`.
* `BrowserCancel.cfg` (`CancelSparesFolders`): Cancel during a mkdir, rm or mv sets `walkCancelled`
  (`SFTPBrowser.m:617`), which only a folder transfer resets: the next one's first reply is thrown
  away, against `SFTPBrowser.h:39`. Excepted in `FoldersWhole` by `dropped`.
* `LoginSeed.cfg` (`SeedOnce`): two programs that start together load the same seed before either
  has replaced it (`rng.c:113`, `:116`), and both are credited with it, against `rng.c:115`.
* `CallsCompression.cfg` (`CompressionSettled`): the server's compression list for its own direction
  is not looked at (`ssh.c:907`), against `README.md:24` and RFC 4253, 7.1.  Excepted in
  `OffersAgree`.

Further disagreements were met, and stand in the models as the code's behaviour; where a property
would say otherwise, it names the exception.

* A transfer cancelled before its OPEN is answered is reported as over, and may be freed
  (`sftp.h:120`), while the OPEN's callback still refers to it; the handle the server opens is never
  closed (`sftp.c:708`).  Excepted in `FinishedIsOver`.
* An answer whose body does not parse has its request taken off the list first (`sftp.c:265`, `:297`,
  `:301`), so that nothing ever completes it, not even `sftp_abort`, against `sftp.h:6` and `:82`.
  Excepted in `FinishedIsOver` and `Finishes` by `forgotten`.
* stepscp exits with 0 though nothing was copied when the server closes the connection
  (`stepscp.c:357`) or the channel (`:337`), a write fails (`:347`), or no password is given (`:323`).
  Excepted in `ZeroIsACopy` by `cut`.

Seen while modelling, where no line of the repository speaks against it:

* *Transport.*  The server's guess is compared with the algorithm settled on, where RFC 4253, 7.1
  compares the first names of both lists (`ssh.c:911`).
* *Channels, Session.*  Bytes behind a rejected X11 setup are handed to the application
  (`ssh_chan.c:254`).  The SFTP engine's bytes that go to another channel (above, under Session).  A
  request, or the answer to one, may follow the client's own CLOSE: `req_begin` (`ssh_chan.c:369`) looks
  at the state only, which is open until the server's CLOSE.  The application does it: a browser closed
  while its channel opens has the CLOSE sent at the confirmation, and the handler of the event then asks
  for the subsystem (`SSHSession.m:728`).  Excepted in `NeverAccused` by `Late`.
* *Terminal.*  The wrap that is pending in a saved cursor survives the resize that moves it to column
  0 (`vt.c:887`).  A byte 0x9c inside a UTF-8 title ends it (`vt.c:737`).  The digits of parameters after
  the sixteenth are appended to it (`vt.c:723`).  The number of an OSC string is summed up without a
  limit (`vt.c:622`).  A cursor position report may lose its end when the reply buffer is full
  (`vt.c:590`).
* *View.*  Each of these is a counterexample of `ShowsTheTerminal` or `ReadingStays` without its exception.
  A flush hands AppKit the cell the cursor was in at the last flush and the one it is in
  (`TerminalView.m:193`); when the window is drawn between a write and its flush, under the frame cap,
  the cursor is painted in a third, and stays there after it has moved on.  `scrollBack += sb1 - sb0`
  is 0 or negative after an ED 3 received while the user reads in the scrollback (`TerminalView.m:280`;
  `clear` sends one): the old lines stay painted where nothing was marked, and a negative position
  shows the screen from its second or a later row on, with blanks below, until a key is typed.  With
  the ring full the count of lines stays while they shift: what the user reads moves, against the
  comment at line 279, and the selection is kept (line 277) and is other text when it is copied.
* *Login.*  The result of writing known_hosts is ignored: a line cut in its key decodes to a shorter
  key, and the next connection is told that the host's key has changed.  A seed whose replacement
  fails to open is used again (`rng.c:113`).  A chosen key that cannot sign leaves the login waiting
  (excepted in `LoginEnds`).  The text of a password change request is read as the list of methods.
* *stepscp.*  The item array under a listing (above).  SSH_EV_CHAN_OPEN_FAILED is ignored, and the
  program waits for ever (excepted in `Ends`).  The results of mkdir are ignored; a size that could
  not be had is 0.  A failed download leaves half a file.  Links are followed on the way up and left
  out on the way down.
* *Browser.*  A folder without files whose MKDIR failed is not told, against what the comment in
  `runNextJob` counts on (excepted in `FoldersWhole`).  The end of a cancelled transfer empties the
  queue once more, and with it what was queued since the cancel (`finishTransfer`).


## 5. Fairness

*Transport*: weak fairness of the client's reading (`tick` calls `pump` at every tick, which reads
until nothing is left), of the server's reading and of finishing the exchanges it began.  None for
the user, re-exchanges, messages or disconnects: these may never happen.
*Channels*: the same for `ssh_input`, the flush that ends a chunk, the taking of events, and the
server's reading and replies; it opens the window when it is used up and answers a CLOSE.  Without
the two latter a close may wait for ever behind a full backlog, in the program too.
*SftpTransfer*: the server answers, answers arrive, and the application aborts an engine that has
failed (`handleSFTPEvent` closes the channel then, and aborts the engine at the channel's CLOSE).
*OrderedPipe*: what is under way is delivered unless the pipe is cut.
*SftpBrowser*: the server answers some request as long as there is one; the callbacks are part of the
answer.  None for the user.
*Login*: the timer reads what has arrived (`ssh_input`) and handles the events (`processEvents`, the
user's answer to a modal panel included, since nothing else runs meanwhile), and the server answers
(`SvAnswers`).  `LoginEnds` needs no fairness of disconnects or of the user's leaving.
*StepScp*: the program's own steps (it is a loop over `select`), and the server's answers.


## 6. The proofs

All theorems hold for every value of the constants, so for any number of exchanges, messages, slots,
channels, connections and starts.  Those about `Transport` assume `TransportAssumption` (the bounds are
natural numbers, the first two of them positive), those about `Channels` `ChannelsAssumption` (sizes
are natural numbers, a packet and a window hold at least a unit), those about `SftpTransfer`
`TransferAssumption` (the same for a block, its window and the file), those about `Session` `SessionAssumption`
(limits are positive natural numbers, and each workload keeps within them), those about `Login`
`LoginAssumption` and `SeedAssumption` (the first seeds are unspent files, one of the programs is the
application).  Every invariant below was first found invariant by TLC on the instance of the run of
its module.

`TransportProofs`: `TypeCorrect == Spec => []TypeOK`.  By action; lemmas say what the wire is after
`SendNow` and `SvSend`, and which field of the server's record each of its steps replaces.

In the same module: `SealInvariant == Spec => []SealInv`, and from it `SealsAlwaysAgree` (the
property `SealsAgree` of the run) and `NoFailedMac`: no step the client takes on a received packet
finds its MAC wrong.

`SealsAgree` speaks of the next packet only, and is not inductive: whether the one behind it opens
depends on everything on the wire and on both sides' keys.  `SealInv` strengthens it to

* `Chain`, for each direction: the packets on the wire lead, each following from the one before by
  `NextKey` and `NextSeq`, from the receiver's key and counter to the sender's.  Taking the first
  packet moves the receiver's end along (`ChainRecv`), sending moves the sender's (`ChainSend`),
  so each action has only to show that it does one or the other with the right key;
* `ClientKeys` and `ServerKeys`: how far a side's two directions may be apart in each state of the
  exchange, and `ReplyKeys`: a reply announces the next key, so the client derives the key the
  server will use;
* `StrictAgrees`: both sides have the same idea of strict key exchange once either resets a
  counter, whatever later KEXINITs say: that is why `ssh.c:869` looks at the first only;
* `OnlyUpWaits`: flushing deferred messages sends no NEWKEYS, so the chain runs on under one key;
* `GuessFollows`: the packet dropped after a wrong guess is that guess, so that dropping it skips no
  NEWKEYS.

The proof has one lemma per group of actions (`SealApp`, `SealRecv`, `SealReply`, `SealNewKeys`, `SealServer`, `SealSvRecv`).

And `NothingEverEarly == Spec => []NothingEarly`.  Why nothing leaves early is more
than `NothingEarly` says: that a message is sealed under a key later than a KEXINIT's on the wire
follows, when the message is sent, only from how the client's key and its state are related to
everything under way.  `EarlyInv` adds

* `KeysBelow`: no packet on the wire is sealed under a key later than the client's own;
* `FreeAfterNewKeys`: when the client is free to send messages of the upper layers, the keys of
  every KEXINIT still on the wire, and of the one the server has read and not yet followed, are past;
* `FlagsFit`: while NEWKEYS is awaited, the client's own is out.

`SealInv` is used for one thing: the packet the server reads next is sealed under the key the server
holds, so that the server's end moves along with the wire.  `WireSend` and `WireUp` say what sending
packets of its own, and flushing those of the upper layers, make of the wire; `SendsWhat` and
`ReplyEffect` which packets an operation sends; and one lemma for each group of actions
(`EarlyTalk`, `EarlyApp`, `EarlyRecv`, `EarlyNewKeys`, `EarlyReply`, `EarlyServer`, ...) uses them.

`TransportHandshakeProofs`: `NeverFalselyAccused == Spec => []NoFalseAlarm`, and `NothingRefused`: no step
of the client refuses a packet of a server that follows the protocol.  What the client sends is what
the server can take, but for the service request inside a re-exchange (`SvOffended`).  `NoFalseAlarm` is about errors
that have been raised; that the next packet raises none depends on where both ends of an exchange are and
on every key exchange message between them.  `HandshakeInv` adds

* `Handshake`: a table of the joint states an exchange can be in, each with the client's state, the
  exchange messages under way in each direction (`KexOn`) and the server's state, by its method;
* `MethodAgrees`: both ends mean the same kind of exchange;
* `FirstPackets`, `FirstThingsFirst`: the server begins with KEXINIT, under strict key exchange nothing
  else precedes its NEWKEYS, and authentication begins after the first exchange.

`KexFirst`, `KexConcat` and `KexTail` say what sending and reading make of `KexOn`; a lemma per handler
moves the table from one row to the next (`HandshakeKexInit`, `HandshakeGroup`, `HandshakeReply`,
`HandshakeNewKeys`, `HandshakeSvKexInit`, `HandshakeSvNewKeys`, `HandshakeSvAnswers`); every other step
leaves its row alone (`HandshakeTalk`, `HandshakeSvTalk`, `HandshakeSvSilent`).  `SealInv` is used for
the keys of what is read.

In the same module, `PipeImplemented == Spec => ImplementsPipe`, the refinement of `OrderedPipe` without
its liveness.  `PipeInv` says that the messages on the wire, and then the deferred ones, are numbered
one after the other from the last the server got to the last submitted, and likewise the other way.
That a flush leaves this so needs `WaitsForNewKeys`, and that nothing read is dropped needs the
three invariants above.  `OrderConcat` and `OrderTail` are the facts about order.  Then `StepShape`
says that every step of the transport accepts, delivers, cuts or stays, and `PipeSteps` that each of these
is a step of the pipe or a stutter under the mapping.

`SumProofs`: what a sum over messages is.  The prover cannot instantiate the library's induction theorems,
which take an operator.  But a recursive function is within reach, by induction over a set: the finite
subsets of a range are well founded, so a set of numbers has a least element (`Least`), and a set with 0
and every successor is all of them (`InductTo`).  From that: `Total` is defined by its recursion for
every sequence, is 0 for none, adds up over concatenation (`TotalConcat`), is a natural number and no less
than each of its terms; and `FlattenSeq`, a fold of the community modules, appends one sequence after
the other (`Flattened`).  `Unrolled` does it for a loop: what CHOOSE takes for a function defined by its
own values up to n has those values, and each has what every step of the loop hands on.

`ChannelsProofs`: `LinksKept == Spec => []ChannelsInv`, and from it the four invariants the run `channels`
checks: `TableTypeCorrect`, `AlwaysReachesItsChannel`, `NobodyEverAccused` (with `Late`, a request after
the client's CLOSE, as its exception), `NothingEverLost`.  None of
them is inductive: that a window is not overrun when a message arrives depends on what was under way
when it was sent.  `ChannelsInv` says how the client's table, the server's, and the two queues fit
together (`Linked`):

* `UpRight`, `DownRight`: each message under way is about a channel the other end knows, or will know
  when the messages before it have been read, and on which it has not been told that there is no more;
* `UpOrder`, `DownOrder`: what may follow what on one channel;
* `OneOutcome`: an OPEN is under way, or one answer to it, or neither;
* `SlotsRight`: an open slot is linked to one channel of the server, and the four sums of `Adds` hold:
  each window, with what is under way that reduces or raises it, is what the other end believes, and
  each unit is at the one end, under way, or at the other;
* `SvRight`: an open channel of the server has its slot, or the answer that gives it one is under way.

The handlers of `ssh_chan.c` change the table and send several messages in one step: a DATA may
surface an X11 open, reopen the window and flush three packets, an EOF and a CLOSE.  The proof takes them
apart.  Elementary steps on the table t, the two queues u and d, and the server's table s each keep
`Linked`: the client says something (`Say`, `Tell`), flushes (`Packets`, `Flush`), reads (`Hear`,
`HearConfirm`, `FreeSlot`), announces an open of the server (`Announce`); the server does the same
(`SvTalk`, `SvOpens`, `SvConfirms`, `SvHearTalk`, `SvHearConfirm`, ...).  A handler is such a sequence with
intermediate states that exist in the proof only; there is one lemma for each (`WriteStep`, `OpenStep`,
`ConfirmHeard`, `DataHeard`, `CloseHeard`, `EndsStep`, `SvOpenHeard`, ...), which keeps the three parts of
the invariant: `Plain` (types), `Links`, and `Rested` (nothing waits between two chunks).

`LoginProofs`: `SeedAlwaysFresh == Spec => []SeedFresh`, by the inductive invariant
`SeedTypeOK /\ SeedFresh`.  `SeedFresh` alone does not do: that a program in the middle of saving has
at least one save to come, and a pool with enough credit, are what keeps a spent seed from surviving a
save, and are part of `SeedTypeOK`.  The steps of the login change `seed` through `endWithMessage` and
`Killed` only.

`NeverTypedInVain == Spec => []NothingTypedInVain`, with the two exceptions of `vain` (section 3).  `can_auth` refuses a request while another
is pending, so nobody may be asked for a password while an answer is due; and what is due is spread over
both directions of the network, the engine and the queue of its events.  `LoginInv` says that it is in
one place at a time (`InTurn`): while the engine waits, a request is under way, or one answer to it, and
no refusal waits to be handled; once it has an answer, nothing is under way and there is at most one event
that asks.  `Exchanged` ties this to the first key exchange and the user's decision on the host
key.  `ReadAccept`, `ReadRefusal`, `ReadSuccess`, `ReadNewKeys` and `ReadNothing` are the messages the
client reads, `NextRequest` and `KeyAnswer` what answering an event sends, one lemma each for the ways
to answer (`KeyTried`, `KbdTried`, `PasswordTried`).

`SftpProofs`: `OverInvariant == Spec => []OverInv`, and from it `FinishedAlwaysOver == Spec =>
[]FinishedIsOver`, for any size of file, block and window, any hint and any number of failures.
`FinishedIsOver` is about the transfers that have finished; which they are is decided long before, by
the answers still to come.  `OverInv` says of a transfer under way

* `Numbered`: each request has its number, each answer its request, and only one;
* `Staged`: the transfer is opening, moving blocks, closing or has ended (`Stages`), and `outstanding`
  counts exactly the blocks that pend; once an answer was spoilt, one of them is missing (`Spoilt`), which is
  why sftp_abort() does not end every transfer;
* `HandleHeld`: the server's handle is there from the answer to OPEN to the answer to CLOSE, and
  an OPEN or CLOSE pending shows which of the two it is;
* `Positioned`: nothing is asked for beyond `next_off`, the known end is no further than that, and what
  is written is in the local file.  `xf_pump` stops short of its window only at the end of the file:
  that the loop leaves a transfer with something to wait for, or done, is `Settled`.

The loop of `xf_pump` is a recursive function.  `Loop` is what each of its turns keeps (`TurnKeeps`), `Grows` one more
request in it; `Unrolled` gives the whole (`PumpMoves`).  sftp_abort() tells every request of its loss by
another (`LosesOn`).  `Takes` is an answer taken and its callback's work queued: `OverOn` has what such a step
must show, and there is a lemma for each callback (`Opened`, `Read`, `Wrote`, `Closed`) and for each of
the other actions.

`SftpCopyProofs`: `RightInvariant == Spec => [](OverInv /\ RightInv)`, and from it
`TransferAlwaysRight == Spec => []TransferRight`: what is reported as done is copied, for any order of
the answers and any cut of the reads.  `TransferRight` speaks of the end; `CopyRight` says what holds on
the way while nothing has gone wrong:

* a download (`Fetched`): each unit below `next_off` is in the copy, or in a READ that pends, or in a
  block to be asked for again; `done`, those READs and those blocks add up to the units of the file
  below `next_off` (`Asking`, `Again` and `Within`; units beyond the end count nothing, which is what an
  EOF takes away).  A short read may only be queued again because blocks to be asked for again and those
  under way never exceed the window together, so `retry` has room: without that conjunct the
  invariant is not inductive, and a rest that found no room would be a hole in the file;
* an upload (`Stored`): each unit read here is at the server, or in a WRITE that pends without an
  OK on its way (`Awaited`); `done` and what pends add up to what was read;
* no failure at the server is without an answer that tells it (`Tells`), so a transfer that ends by the
  answer to its CLOSE has met none.

Nothing is said of a transfer that has failed or was cancelled (`NothingSaid`): it is never reported as
done.  Once nothing is under way or to be asked for again, the sums are 0 and the copy is whole
(`DownloadWhole`, `UploadWhole`, used by `ClosedRight`).  `TurnRight` and `PumpRight` carry the invariant through the loop of `xf_pump`, over
the turns that `PumpRounds` of `SftpProofs` gives; `FetchedGrow`, `FetchedDrop`, `StoredGrow`, `StoredDrop` and `StoredOn`
are one request more, one answer less and a write carried out, with the sums from `SumProofs`.

`SessionProofs`: `SessionInvariant == Spec => []IInv`, and from it `OwnersAlwaysAgree == Spec => []OwnersAgree`, for
any number of slots, tunnels and browsers, any backlog and any workload.  `OwnersAgree` looks at the
application and the engine as they are now, and is not inductive: an event taken now speaks of a slot as it was when
the engine queued it, and the slot may have been freed since, and given to somebody else.  Whether the
event finds its owner depends on all the events before it.  The proof therefore is about a relation
between six things: the pairs `L` of an owner and a slot in use at the engine, the pairs `H` of an
owner and a channel id held by the application, the slot `at` and the standing `st` of each owner's
channel at the server, the messages `n` on their way and the events `e` not taken.  `Agreed` says that

* `Engine`: a slot in use has one owner and an owner one slot, and what the server holds open is in use;
* `Sound`: each message is about a channel in use, or makes one, and nothing follows a channel's last;
* `Ordered`: each event is about a channel in use, or the one that ends it is behind it (`Finished`),
  and of two owners of a slot the first one's end comes before anything of the second;
* `Routed`: an id held is the owner's own, in use or with its end among the events (`Told`), and an event about
  anybody else's use of that slot comes after that end; browsers and X11 channels, of whom the shell's
  switch must hear nothing, are known to the application or announced by an X11_OPEN that comes first
  (`Comes`).

The first part proves what the elementary steps do to the relation, with no mention of the program:
messages pushed and taken (`Pushed`, `Took`), an event that happens or is handled (`Happens`, `Occurs`), a channel opened from
here or announced (`Opens`, `Arrives`), an end learned of (`Learns`), an id let go (`Forgets`), the server's speaking (`Speaks`).  Most of what the
program does leaves the relation alone: `Alike` is a call to the engine after which every channel is whose it was
(`FlushAlike`, `WriteAlike`, `CloseAlike`, ...), `Steady` a change of the session object after which it holds the same ids, and
`OwnedSteady` puts them together.  Then there is a lemma for each action (`HandleKeeps`, `PumpKeeps`, `removeForwardKeeps`,
`openFileBrowserKeeps`, ...); `ConnectsTurn`, `SendsTurn`, `ReceivesTurn`,
`FinishX11Turn` and `FinishForwardTurn` follow one pass of `pump` over a tunnel, `ReceiveKeeps` a message through each way the
engine may take it.  Two more conjuncts are needed beside the relation: `Cared`, that a forwarded connection's channel
has its tunnel, is being closed, or lost its rule, which is what `NoOrphans` asks; and `Unused`, that whom no
channel has been asked for has none.  Who closes a browser's channel is an invariant of its own
(`BrowserAnswered`, in `BrowserHeard`): unless `sftpClosing` is left from a channel that was refused
(`hist.stale`, the exception in `NoOrphans`), a browser's channel whose close was asked for, or whose
window is gone, is being closed.

Only model-checked, and why:

* liveness (`AllProceeds`, `ClosesFinish`, `Finishes`, `LoginEnds`, `Ends`, `ComesToRest`, the pipe's `Delivery`
  in `AllProceeds`): it rests on ENABLED, which the prover does not handle;
* `HostsJudged`, and the properties of `Vt`, `TerminalView`, `SftpBrowser` and `StepScp` that are about the
  contents of data structures (folds over lines, trees, screens);
* the results of `Calls`, each a recursion over digits compared with arithmetic;
* `BytesInOrder` and `ClosesProceed` of `Session`, and the type invariants of `Vt` and `VtParser`, which are next
  (see the plan).


## 7. Not modelled

* **Keys and mouse reports of the terminal's view**: the ESC held for 50 ms, which goes out after a paste
  or a mouse report that comes in between; the button held for a gesture.  They change nothing on show,
  and what they send is one string per event.
* **Key and mouse encoding** (`vt.c:924`-`1027`): tables from a key to a string.
* **Key files**: sequential parsing of formats that the repository tests against `ssh-keygen`.
* **Ciphers, hashes, `nacl.c`**: bits and bytes, tested against published vectors; Transport abstracts
  a sealed packet to its key and sequence number.
* **`wire.c`** beyond mpints, **`x11.c`**'s byte layout: growing buffers and offsets; the modules use
  messages as records.
* **Colours, encodings, panels, preferences, drawing**: no protocol state.
* **`stepssh` after its login, `sshc`, `sftpc`**: smaller drivers of the same engine.
* **Memory exhaustion**, and the operating system below `send`, `recv`, `connect` and files beyond
  success, failure and partial success.
* **More than one forwarding rule at a time, sockets that cannot be created, the connect deadline, the
  keep-alive's timing**: rules differ only in their list, the others end in a message and no state.
