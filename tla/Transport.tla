----------------------------- MODULE Transport -----------------------------
(***************************************************************************)
(* The SSH-2 transport of StepSSH (core/ssh.c): identification, key        *)
(* exchange and re-exchange, the two packet-sequence counters, the queue   *)
(* of messages that wait for a key exchange, the host key gate in front of *)
(* authentication, and the ways a session ends.                            *)
(*                                                                         *)
(* One step is one call into the library: an operation of the application, *)
(* or ssh_input() handling one packet.  Chunks of input hold any number of *)
(* packets, and the application runs only between two chunks, so stepping  *)
(* packet by packet covers every chunking.                                 *)
(*                                                                         *)
(* Cryptography is abstracted to what it tells apart: a set of keys is the *)
(* number of the exchange that derived it (0: in the clear), and a packet  *)
(* opens exactly when it was sealed under the receiver's key and sequence  *)
(* number.  The server is an environment that follows RFC 4253: it may     *)
(* re-key whenever it likes and keeps quiet while it does.                 *)
(***************************************************************************)
EXTENDS Integers, Sequences

CONSTANTS
    MaxKex,       \* bound: key exchanges the server starts, the first one included
    MaxUp,        \* bound: messages of the upper layers (type >= 50) the client submits
    MaxSvUp,      \* bound: messages of the upper layers the server sends
    MaxMisc       \* bound, of both sides: IGNORE-like and unknown messages

ASSUME TransportAssumption ==
    /\ MaxKex \in Nat \ {0}
    /\ MaxUp \in Nat \ {0}
    /\ MaxSvUp \in Nat
    /\ MaxMisc \in Nat

VARIABLES
    \* struct ssh_session
    started, have_version, closed, fatal,
    kex_state, kex_sent_kexinit, kex_sent_newkeys, first_kex_done,
    strict_kex, ignore_next_packet,
    kex_method,                        \* the negotiated kind of exchange (kex_idx)
    tx, rx, rx_next,                   \* keys in use, and the next to receive with
    tx_seq, rx_seq,
    deferred,                          \* messages held back by the key exchange
    hostkey_decided, hostkey_ok, auth_state,
    \* the application's side of the library
    hostkey_event,                     \* SSH_EV_HOSTKEY has been pushed
    err,                               \* text of the SSH_EV_ERROR event, "none" if none
    submitted,                         \* upper-layer messages ssh_send_packet() accepted
    dispatched,                        \* upper-layer messages handed to auth and channels
    misc,                              \* keep-alives sent
    \* the two directions of the TCP connection
    c2s, s2c,
    \* the server
    sv

client == <<started, have_version, closed, fatal, kex_state, kex_sent_kexinit,
            kex_sent_newkeys, first_kex_done, strict_kex, ignore_next_packet, kex_method,
            tx, rx, rx_next, tx_seq, rx_seq, deferred,
            hostkey_decided, hostkey_ok, auth_state,
            hostkey_event, err, submitted, dispatched, misc>>
vars == <<client, c2s, s2c, sv>>

gate == <<hostkey_decided, hostkey_ok>>
kexflags == <<kex_state, kex_sent_kexinit, kex_sent_newkeys, first_kex_done,
              strict_kex, ignore_next_packet, kex_method>>
keys == <<tx, rx, rx_next>>
counters == <<submitted, dispatched, misc>>

-----------------------------------------------------------------------------
(* Messages and packets *)

KexStates == {"IDLE", "SENT_INIT", "WAIT_GROUP", "WAIT_REPLY", "WAIT_NEWKEYS"}
AuthStates == {"NONE", "WAIT_HOSTKEY", "SERVICE_SENT", "IN_PROGRESS"}
KexTypes == {"KEXINIT", "KEX_INIT", "GEX_REQUEST", "GEX_INIT", "GEX_GROUP",
             "KEX_REPLY", "GEX_REPLY", "NEWKEYS"}
MsgTypes == KexTypes \cup
            {"DISCONNECT", "IGNORE", "UNIMPLEMENTED", "OTHER", "GUESS",
             "SERVICE_REQUEST", "SERVICE_ACCEPT", "UP"}
\* The errors a server that follows the protocol can bring about (or the client's
\* own machine), and the protocol errors of which it is never guilty.
ContentErrors == {"none", "not enough entropy", "not protocol 2", "host key rejected",
                  "no matching algorithm", "unacceptable group", "host key verification"}
ProtocolErrors == {"message authentication failed", "first packet was not KEXINIT",
                   "unexpected packet during strict key exchange",
                   "unexpected key exchange message"}
Errors == ContentErrors \cup ProtocolErrors
\* What a server's KEXINIT may say: strict key exchange, a group exchange
\* method, a (wrong) guessed packet that follows.
Options == {"strict", "gex", "guess"}

\* The kind of exchange that such a KEXINIT settles: the client's public value
\* first, or a group from the server first.
MethodOf(opt) == IF "gex" \in opt THEN "GEX" ELSE "DH"

Message == [type : MsgTypes, id : Nat, opt : SUBSET Options]
Packet == [type : MsgTypes, id : Nat, opt : SUBSET Options, key : Nat, seq : Nat]

Msg(type) == [type |-> type, id |-> 0, opt |-> {}]
Up(id) == [type |-> "UP", id |-> id, opt |-> {}]
Seal(m, key, seq) ==
    [type |-> m.type, id |-> m.id, opt |-> m.opt, key |-> key, seq |-> seq]
\* Mutant: the counter is taken before it is incremented for the previous packet.
SealAll_early(ms, key, seq) == [i \in 1..Len(ms) |-> Seal(ms[i], key, seq + i - 2)]
\* Messages sealed one after the other under one key.
SealAll(ms, key, seq) == [i \in 1..Len(ms) |-> Seal(ms[i], key, seq + i - 1)]

\* Mutant: only our KEXINIT locks, not the rest of the exchange.
ssh_kex_locked_short == kex_sent_kexinit /\ kex_state = "SENT_INIT"
ssh_kex_locked == kex_sent_kexinit /\ ~kex_sent_newkeys

-----------------------------------------------------------------------------
(* Sending: ssh_send_packet(), ssh_fail(), ssh_disconnect() *)

\* send_packet_now() for each message in turn.
SendNow(ms) ==
    /\ c2s' = c2s \o SealAll(ms, tx, tx_seq)
    /\ tx_seq' = tx_seq + Len(ms)

\* ssh_send_packet() of an upper-layer message: it waits while locked.
SendUp(m) ==
    IF ssh_kex_locked
    THEN deferred' = Append(deferred, m) /\ UNCHANGED <<c2s, tx_seq>>
    ELSE SendNow(<<m>>) /\ UNCHANGED deferred

\* send_kexinit() and kex_send_init(): what the client opens an exchange with.
KexInit == Msg("KEXINIT")
kex_send_init(method) == Msg(IF method = "GEX" THEN "GEX_REQUEST" ELSE "KEX_INIT")

\* derive_key() and setup_dir(): the keys are those of the exchange replied to.
DeriveKeys(reply) == reply.id

\* Strict key exchange is settled by the first exchange, for the whole session.
StrictKex(kexinit) ==
    IF first_kex_done THEN strict_kex
    ELSE IF "strict" \in kexinit.opt THEN TRUE ELSE FALSE

\* The sequence number after NEWKEYS, in either direction.
\* Mutant: strict key exchange does not start again from 0.
SeqAfterNewKeys_on(seq) == seq + 1
SeqAfterNewKeys(seq) == IF strict_kex THEN 0 ELSE seq + 1

\* Mutant: the message last put on the list goes first.
flush_deferred_lifo(key, seq) ==
    SealAll([i \in 1..Len(deferred) |-> deferred[Len(deferred) + 1 - i]], key, seq)
\* flush_deferred(): what waited, under the new keys.
flush_deferred(key, seq) == SealAll(deferred, key, seq)

\* ssh_fail() after having sent ms: tell the application and the peer.
Fail(ms, why) ==
    /\ err' = why
    /\ SendNow(IF have_version THEN Append(ms, Msg("DISCONNECT")) ELSE ms)
    /\ closed' = TRUE
    /\ fatal' = TRUE

-----------------------------------------------------------------------------
(* The application's operations *)

Init ==
    /\ started = FALSE /\ have_version = FALSE /\ closed = FALSE /\ fatal = FALSE
    /\ kex_state = "IDLE" /\ kex_sent_kexinit = FALSE /\ kex_sent_newkeys = FALSE
    /\ first_kex_done = FALSE /\ strict_kex = FALSE /\ ignore_next_packet = FALSE
    /\ kex_method = "DH"
    /\ tx = 0 /\ rx = 0 /\ rx_next = 0
    /\ tx_seq = 0 /\ rx_seq = 0 /\ deferred = <<>>
    /\ hostkey_decided = FALSE /\ hostkey_ok = FALSE /\ auth_state = "NONE"
    /\ hostkey_event = FALSE /\ err = "none"
    /\ submitted = 0 /\ dispatched = 0 /\ misc = 0
    /\ c2s = <<>> /\ s2c = <<>>
    /\ \E strict \in BOOLEAN :
          sv = [strict |-> strict, kex |-> "idle", exch |-> 0, method |-> "DH",
                tx |-> 0, rx |-> 0, tx_seq |-> 0, rx_seq |-> 0,
                in_kex |-> FALSE, owe |-> FALSE,
                up |-> 0, got |-> 0, misc |-> 0, gone |-> FALSE]

\* ssh_start(): our version string and KEXINIT, unless the generator has no seed.
ssh_start ==
    /\ ~started /\ ~closed
    /\ \/ /\ started' = TRUE
          /\ SendNow(<<KexInit>>)
          /\ kex_sent_kexinit' = TRUE /\ kex_sent_newkeys' = FALSE
          /\ kex_state' = "SENT_INIT"
          /\ UNCHANGED <<closed, fatal, err>>
       \/ /\ Fail(<<>>, "not enough entropy")
          /\ UNCHANGED <<started, kex_state, kex_sent_kexinit, kex_sent_newkeys>>
    /\ UNCHANGED <<have_version, first_kex_done, strict_kex, ignore_next_packet,
                   kex_method, keys, rx_seq, deferred, gate, auth_state, hostkey_event,
                   counters, s2c, sv>>

\* ssh_auth_begin(): SERVICE_REQUEST is message 5, so it never waits.
AuthBegin ==
    /\ SendNow(IF closed THEN <<>> ELSE <<Msg("SERVICE_REQUEST")>>)
    /\ auth_state' = "SERVICE_SENT"

\* ssh_hostkey_accept(): the user answers the host key question, at any time.
ssh_hostkey_accept(accept) ==
    /\ hostkey_event /\ ~hostkey_decided
    /\ hostkey_decided' = TRUE
    /\ hostkey_ok' = accept
    /\ IF ~accept
       THEN /\ SendNow(IF closed THEN <<>> ELSE <<Msg("DISCONNECT")>>)
            /\ closed' = TRUE
            /\ err' = "host key rejected"
            /\ UNCHANGED auth_state
       ELSE /\ IF first_kex_done /\ auth_state = "WAIT_HOSTKEY"
               THEN AuthBegin
               ELSE UNCHANGED <<c2s, tx_seq, auth_state>>
            /\ UNCHANGED <<closed, err>>
    /\ UNCHANGED <<started, have_version, fatal, kexflags, keys, rx_seq, deferred,
                   hostkey_event, counters, s2c, sv>>

\* An upper layer sends a message (authentication answers, channel operations).
Submit ==
    /\ ~closed /\ auth_state = "IN_PROGRESS" /\ submitted < MaxUp
    /\ submitted' = submitted + 1
    /\ SendUp(Up(submitted + 1))
    /\ UNCHANGED <<started, have_version, closed, fatal, kexflags, keys, rx_seq,
                   gate, auth_state, hostkey_event, err, dispatched, misc, s2c, sv>>

\* ssh_send_ignore(): the keep-alive of an authenticated session, sent even in
\* the middle of a key exchange.
ssh_send_ignore ==
    /\ ~closed /\ auth_state = "IN_PROGRESS" /\ misc + sv.misc < MaxMisc
    /\ misc' = misc + 1
    /\ SendNow(<<Msg("IGNORE")>>)
    /\ UNCHANGED <<started, have_version, closed, fatal, kexflags, keys, rx_seq,
                   deferred, gate, auth_state, hostkey_event, err, submitted,
                   dispatched, s2c, sv>>

\* ssh_disconnect(): the user closes the session.
ssh_disconnect ==
    /\ started /\ ~closed
    /\ SendNow(<<Msg("DISCONNECT")>>)
    /\ closed' = TRUE
    /\ UNCHANGED <<started, have_version, fatal, kexflags, keys, rx_seq, deferred,
                   gate, auth_state, hostkey_event, err, counters, s2c, sv>>

-----------------------------------------------------------------------------
(* ssh_input(): the version line, then one packet per step *)

\* read_version(): the server's line arrives; a protocol 1 server is refused.
read_version ==
    /\ started /\ ~closed /\ ~have_version
    /\ \/ /\ have_version' = TRUE
          /\ UNCHANGED <<closed, fatal, err, c2s, tx_seq>>
       \/ /\ Fail(<<>>, "not protocol 2")
          /\ UNCHANGED have_version
    /\ UNCHANGED <<started, kexflags, keys, rx_seq, deferred, gate, auth_state,
                   hostkey_event, counters, s2c, sv>>

\* Why read_packet() and the checks that open each handler refuse a packet.
\* Mutant: strict key exchange admits nothing else after the first exchange either.
Refusals_always(p) ==
    IF p.key # rx \/ p.seq # rx_seq
    THEN {"message authentication failed"}
    ELSE IF /\ strict_kex
            /\ p.type \notin {"KEXINIT", "KEX_REPLY", "GEX_GROUP", "GEX_REPLY", "NEWKEYS"}
    THEN {"unexpected packet during strict key exchange"}
    ELSE {}
Refusals(p) ==
    IF p.key # rx \/ p.seq # rx_seq
    THEN {"message authentication failed"}
    ELSE IF rx_seq = 0 /\ ~first_kex_done /\ p.type # "KEXINIT"
    THEN {"first packet was not KEXINIT"}
    ELSE IF /\ strict_kex /\ ~first_kex_done
            /\ p.type \notin {"KEXINIT", "KEX_REPLY", "GEX_GROUP", "GEX_REPLY", "NEWKEYS"}
    THEN {"unexpected packet during strict key exchange"}
    ELSE IF ignore_next_packet
    THEN {}
    ELSE IF \/ p.type = "KEXINIT" /\ kex_state \notin {"IDLE", "SENT_INIT"}
            \/ p.type = "GEX_GROUP" /\ kex_state # "WAIT_GROUP"
            \/ p.type \in {"KEX_REPLY", "GEX_REPLY"} /\ kex_state # "WAIT_REPLY"
            \/ p.type = "KEX_REPLY" /\ kex_method = "GEX"
            \/ p.type = "GEX_REPLY" /\ kex_method # "GEX"
            \/ p.type = "NEWKEYS" /\ kex_state # "WAIT_NEWKEYS"
    THEN {"unexpected key exchange message"}
    ELSE {}

\* What only the content of the packet tells: no common algorithm, a bad group,
\* a signature that does not verify or a host key that changed.
Rejections(p) ==
    IF ignore_next_packet THEN {}
    ELSE CASE p.type = "KEXINIT" -> {"no matching algorithm"}
           [] p.type = "GEX_GROUP" -> {"unacceptable group"}
           [] p.type \in {"KEX_REPLY", "GEX_REPLY"} -> {"host key verification"}
           [] OTHER -> {}

\* The next packet is taken off the input.
Incoming(types) ==
    /\ started /\ have_version /\ ~closed
    /\ s2c # <<>>
    /\ Head(s2c).type \in types
    /\ s2c' = Tail(s2c)

\* The packet passed the checks: it is counted and handled.
Accepted(types) ==
    /\ Incoming(types)
    /\ Refusals(Head(s2c)) = {}
    /\ ~ignore_next_packet

\* A packet that ends the session.  A KEXINIT that starts a re-exchange has been
\* answered by ours before its algorithms are looked at.
RecvFails ==
    /\ Incoming(MsgTypes)
    /\ LET p == Head(s2c)
           rekey == Refusals(p) = {} /\ p.type = "KEXINIT" /\ kex_state = "IDLE"
       IN  /\ \E why \in (IF Refusals(p) # {} THEN Refusals(p) ELSE Rejections(p)) :
                 Fail(IF rekey THEN <<KexInit>> ELSE <<>>, why)
           /\ rx_seq' = IF Refusals(p) = {"message authentication failed"}
                        THEN rx_seq ELSE rx_seq + 1
           /\ kex_state' = IF rekey THEN "SENT_INIT" ELSE kex_state
           /\ kex_sent_kexinit' = (kex_sent_kexinit \/ rekey)
           /\ kex_sent_newkeys' = (kex_sent_newkeys /\ ~rekey)
    /\ UNCHANGED <<started, have_version, first_kex_done, strict_kex,
                   ignore_next_packet, kex_method, keys, deferred, gate, auth_state,
                   hostkey_event, counters, sv>>

\* The packet that followed a KEXINIT with a wrong guess is dropped.
RecvIgnored ==
    /\ Incoming(MsgTypes)
    /\ Refusals(Head(s2c)) = {}
    /\ ignore_next_packet
    /\ ignore_next_packet' = FALSE
    /\ rx_seq' = rx_seq + 1
    /\ UNCHANGED <<started, have_version, closed, fatal, kex_state, kex_sent_kexinit,
                   kex_sent_newkeys, first_kex_done, strict_kex, kex_method, keys, tx_seq,
                   deferred, gate, auth_state, hostkey_event, err, counters, c2s, sv>>

\* handle_kexinit() and kex_send_init(): answer a re-exchange with our KEXINIT,
\* settle the algorithms, open the exchange.
handle_kexinit ==
    /\ Accepted({"KEXINIT"})
    /\ LET p == Head(s2c)
           own == IF kex_state = "IDLE" THEN <<KexInit>> ELSE <<>>
           method == MethodOf(p.opt)
       IN  /\ SendNow(Append(own, kex_send_init(method)))
           /\ kex_sent_kexinit' = TRUE
           /\ kex_sent_newkeys' = FALSE
           /\ strict_kex' = StrictKex(p)
           /\ kex_method' = method
           /\ kex_state' = IF method = "GEX" THEN "WAIT_GROUP" ELSE "WAIT_REPLY"
           /\ ignore_next_packet' = IF "guess" \in p.opt THEN TRUE ELSE ignore_next_packet
    /\ rx_seq' = rx_seq + 1
    /\ UNCHANGED <<started, have_version, closed, fatal, first_kex_done, keys,
                   deferred, gate, auth_state, hostkey_event, err, counters, sv>>

\* handle_gex_group(): the server's group is accepted, our public value goes out.
handle_gex_group ==
    /\ Accepted({"GEX_GROUP"})
    /\ SendNow(<<Msg("GEX_INIT")>>)
    /\ kex_state' = "WAIT_REPLY"
    /\ rx_seq' = rx_seq + 1
    /\ UNCHANGED <<started, have_version, closed, fatal, kex_sent_kexinit,
                   kex_sent_newkeys, first_kex_done, strict_kex, ignore_next_packet,
                   kex_method, keys, deferred, gate, auth_state, hostkey_event, err,
                   counters, sv>>

\* handle_kex_reply() and flush_deferred(): NEWKEYS leaves under the old keys and
\* the messages that waited under the new ones.
handle_kex_reply ==
    /\ Accepted({"KEX_REPLY", "GEX_REPLY"})
    /\ LET new == DeriveKeys(Head(s2c))
           seq == SeqAfterNewKeys(tx_seq)
       IN  /\ c2s' = c2s \o <<Seal(Msg("NEWKEYS"), tx, tx_seq)>>
                         \o flush_deferred(new, seq)
           /\ tx_seq' = seq + Len(deferred)
           /\ tx' = new /\ rx_next' = new
    /\ deferred' = <<>>
    /\ kex_sent_newkeys' = TRUE
    /\ kex_state' = "WAIT_NEWKEYS"
    /\ hostkey_event' = TRUE
    /\ rx_seq' = rx_seq + 1
    /\ UNCHANGED <<started, have_version, closed, fatal, kex_sent_kexinit,
                   first_kex_done, strict_kex, ignore_next_packet, kex_method, rx, gate,
                   auth_state, err, counters, sv>>

\* kex_finished(): after the first exchange authentication starts, or waits for
\* the host key decision.
\* Mutant: a decision already taken is overlooked.
KexFinished_overlooked ==
    IF first_kex_done \/ hostkey_decided
    THEN UNCHANGED <<auth_state, c2s, tx_seq>>
    ELSE auth_state' = "WAIT_HOSTKEY" /\ UNCHANGED <<c2s, tx_seq>>
KexFinished ==
    IF first_kex_done \/ (hostkey_decided /\ ~hostkey_ok)
    THEN UNCHANGED <<auth_state, c2s, tx_seq>>
    ELSE IF hostkey_decided
    THEN AuthBegin
    ELSE auth_state' = "WAIT_HOSTKEY" /\ UNCHANGED <<c2s, tx_seq>>

\* handle_newkeys(): the receiving keys change.
handle_newkeys ==
    /\ Accepted({"NEWKEYS"})
    /\ rx' = rx_next /\ rx_next' = 0
    /\ rx_seq' = SeqAfterNewKeys(rx_seq)
    /\ kex_state' = "IDLE"
    /\ kex_sent_kexinit' = FALSE /\ kex_sent_newkeys' = FALSE
    /\ first_kex_done' = TRUE
    /\ KexFinished
    /\ UNCHANGED <<started, have_version, closed, fatal, strict_kex,
                   ignore_next_packet, kex_method, tx, deferred, gate,
                   hostkey_event, err, counters, sv>>

\* DISCONNECT: nothing more is read, and what waits is never sent.
RecvDisconnect ==
    /\ Accepted({"DISCONNECT"})
    /\ closed' = TRUE
    /\ rx_seq' = rx_seq + 1
    /\ UNCHANGED <<started, have_version, fatal, kexflags, keys, tx_seq, deferred,
                   gate, auth_state, hostkey_event, err, counters, c2s, sv>>

\* IGNORE, DEBUG, UNIMPLEMENTED and EXT_INFO pass; an unknown message is answered.
RecvMisc ==
    /\ Accepted({"IGNORE", "UNIMPLEMENTED", "OTHER", "GUESS"})
    /\ SendNow(IF Head(s2c).type \in {"OTHER", "GUESS"}
               THEN <<Msg("UNIMPLEMENTED")>> ELSE <<>>)
    /\ rx_seq' = rx_seq + 1
    /\ UNCHANGED <<started, have_version, closed, fatal, kexflags, keys, deferred,
                   gate, auth_state, hostkey_event, err, counters, sv>>

\* SERVICE_ACCEPT: ask which methods the server takes (USERAUTH_REQUEST "none").
RecvServiceAccept ==
    /\ Accepted({"SERVICE_ACCEPT"})
    /\ IF auth_state = "SERVICE_SENT"
       THEN /\ auth_state' = "IN_PROGRESS"
            /\ submitted' = submitted + 1
            /\ SendUp(Up(submitted + 1))
       ELSE UNCHANGED <<auth_state, submitted, c2s, tx_seq, deferred>>
    /\ rx_seq' = rx_seq + 1
    /\ UNCHANGED <<started, have_version, closed, fatal, kexflags, keys, gate,
                   hostkey_event, err, dispatched, misc, sv>>

\* Messages of authentication and channels go to their own dispatchers.
RecvUp ==
    /\ Accepted({"UP"})
    /\ dispatched' = dispatched + 1
    /\ rx_seq' = rx_seq + 1
    /\ UNCHANGED <<started, have_version, closed, fatal, kexflags, keys, tx_seq,
                   deferred, gate, auth_state, hostkey_event, err, submitted, misc,
                   c2s, sv>>

Recv == \/ RecvFails \/ RecvIgnored
        \/ handle_kexinit \/ handle_gex_group \/ handle_kex_reply \/ handle_newkeys
        \/ RecvDisconnect \/ RecvMisc \/ RecvServiceAccept \/ RecvUp

-----------------------------------------------------------------------------
(* The server, an environment that follows RFC 4253 *)

\* The server has sent KEXINIT and not yet NEWKEYS.
SvQuiet == sv.kex \notin {"idle", "newkeys"}

\* The server seals messages under its own key, and then moves to state s.
SvSend(ms, s) ==
    /\ s2c' = s2c \o SealAll(ms, sv.tx, sv.tx_seq)
    /\ sv' = [s EXCEPT !.tx_seq = sv.tx_seq + Len(ms)]

\* The first exchange, or a re-exchange at any moment.  Only the KEXINIT of the
\* first one decides about strict key exchange.  A guessed packet only follows
\* where the exchange is not strict (see README).
SvKexInit ==
    /\ ~sv.gone /\ sv.kex = "idle" /\ sv.exch < MaxKex
    /\ \E opt \in SUBSET Options :
          /\ sv.exch = 0 => (("strict" \in opt) <=> sv.strict)
          /\ "guess" \in opt => (sv.exch > 0 \/ ~sv.strict)
          /\ SvSend(<<[type |-> "KEXINIT", id |-> 0, opt |-> opt]>> \o
                    (IF "guess" \in opt THEN <<Msg("GUESS")>> ELSE <<>>),
                    [sv EXCEPT !.kex = "sent", !.exch = @ + 1, !.method = MethodOf(opt)])
    /\ UNCHANGED <<client, c2s>>

SvNewKeys ==
    /\ ~sv.gone /\ sv.kex = "replied"
    /\ s2c' = Append(s2c, Seal(Msg("NEWKEYS"), sv.tx, sv.tx_seq))
    /\ sv' = [sv EXCEPT !.kex = "newkeys", !.tx = sv.exch,
                        !.tx_seq = IF sv.strict THEN 0 ELSE @ + 1]
    /\ UNCHANGED <<client, c2s>>

SvAccept ==
    /\ ~sv.gone /\ sv.owe /\ ~SvQuiet
    /\ SvSend(<<Msg("SERVICE_ACCEPT")>>, [sv EXCEPT !.owe = FALSE])
    /\ UNCHANGED <<client, c2s>>

SvUp ==
    /\ ~sv.gone /\ ~SvQuiet /\ sv.got > 0 /\ sv.up < MaxSvUp
    /\ SvSend(<<Up(sv.up + 1)>>, [sv EXCEPT !.up = @ + 1])
    /\ UNCHANGED <<client, c2s>>

SvMisc ==
    /\ ~sv.gone /\ misc + sv.misc < MaxMisc /\ sv.exch > 0
    /\ sv.strict => sv.tx > 0
    /\ \E type \in {"IGNORE", "UNIMPLEMENTED", "OTHER"} :
          /\ type = "OTHER" => ~SvQuiet
          /\ SvSend(<<Msg(type)>>, [sv EXCEPT !.misc = @ + 1])
    /\ UNCHANGED <<client, c2s>>

SvDisconnect ==
    /\ ~sv.gone /\ sv.exch > 0
    /\ sv.strict => sv.tx > 0
    /\ SvSend(<<Msg("DISCONNECT")>>, [sv EXCEPT !.gone = TRUE])
    /\ UNCHANGED <<client, c2s>>

\* The next packet opens under the server's key and is one it can take now.  A service
\* request does not belong into a key exchange (RFC 4253, section 7.1) any more than UP.
SvTakes(p) ==
    /\ p.key = sv.rx /\ p.seq = sv.rx_seq
    /\ CASE p.type = "KEXINIT"     -> sv.kex = "sent" /\ ~sv.in_kex
         [] p.type = "KEX_INIT"    -> sv.kex = "sent" /\ sv.in_kex /\ sv.method = "DH"
         [] p.type = "GEX_REQUEST" -> sv.kex = "sent" /\ sv.in_kex /\ sv.method = "GEX"
         [] p.type = "GEX_INIT"    -> sv.kex = "group"
         [] p.type = "NEWKEYS"     -> sv.kex = "newkeys"
         [] p.type \in {"SERVICE_REQUEST", "UP"} -> ~sv.in_kex
         [] OTHER                  -> TRUE

SvRecv ==
    /\ ~sv.gone /\ c2s # <<>> /\ SvTakes(Head(c2s))
    /\ c2s' = Tail(c2s)
    /\ LET p == Head(c2s)
           next == [sv EXCEPT !.rx_seq = @ + 1]
       IN  CASE p.type = "KEXINIT" ->
                   sv' = [next EXCEPT !.in_kex = TRUE] /\ UNCHANGED s2c
             [] p.type = "GEX_REQUEST" ->
                   SvSend(<<Msg("GEX_GROUP")>>, [next EXCEPT !.kex = "group"])
             [] p.type \in {"KEX_INIT", "GEX_INIT"} ->
                   SvSend(<<[type |-> IF p.type = "KEX_INIT" THEN "KEX_REPLY" ELSE "GEX_REPLY",
                             id |-> sv.exch, opt |-> {}]>>,
                          [next EXCEPT !.kex = "replied"])
             [] p.type = "NEWKEYS" ->
                   /\ sv' = [sv EXCEPT !.kex = "idle", !.in_kex = FALSE, !.rx = sv.exch,
                                       !.rx_seq = IF sv.strict THEN 0 ELSE @ + 1]
                   /\ UNCHANGED s2c
             [] p.type = "SERVICE_REQUEST" ->
                   sv' = [next EXCEPT !.owe = TRUE] /\ UNCHANGED s2c
             [] p.type = "UP" ->
                   sv' = [next EXCEPT !.got = @ + 1] /\ UNCHANGED s2c
             [] p.type = "DISCONNECT" ->
                   sv' = [next EXCEPT !.gone = TRUE] /\ UNCHANGED s2c
             [] OTHER -> sv' = next /\ UNCHANGED s2c
    /\ UNCHANGED client

\* The service request of a host key accepted inside a re-exchange: ssh_auth_begin() sends
\* message 5, and only from 50 on do messages wait.  The server ends the connection.
SvOffended ==
    c2s # <<>> /\ Head(c2s).type = "SERVICE_REQUEST" /\ sv.in_kex /\ sv.rx > 0

Server == SvKexInit \/ SvNewKeys \/ SvAccept \/ SvUp \/ SvMisc \/ SvDisconnect \/ SvRecv

App == \/ ssh_start \/ Submit \/ ssh_send_ignore \/ ssh_disconnect
       \/ \E accept \in BOOLEAN : ssh_hostkey_accept(accept)

Next == App \/ read_version \/ Recv \/ Server

Spec == Init /\ [][Next]_vars

\* The run loop hands over what arrives (SSHSession's timer calls pump every
\* tick), the server reads its socket and finishes the exchanges it starts.
\* Nothing forces the user to answer, to send or to leave.
Fairness ==
    /\ WF_vars(read_version) /\ WF_vars(Recv)
    /\ WF_vars(SvRecv) /\ WF_vars(SvNewKeys) /\ WF_vars(SvAccept)
    /\ WF_vars(sv.exch = 0 /\ SvKexInit) /\ WF_vars(SvOffended /\ SvDisconnect)

FairSpec == Spec /\ Fairness

-----------------------------------------------------------------------------
(* Correctness *)

\* Every variable holds a value of its kind.
FlagsOK ==
    /\ started \in BOOLEAN /\ have_version \in BOOLEAN
    /\ closed \in BOOLEAN /\ fatal \in BOOLEAN
    /\ kex_sent_kexinit \in BOOLEAN /\ kex_sent_newkeys \in BOOLEAN
    /\ first_kex_done \in BOOLEAN /\ strict_kex \in BOOLEAN
    /\ ignore_next_packet \in BOOLEAN
    /\ hostkey_decided \in BOOLEAN /\ hostkey_ok \in BOOLEAN
    /\ hostkey_event \in BOOLEAN
StatesOK ==
    /\ kex_state \in KexStates /\ kex_method \in {"DH", "GEX"} /\ auth_state \in AuthStates
    /\ err \in Errors
CountsOK ==
    /\ tx \in Nat /\ rx \in Nat /\ rx_next \in Nat
    /\ tx_seq \in Nat /\ rx_seq \in Nat
    /\ submitted \in Nat /\ dispatched \in Nat /\ misc \in Nat
QueuesOK ==
    deferred \in Seq(Message) /\ c2s \in Seq(Packet) /\ s2c \in Seq(Packet)
SvState ==
    [strict : BOOLEAN, exch : Nat, method : {"DH", "GEX"},
     kex : {"idle", "sent", "group", "replied", "newkeys"},
     tx : Nat, rx : Nat, tx_seq : Nat, rx_seq : Nat,
     in_kex : BOOLEAN, owe : BOOLEAN,
     up : Nat, got : Nat, misc : Nat, gone : BOOLEAN]
SvOK == sv \in SvState
TypeOK == FlagsOK /\ StatesOK /\ CountsOK /\ QueuesOK /\ SvOK

\* Whichever packet a side reads next was sealed under the key and the sequence
\* number that side now holds: across every NEWKEYS, with and without the
\* counter reset of strict key exchange, no packet is opened under the wrong ones.
SealsAgree ==
    /\ c2s # <<>> => Head(c2s).key = sv.rx /\ Head(c2s).seq = sv.rx_seq
    /\ (s2c # <<>> /\ ~closed) => Head(s2c).key = rx /\ Head(s2c).seq = rx_seq

\* While a key exchange is in flight no authentication or channel message is on the wire
\* between our KEXINIT and our NEWKEYS: ssh_send_packet defers them (packets sealed under
\* one key come before the NEWKEYS that ends it).
QuietDuringKex ==
    /\ \A i, j \in 1..Len(c2s) :
          (i < j /\ c2s[i].type = "KEXINIT" /\ c2s[j].type = "UP") => c2s[j].key > c2s[i].key
    /\ sv.in_kex => \A j \in 1..Len(c2s) : c2s[j].type = "UP" => c2s[j].key > sv.rx

\* Nothing of authentication (service request, credentials, channels) is sent
\* before the user or the known-hosts file accepted the host key, whichever of
\* the decision and the end of the first exchange comes first.
HostKeyGate ==
    \/ hostkey_decided /\ hostkey_ok
    \/ /\ auth_state \in {"NONE", "WAIT_HOSTKEY"}
       /\ deferred = <<>>
       /\ \A i \in 1..Len(c2s) : c2s[i].type \notin {"SERVICE_REQUEST", "UP"}

\* Nothing of the upper layers leaves too early: neither inside an exchange nor before
\* the host key is accepted.
NothingEarly == QuietDuringKex /\ HostKeyGate

\* The upper-layer messages on wire w are those numbered from + 1 to to, in this order.
UpIds(w) == {w[i].id : i \in {j \in 1..Len(w) : w[j].type = "UP"}}
InOrder(w, from, to) ==
    /\ from <= to /\ UpIds(w) = (from + 1)..to
    /\ \A i, j \in 1..Len(w) :
          (i < j /\ w[i].type = "UP" /\ w[j].type = "UP") => w[i].id < w[j].id

\* No message of the server is swallowed or handed up twice: dropping the packet
\* after a wrong guess never drops one that counts.
InboundInOrder == InOrder(s2c, dispatched, sv.up)

\* The pipe seen through the transport: what is on the wire, then what waits for
\* NEWKEYS; closing the session cuts off the latter.
Pipe == INSTANCE OrderedPipe WITH
    accepted  <- submitted,
    transit   <- UpIds(c2s) \cup (IF closed THEN {} ELSE UpIds(deferred)),
    delivered <- sv.got,
    cut       <- closed

\* The transport is an ordered pipe for the messages of the upper layers, across any
\* number of re-exchanges; and those that come the other way are handed up in order,
\* none swallowed.
ImplementsPipe == Pipe!Safety /\ []InboundInOrder

\* A server that follows the protocol is never accused: the session fails only on what a
\* packet's content says (algorithms, group, signature) or by our own lack of entropy or a
\* protocol-1 server.  Nor does the client send what the server cannot take in its state:
\* the server only ever waits for its own KEXINIT or NEWKEYS to be out first.  The one
\* exception is the service request of a host key accepted inside a re-exchange
\* (SvOffended); in the first exchange there is none.
NoFalseAlarm ==
    /\ err \in ContentErrors
    /\ (c2s # <<>> /\ ~sv.gone) =>
          \/ SvTakes(Head(c2s))
          \/ Head(c2s).type = "KEXINIT" /\ sv.exch = 0
          \/ Head(c2s).type = "NEWKEYS" /\ sv.kex = "replied"
          \/ SvOffended

\* What the comment on ssh_send_packet() says: while a key exchange is in flight only
\* transport messages are sent, and authentication waits as channels do.  It does not: the
\* service request goes out at once when the user accepts the host key inside a re-exchange.
AuthWaits ==
    \A i, j \in 1..Len(c2s) :
        (i < j /\ c2s[i].type = "KEXINIT" /\ c2s[j].type \in {"SERVICE_REQUEST", "UP"}) =>
            c2s[j].key > c2s[i].key

\* Every key exchange comes to its end or the session does; and the host key decision is
\* never forgotten: once accepted, authentication gets going even if the answer came
\* before, during or after a key exchange.  The pipe delivers all it accepts unless it
\* closes.
AllProceeds ==
    /\ Pipe!Delivery
    /\ kex_state # "IDLE" ~> kex_state = "IDLE" \/ closed
    /\ (hostkey_ok /\ kex_state # "IDLE") ~> (auth_state = "IN_PROGRESS" \/ closed \/ sv.gone)

-----------------------------------------------------------------------------
(* The inductive invariant behind SealsAgree *)

\* The key and the counter with which the packet after p is sealed and opened.
NextKey(p) == IF p.type = "NEWKEYS" THEN p.key + 1 ELSE p.key
NextSeq(p, strict) == IF p.type = "NEWKEYS" /\ strict THEN 0 ELSE p.seq + 1

\* The packets of wire w lead from the receiver's key and counter to the sender's.
Chain(w, strict, rkey, rseq, skey, sseq) ==
    IF w = <<>>
    THEN skey = rkey /\ sseq = rseq
    ELSE /\ w[1].key = rkey /\ w[1].seq = rseq
         /\ \A i \in 1..(Len(w) - 1) :
               w[i + 1].key = NextKey(w[i]) /\ w[i + 1].seq = NextSeq(w[i], strict)
         /\ skey = NextKey(w[Len(w)]) /\ sseq = NextSeq(w[Len(w)], strict)

\* How far each side's keys may be apart in each state of the exchange.
ClientKeys ==
    /\ IF kex_state = "WAIT_NEWKEYS"
       THEN rx_next = rx + 1 /\ tx = rx + 1
       ELSE tx = rx
    /\ ~first_kex_done => rx = 0
    /\ ~started => kex_state = "IDLE"
ServerKeys ==
    CASE sv.kex = "idle"    -> sv.tx = sv.exch /\ sv.rx = sv.exch
      [] sv.kex = "newkeys" -> sv.tx = sv.exch /\ sv.exch = sv.rx + 1
      [] OTHER              -> sv.exch = sv.tx + 1 /\ sv.rx = sv.tx
\* A reply announces the keys after those it is sealed under.
ReplyKeys ==
    \A i \in 1..Len(s2c) : s2c[i].type \in {"KEX_REPLY", "GEX_REPLY"}
                              => s2c[i].id = s2c[i].key + 1
\* Both sides agree on strict key exchange once the client has seen the server's
\* first KEXINIT, whatever later ones say.
StrictAgrees ==
    /\ (first_kex_done \/ kex_state \in {"WAIT_GROUP", "WAIT_REPLY", "WAIT_NEWKEYS"})
          => strict_kex = sv.strict
    /\ \A i \in 1..Len(s2c) : (s2c[i].type = "KEXINIT" /\ s2c[i].key = 0)
                                 => (("strict" \in s2c[i].opt) <=> sv.strict)

\* Only messages of the upper layers wait for NEWKEYS.
OnlyUpWaits == \A i \in 1..Len(deferred) : deferred[i].type = "UP"
\* The packet that will be dropped is the guess it announced.
GuessFollows ==
    /\ \A i \in 1..Len(s2c) : (s2c[i].type = "KEXINIT" /\ "guess" \in s2c[i].opt)
                                 => i < Len(s2c) /\ s2c[i + 1].type = "GUESS"
    /\ (ignore_next_packet /\ ~closed) => s2c # <<>> /\ s2c[1].type = "GUESS"

\* Every packet on the wire, and every one sent from now on, opens.
SealInv ==
    /\ Chain(c2s, sv.strict, sv.rx, sv.rx_seq, tx, tx_seq)
    /\ ~closed => Chain(s2c, sv.strict, rx, rx_seq, sv.tx, sv.tx_seq)
    /\ ClientKeys /\ ServerKeys /\ ReplyKeys /\ StrictAgrees
    /\ OnlyUpWaits /\ GuessFollows

-----------------------------------------------------------------------------
(* The inductive invariant behind NothingEarly, with SealInv *)

\* Nothing on the wire was sealed under keys the client does not have yet.
KeysBelow == \A i \in 1..Len(c2s) : c2s[i].key <= tx
\* When the client is free to send, every exchange it has opened is closed by its NEWKEYS:
\* the keys have changed since the last KEXINIT, still on the wire or just read.
FreeAfterNewKeys ==
    ~ssh_kex_locked =>
        /\ \A i \in 1..Len(c2s) : c2s[i].type = "KEXINIT" => c2s[i].key < tx
        /\ sv.in_kex => sv.rx < tx
FlagsFit == kex_state = "WAIT_NEWKEYS" => kex_sent_newkeys
WireInv == KeysBelow /\ FreeAfterNewKeys /\ FlagsFit /\ QuietDuringKex
EarlyInv == WireInv /\ HostKeyGate

-----------------------------------------------------------------------------
(* The inductive invariant behind NoFalseAlarm, with SealInv *)

\* The key exchange messages on wire w are those of types, in that order.
KexOn(w, types) ==
    \E at \in [1..Len(types) -> 1..Len(w)] :
        /\ \A k \in 1..Len(types) : w[at[k]].type = types[k]
        /\ \A k, l \in 1..Len(types) : k < l => at[k] < at[l]
        /\ \A i \in 1..Len(w) : w[i].type \in KexTypes => \E k \in 1..Len(types) : at[k] = i

\* Where the two ends of an exchange may be at, by its method: the client's state, what
\* is under way to the server, what is under way to the client, the server's state.
Handshakes(method) ==
    { <<"IDLE",         <<>>,            <<>>,                     "new">>,
      <<"IDLE",         <<>>,            <<>>,                     "idle">>,
      <<"IDLE",         <<>>,            <<"KEXINIT">>,            "sent">>,
      <<"SENT_INIT",    <<"KEXINIT">>,   <<>>,                     "new">>,
      <<"SENT_INIT",    <<"KEXINIT">>,   <<"KEXINIT">>,            "sent">>,
      <<"SENT_INIT",    <<>>,            <<"KEXINIT">>,            "answered">>,
      <<"WAIT_NEWKEYS", <<"NEWKEYS">>,   <<>>,                     "replied">>,
      <<"WAIT_NEWKEYS", <<"NEWKEYS">>,   <<"NEWKEYS">>,            "newkeys">>,
      <<"WAIT_NEWKEYS", <<>>,            <<"NEWKEYS">>,            "idle">>,
      <<"WAIT_NEWKEYS", <<>>,            <<"NEWKEYS", "KEXINIT">>, "sent">>,
      <<"IDLE",         <<"NEWKEYS">>,   <<>>,                     "newkeys">> }
    \cup
    IF method = "GEX"
    THEN { <<"WAIT_GROUP", <<"KEXINIT", "GEX_REQUEST">>, <<>>,          "sent">>,
           <<"WAIT_GROUP", <<"GEX_REQUEST">>,            <<>>,          "answered">>,
           <<"WAIT_GROUP", <<>>,                         <<"GEX_GROUP">>, "group">>,
           <<"WAIT_REPLY", <<"GEX_INIT">>,               <<>>,          "group">>,
           <<"WAIT_REPLY", <<>>, <<"GEX_REPLY">>,                       "replied">>,
           <<"WAIT_REPLY", <<>>, <<"GEX_REPLY", "NEWKEYS">>,            "newkeys">> }
    ELSE { <<"WAIT_REPLY", <<"KEXINIT", "KEX_INIT">>,    <<>>,          "sent">>,
           <<"WAIT_REPLY", <<"KEX_INIT">>,               <<>>,          "answered">>,
           <<"WAIT_REPLY", <<>>, <<"KEX_REPLY">>,                       "replied">>,
           <<"WAIT_REPLY", <<>>, <<"KEX_REPLY", "NEWKEYS">>,            "newkeys">> }

\* The server's state, before its first KEXINIT and once it has ours told apart.
SvPhase == IF sv.exch = 0 THEN "new"
            ELSE IF sv.kex = "sent" /\ sv.in_kex THEN "answered" ELSE sv.kex

\* The ends are at h.  What a client that has closed has not read is of no concern.
EndsAt(h) ==
    /\ KexOn(c2s, h[2]) /\ SvPhase = h[4]
    /\ ~closed => kex_state = h[1] /\ KexOn(s2c, h[3])
Handshake ==
    /\ \E h \in Handshakes(sv.method) : EndsAt(h)
    /\ sv.in_kex <=> SvPhase \in {"answered", "group", "replied", "newkeys"}
\* Both ends know which kind of exchange is going on.
MethodAgrees ==
    ~closed =>
        /\ kex_state \in {"WAIT_GROUP", "WAIT_REPLY"} => kex_method = sv.method
        /\ \A i \in 1..Len(s2c) :
              s2c[i].type = "KEXINIT" => MethodOf(s2c[i].opt) = sv.method

\* The server's first packet is its KEXINIT, and under strict key exchange nothing
\* else than the exchange comes before its first NEWKEYS.
FirstPackets ==
    /\ strict_kex => sv.strict
    /\ (sv.exch > 0 /\ sv.tx = 0) => sv.tx_seq > 0
    /\ (sv.owe \/ sv.got > 0) => sv.rx > 0
    /\ \A i \in 1..Len(s2c) : s2c[i].key = 0 =>
          /\ s2c[i].seq = 0 => s2c[i].type = "KEXINIT"
          /\ sv.strict => s2c[i].type \in {"KEXINIT", "KEX_REPLY", "GEX_GROUP",
                                           "GEX_REPLY", "NEWKEYS"}
\* Authentication starts after the first exchange, and nothing before ssh_start().
FirstThingsFirst ==
    /\ ~started => c2s = <<>> /\ ~first_kex_done /\ ~have_version /\ ~hostkey_event
    /\ first_kex_done => rx > 0
    /\ auth_state \in {"SERVICE_SENT", "IN_PROGRESS"} => first_kex_done
    /\ \A i \in 1..Len(c2s) :
          c2s[i].type \in {"SERVICE_REQUEST", "UP"} => c2s[i].key > 0

HandshakeInv ==
    Handshake /\ MethodAgrees /\ FirstPackets /\ FirstThingsFirst /\ err \in ContentErrors

-----------------------------------------------------------------------------
(* The inductive invariant behind ImplementsPipe, with those above *)

\* What is on the wire, and then what waits, are the messages not yet delivered.
OutboundInOrder ==
    /\ InOrder(c2s, sv.got, submitted - Len(deferred))
    /\ InOrder(deferred, submitted - Len(deferred), submitted)
\* Nothing waits when the client is free to send.
WaitsForNewKeys == ~ssh_kex_locked => deferred = <<>>

PipeInv == OutboundInOrder /\ WaitsForNewKeys /\ InboundInOrder
=============================================================================
