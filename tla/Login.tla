------------------------------- MODULE Login -------------------------------
(***************************************************************************)
(* From a connection to a logged-in user: core/ssh_auth.c, the answers of  *)
(* app/SSHSession.m (and of tools/stepssh.c and stepscp.c) to its events,  *)
(* the known_hosts file and the seed file, over several connections and    *)
(* starts of the program.                                                  *)
(*                                                                         *)
(* Below is a transport that delivers messages in order and whole; what    *)
(* arrives together is taken in, one message after the other, before the   *)
(* events it makes are handled.                                            *)
(* Panels are modal: a handler with its questions is one step.             *)
(***************************************************************************)
EXTENDS KnownHosts, Seed

CONSTANTS
    Worlds,        \* how the client is run, the first known_hosts, the server's keys and methods
    Name, KeyType, \* the host as make_name has it, and the type of its key
    MaxConnects,   \* bound: connections
    MaxRounds,     \* bound: requests the server answers with questions, banners, and leaving
    MaxFaults      \* bound: files that cannot be written

LoginAssumption ==
    /\ "main" \in Procs
    /\ {MaxConnects, MaxRounds, MaxFaults} \subseteq Nat
    /\ \A w \in Worlds : /\ w.client \in {"app", "stepssh", "stepscp"}
                         /\ w.seed \in Files /\ ~w.seed.spent
                         /\ w.starts \in 0..MaxStarts /\ w.rounds \in 0..MaxRounds
ASSUME LoginAssumption

VARIABLES
    world, hosts,   \* the files: hosts.file and hosts.torn, a last line cut short
    s,              \* the session of program "main"
    up, down,       \* messages under way
    rounds,         \* bound: what the server may yet say of its own, and ask
    connects, faults,
    trusted         \* history: the keys accepted that were written whole

vars == <<seedVars, world, hosts, s, up, down, rounds, connects, faults, trusted>>

Main == "main"
Nothing == "nothing"

\* The session: st of SSHSession; reading, in the midst of what arrived together; dec to
\* authOk of ssh_session; and what the caller tried.  History: vain, an attempt dropped by a session that goes on; unheard,
\* a question that was not put.
NewSession ==
    [st |-> "none", reading |-> FALSE, dec |-> FALSE, ok |-> FALSE, first |-> FALSE, auth |-> "NONE",
     pending |-> Nothing, authOk |-> FALSE, closed |-> FALSE, evs |-> <<>>,
     key |-> 0, pw |-> 0, kbdTries |-> 0, vain |-> FALSE, unheard |-> FALSE]
\* How often each of the clients tries a password and keyboard-interactive.
Tries(client) ==
    CASE client = "app" -> [pw |-> 3, kbd |-> 3]
      [] client = "stepssh" -> [pw |-> 1, kbd |-> 1]
      [] client = "stepscp" -> [pw |-> 1, kbd |-> 0]
Msg(t) == [t |-> t, methods |-> {}, key |-> "none"]
Push(w, e) == [w EXCEPT !.evs = Append(@, e)]
Event(t) == [t |-> t, methods |-> {}, code |-> 0, key |-> "none"]

-----------------------------------------------------------------------------
(* ssh_auth.c.  A handler takes w = [s, up] to what it makes of it. *)

Send(w, m) == IF w.s.closed THEN w ELSE [w EXCEPT !.up = Append(@, m)]
\* auth_pending holds 15 characters; only one of the names is longer.
Pending(m) == IF m = "keyboard-interactive" THEN "keyboard-intera" ELSE m
send_request(w, m) == [Send(w, Msg(m)) EXCEPT !.s.pending = Pending(m)]
can_auth(t) == ~t.closed /\ t.auth = "IN_PROGRESS" /\ t.pending = Nothing /\ ~t.authOk
ssh_auth_begin(w) == [Send(w, Msg("SERVICE_REQUEST")) EXCEPT !.s.auth = "SERVICE_SENT"]

\* A request that cannot be made is not made; the caller does not look.
ssh_auth(w, m) ==
    IF can_auth(w.s) THEN send_request(w, m) ELSE [w EXCEPT !.s.vain = @ \/ ~w.s.closed]
ssh_auth_password(w) == ssh_auth(w, "password")
\* A key that cannot sign says nothing to the server.
ssh_auth_publickey(w) == IF world.key = "useless" THEN w ELSE ssh_auth(w, "publickey")
ssh_auth_kbdint_start(w) == ssh_auth(w, "keyboard-interactive")

\* A mutant: the request refused remains under way.
Failed_pending(t) == t
Failed(t) == [t EXCEPT !.pending = Nothing]
ssh_auth_dispatch(w, m) ==
    CASE m.t = "SERVICE_ACCEPT" ->
           IF w.s.auth # "SERVICE_SENT" THEN w
           ELSE send_request([w EXCEPT !.s.auth = "IN_PROGRESS"], "none")
      [] m.t = "BANNER" -> w
      [] m.t = "FAILURE" ->
           [w EXCEPT !.s = Push(Failed(w.s), [Event(IF w.s.pending = "none" THEN "AUTH_NEEDED" ELSE "AUTH_FAILED")
                                              EXCEPT !.methods = m.methods])]
      [] m.t = "SUCCESS" ->
           [w EXCEPT !.s = [Push(w.s, Event("AUTH_OK")) EXCEPT !.pending = Nothing, !.authOk = TRUE,
                                                                !.auth = "DONE"]]
      [] m.t = "INFO" ->
           \* The server's words stand where the methods should.
           IF w.s.pending = "password"
           THEN [w EXCEPT !.s = [Push(w.s, [Event("AUTH_FAILED") EXCEPT !.code = 2])
                                 EXCEPT !.pending = Nothing]]
           \* Only a pending "keyboard-interactive" in full would make it a question.
           ELSE [w EXCEPT !.s.unheard = TRUE]

-----------------------------------------------------------------------------
(* The first key exchange, as far as the host's key is concerned *)

\* A mutant: that the answer is waited for is forgotten.
kex_finished_forgets(w) ==
    LET v == [w EXCEPT !.s.first = TRUE] IN IF w.s.dec /\ w.s.ok THEN ssh_auth_begin(v) ELSE v
kex_finished(w) ==
    LET v == [w EXCEPT !.s.first = TRUE] IN
    CASE w.s.dec /\ w.s.ok -> ssh_auth_begin(v)
      [] w.s.dec /\ ~w.s.ok -> v
      [] OTHER -> [v EXCEPT !.s.auth = "WAIT_HOSTKEY"]
ssh_hostkey_accept(w, accept) ==
    LET v == [w EXCEPT !.s.dec = TRUE, !.s.ok = accept] IN
    CASE w.s.dec -> w
      [] ~w.s.dec /\ ~accept -> [v EXCEPT !.s = [Push(v.s, Event("ERROR")) EXCEPT !.closed = TRUE]]
      [] OTHER -> IF w.s.first /\ w.s.auth = "WAIT_HOSTKEY" THEN ssh_auth_begin(v) ELSE v

handle_packet(w, m) ==
    IF w.s.closed THEN w
    ELSE CASE m.t = "DISCONNECT" ->
                [w EXCEPT !.s = [Push(w.s, Event("DISCONNECT")) EXCEPT !.closed = TRUE]]
           [] m.t = "KEX_REPLY" -> [w EXCEPT !.s = Push(w.s, [Event("HOSTKEY") EXCEPT !.key = m.key])]
           [] m.t = "NEWKEYS" -> kex_finished(w)
           [] OTHER -> ssh_auth_dispatch(w, m)

W == [s |-> s, up |-> up]
\* pump: some of what has arrived; this message is the last of it, or not.
ssh_input ==
    /\ s.st = "handshake" /\ down # <<>> /\ (s.reading \/ s.evs = <<>>)
    /\ \E more \in BOOLEAN :
          /\ more => Len(down) > 1
          /\ LET w == handle_packet(W, down[1]) IN
             s' = [w.s EXCEPT !.reading = more] /\ up' = w.up
    /\ down' = Tail(down)
    /\ UNCHANGED <<seedVars, world, hosts, rounds, connects, faults, trusted>>

-----------------------------------------------------------------------------
(* The answers to the events *)

\* endWithMessage: the application replaces its seed; a tool is over.
End ==
    /\ s' = [NewSession EXCEPT !.st = "ended"] /\ up' = <<>> /\ down' = <<>>
    /\ IF world.client = "app" THEN endWithMessage(Main) ELSE Killed(Main)
Took(w) == s' = [w.s EXCEPT !.evs = Tail(@)] /\ up' = w.up /\ UNCHANGED <<down, seedVars>>
First(t) == /\ s.st = "handshake" /\ ~s.reading /\ s.evs # <<>> /\ s.evs[1].t = t

handleHostKey ==
    LET key == s.evs[1].key
        r == kh_check(hosts.file, Name, KeyType, key)
    IN  /\ First("HOSTKEY")
        /\ \/ /\ r = Match \/ ~world.strict
              /\ Took(ssh_hostkey_accept(W, TRUE)) /\ UNCHANGED <<hosts, faults, trusted>>
           \/ /\ r # Match /\ world.strict
              /\ Took(ssh_hostkey_accept(W, FALSE)) /\ UNCHANGED <<hosts, faults, trusted>>
           \/ /\ r = Changed /\ world.strict
              /\ Took(ssh_hostkey_accept(W, TRUE)) /\ UNCHANGED <<hosts, faults, trusted>>
           \/ /\ r = Unknown /\ world.strict
              /\ Took(ssh_hostkey_accept(W, TRUE))
              /\ \E wrote \in {"all", "nothing", "cut", "key cut"} :
                    /\ wrote # "all" => faults < MaxFaults
                    /\ faults' = IF wrote = "all" THEN faults ELSE faults + 1
                    /\ hosts' = kh_add(hosts.file, hosts.torn, Name, KeyType, key, wrote)
                    /\ trusted' = IF wrote = "all" /\ ~hosts.torn THEN trusted \cup {key} ELSE trusted
        /\ UNCHANGED <<world, rounds, connects>>

\* The methods are tried in turn; a question to the user may be declined.
TryKey(m) == world.key # "none" /\ s.key = 0 /\ "publickey" \in m
TryPassword(m) == "password" \in m /\ s.pw < Tries(world.client).pw
TryKbd(m) == "keyboard-interactive" \in m /\ s.kbdTries < Tries(world.client).kbd
handleAuth ==
    LET m == s.evs[1].methods IN
    /\ First("AUTH_NEEDED") \/ First("AUTH_FAILED")
    /\ \/ TryKey(m) /\ Took(ssh_auth_publickey([W EXCEPT !.s.key = 1]))
       \/ /\ ~TryKey(m) /\ TryPassword(m)
          /\ Took(ssh_auth_password([W EXCEPT !.s.pw = @ + 1])) \/ End
       \/ /\ ~TryKey(m) /\ ~TryPassword(m) /\ TryKbd(m)
          /\ Took(ssh_auth_kbdint_start([W EXCEPT !.s.kbdTries = @ + 1]))
       \/ ~TryKey(m) /\ ~TryPassword(m) /\ ~TryKbd(m) /\ End
    /\ UNCHANGED <<world, hosts, rounds, connects, faults, trusted>>

authOk ==
    /\ First("AUTH_OK") /\ Took([W EXCEPT !.s.st = "active"])
    /\ UNCHANGED <<world, hosts, rounds, connects, faults, trusted>>
goodbye ==
    /\ First("DISCONNECT") \/ First("ERROR")
    /\ End
    /\ UNCHANGED <<world, hosts, rounds, connects, faults, trusted>>
\* pump: the connection is closed by the server, or broken; or the user is done.
lost ==
    /\ s.st = "active" \/ (s.st = "handshake" /\ ~s.reading /\ s.evs = <<>>)
    /\ End
    /\ UNCHANGED <<world, hosts, rounds, connects, faults, trusted>>
processEvents == handleHostKey \/ handleAuth \/ authOk \/ goodbye

-----------------------------------------------------------------------------
(* Connections, programs, and the server *)

\* beginConnect to connected: refused, timed out, or the exchange begins.
beginConnect ==
    /\ Running(Main) /\ s.st \in {"none", "ended"} /\ connects < MaxConnects
    /\ connects' = connects + 1
    /\ \E key \in world.svKeys, made \in BOOLEAN :
          IF made THEN /\ s' = [NewSession EXCEPT !.st = "handshake"]
                       /\ down' = <<[Msg("KEX_REPLY") EXCEPT !.key = key], Msg("NEWKEYS")>>
          ELSE s' = [NewSession EXCEPT !.st = "ended"] /\ down' = <<>>
    /\ up' = <<>>
    /\ UNCHANGED <<seedVars, world, hosts, rounds, faults, trusted>>

Programs ==
    /\ \E p \in Procs :
          \/ Launch(p, p # Main \/ world.client # "app", world.urandom)
          \/ Seeding(p)
          \/ p # Main /\ Killed(p)
    /\ UNCHANGED <<world, hosts, s, up, down, rounds, connects, faults, trusted>>
\* With the program goes its session.
MainKilled ==
    /\ Killed(Main) /\ s' = NewSession /\ up' = <<>> /\ down' = <<>>
    /\ UNCHANGED <<world, hosts, rounds, connects, faults, trusted>>

\* The server answers one request after the other.
Failure(partly) == [Msg("FAILURE") EXCEPT !.methods = partly]
SvReplies(m) ==
    LET fails == {Failure(ms) : ms \in world.methods} IN
    CASE m.t = "SERVICE_REQUEST" -> {Msg("SERVICE_ACCEPT")}
      [] m.t \in {"none", "publickey"} -> fails \cup {Msg("SUCCESS")}
      [] OTHER -> fails \cup {Msg("SUCCESS")}
                  \cup {Msg("INFO") : n \in 1..rounds}
SvAnswers ==
    /\ s.st = "handshake" /\ up # <<>>
    /\ \E r \in SvReplies(up[1]) :
          down' = Append(down, r) /\ rounds' = IF r.t = "INFO" THEN rounds - 1 ELSE rounds
    /\ up' = Tail(up)
    /\ UNCHANGED <<seedVars, world, hosts, s, connects, faults, trusted>>
SvSays ==
    /\ s.st = "handshake" /\ rounds > 0 /\ rounds' = rounds - 1
    /\ \E t \in {"BANNER", "DISCONNECT"} : down' = Append(down, Msg(t))
    /\ UNCHANGED <<seedVars, world, hosts, s, up, connects, faults, trusted>>

Init ==
    /\ world \in Worlds /\ hosts = [file |-> world.hosts, torn |-> FALSE]
    /\ SeedInit(world.seed, world.starts)
    /\ s = NewSession /\ up = <<>> /\ down = <<>> /\ rounds = world.rounds /\ connects = 0 /\ faults = 0
    /\ trusted = {}

Next ==
    \/ ssh_input \/ processEvents \/ lost \/ beginConnect
    \/ Programs \/ MainKilled \/ SvAnswers \/ SvSays

Spec == Init /\ [][Next]_vars
\* The timer reads and handles what has arrived, and the user answers; so does the server.
FairSpec ==
    /\ Spec /\ WF_vars(ssh_input) /\ WF_vars(processEvents) /\ WF_vars(SvAnswers)

-----------------------------------------------------------------------------
(* Properties *)

\* The shape of the state.
TypeOK ==
    /\ SeedTypeOK
    /\ s.st \in {"none", "handshake", "active", "ended"}
    /\ s.auth \in {"NONE", "WAIT_HOSTKEY", "SERVICE_SENT", "IN_PROGRESS", "DONE"}
    /\ s.pending \in {Nothing, "none", "password", "publickey", "keyboard-intera"}
    /\ s.pw \in 0..Tries(world.client).pw /\ s.kbdTries \in 0..Tries(world.client).kbd
    /\ faults \in 0..MaxFaults /\ rounds \in 0..MaxRounds
    /\ s.st \in {"handshake", "active"} => proc[Main].pc = "up"

\* knownhosts.h: CHANGED means that the host is listed with a different key.  The verdict on
\* every key the server may show is that of the lines for this host, whatever their order;
\* and a key once accepted and written is known from then on.  A file whose last line was cut
\* short is excepted.
Lines == {hosts.file[k] : k \in 1..Len(hosts.file)}
Ours == {l \in Lines : hosts_match(l.hosts, Name) /\ l.type = KeyType}
HostsJudged ==
    ~hosts.torn =>
        \A key \in world.svKeys :
            LET r == kh_check(hosts.file, Name, KeyType, key) IN
            /\ r = Match <=> \E l \in Ours : l.key = key
            /\ r = Changed => \E l \in Ours : l.key \notin {key, "part"}
            /\ key \in trusted => r = Match

\* What the user types or chooses is sent: no password, key or keyboard-interactive is tried
\* while a request is under way, or after the server has gone on, and dropped.  Excepted: what
\* is tried after the server has closed the connection (a refusal and a DISCONNECT that arrive
\* together are handled in turn, and the password asked for in between goes nowhere), and a
\* key that cannot sign (no request is made, and nothing is told).  And the server has one
\* request to answer, and the tries are counted.
NothingTypedInVain == TypeOK /\ ~s.vain /\ Len(up) <= 1

\* Why: in a session that goes on, what is yet to be answered is in one place only, which
\* the state of the login names: a request on its way up, its answer on the way down, or
\* the event of its refusal.
Keys == {"none"} \cup UNION {w.svKeys : w \in Worlds}
Methods == {{}} \cup UNION {w.methods : w \in Worlds}
Requests == {"SERVICE_REQUEST", "none", "publickey", "password", "keyboard-interactive"}
Answers == {"SERVICE_ACCEPT", "FAILURE", "SUCCESS", "INFO"}
Refusals == {"AUTH_NEEDED", "AUTH_FAILED"}
Messages == [t : Requests \cup Answers \cup {"KEX_REPLY", "NEWKEYS", "BANNER", "DISCONNECT"},
             methods : Methods, key : Keys]
Events == [t : Refusals \cup {"HOSTKEY", "AUTH_OK", "ERROR", "DISCONNECT"},
           methods : Methods, code : {0, 2}, key : Keys]
Sessions ==
    [st : {"none", "handshake", "active", "ended"}, reading : BOOLEAN, dec : BOOLEAN,
     ok : BOOLEAN, first : BOOLEAN,
     auth : {"NONE", "WAIT_HOSTKEY", "SERVICE_SENT", "IN_PROGRESS", "DONE"},
     pending : {Nothing, "none", "password", "publickey", "keyboard-intera"},
     authOk : BOOLEAN, closed : BOOLEAN, evs : Seq(Events), key : {0, 1}, pw : Nat,
     kbdTries : Nat, vain : BOOLEAN, unheard : BOOLEAN]
Are(q, kinds) == {k \in 1..Len(q) : q[k].t \in kinds}
None(q, kinds) == Are(q, kinds) = {}
AtMostOne(q, kinds) == \A j, k \in Are(q, kinds) : j = k
\* No answer is due, or one to a request among these.
Idle(u, d) == u = <<>> /\ None(d, Answers)
Asked(u, d, requests, answers) ==
    /\ None(d, Answers \ answers) /\ AtMostOne(d, answers)
    /\ u # <<>> => Len(u) = 1 /\ u[1].t \in requests /\ None(d, Answers)
InTurn(t, u, d) ==
    /\ t.auth \in {"NONE", "WAIT_HOSTKEY", "DONE"} => Idle(u, d) /\ None(t.evs, Refusals)
    /\ t.auth # "IN_PROGRESS" => t.pending = Nothing
    /\ t.auth = "SERVICE_SENT" => /\ Asked(u, d, {"SERVICE_REQUEST"}, {"SERVICE_ACCEPT"})
                                  /\ None(t.evs, Refusals)
    /\ t.auth = "IN_PROGRESS" =>
          IF t.pending = Nothing THEN Idle(u, d) /\ AtMostOne(t.evs, Refusals)
          ELSE /\ Asked(u, d, Requests \ {"SERVICE_REQUEST"}, Answers \ {"SERVICE_ACCEPT"})
               /\ None(t.evs, Refusals)
\* The first exchange ends once, and the login begins after it.
Exchanged(t, d) ==
    /\ AtMostOne(d, {"NEWKEYS"}) /\ (~None(d, {"NEWKEYS"}) => ~t.first)
    /\ t.first <=> t.auth # "NONE"
    /\ t.dec => t.ok
    /\ t.authOk <=> t.auth = "DONE"
LoginInv ==
    /\ TypeOK /\ s \in Sessions /\ up \in Seq(Messages) /\ down \in Seq(Messages)
    /\ None(down, Requests) /\ world \in Worlds /\ ~s.vain /\ Len(up) <= 1
    /\ s.st = "handshake" /\ ~s.closed => InTurn(s, up, down) /\ Exchanged(s, down)

\* Every connection ends in a login or in a message, unless the key chosen cannot sign, or
\* the server asks a question.
LoginEnds ==
    (s.st = "handshake" /\ world.key # "useless") ~> (s.st # "handshake" \/ s.unheard)

\* README.md: keyboard-interactive is one of the ways to log in.  The server's question is
\* put to the user, or the attempt comes to some other end.
KbdintGoesOn == s.unheard ~> ~s.unheard
=============================================================================
