------------------------------ MODULE StepScp ------------------------------
(***************************************************************************)
(* tools/stepscp.c: a file or a whole tree copied over SFTP by a queue of  *)
(* items, one request at a time, and the exit code that tells how it went. *)
(*                                                                         *)
(* The server's side of a turn is one step: it answers the request under   *)
(* way, closes the channel, or leaves.  What it sends is read together and *)
(* handled event by event before anything is sent.  A file transfer is one *)
(* request here; SftpTransfer is about its parts.                          *)
(***************************************************************************)
EXTENDS Naturals, Trees

CONSTANTS
    Worlds,      \* what is copied where, and the trees at first
    FirstCap,    \* how many items fit at first (64 in the code)
    MaxPath,     \* how many names fit into a path (2048 bytes in the code)
    MaxErrors    \* bound: what the server fails, or does, without need

ASSUME ScpAssumption == FirstCap \in Nat \ {0} /\ {MaxPath, MaxErrors} \subseteq Nat

VARIABLES
    c,           \* the program, its engine's request, and the local files
    remote,      \* the files at the server
    world, errors

vars == <<c, remote, world, errors>>

Item(l, r, kind) == [local |-> l, remote |-> r, kind |-> kind]
Nowhere == <<"?", "?">>
Event(t) == [t |-> t, ok |-> FALSE, names |-> {}]

\* Each operator takes the program c to the program.  core: none, up, or failed.
\* History: cut, that it did not end by itself; unheard, that the channel was refused;
\* freed, that items were read where they no longer were.
Program(w) ==
    [pc |-> "start", exit |-> 0, done |-> FALSE, tries |-> 0, core |-> "none", req |-> "none",
     evs |-> <<>>, items |-> <<Item(w.lpath, w.rpath, IF w.recursive THEN "dir" ELSE "file")>>,
     cap |-> FirstCap, cur |-> 0, local |-> w.local,
     cut |-> FALSE, unheard |-> FALSE, freed |-> FALSE]

fail(w) == [w EXCEPT !.exit = 1]
Ask(w, t) == IF w.core = "failed" THEN w ELSE [w EXCEPT !.req = t]

\* The array doubles when it is full.  A mutant: it does so once.
Grown_once(w, n) == IF n <= FirstCap THEN FirstCap ELSE 2 * FirstCap
Grown(w, n) == Min({w.cap * 2^k : k \in 0..n} \ 0..n - 1)
Cur(w) == w.items[w.cur]

\* The items a folder's entries make.  The folder's own item is read for each of them, and
\* when the array has moved, where it was: rightly, or what it holds now, or no more.
Late(w, n) == w.cap - Len(w.items) + 1 < n
push(w, names, how) ==
    LET it == Cur(w)
        new == [k \in 1..Len(names) |->
                   Item(Append(it.local, names[k][1]), Append(it.remote, names[k][1]),
                        IF names[k][2] = "dir" THEN "dir" ELSE "file")]
        kept == w.cap - Len(w.items) + 1
        seen == IF ~Late(w, Len(new)) \/ how = "right" THEN new
                ELSE IF world.uploading THEN SubSeq(new, 1, kept)
                ELSE [k \in 1..Len(new) |->
                                  IF k <= kept THEN new[k] ELSE Item(Nowhere, Nowhere, new[k].kind)]
        all == w.items \o seen
    IN  [w EXCEPT !.items = all, !.cap = Grown(w, Len(all)),
                  !.freed = @ \/ Late(w, Len(new)),
                  !.pc = IF Late(w, Len(new)) /\ how = "killed" THEN "killed" ELSE @]
\* advance: the next item, unless something failed or none is left.
Begins(v) ==
    LET it == Cur(v) IN
    CASE world.uploading /\ it.kind = "dir" -> Ask(v, "MKDIR")
      [] world.uploading /\ it.kind # "dir" ->
           IF Kind(v.local, it.local) = "absent" \/ v.core = "failed"
           THEN [fail(v) EXCEPT !.done = TRUE] ELSE Ask(v, "PUT")
      [] ~world.uploading /\ it.kind = "dir" ->
           Ask(IF Kind(v.local, it.local) = "absent" /\ Writable(v.local, it.local)
               THEN [v EXCEPT !.local = (it.local :> "dir") @@ @] ELSE v, "LIST")
      [] OTHER -> Ask(v, "STAT")
\* A mutant: after a failure nothing ends the loop.
advance_idles(w) ==
    CASE w.exit # 0 -> w
      [] w.exit = 0 /\ w.cur = Len(w.items) -> [w EXCEPT !.done = TRUE]
      [] OTHER -> Begins([w EXCEPT !.cur = @ + 1])
advance(w) ==
    IF w.exit # 0 \/ w.cur = Len(w.items) THEN [w EXCEPT !.done = TRUE]
    ELSE Begins([w EXCEPT !.cur = @ + 1])

\* What of a folder makes items: going up, links are followed; going down, they are left
\* out.  A path that does not fit is told.
Fits(w, n) == Len(Cur(w).local) < MaxPath /\ Len(Cur(w).remote) < MaxPath
Entries(w, held) ==
    SetToSeq({e \in held : Fits(w, e[1]) /\ (world.uploading \/ e[2] \in {"dir", "file"})})
Listed(w, held, how) ==
    LET v == IF \E e \in held : ~Fits(w, e[1]) THEN fail(w) ELSE w
    IN  advance(push(v, Entries(w, held), how))
upload_dir(w, how) ==
    IF Kind(w.local, Cur(w).local) = "dir" THEN Listed(w, Held(w.local, Cur(w).local), how)
    ELSE advance(fail(w))
download_list_cb(w, ok, held, how) == IF ok THEN Listed(w, held, how) ELSE advance(fail(w))

\* A size that could not be had is 0; the file is emptied, then read.
stat_then_download(w) ==
    LET to == Cur(w).local IN
    IF ~Writable(w.local, to) THEN advance(fail(w))
    ELSE LET v == [w EXCEPT !.local = (to :> "empty") @@ @] IN
         IF w.core = "failed" THEN advance(fail(v)) ELSE Ask(v, "GET")
\* A mutant: what went wrong is not kept.
xfer_cb_silent(w, ok) == advance(w)
xfer_cb(w, ok) == advance(IF ok THEN w ELSE fail(w))

\* The callback of the request under way.
Told(w, e, how) ==
    LET v == [w EXCEPT !.req = "none"] IN
    CASE w.req = "MKDIR" -> upload_dir(v, how)
      [] w.req = "LIST" -> download_list_cb(v, e.ok, e.names, how)
      [] w.req = "STAT" -> stat_then_download(v)
      [] w.req = "GET" -> xfer_cb([v EXCEPT !.local = (Cur(v).local :> IF e.ok THEN "file" ELSE "half") @@ @], e.ok)
      [] w.req = "PUT" -> xfer_cb(v, e.ok)
      [] OTHER -> v

\* SSH_EV_AUTH_NEEDED and _FAILED: a key, a password, which the user may not want to give.
Auth(w, how) ==
    CASE how = "again" -> [w EXCEPT !.tries = @ + 1]
      [] how = "declined" -> [w EXCEPT !.done = TRUE, !.cut = TRUE]
      [] how = "denied" -> [w EXCEPT !.done = TRUE, !.exit = 2]
Handled(w, e, how) ==
    CASE e.t = "CLOSE" -> [w EXCEPT !.done = TRUE, !.cut = TRUE]
      [] e.t = "DISCONNECT" -> [w EXCEPT !.done = TRUE, !.cut = TRUE, !.exit = IF @ = 0 THEN 2 ELSE @]
      [] e.t = "MALFORMED" ->
           [fail(w) EXCEPT !.done = TRUE, !.core = "failed", !.req = IF e.ok THEN "none" ELSE @]
      [] e.t = "LOGIN" -> IF e.ok THEN Ask(w, "CHANNEL") ELSE Auth(w, how)
      [] e.t = "CHANNEL" ->
           IF e.ok THEN Ask(w, "SUBSYSTEM") ELSE [w EXCEPT !.req = "none", !.unheard = TRUE]
      [] e.t = "SUBSYSTEM" ->
           IF e.ok THEN Ask(w, "INIT") ELSE [w EXCEPT !.req = "none", !.done = TRUE, !.exit = 2]
      [] e.t = "INIT" -> advance([w EXCEPT !.core = "up", !.req = "none"])
      [] OTHER -> Told(w, e, how)

\* What there is to choose for an event: how the user answers, or what freed memory holds.
Listing(w, e) ==
    IF w.req = "MKDIR" THEN Entries(w, Held(w.local, Cur(w).local)) ELSE Entries(w, e.names)
Outcomes(w, e) ==
    CASE e.t = "LOGIN" /\ ~e.ok -> IF w.tries < 2 THEN {"again", "declined", "denied"} ELSE {"denied"}
      [] e.t \in {"MKDIR", "LIST"} /\ w.req = e.t /\ w.cur > 0 /\ Late(w, Len(Listing(w, e))) ->
           {"right", "garbage", "killed"}
      [] OTHER -> {"right"}

-----------------------------------------------------------------------------
(* The loop of main *)

\* The key, the random numbers, the connection; a folder without -r is refused.
starts ==
    /\ c.pc = "start"
    /\ \E dialled \in BOOLEAN :
          c' = IF ~dialled \/ (~world.recursive /\ world.uploading /\ Kind(c.local, world.lpath) = "dir")
               THEN [c EXCEPT !.pc = "over", !.exit = 2]
               ELSE [c EXCEPT !.pc = "loop", !.req = "LOGIN"]
    /\ UNCHANGED <<remote, world, errors>>

handles ==
    /\ c.pc = "loop" /\ c.evs # <<>>
    /\ \E how \in Outcomes(c, c.evs[1]) :
          c' = [Handled(c, c.evs[1], how) EXCEPT !.evs = Tail(@)]
    /\ UNCHANGED <<remote, world, errors>>

\* sftp_free: the request under way is told that the connection is lost.
Over(w, how) ==
    LET v == IF w.core = "none" THEN w
             ELSE Told([w EXCEPT !.core = "failed"], Event(w.req), how)
    IN  [v EXCEPT !.pc = IF @ = "killed" THEN @ ELSE "over"]
Leaves(w) == \E how \in Outcomes(w, Event(w.req)) : c' = Over(w, how)
ends ==
    /\ c.pc = "loop" /\ c.evs = <<>> /\ c.done /\ Leaves(c)
    /\ UNCHANGED <<remote, world, errors>>
\* The connection breaks, or is closed: read() or write() says so.
lost ==
    /\ c.pc = "loop" /\ c.evs = <<>> /\ ~c.done /\ errors < MaxErrors /\ errors' = errors + 1
    /\ Leaves([c EXCEPT !.cut = TRUE])
    /\ UNCHANGED <<remote, world>>

-----------------------------------------------------------------------------
(* The server *)

Possible ==
    LET k == Kind(remote, Cur(c).remote) IN
    CASE c.req = "MKDIR" -> k = "absent" /\ Writable(remote, Cur(c).remote)
      [] c.req = "LIST" -> k = "dir"
      [] c.req = "PUT" -> Writable(remote, Cur(c).remote)
      [] c.req = "GET" -> k \in {"file", "link"}
      [] OTHER -> TRUE
After(ok) ==
    CASE c.req = "MKDIR" /\ ok -> (Cur(c).remote :> "dir") @@ remote
      [] c.req = "PUT" /\ Possible -> (Cur(c).remote :> IF ok THEN "file" ELSE "half") @@ remote
      [] OTHER -> remote
Turn == c.pc = "loop" /\ c.evs = <<>> /\ ~c.done /\ c.req # "none"
\* A server that fails a PUT or a GET it could do fails it half way.
SvAnswers ==
    /\ Turn
    /\ \E ok \in BOOLEAN, closes \in BOOLEAN :
          LET names == IF c.req = "LIST" /\ ok THEN Held(remote, Cur(c).remote) ELSE {}
              cost == (IF ~ok /\ Possible THEN 1 ELSE 0) + (IF closes THEN 1 ELSE 0)
          IN  /\ ok => Possible
              /\ errors + cost <= MaxErrors /\ errors' = errors + cost
              /\ c' = [c EXCEPT !.evs = <<[t |-> c.req, ok |-> ok, names |-> names]>>
                                        \o IF closes THEN <<Event("CLOSE")>> ELSE <<>>]
              /\ remote' = After(ok)
    /\ UNCHANGED world
SvLeaves ==
    /\ Turn /\ errors < MaxErrors /\ errors' = errors + 1
    /\ \E t \in {"CLOSE", "DISCONNECT"} : c' = [c EXCEPT !.evs = <<Event(t)>>]
    /\ UNCHANGED <<remote, world>>
\* An answer that does not parse, to the request under way or to none.
SvMalformed ==
    /\ Turn /\ c.core = "up" /\ errors < MaxErrors /\ errors' = errors + 1
    /\ \E own \in BOOLEAN : c' = [c EXCEPT !.evs = <<[Event("MALFORMED") EXCEPT !.ok = own]>>]
    /\ UNCHANGED <<remote, world>>

Init == world \in Worlds /\ c = Program(world) /\ remote = world.remote /\ errors = 0
Next == starts \/ handles \/ ends \/ lost \/ SvAnswers \/ SvLeaves \/ SvMalformed
Spec == Init /\ [][Next]_vars
\* The program runs, and the server answers every request.
FairSpec == Spec /\ WF_vars(starts \/ handles \/ ends) /\ WF_vars(SvAnswers)

-----------------------------------------------------------------------------
(* Properties *)

\* The shape of the state; the request under way is about an item there is, in an array
\* with room for it.
TypeOK ==
    /\ c.pc \in {"start", "loop", "over", "killed"} /\ c.exit \in 0..2 /\ c.tries \in 0..2
    /\ c.core \in {"none", "up", "failed"} /\ errors \in 0..MaxErrors
    /\ c.req \in {"none", "LOGIN", "CHANNEL", "SUBSYSTEM", "INIT", "MKDIR", "LIST", "STAT", "GET", "PUT"}
    /\ c.cur \in 0..Len(c.items) /\ Len(c.items) <= c.cap
    /\ c.req \in {"MKDIR", "LIST", "STAT", "GET", "PUT"} => c.cur > 0 /\ c.core # "none"

Source == IF world.uploading THEN c.local ELSE remote
Target == IF world.uploading THEN remote ELSE c.local
From == IF world.uploading THEN world.lpath ELSE world.rpath
To == IF world.uploading THEN world.rpath ELSE world.lpath
Twin(p) == To \o SubSeq(p, Len(From) + 1, Len(p))
\* What there is to copy: no folder without a file, as its mkdir is not looked at.
Filled(p) == Source[p] = "file" \/ (Source[p] = "link" /\ (world.uploading \/ ~world.recursive))
Wanted == {p \in Under(Source, From) : \E q \in Under(Source, p) : Filled(q)}
Copied ==
    /\ From \in Wanted \/ Kind(Source, From) = "dir"
    /\ \A p \in Wanted : Kind(Target, Twin(p)) = IF Source[p] = "dir" THEN "dir" ELSE "file"
    /\ \A p \in DOMAIN Target \ {Twin(q) : q \in Under(Source, From)} :
          p \in DOMAIN (IF world.uploading THEN world.remote ELSE world.local)

\* The comment at the head: the destination is the exact copy of the source tree, not nested
\* deeper.  A run that came to its end by itself and says 0 has made it, whatever it found
\* there and whatever failed on the way; unless the array moved under a listing.
ZeroIsACopy == c.pc = "over" /\ c.exit = 0 /\ ~c.cut /\ ~c.freed => Copied

\* The program comes to an end, whatever fails, unless its channel is refused.
Ends == (c.pc = "loop") ~> (c.pc # "loop" \/ c.unheard)
=============================================================================
