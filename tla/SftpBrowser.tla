---------------------------- MODULE SftpBrowser ----------------------------
(***************************************************************************)
(* The file browser of StepSSH (app/SFTPBrowser.m) over the requests and   *)
(* directory listings of core/sftp.c: navigation, the queue of jobs, the   *)
(* folder transfers whose every step queues further jobs, cancelling,      *)
(* closing the window, and the end of the connection.                      *)
(*                                                                         *)
(* A path is the sequence of its names and a file tree the function from   *)
(* the paths that exist to their kinds.  The server carries a request out  *)
(* and the answer arrives in one step, in any order of the requests: what  *)
(* the user does meanwhile only adds requests, so that nothing is hidden.  *)
(* A file transfer is one request here; SftpTransfer is about its parts.   *)
(* Panels are modal and stop the timer: a button's handler is one step.    *)
(***************************************************************************)
EXTENDS Integers, FiniteSets, Trees

CONSTANTS
    Worlds,       \* what the trees hold at first, and how often the user does what
    Home,         \* what the server takes "." for
    NewNames,     \* names the user types
    MaxErrors     \* bound: requests that fail without need, and answers that do not parse

ASSUME BrowserAssumption ==
    /\ MaxErrors \in Nat
    /\ \A w \in Worlds : {<<>>, Home} \subseteq DOMAIN w.remote /\ <<>> \in DOMAIN w.local

VARIABLES
    b,            \* the browser, its engine's requests, and the local files
    remote,       \* the files at the server
    world,        \* the member of Worlds
    left,         \* what the user may still do
    errors

vars == <<b, remote, world, left, errors>>

None == <<"none">>

\* A job: what to do with a, and where to.  History: gen, the cancels before it was asked
\* for.
Job(op, a, to, gen) == [op |-> op, a |-> a, to |-> to, gen |-> gen]
NoJob == Job("none", None, None, 0)
Request(cb, type, job) == [cb |-> cb, type |-> type, job |-> job, got |-> {}, ok |-> TRUE]

\* initWithSession.  job is the one under way (walkRemote, walkLocal, xlocal), core the
\* engine: none, up, or failed.  History: gen counts the cancels and plain those of them that
\* met a plain step, late says that a job cancelled began; asked has the folder transfers
\* asked for since the queue was last emptied, each with the tree it is to copy from (those
\* a plain step has come between are taken out), unmade the folders whose MKDIR failed, and
\* dropped counts the folder transfers lost to a cancel before they were asked for; shown is
\* the directory entries was read from, muddled says that something else changed or was read
\* during the navigation under way, and stale that it was so for what is shown, or that a
\* folder was made since.
Opened(local) ==
    [ready |-> FALSE, dead |-> FALSE, closed |-> FALSE, core |-> "none", pend |-> <<>>,
     local |-> local, busy |-> FALSE, listing |-> FALSE, dirty |-> FALSE,
     walkCancelled |-> FALSE, cwd |-> None, wanted |-> None, entries |-> {}, jobs |-> <<>>,
     job |-> NoJob, xfer |-> FALSE, xcancel |-> FALSE,
     gen |-> 0, plain |-> 0, late |-> FALSE, asked |-> {}, unmade |-> {}, dropped |-> 0,
     shown |-> None, muddled |-> FALSE, stale |-> FALSE]

Core(w) == IF w.dead THEN "none" ELSE w.core
Navigating(w) == \E k \in 1..Len(w.pend) : w.pend[k].cb \in {"realpath", "list"}
Muddled(w) == [w EXCEPT !.muddled = @ \/ Navigating(w)]
Ask(w, cb, type, job) == [w EXCEPT !.pend = Append(@, Request(cb, type, job))]

-----------------------------------------------------------------------------
(* Navigation and the queue: each method takes the browser to the browser  *)

\* Requests are refused by an engine that has failed.
navigate(w, p) ==
    LET v == [w EXCEPT !.wanted = p, !.listing = TRUE, !.muddled = Navigating(w)] IN
    CASE Core(w) = "none" \/ ~w.ready -> w
      [] Core(w) = "up"     -> Ask(v, "realpath", "REALPATH", Job("nav", p, None, w.gen))
      [] Core(w) = "failed" -> [v EXCEPT !.listing = FALSE]
refresh(w) == IF w.cwd # None THEN navigate(w, w.cwd) ELSE w

listResolved(w, p) ==
    LET v == [w EXCEPT !.wanted = p] IN
    IF Core(w) = "up" THEN Ask(v, "list", "OPENDIR", Job("nav", p, None, w.gen))
    ELSE [v EXCEPT !.listing = FALSE]
\* A mutant: it still says that it reads.
navFailed_keeps(w) == w
navFailed(w) == [w EXCEPT !.listing = FALSE]

failJobs(w) == [w EXCEPT !.jobs = <<>>, !.busy = FALSE, !.asked = {}]

\* A job that begins: its request is sent, or refused and all jobs fail.
Begins(w, j, cb, type) ==
    LET v == [w EXCEPT !.job = j] IN
    IF Core(w) = "up"
    THEN [Ask(v, cb, type, j) EXCEPT !.busy = TRUE, !.late = @ \/ j.gen # w.gen]
    ELSE failJobs(v)
Transfers(v, j) == LET u == Begins(v, j, "xfer", "OPEN") IN [u EXCEPT !.xfer = u.busy]
Get(w, j) ==
    IF Writable(w.local, j.to)
    THEN Transfers([w EXCEPT !.local = (j.to :> IF Core(w) = "up" THEN "half" ELSE "empty") @@ @], j)
    ELSE failJobs(w)
Put(w, j) ==
    IF Kind(w.local, j.a) \in {"file", "empty", "half"} THEN Transfers(w, j) ELSE failJobs(w)
\* mkdir() is not told apart from what is there already.
WalkDir(w, j) ==
    CASE Kind(w.local, j.to) # "absent" -> Begins(w, j, "walklist", "OPENDIR")
      [] Writable(w.local, j.to) ->
           Begins([w EXCEPT !.local = (j.to :> "dir") @@ @], j, "walklist", "OPENDIR")
      [] OTHER -> failJobs(w)

\* runNextJob: the first job begins if nothing is under way; with no more jobs, what has
\* changed is read again.
runNextJob(w) ==
    LET v == [w EXCEPT !.jobs = Tail(@)]
        j == Head(w.jobs)
    IN  IF ~w.busy /\ w.jobs # <<>> /\ Core(w) # "none" /\ w.ready
        THEN CASE j.op = "get" -> Get(v, j)
               [] j.op = "put" -> Put(v, j)
               [] j.op = "walkdir" -> WalkDir(v, j)
               [] j.op = "walkupload" -> Begins(v, j, "walkmkdir", "MKDIR")
               [] OTHER -> Begins(v, j, "step", j.op)
        ELSE IF ~w.busy /\ w.jobs = <<>> /\ w.dirty /\ ~w.listing /\ w.ready /\ ~w.dead
        THEN refresh(w) ELSE w

\* A mutant: a job waits for the next one to end.
queueJob_waits(w, j) == [w EXCEPT !.jobs = Append(@, j)]
Folders(w, j) == CASE j.op = "walkdir" -> {[job |-> j, from |-> remote]}
                   [] j.op = "walkupload" -> {[job |-> j, from |-> w.local]}
                   [] OTHER -> {}
queueJob(w, j) ==
    runNextJob([w EXCEPT !.jobs = Append(@, j), !.asked = @ \cup Folders(w, j)])

listFinished(w, r) ==
    LET v == [w EXCEPT !.listing = FALSE]
        u == IF r.ok THEN [v EXCEPT !.entries = r.got, !.cwd = w.wanted, !.dirty = FALSE,
                                    !.shown = r.job.a, !.stale = w.muddled]
             ELSE v
    IN  IF w.jobs # <<>> /\ ~w.busy THEN runNextJob(u) ELSE u

\* A mutant: what has changed is not read again.
Stepped_clean(w) == [Muddled(w) EXCEPT !.busy = FALSE]
Stepped(w) == [Muddled(w) EXCEPT !.busy = FALSE, !.dirty = TRUE]
stepDone(w, ok) ==
    LET v == [Stepped(w) EXCEPT !.asked = {a \in @ : a.job \in ToSet(w.jobs)}]
    IN  IF ok THEN runNextJob(v) ELSE failJobs(v)

\* finishTransfer: what a download that did not finish has written is removed.
Disk(w, state) ==
    CASE w.job.op = "put" -> w.local
      [] w.job.op # "put" /\ state = "DONE" -> (w.job.to :> "file") @@ w.local
      [] OTHER -> Without(w.local, w.job.to)
Freed(w) == [w EXCEPT !.xfer = FALSE, !.xcancel = FALSE]
finishTransfer(w, state) ==
    LET v == [Stepped(Freed(w)) EXCEPT !.local = Disk(w, state)]
    IN  CASE state = "FAILED" -> IF w.dead THEN v ELSE failJobs(v)
          [] state = "CANCELLED" ->
               LET u == [v EXCEPT !.jobs = <<>>, !.asked = {}]
               IN  IF w.dead THEN u ELSE refresh(u)
          [] state = "DONE" -> runNextJob(v)

\* The jobs for what a folder holds, held a set of names with their kinds: links are
\* not followed.
\* A mutant: only the files.
JobsFor_files(j, held, dirOp, fileOp) ==
    LET good == SetToSeq({e \in held : e[2] = "file"})
        One(e) == Job(fileOp, Append(j.a, e[1]), Append(j.to, e[1]), j.gen)
    IN  [k \in 1..Len(good) |-> One(good[k])]
JobsFor(j, held, dirOp, fileOp) ==
    LET good == SetToSeq({e \in held : e[2] \in {"dir", "file"}})
        One(e) == Job(IF e[2] = "dir" THEN dirOp ELSE fileOp,
                      Append(j.a, e[1]), Append(j.to, e[1]), j.gen)
    IN  [k \in 1..Len(good) |-> One(good[k])]

\* What the callbacks of a folder transfer share: new goes before what is queued.
\* A mutant: a folder cancelled is walked all the same.
WalkOn_cancelled(w, ok, new) ==
    LET v == [w EXCEPT !.busy = FALSE, !.walkCancelled = FALSE] IN
    IF ok THEN runNextJob([v EXCEPT !.jobs = new \o @]) ELSE failJobs(v)
WalkOn(w, ok, new) ==
    LET v == [w EXCEPT !.busy = FALSE]
        lost == {a \in w.asked : a.job = w.job}
    IN
    CASE w.walkCancelled -> runNextJob([v EXCEPT !.walkCancelled = FALSE, !.asked = @ \ lost,
                                                 !.dropped = @ + Cardinality(lost)])
      [] ~w.walkCancelled /\ ok -> runNextJob([v EXCEPT !.jobs = new \o @])
      [] OTHER -> failJobs(v)
walkListFinished(w, r) == WalkOn(w, r.ok, JobsFor(w.job, r.got, "walkdir", "get"))
\* Whether the folder could be made is not looked at.
walkMkdirDone(w, ok) ==
    WalkOn([Muddled(w) EXCEPT !.stale = TRUE, !.unmade = IF ok THEN @ ELSE @ \cup {w.job.to}],
           Kind(w.local, w.job.a) = "dir",
           JobsFor(w.job, Held(w.local, w.job.a), "walkupload", "put"))

-----------------------------------------------------------------------------
(* The answers *)

\* A directory listing: OPENDIR, READDIR until EOF or an error, CLOSE, and the callback
\* whatever the answer to the CLOSE.
dl_finish(w, r) == IF r.cb = "list" THEN listFinished(w, r) ELSE walkListFinished(w, r)
dl_fail(r) == [r EXCEPT !.ok = FALSE]
Continue(w, r, type) == [w EXCEPT !.pend = Append(@, [r EXCEPT !.type = type])]
dl_opened(w, r, ok) == IF ok THEN Continue(w, r, "READDIR") ELSE dl_finish(w, dl_fail(r))
dl_read(w, r, names) ==
    IF names = {} THEN Continue(w, r, "CLOSE")
    ELSE Continue(w, [r EXCEPT !.got = @ \cup names], "READDIR")

Told(w, r, ok) ==
    CASE r.type = "REALPATH" -> IF ok THEN listResolved(w, r.job.a) ELSE navFailed(w)
      [] r.type = "OPENDIR"  -> dl_opened(w, r, ok)
      [] r.type = "READDIR"  -> Continue(w, dl_fail(r), "CLOSE")
      [] r.type = "CLOSE"    -> dl_finish(w, r)
      [] r.cb = "step"       -> stepDone(w, ok)
      [] r.cb = "walkmkdir"  -> walkMkdirDone(w, ok)
      [] r.cb = "freed"      -> [Muddled(w) EXCEPT !.stale = TRUE]
      [] r.cb # "freed" /\ r.type = "OPEN" /\ ok -> Continue(w, r, "XFER")
      [] OTHER -> finishTransfer(w, CASE ~ok -> "FAILED" [] ok /\ w.xcancel -> "CANCELLED"
                                      [] OTHER -> "DONE")

\* sftp_abort: every pending request is told CONNECTION_LOST, and none can be made.
Lost(w, r) ==
    CASE r.type \in {"OPENDIR", "READDIR"} -> dl_finish(w, dl_fail(r))
      [] r.cb = "xfer" /\ w.xcancel -> finishTransfer(w, "CANCELLED")
      [] OTHER -> Told(w, r, FALSE)
sftp_abort(w) == FoldLeft(Lost, [w EXCEPT !.core = "failed", !.pend = <<>>], w.pend)

\* The server: what it can do, and what that does to its files.
Target(r) == IF r.cb \in {"walkmkdir"} \/ r.job.op = "put" THEN r.job.to ELSE r.job.a
Possible(r) ==
    LET k == Kind(remote, Target(r)) IN
    CASE r.type = "OPENDIR" -> k = "dir"
      [] r.type = "MKDIR"   -> k = "absent" /\ Writable(remote, Target(r))
      [] r.type = "REMOVE"  -> k \in {"file", "link"}
      [] r.type = "RMDIR"   -> k = "dir" /\ Children(remote, Target(r)) = {} /\ Target(r) # <<>>
      [] r.type = "RENAME"  -> /\ k # "absent" /\ Children(remote, r.job.a) = {} /\ r.job.a # <<>>
                               /\ Kind(remote, r.job.to) = "absent" /\ Writable(remote, r.job.to)
      [] r.type = "OPEN"    -> IF r.job.op = "put" THEN Writable(remote, Target(r))
                               ELSE k \in {"file", "link"}
      [] OTHER -> TRUE
After(r) ==
    CASE r.type = "MKDIR" -> (Target(r) :> "dir") @@ remote
      [] r.type \in {"REMOVE", "RMDIR"} -> Without(remote, Target(r))
      [] r.type = "RENAME" -> (r.job.to :> remote[r.job.a]) @@ Without(remote, r.job.a)
      [] r.type = "OPEN" /\ r.job.op = "put" -> (Target(r) :> "file") @@ remote
      [] OTHER -> remote

\* Request k is answered, well or not.
Answer(k, ok) ==
    LET r == b.pend[k]
        can == Possible(r)
    IN  /\ IF ok THEN can ELSE ~can \/ errors < MaxErrors
        /\ r.type = "READDIR" => ~ok
        /\ errors' = IF ok \/ ~can THEN errors ELSE errors + 1
        /\ remote' = IF ok THEN After(r) ELSE remote
        /\ b' = Told([b EXCEPT !.pend = RemoveAt(@, k)], r, ok)
        /\ UNCHANGED <<world, left>>
\* A READDIR: some of the names not yet given, or EOF when there are none.
AnswerNames(k) ==
    LET r == b.pend[k]
        more == {e \in Held(remote, r.job.a) : \A g \in r.got : g[1] # e[1]}
    IN  /\ r.type = "READDIR"
        /\ \E names \in SUBSET more :
              /\ names = {} => more = {}
              /\ b' = dl_read([b EXCEPT !.pend = RemoveAt(@, k)], r, names)
        /\ UNCHANGED <<remote, world, left, errors>>
Answers == \E k \in 1..Len(b.pend) : AnswerNames(k) \/ \E ok \in BOOLEAN : Answer(k, ok)

\* An answer that does not parse, perhaps request k's: the engine fails, and the browser.
Malformed ==
    /\ b.core = "up" /\ errors < MaxErrors /\ errors' = errors + 1
    /\ \E k \in 0..Len(b.pend) :
          b' = [sftp_abort([b EXCEPT !.pend = IF k = 0 THEN @ ELSE RemoveAt(@, k)])
                EXCEPT !.dead = TRUE]
    /\ UNCHANGED <<remote, world, left>>

-----------------------------------------------------------------------------
(* The session and the user *)

sftpReady ==
    /\ b.core = "none" /\ ~b.dead /\ ~b.closed
    /\ b' = navigate([b EXCEPT !.core = "up", !.ready = TRUE], Home)
    /\ UNCHANGED <<remote, world, left, errors>>
\* The channel is refused, or closed with the whole connection or without.
sftpFailed ==
    /\ b.core = "none" /\ ~b.dead /\ ~b.closed
    /\ b' = [b EXCEPT !.dead = TRUE]
    /\ UNCHANGED <<remote, world, left, errors>>
sessionEnded ==
    /\ b.core = "up" /\ ~b.closed
    /\ b' = [sftp_abort(b) EXCEPT !.core = "none", !.dead = TRUE]
    /\ UNCHANGED <<remote, world, left, errors>>

\* cancelTransfer and windowWillClose: a transfer whose file is not yet open is over at
\* once, its OPEN still to come; any other will say when it is.
Opening(w) == {k \in 1..Len(w.pend) : w.pend[k].cb = "xfer" /\ w.pend[k].type = "OPEN"}
Cancelled(w) ==
    LET v == [w EXCEPT !.jobs = <<>>, !.gen = @ + 1, !.asked = {}] IN
    CASE ~w.xfer -> v
      [] w.xfer /\ Opening(w) = {} -> [v EXCEPT !.xcancel = TRUE]
      [] OTHER -> finishTransfer([v EXCEPT !.pend[CHOOSE k \in Opening(w) : TRUE].cb = "freed",
                                           !.stale = TRUE], "CANCELLED")

Usable == b.ready /\ ~b.dead /\ ~b.closed
User(what) ==
    /\ left[what] > 0 /\ left' = [left EXCEPT ![what] = @ - 1]
    /\ UNCHANGED <<remote, world, errors>>

Steps == {"MKDIR", "REMOVE", "RMDIR", "RENAME"}
\* The comment at line 617: a step's reply is still in flight, not only a folder's.
cancelTransfer ==
    /\ User("cancel") /\ Usable /\ b.busy
    /\ LET v == Cancelled(b) IN
       b' = [v EXCEPT !.walkCancelled = @ \/ (v.busy /\ ~v.xfer),
                      !.plain = IF b.job.op \in Steps THEN @ + 1 ELSE @]
windowWillClose ==
    /\ User("close") /\ ~b.closed
    /\ b' = [sftp_abort(Cancelled(b)) EXCEPT !.closed = TRUE]

\* goUp, pathEntered, refresh, or a double click on a folder.
navigates ==
    /\ User("nav") /\ Usable
    /\ \/ b.cwd \notin {None, <<>>} /\ b' = navigate(b, Parent(b.cwd))
       \/ \E p \in DOMAIN remote : b' = navigate(b, p)
       \/ b.cwd # None /\ b' = refresh(b)
       \/ \E e \in b.entries : e[2] = "dir" /\ b' = navigate(b, Append(b.cwd, e[1]))

\* What is not yet known of the current directory is relative to Home.
remoteJoin(n) == Append(IF b.cwd = None THEN Home ELSE b.cwd, n)

\* The buttons put one job for each item chosen into the queue; the panels leave out what
\* the user does not want replaced.  Local files have the paths of a folder of their own.
Queue(js) == b' = FoldLeft(queueJob, b, js)
Chosen(set) == {SetToSeq(s) : s \in SUBSET set \ {{}}}
download ==
    /\ User("down") /\ Usable
    /\ \E sel \in Chosen(b.entries) :
          Queue([k \in 1..Len(sel) |->
                   Job(IF sel[k][2] = "dir" THEN "walkdir" ELSE "get",
                       remoteJoin(sel[k][1]), <<sel[k][1]>>, b.gen)])
queueUploadsOfPaths ==
    /\ User("up") /\ Usable
    /\ \E sel \in Chosen(Held(b.local, <<>>)) :
          Queue([k \in 1..Len(sel) |->
                   Job(IF sel[k][2] = "dir" THEN "walkupload" ELSE "put",
                       <<sel[k][1]>>, remoteJoin(sel[k][1]), b.gen)])
newFolder ==
    /\ User("edit") /\ Usable
    /\ \E n \in NewNames : Queue(<<Job("MKDIR", remoteJoin(n), None, b.gen)>>)
rename ==
    /\ User("edit") /\ Usable
    /\ \E e \in b.entries, n \in NewNames :
          /\ n # e[1]
          /\ Queue(<<Job("RENAME", remoteJoin(e[1]), remoteJoin(n), b.gen)>>)
delete ==
    /\ User("edit") /\ Usable
    /\ \E sel \in Chosen(b.entries) :
          Queue([k \in 1..Len(sel) |->
                   Job(IF sel[k][2] = "dir" THEN "RMDIR" ELSE "REMOVE",
                       remoteJoin(sel[k][1]), None, b.gen)])

-----------------------------------------------------------------------------
Init ==
    /\ world \in Worlds
    /\ b = Opened(world.local) /\ remote = world.remote /\ left = world.left
    /\ errors = 0

Next ==
    \/ Answers \/ Malformed \/ sftpReady \/ sftpFailed \/ sessionEnded
    \/ cancelTransfer \/ windowWillClose \/ navigates
    \/ download \/ queueUploadsOfPaths \/ newFolder \/ rename \/ delete

Spec == Init /\ [][Next]_vars
\* The server answers every request.
FairSpec == Spec /\ WF_vars(Answers)

-----------------------------------------------------------------------------
(* Properties *)

Ops == {"none", "nav", "get", "put", "walkdir", "walkupload"} \cup Steps
Over == b.dead \/ b.closed
Quiet == Usable /\ ~b.busy /\ ~b.listing /\ b.jobs = <<>>

\* The shape of the state; the transfer referred to is one under way.
TypeOK ==
    /\ {b.ready, b.dead, b.closed, b.busy, b.listing, b.dirty, b.walkCancelled, b.xfer,
        b.xcancel, b.late, b.muddled, b.stale} \subseteq BOOLEAN
    /\ b.core \in {"none", "up", "failed"} /\ {b.gen, b.plain, b.dropped} \subseteq Nat
    /\ \A k \in 1..Len(b.jobs) : b.jobs[k].op \in Ops \ {"none", "nav"}
    /\ \A k \in 1..Len(b.pend) :
          /\ b.pend[k].cb \in {"realpath", "list", "walklist", "walkmkdir", "step", "xfer", "freed"}
          /\ b.pend[k].type \in {"REALPATH", "OPENDIR", "READDIR", "CLOSE", "MKDIR", "REMOVE",
                                 "RMDIR", "RENAME", "OPEN", "XFER"}
    /\ \A p \in DOMAIN b.local : b.local[p] \in {"dir", "file", "half", "empty"}
    /\ \A p \in DOMAIN remote : remote[p] \in {"dir", "file", "link"}
    /\ errors \in 0..MaxErrors
    /\ b.xcancel => b.xfer
    /\ b.xfer => b.busy

\* Nothing queued is forgotten: while the browser lives it is busy exactly when the request
\* of one job is under way, whatever failed, was cancelled or came back late; jobs wait only
\* behind such a job; it says that it reads a directory only while a navigation is under way;
\* and an ended engine owes no callback.
NothingForgotten ==
    LET jobs == {k \in 1..Len(b.pend) : b.pend[k].cb \in {"walklist", "walkmkdir", "step", "xfer"}}
    IN  /\ TypeOK
        /\ ~Over => /\ b.busy <=> Cardinality(jobs) = 1
                    /\ ~b.busy => jobs = {}
                    /\ b.xfer <=> \E k \in jobs : b.pend[k].cb = "xfer"
                    /\ b.listing => Navigating(b)
                    /\ b.jobs # <<>> => b.busy
        /\ b.core # "up" => b.pend = <<>>

\* What the window shows when it is at rest is the directory it names, as it is at the
\* server, and the names it joins to that directory are names in it.  Excepted: what was
\* read while something changed or two navigations were under way, a folder uploaded since,
\* and what has changed since if a later job or the reading failed (dirty: it is read again
\* only where the queue runs out).
ShowsTheServer ==
    Quiet /\ ~b.dirty /\ ~b.stale /\ b.cwd # None =>
        b.cwd = b.shown /\ b.entries = Held(remote, b.cwd)

\* Nothing of what the user cancelled begins afterwards: not a queued job, and no successor
\* of the folder step whose answer was under way.
CancelHolds == ~b.late

\* Each folder transfer asked for has copied every folder and file, once all is quiet, if
\* since it was asked for nothing failed, was cancelled or was being cancelled (both empty the
\* queue: failJobs, cancelTransfer, and finishTransfer once more), nothing was changed by a
\* plain step while it ran, and what it copies is as it was.  Excepted: a folder without
\* files whose MKDIR failed (the comment in runNextJob counts on the files to tell), and one
\* folder transfer for each earlier cancel that met a plain step (see CancelSparesFolders).
\* And finishTransfer says: no half-files.  A local file is incomplete only while its download
\* is under way; that of a job begun while the engine was failing is left empty.
NoHalfFiles ==
    \A p \in DOMAIN b.local : b.local[p] = "half" => b.xfer /\ b.job.op = "get" /\ b.job.to = p
FoldersWhole ==
    /\ NoHalfFiles
    /\ b.dropped <= b.plain
    /\ Quiet =>
        \A a \in b.asked :
            LET j == a.job
                from == IF j.op = "walkdir" THEN remote ELSE b.local
                to == IF j.op = "walkdir" THEN b.local ELSE remote
                There(p) == j.to \o SubSeq(p, Len(j.a) + 1, Len(p))
            IN  from = a.from => \A p \in Under(from, j.a) :
                    (from[p] = "file" \/ (from[p] = "dir" /\ There(p) \notin b.unmade)) =>
                        Kind(to, There(p)) = from[p]

\* What SFTPBrowser.h says of walkCancelled, and the code does not do: it is about the walk
\* step whose request was in flight when Cancel was hit.  A folder asked for after that is
\* not dropped.
CancelSparesFolders == b.dropped = 0

\* Every job and every navigation comes to an end, if only by the end of the browser.
ComesToRest == (b.busy \/ b.listing) ~> (Over \/ Quiet)
=============================================================================
