---------------------------- MODULE SftpTransfer ----------------------------
(***************************************************************************)
(* A pipelined file transfer of StepSSH (core/sftp.c): requests matched to *)
(* responses by their number, up to XFER_WINDOW reads or writes under way  *)
(* at once, short reads fetched again, the end of the file found by size   *)
(* or by an EOF status, errors of either side, cancelling, closing the     *)
(* handle, and the loss of the connection.                                 *)
(*                                                                         *)
(* Files are counted in units, and unit k of either file is the number k:  *)
(* a copy is right where it maps k to k.  The server answers each request  *)
(* once, in any order and with reads as short as it likes; its answers     *)
(* arrive in the order it gives them.  A request under way is one that     *)
(* pends here and has no answer in flight.                                 *)
(***************************************************************************)
EXTENDS Integers, FiniteSets, SequencesExt

CONSTANTS
    Chunk,        \* XFER_CHUNK, in units
    XferWindow,   \* XFER_WINDOW
    Size,         \* length of the file to copy
    Hints,        \* size hints the application gives a download (0: unknown)
    MaxErrors,    \* bound: requests the server fails, local reads and writes that fail
    Malformed     \* the server may send answers that cannot be parsed, or to no request

ASSUME TransferAssumption ==
    /\ {Chunk, XferWindow} \subseteq Nat \ {0}
    /\ {Size, MaxErrors} \subseteq Nat /\ Hints \subseteq Nat
    /\ Malformed \in BOOLEAN

VARIABLES
    x,            \* struct sftp_xfer
    pend,         \* requests awaiting their answer, oldest first
    next_id,
    failed,       \* the engine has failed (struct sftp)
    aborted,      \* sftp_abort() has run
    in,           \* answers in flight
    copy,         \* the file being written, here or at the server: offset -> unit
    pos,          \* position of the local file
    handles,      \* handles open at the server
    errors,       \* failures so far
    forgotten     \* requests whose answer could not be parsed

vars == <<x, pend, next_id, failed, aborted, in, copy, pos, handles, errors, forgotten>>

Missing == -1                          \* a unit not written
Offsets == 0..(Size + XferWindow * Chunk)

\* xf_new(); calls counts the callbacks that reported completion.
NewXfer(upload, total) ==
    [state |-> "RUNNING", upload |-> upload, failed |-> FALSE, cancelled |-> FALSE,
     finished |-> FALSE, closing |-> FALSE, close_done |-> FALSE, handle |-> FALSE,
     total |-> total, done |-> 0, next_off |-> 0, eof_at |-> 0, eof_known |-> FALSE,
     outstanding |-> 0, retry |-> <<>>, file_pos |-> 0, local_eof |-> FALSE, calls |-> 0]
Idle == [NewXfer(FALSE, 0) EXCEPT !.state = "IDLE"]

\* A request: READ len units at off, or WRITE there the len units from unit on.
Request(id, r) == [id |-> id, type |-> r.type, off |-> r.off, len |-> r.len, unit |-> r.unit]
\* An answer: a STATUS (its code in status), a HANDLE, or DATA: len units from off on.
Response(id, type, status, off, len) ==
    [id |-> id, type |-> type, status |-> status, off |-> off, len |-> len]

-----------------------------------------------------------------------------
(* The engine and the transfer together, as the handlers work on them:     *)
(* x the transfer, dead whether the engine has failed, reqs the requests   *)
(* this handler queues, read the units it takes from the local file.       *)

Work(y) == [x |-> y, dead |-> failed, reqs |-> <<>>, read |-> 0]
Queue(w, type, off, len) ==
    [w EXCEPT !.reqs = Append(@, [type |-> type, off |-> off, len |-> len,
                                  unit |-> IF type = "WRITE" THEN pos + w.read ELSE 0])]
xf_fail(y) == [y EXCEPT !.failed = TRUE]

AllDone_eof(y) == IF y.upload THEN y.local_eof ELSE y.retry = <<>> /\ y.eof_known
AllDone(y) ==
    IF y.upload THEN y.local_eof
    ELSE /\ y.retry = <<>>
         /\ y.eof_known \/ (y.total # 0 /\ y.next_off >= y.total)

\* Whether the transfer has nothing more to do, and whether it waits for its CLOSE.
Over(y) == ~y.finished /\ y.outstanding = 0 /\ (y.failed \/ y.cancelled \/ AllDone(y))
Waits_never(y) == FALSE
Waits(y) == y.handle /\ y.closing /\ ~y.close_done

Finish(y) ==
    [y EXCEPT !.finished = TRUE, !.calls = @ + 1,
              !.state = IF y.failed THEN "FAILED" ELSE IF y.cancelled THEN "CANCELLED" ELSE "DONE"]

\* xf_maybe_finish(): once nothing is outstanding, close the handle, then report; a
\* CLOSE that cannot be queued is not waited for.
xf_maybe_finish(w) ==
    LET y == w.x
        closes == Over(y) /\ y.handle /\ ~y.closing
        closing == [y EXCEPT !.closing = TRUE, !.close_done = w.dead]
    IN  CASE closes /\ ~w.dead -> Queue([w EXCEPT !.x = closing], "CLOSE", 0, 0)
          [] closes /\ w.dead  -> [w EXCEPT !.x = Finish(closing)]
          [] Over(y) /\ ~closes /\ ~Waits(y) -> [w EXCEPT !.x = Finish(y)]
          [] OTHER -> w

\* The units yet to be asked for, at most Chunk of them: up to the end if it is known, or
\* to the size the application gave, or without limit (2^64 - 1 is beyond any offset).
Ahead(y) ==
    LET left == IF y.eof_known THEN y.eof_at - y.next_off
                ELSE IF y.total # 0 THEN y.total - y.next_off ELSE Chunk
    IN  IF left <= 0 THEN 0 ELSE Min({Chunk, left})

\* One turn of xf_pump()'s loop; reading the local file fails after the first good reads
\* (XferWindow: it does not fail).  A request the engine refuses (it has failed) fails
\* the transfer.
Issue(w, type, off, len) ==
    IF w.dead THEN [w EXCEPT !.x = xf_fail(@)]
    ELSE Queue([w EXCEPT !.x.outstanding = @ + 1], type, off, len)
PumpRead(w) ==
    LET y == w.x
        len == Ahead(y)
    IN  IF y.retry # <<>>
        THEN Issue([w EXCEPT !.x.retry = Front(@)], "READ", Last(y.retry).off, Last(y.retry).len)
        ELSE IF len = 0 THEN w
        ELSE Issue([w EXCEPT !.x.next_off = @ + len], "READ", y.next_off, len)
PumpWrite(w, good) ==
    LET y == w.x
        io == Len(w.reqs) < good
        n == IF io THEN Min({Chunk, Size - (pos + w.read)}) ELSE 0
        sent == [Issue(w, "WRITE", y.next_off, n) EXCEPT !.read = @ + n]
    IN  IF y.local_eof THEN w
        ELSE IF n = 0
        THEN [w EXCEPT !.x.local_eof = TRUE, !.x.failed = IF io THEN @ ELSE TRUE]
        ELSE IF sent.x.failed THEN sent
        ELSE [sent EXCEPT !.x.next_off = @ + n]
PumpTurn(w, good) ==
    LET y == w.x IN
    IF ~y.failed /\ ~y.cancelled /\ y.handle /\ y.outstanding < XferWindow
    THEN IF y.upload THEN PumpWrite(w, good) ELSE PumpRead(w)
    ELSE w

\* xf_pump(): a turn that changes nothing is the loop's break.
xf_pump(y, good) ==
    LET turns[k \in 0..(XferWindow + 1)] ==
          IF k = 0 THEN Work(y) ELSE PumpTurn(turns[k - 1], good)
    IN  xf_maybe_finish(turns[XferWindow + 1])

\* The handler's outcome becomes the state: begin() and finish() number the requests
\* and append them to those that pend, left being the ones still pending.
Becomes(w, left) ==
    /\ x' = w.x
    /\ pend' = left \o [k \in 1..Len(w.reqs) |->
                          Request(next_id + k, w.reqs[k])]
    /\ next_id' = next_id + Len(w.reqs)

-----------------------------------------------------------------------------
(* The application *)

\* sftp_download() and sftp_upload(): the OPEN is queued.
Start(upload, total) ==
    /\ x.state = "IDLE" /\ ~failed
    /\ Becomes(Queue(Work(NewXfer(upload, total)), "OPEN", 0, 0), <<>>)
    /\ UNCHANGED <<failed, aborted, in, copy, pos, handles, errors, forgotten>>
sftp_download(hint) == Start(FALSE, hint)
sftp_upload == Start(TRUE, Size)

sftp_xfer_cancel ==
    /\ x.state = "RUNNING" /\ ~x.finished /\ ~x.cancelled
    /\ Becomes(xf_maybe_finish(Work([x EXCEPT !.cancelled = TRUE])), pend)
    /\ UNCHANGED <<failed, aborted, in, copy, pos, handles, errors, forgotten>>

-----------------------------------------------------------------------------
(* The answers: what each callback does with response r to request q       *)

\* A response whose request is pending takes it off the list (take_pending); others
\* are ignored.
At(r) == CHOOSE k \in 1..Len(pend) : pend[k].id = r.id
Left(r) == RemoveAt(pend, At(r))
Asked(r) == pend[At(r)]

Writes(off, from, n) ==
    copy' = [o \in Offsets |-> IF o \in off..(off + n - 1) THEN from + (o - off) ELSE copy[o]]

\* xf_pump() reads the local file of an upload.
Pumped(y, r) ==
    \E good \in (IF x.upload /\ errors < MaxErrors THEN 0..XferWindow ELSE {XferWindow}) :
        LET w == xf_pump(y, good) IN
        /\ Becomes(w, Left(r))
        /\ pos' = pos + w.read
        /\ errors' = IF w.x.failed /\ ~y.failed THEN errors + 1 ELSE errors

xf_opened(r) ==
    /\ IF r.type = "HANDLE" THEN Pumped([x EXCEPT !.handle = TRUE], r)
       ELSE /\ Becomes(xf_maybe_finish(Work(xf_fail(x))), Left(r))
            /\ UNCHANGED <<pos, errors>>
    /\ UNCHANGED copy

AtEof(y, off) ==
    [y EXCEPT !.eof_known = TRUE, !.eof_at = IF y.eof_known THEN Min({@, off}) ELSE off]

\* n units written here for request q; the rest of a short read is to be read again.
Rest_off(y, q, n) ==
    IF n < q.len /\ Len(y.retry) < XferWindow
    THEN [y EXCEPT !.retry = Append(@, [off |-> q.off, len |-> q.len - n])]
    ELSE y
Rest(y, q, n) ==
    IF n < q.len /\ Len(y.retry) < XferWindow
    THEN [y EXCEPT !.retry = Append(@, [off |-> q.off + n, len |-> q.len - n])]
    ELSE y
Took(y, q, n) == Rest([y EXCEPT !.file_pos = q.off + n, !.done = @ + n], q, n)

\* xf_read_done(): the file is positioned only when the last write ended elsewhere.
xf_read_done(r) ==
    LET q == Asked(r)
        y == [x EXCEPT !.outstanding = @ - 1]
        n == Min({r.len, q.len})
        at == IF q.off = x.file_pos THEN pos ELSE q.off
        useful == r.type = "DATA" /\ ~x.failed /\ ~x.cancelled
    IN  \/ /\ useful /\ n > 0
           /\ Writes(at, r.off, n)
           /\ pos' = at + n
           /\ Becomes(xf_pump(Took(y, q, n), XferWindow), Left(r))
           /\ UNCHANGED errors
        \/ \* the local file cannot be written
           /\ useful /\ n > 0 /\ errors < MaxErrors
           /\ Becomes(xf_pump(xf_fail(y), XferWindow), Left(r))
           /\ errors' = errors + 1
           /\ UNCHANGED <<copy, pos>>
        \/ /\ ~(useful /\ n > 0)
           /\ LET z == CASE useful -> AtEof(y, q.off)
                         [] r.status = "EOF" -> AtEof(y, q.off)
                         [] r.status = "FAILURE" /\ ~x.failed /\ ~x.cancelled -> xf_fail(y)
                         [] OTHER -> y
              IN  Becomes(xf_pump(z, XferWindow), Left(r))
           /\ UNCHANGED <<copy, pos, errors>>

xf_write_done(r) ==
    LET q == Asked(r)
        y == [x EXCEPT !.outstanding = @ - 1]
        z == IF r.status = "OK" THEN [y EXCEPT !.done = @ + q.len]
             ELSE IF ~x.failed /\ ~x.cancelled THEN xf_fail(y) ELSE y
    IN  Pumped(z, r) /\ UNCHANGED copy

\* An error on closing is an error of the transfer.
xf_closed(r) ==
    LET y == IF r.status # "OK" /\ ~x.failed /\ ~x.cancelled THEN xf_fail(x) ELSE x IN
    /\ Becomes(xf_pump([y EXCEPT !.close_done = TRUE], XferWindow), Left(r))
    /\ UNCHANGED <<copy, pos, errors>>

Callback(r) ==
    CASE Asked(r).type = "OPEN"  -> xf_opened(r)
      [] Asked(r).type = "READ"  -> xf_read_done(r)
      [] Asked(r).type = "WRITE" -> xf_write_done(r)
      [] Asked(r).type = "CLOSE" -> xf_closed(r)

\* sftp_input(): the next answer, unless the engine has failed.
Incoming == in # <<>> /\ ~failed
RecvResponse ==
    /\ Incoming /\ Head(in).type # "BAD"
    /\ in' = Tail(in)
    /\ IF \E k \in 1..Len(pend) : pend[k].id = Head(in).id THEN Callback(Head(in))
       ELSE UNCHANGED <<x, pend, next_id, copy, pos, errors>>
    /\ UNCHANGED <<failed, aborted, handles, forgotten>>
\* An answer whose number can be read but whose rest cannot: its request is already
\* off the list.
RecvMalformed ==
    /\ Incoming /\ Head(in).type = "BAD"
    /\ in' = Tail(in)
    /\ failed' = TRUE
    /\ pend' = Left(Head(in))
    /\ forgotten' = forgotten \cup {Head(in).id}
    /\ UNCHANGED <<x, next_id, aborted, copy, pos, handles, errors>>

\* What the callback of request q makes of CONNECTION_LOST.
Back(y, q) == IF q.type \in {"READ", "WRITE"} THEN [y EXCEPT !.outstanding = @ - 1] ELSE y
Lost(y, q) ==
    LET told == IF y.failed \/ y.cancelled THEN Back(y, q) ELSE xf_fail(Back(y, q))
        z == CASE q.type = "OPEN"  -> xf_fail(y)
               [] q.type = "CLOSE" -> [told EXCEPT !.close_done = TRUE]
               [] OTHER -> told
    IN  xf_maybe_finish([Work(z) EXCEPT !.dead = TRUE]).x
Bereft == LET told[k \in 0..Len(pend)] == IF k = 0 THEN x ELSE Lost(told[k - 1], pend[k])
          IN  told[Len(pend)]
\* sftp_abort(): the channel or the session ends, or the engine has failed; every
\* pending request completes, none can be queued.
sftp_abort ==
    /\ x.state # "IDLE" /\ ~aborted
    /\ failed' = TRUE /\ aborted' = TRUE
    /\ x' = Bereft
    /\ pend' = <<>>
    /\ UNCHANGED <<next_id, in, copy, pos, handles, errors, forgotten>>

-----------------------------------------------------------------------------
(* The server *)

\* The requests it has yet to answer.
Unanswered == {q \in ToSet(pend) : \A k \in 1..Len(in) : in[k].id # q.id}
Answers(q, type, status, off, len) == in' = Append(in, Response(q.id, type, status, off, len))

SvOpen(q) ==
    /\ q.type = "OPEN"
    /\ Answers(q, "HANDLE", "none", 0, 0)
    /\ handles' = handles + 1
    /\ UNCHANGED <<copy, errors>>
\* At the end of the file, EOF or no data; before it, as much as it likes.
SvRead(q) ==
    /\ q.type = "READ"
    /\ IF q.off >= Size
       THEN Answers(q, "STATUS", "EOF", 0, 0) \/ Answers(q, "DATA", "none", q.off, 0)
       ELSE \E n \in 1..Min({q.len, Size - q.off}) : Answers(q, "DATA", "none", q.off, n)
    /\ UNCHANGED <<handles, copy, errors>>
SvWrite(q) ==
    /\ q.type = "WRITE"
    /\ Answers(q, "STATUS", "OK", 0, 0)
    /\ Writes(q.off, q.unit, q.len)
    /\ UNCHANGED <<handles, errors>>
\* The handle is gone whatever the answer.
SvClose(q) ==
    /\ q.type = "CLOSE"
    /\ handles' = handles - 1
    /\ \/ Answers(q, "STATUS", "OK", 0, 0) /\ UNCHANGED errors
       \/ /\ errors < MaxErrors /\ errors' = errors + 1
          /\ Answers(q, "STATUS", "FAILURE", 0, 0)
    /\ UNCHANGED copy
SvFails(q) ==
    /\ q.type # "CLOSE" /\ errors < MaxErrors
    /\ errors' = errors + 1
    /\ Answers(q, "STATUS", "FAILURE", 0, 0)
    /\ UNCHANGED <<handles, copy>>
SvMalformed(q) ==
    /\ Malformed
    /\ Answers(q, "BAD", "none", 0, 0)
    /\ UNCHANGED <<handles, copy, errors>>

\* An answer to no request, one at a time.
SvStray ==
    /\ Malformed /\ \A k \in 1..Len(in) : in[k].id # 0
    /\ in' = Append(in, Response(0, "STATUS", "OK", 0, 0))
    /\ UNCHANGED <<x, pend, next_id, failed, aborted, copy, pos, handles, errors, forgotten>>

SvAnswers ==
    \E q \in Unanswered :
        /\ SvOpen(q) \/ SvRead(q) \/ SvWrite(q) \/ SvClose(q) \/ SvFails(q) \/ SvMalformed(q)
        /\ UNCHANGED <<x, pend, next_id, failed, aborted, pos, forgotten>>

-----------------------------------------------------------------------------
Init ==
    /\ x = Idle /\ pend = <<>> /\ next_id = 0 /\ in = <<>>
    /\ failed = FALSE /\ aborted = FALSE
    /\ copy = [o \in Offsets |-> Missing] /\ pos = 0
    /\ handles = 0 /\ errors = 0 /\ forgotten = {}

Next ==
    \/ \E hint \in Hints : sftp_download(hint)
    \/ sftp_upload \/ sftp_xfer_cancel \/ sftp_abort
    \/ RecvResponse \/ RecvMalformed \/ SvAnswers \/ SvStray

Spec == Init /\ [][Next]_vars

\* The server answers, the answers arrive (RecvResponse or RecvMalformed takes the next
\* whenever there is one), and the application aborts an engine that has failed.
FairSpec ==
    /\ Spec
    /\ WF_vars(SvAnswers)
    /\ WF_in(Incoming /\ in' = Tail(in))
    /\ WF_vars(failed /\ sftp_abort)

-----------------------------------------------------------------------------
(* Properties *)

Xfers ==
    [state : {"IDLE", "RUNNING", "DONE", "FAILED", "CANCELLED"}, upload : BOOLEAN,
     failed : BOOLEAN, cancelled : BOOLEAN, finished : BOOLEAN, closing : BOOLEAN,
     close_done : BOOLEAN, handle : BOOLEAN, total : Nat, done : Nat, next_off : Nat,
     eof_at : Nat, eof_known : BOOLEAN, outstanding : 0..XferWindow,
     retry : Seq([off : Nat, len : 1..Chunk]), file_pos : Nat, local_eof : BOOLEAN,
     calls : Nat]
Requests(n) == [id : 1..n, type : {"OPEN", "READ", "WRITE", "CLOSE"}, off : Nat,
                len : 0..Chunk, unit : Nat]
Responses(n) == [id : 0..n, type : {"HANDLE", "DATA", "STATUS", "BAD"},
                 status : {"none", "OK", "EOF", "FAILURE"}, off : Nat, len : 0..Chunk]

\* The shape of the state.
TypeOK ==
    /\ x \in Xfers /\ pend \in Seq(Requests(next_id)) /\ in \in Seq(Responses(next_id))
    /\ {failed, aborted} \subseteq BOOLEAN
    /\ copy \in [Offsets -> 0..Size \cup {Missing}] /\ pos \in Offsets
    /\ next_id \in Nat /\ handles \in 0..1 /\ errors \in 0..MaxErrors
    /\ forgotten \subseteq 1..next_id

\* A download reported as done is the remote file, up to the size asked for, whatever
\* the order of the answers, the short reads and the hint; and sftp_xfer_bytes() is its size.
\* An upload reported as done is at the server, whole, and neither a read, nor a write,
\* nor the closing of its handle failed on the way.
TransferRight ==
    x.state = "DONE" =>
        LET want == IF x.upload \/ x.total = 0 THEN Size ELSE Min({x.total, Size})
        IN  /\ copy = [o \in Offsets |-> IF o < want THEN o ELSE Missing]
            /\ x.done = want
            /\ x.upload => handles = 0 /\ errors = 0

\* sftp.h says a transfer "finishes once in-flight requests drain", and may be freed
\* when its state is no longer RUNNING: then no callback still refers to it, and the
\* server holds no handle of it unless the connection is lost.  And sftp_abort() completes
\* every request whose answer was not spoilt, so a transfer under way ends with it.
\* Excepted is a transfer cancelled while its OPEN is under way: it reports at once.
\* All along the state has its shape (TypeOK).
FinishedIsOver ==
    /\ TypeOK
    /\ x.finished => x.calls = 1
    /\ x.finished => \/ x.cancelled /\ ~x.closing
                     \/ pend = <<>> /\ (failed \/ handles = 0)
    /\ aborted /\ forgotten = {} => x.finished

\* A transfer ends, cancelled or not, failed or not, unless an answer was spoilt.
Finishes == (x.state = "RUNNING") ~> (x.finished \/ forgotten # {})

=============================================================================
