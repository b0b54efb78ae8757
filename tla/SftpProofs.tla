---------------------------- MODULE SftpProofs ----------------------------
(***************************************************************************)
(* Proofs about SftpTransfer, for every size of file, chunk and window,    *)
(* every hint and any number of failures: a finished transfer is over.     *)
(***************************************************************************)
EXTENDS SftpTransfer, SumProofs

Blocks == {"READ", "WRITE"}
\* What the server may answer to a request.
Fits(r, q) ==
    \/ r.type = "BAD" \/ (r.type = "STATUS" /\ r.status = "FAILURE")
    \/ q.type = "OPEN" /\ r.type = "HANDLE"
    \/ q.type \in {"WRITE", "CLOSE"} /\ r.type = "STATUS" /\ r.status = "OK"
    \/ q.type = "READ" /\ q.off >= Size /\
          ((r.type = "STATUS" /\ r.status = "EOF") \/ (r.type = "DATA" /\ r.len = 0))
    \/ q.type = "READ" /\ r.type = "DATA" /\ r.off = q.off /\ r.len \in 1..q.len
          /\ q.off + r.len <= Size
Apart(s) == \A j, k \in 1..Len(s) : s[j].id = s[k].id => j = k
Matched(a, p) ==
    \A k \in 1..Len(a) : a[k].id # 0 =>
        \E j \in 1..Len(p) : p[j].id = a[k].id /\ Fits(a[k], p[j])
\* Each request has its number and at most one answer, and an answer its request.
Numbered ==
    /\ Apart(pend) /\ Apart(in)
    /\ \A k \in 1..Len(in) : in[k].id = 0 => in[k].type = "STATUS"
    /\ ~failed => Matched(in, pend)

\* Where a transfer may be: p is what pends, and n how many answers to blocks are to come.
Only(p, types) == \A k \in 1..Len(p) : p[k].type \in types
Opening(y, p) ==
    /\ Len(p) <= 1 /\ Only(p, {"OPEN"})
    /\ ~y.handle /\ ~y.closing /\ ~y.failed /\ y.finished = y.cancelled
    /\ y.outstanding = 0 /\ ~AllDone(y)
Moving(y, p) == Only(p, Blocks) /\ y.handle /\ ~y.closing /\ ~y.finished
Closing(y, p) ==
    /\ Len(p) <= 1 /\ Only(p, {"CLOSE"})
    /\ y.handle /\ y.closing /\ ~y.close_done /\ ~y.finished /\ y.outstanding = 0
    /\ y.failed \/ y.cancelled \/ AllDone(y)
Leaky(y) == y.cancelled /\ ~y.closing
Ended(y, p) ==
    /\ p = <<>> /\ y.finished /\ y.outstanding = 0
    /\ y.handle => (y.closing /\ y.close_done) \/ Leaky(y)
\* While the engine works everything that is to come is on the list.
Stages(y, p) ==
    \/ Opening(y, p) /\ Len(p) = 1
    \/ Moving(y, p) /\ y.outstanding = Len(p) /\ p # <<>>
    \/ Closing(y, p) /\ Len(p) = 1
    \/ Ended(y, p)
\* Once an answer was spoilt, one request is missing.
Spoilt(y, p) ==
    \/ Opening(y, p) /\ p = <<>>
    \/ Moving(y, p) /\ y.outstanding = Len(p) + 1
    \/ Closing(y, p) /\ p = <<>>
\* Completion is reported once, by the state that goes with it.
Reports(y) ==
    /\ y.finished <=> y.state \in {"DONE", "FAILED", "CANCELLED"}
    /\ y.calls = IF y.finished THEN 1 ELSE 0
Staged ==
    /\ Reports(x)
    /\ x.state = "IDLE" =>
         x = Idle /\ pend = <<>> /\ pos = 0 /\ ~failed /\ handles = 0 /\ forgotten = {}
    /\ (aborted => failed) /\ (failed /\ ~aborted => forgotten # {})
    /\ x.state # "IDLE" =>
         IF ~failed THEN Stages(x, pend) /\ forgotten = {}
         ELSE IF ~aborted THEN Spoilt(x, pend)
         ELSE pend = <<>> /\ (forgotten = {} => x.finished)

\* The server's handle is there from the answer to OPEN to the answer to CLOSE.
Answered(q, a, types) == \E k \in 1..Len(a) : a[k].id = q.id /\ a[k].type \in types
Held(q, a, h) ==
    /\ q.type = "OPEN" => h = IF Answered(q, a, {"HANDLE"}) THEN 1 ELSE 0
    /\ q.type = "CLOSE" => h = IF Answered(q, a, {"STATUS", "DATA", "HANDLE"}) THEN 0 ELSE 1
HandleHeld ==
    ~failed => /\ Moving(x, pend) => handles = 1
               /\ Ended(x, pend) /\ ~Leaky(x) => handles = 0
               /\ \A k \in 1..Len(pend) : Held(pend[k], in, handles)

\* Nothing asked for goes beyond next_off, nor does the end as far as it is known; what is
\* to be written is in the local file.
Sane(q, y) ==
    /\ q.type = "READ" => ~y.upload /\ q.off + q.len <= y.next_off
    /\ q.type = "WRITE" => y.upload /\ q.unit + q.len <= Size
Below(y) ==
    /\ y.eof_known => y.eof_at <= y.next_off
    /\ \A k \in 1..Len(y.retry) : y.retry[k].off + y.retry[k].len <= y.next_off
Positioned ==
    /\ pos <= Size /\ (~x.upload => pos = x.file_pos)
    /\ \A k \in 1..Len(pend) : Sane(pend[k], x)
    /\ Below(x)

OverInv == TypeOK /\ Numbered /\ Staged /\ HandleHeld /\ Positioned

-----------------------------------------------------------------------------
(* Sequences and records *)

\* Min of the model, of two numbers.
LEMMA MinPair ==
    \A a, b \in Int : Min({a, b}) = IF a <= b THEN a ELSE b
<1> TAKE a, b \in Int
<1>1. \E m \in {a, b} : \A y \in {a, b} : m <= y
  OBVIOUS
<1>2. Min({a, b}) \in {a, b} /\ \A y \in {a, b} : Min({a, b}) <= y
  BY <1>1 DEF Min
<1> QED
  BY <1>2

\* A sequence without its element j.
LEMMA Removed ==
    ASSUME NEW S, NEW p \in Seq(S), NEW j \in 1..Len(p)
    PROVE  /\ RemoveAt(p, j) \in Seq(S) /\ Len(RemoveAt(p, j)) = Len(p) - 1
           /\ \A k \in 1..(Len(p) - 1) : RemoveAt(p, j)[k] = IF k < j THEN p[k] ELSE p[k + 1]
<1> DEFINE u == SubSeq(p, 1, j - 1)
           v == SubSeq(p, j + 1, Len(p))
<1>0. Len(p) \in Nat /\ j \in Nat /\ 1 <= j /\ j <= Len(p) /\ \A k \in 1..Len(p) : p[k] \in S
  BY LenProperties, ElementOfSeq
<1>1. u \in Seq(S) /\ Len(u) = j - 1 /\ \A k \in 1..(j - 1) : u[k] = p[k]
  <2>1. \A k \in 1..(j - 1) : p[k] \in S
    BY <1>0
  <2>2. /\ u \in Seq(S) /\ Len(u) = IF 1 <= j - 1 THEN (j - 1) - 1 + 1 ELSE 0
        /\ \A k \in 1..((j - 1) - 1 + 1) : u[k] = p[1 + k - 1]
    BY <1>0, <2>1, SubSeqProperties
  <2> HIDE DEF u
  <2>3. \A k \in 1..(j - 1) : u[k] = p[k]
    <3> TAKE k \in 1..(j - 1)
    <3>1. k \in 1..((j - 1) - 1 + 1) /\ 1 + k - 1 = k
      BY <1>0
    <3> QED BY <2>2, <3>1
  <2> QED BY <1>0, <2>2, <2>3
<1>2. v \in Seq(S) /\ Len(v) = Len(p) - j /\ \A k \in 1..(Len(p) - j) : v[k] = p[j + k]
  <2>1. \A k \in (j + 1)..Len(p) : p[k] \in S
    BY <1>0
  <2>2. /\ v \in Seq(S) /\ Len(v) = IF j + 1 <= Len(p) THEN Len(p) - (j + 1) + 1 ELSE 0
        /\ \A k \in 1..(Len(p) - (j + 1) + 1) : v[k] = p[(j + 1) + k - 1]
    BY <1>0, <2>1, SubSeqProperties
  <2> HIDE DEF v
  <2>3. \A k \in 1..(Len(p) - j) : v[k] = p[j + k]
    <3> TAKE k \in 1..(Len(p) - j)
    <3>1. k \in 1..(Len(p) - (j + 1) + 1) /\ (j + 1) + k - 1 = j + k
      BY <1>0
    <3> QED BY <2>2, <3>1
  <2> QED BY <1>0, <2>2, <2>3
<1>3. RemoveAt(p, j) = u \o v
  BY DEF RemoveAt
<1> HIDE DEF u, v
<1>4. /\ u \o v \in Seq(S) /\ Len(u \o v) = Len(u) + Len(v)
      /\ \A k \in 1..(Len(u) + Len(v)) : (u \o v)[k] = IF k <= Len(u) THEN u[k] ELSE v[k - Len(u)]
  BY <1>1, <1>2, ConcatProperties
<1>5. \A k \in 1..(Len(p) - 1) : (u \o v)[k] = IF k < j THEN p[k] ELSE p[k + 1]
  <2> TAKE k \in 1..(Len(p) - 1)
  <2>1. CASE k < j
    BY <2>1, <1>0, <1>1, <1>2, <1>4
  <2>2. CASE ~(k < j)
    <3>1. k - Len(u) \in 1..(Len(p) - j) /\ ~(k <= Len(u)) /\ j + (k - Len(u)) = k + 1
      BY <2>2, <1>0, <1>1
    <3>2. k \in 1..(Len(u) + Len(v)) /\ (u \o v)[k] = v[k - Len(u)]
      BY <2>2, <3>1, <1>0, <1>1, <1>2, <1>4
    <3>3. v[k - Len(u)] = p[k + 1]
      BY <3>1, <1>2
    <3> QED BY <2>2, <3>2, <3>3
  <2> QED BY <2>1, <2>2
<1> QED
  BY <1>0, <1>1, <1>2, <1>3, <1>4, <1>5

Reqs == [type : {"OPEN", "READ", "WRITE", "CLOSE"}, off : Nat, len : 0..Chunk, unit : Nat]
Works == [x : Xfers, dead : BOOLEAN, reqs : Seq(Reqs), read : Nat]

\* The list of requests after a handler: those that were left, then its own, numbered.
Listed(new, left, reqs, n) ==
    /\ new \in Seq(Requests(n + Len(reqs))) /\ Len(new) = Len(left) + Len(reqs)
    /\ \A k \in 1..Len(left) : new[k] = left[k]
    /\ \A k \in 1..Len(reqs) : new[Len(left) + k] = Request(n + k, reqs[k])

\* What Becomes puts on the list is Listed.
LEMMA ListedBy ==
    ASSUME NEW n \in Nat, NEW left \in Seq(Requests(n)), NEW reqs \in Seq(Reqs)
    PROVE  Listed(left \o [k \in 1..Len(reqs) |-> Request(n + k, reqs[k])], left, reqs, n)
<1> DEFINE m == n + Len(reqs)
           new == [k \in 1..Len(reqs) |-> Request(n + k, reqs[k])]
<1>0. Len(reqs) \in Nat /\ m \in Nat /\ \A k \in 1..Len(reqs) : reqs[k] \in Reqs
  BY LenProperties, ElementOfSeq
<1>1. \A k \in 1..Len(reqs) : Request(n + k, reqs[k]) \in Requests(m)
  <2> TAKE k \in 1..Len(reqs)
  <2>1. n + k \in 1..m /\ reqs[k] \in Reqs
    BY <1>0
  <2> HIDE DEF m
  <2> QED BY <2>1 DEF Request, Requests, Reqs
<1>2. new \in Seq(Requests(m)) /\ Len(new) = Len(reqs)
  <2> HIDE DEF m
  <2>1. new \in [1..Len(reqs) -> Requests(m)]
    BY <1>1
  <2> HIDE DEF new
  <2> QED BY <1>0, <2>1, SeqDef
<1>3. left \in Seq(Requests(m))
  <2>1. Requests(n) \subseteq Requests(m)
    <3>1. 1..n \subseteq 1..m
      BY <1>0
    <3> HIDE DEF m
    <3> QED BY <3>1 DEF Requests
  <2> HIDE DEF m
  <2> QED BY <2>1, SeqMonotonic
<1>4. \A k \in 1..Len(reqs) : new[k] = Request(n + k, reqs[k])
  OBVIOUS
<1> HIDE DEF m, new
<1>5. /\ left \o new \in Seq(Requests(m)) /\ Len(left \o new) = Len(left) + Len(new)
      /\ \A k \in 1..(Len(left) + Len(new)) :
            (left \o new)[k] = IF k <= Len(left) THEN left[k] ELSE new[k - Len(left)]
  BY <1>2, <1>3, ConcatProperties
<1>6. Len(left) \in Nat
  BY LenProperties
<1>7. \A k \in 1..Len(reqs) : (left \o new)[Len(left) + k] = new[k]
  BY <1>0, <1>2, <1>5, <1>6
<1>8. \A k \in 1..Len(left) : (left \o new)[k] = left[k]
  BY <1>0, <1>2, <1>5, <1>6
<1> QED
  BY <1>2, <1>4, <1>5, <1>7, <1>8 DEF Listed, m, new

\* Queue adds one request to those of the handler.
LEMMA Queued ==
    ASSUME NEW w \in Works, NEW type \in {"OPEN", "READ", "WRITE", "CLOSE"}, NEW off \in Nat,
           NEW len \in 0..Chunk, pos \in Nat
    PROVE  LET r == [type |-> type, off |-> off, len |-> len,
                     unit |-> IF type = "WRITE" THEN pos + w.read ELSE 0]
           IN  /\ r \in Reqs /\ Append(w.reqs, r) \in Seq(Reqs)
               /\ Len(Append(w.reqs, r)) = Len(w.reqs) + 1
               /\ \A k \in 1..Len(w.reqs) : Append(w.reqs, r)[k] = w.reqs[k]
               /\ Append(w.reqs, r)[Len(w.reqs) + 1] = r
               /\ Queue(w, type, off, len) =
                    [x |-> w.x, dead |-> w.dead, reqs |-> Append(w.reqs, r), read |-> w.read]
<1> DEFINE r == [type |-> type, off |-> off, len |-> len,
                 unit |-> IF type = "WRITE" THEN pos + w.read ELSE 0]
<1>1. w.reqs \in Seq(Reqs) /\ w.read \in Nat
  BY DEF Works
<1>2. r \in Reqs
  BY <1>1 DEF Reqs
<1>3. Queue(w, type, off, len) =
        [x |-> w.x, dead |-> w.dead, reqs |-> Append(w.reqs, r), read |-> w.read]
  <2>1. /\ w = [x |-> w.x, dead |-> w.dead, reqs |-> w.reqs, read |-> w.read]
    BY DEF Works
  <2>2. Queue(w, type, off, len) = [w EXCEPT !.reqs = Append(@, r)]
    BY DEF Queue
  <2> HIDE DEF r
  <2> QED BY <2>1, <2>2
<1> HIDE DEF r
<1>4. /\ Append(w.reqs, r) \in Seq(Reqs) /\ Len(Append(w.reqs, r)) = Len(w.reqs) + 1
      /\ \A k \in 1..Len(w.reqs) : Append(w.reqs, r)[k] = w.reqs[k]
      /\ Append(w.reqs, r)[Len(w.reqs) + 1] = r
  BY <1>1, <1>2, AppendProperties
<1> QED
  BY <1>2, <1>3, <1>4 DEF r

-----------------------------------------------------------------------------
(* The pump *)

\* The request that a handler at w queues, and the work with one more turn done.
Req(w, type, off, len) ==
    [type |-> type, off |-> off, len |-> len, unit |-> IF type = "WRITE" THEN pos + w.read ELSE 0]
More(w, z, r, n) == [x |-> z, dead |-> FALSE, reqs |-> Append(w.reqs, r), read |-> w.read + n]

\* The constants are numbers.
LEMMA Bounds ==
    /\ Chunk \in Nat /\ Chunk > 0 /\ XferWindow \in Nat /\ XferWindow > 0
    /\ Size \in Nat /\ MaxErrors \in Nat
BY TransferAssumption

\* The fields of a transfer, each by its type.
LEMMA XferFields ==
    ASSUME NEW y \in Xfers
    PROVE  /\ y.state \in {"IDLE", "RUNNING", "DONE", "FAILED", "CANCELLED"}
           /\ y.upload \in BOOLEAN /\ y.failed \in BOOLEAN /\ y.cancelled \in BOOLEAN
           /\ y.finished \in BOOLEAN /\ y.closing \in BOOLEAN /\ y.close_done \in BOOLEAN
           /\ y.handle \in BOOLEAN /\ y.eof_known \in BOOLEAN /\ y.local_eof \in BOOLEAN
           /\ y.total \in Nat /\ y.done \in Nat /\ y.next_off \in Nat /\ y.eof_at \in Nat
           /\ y.file_pos \in Nat /\ y.calls \in Nat
           /\ y.outstanding \in 0..XferWindow /\ y.retry \in Seq([off : Nat, len : 1..Chunk])
BY DEF Xfers

\* A record with one field changed.
LEMMA WorkEdit ==
    ASSUME NEW w \in Works, NEW z
    PROVE  [w EXCEPT !.x = z] = [x |-> z, dead |-> w.dead, reqs |-> w.reqs, read |-> w.read]
BY DEF Works

\* A transfer with one field changed is a transfer.
LEMMA XferEdits ==
    ASSUME NEW y \in Xfers
    PROVE  /\ \A n \in 0..XferWindow : [y EXCEPT !.outstanding = n] \in Xfers
           /\ \A n \in Nat : [y EXCEPT !.next_off = n] \in Xfers
           /\ \A q \in Seq([off : Nat, len : 1..Chunk]) : [y EXCEPT !.retry = q] \in Xfers
           /\ \A b \in BOOLEAN : [y EXCEPT !.failed = b] \in Xfers
           /\ \A b \in BOOLEAN : [y EXCEPT !.cancelled = b] \in Xfers
           /\ \A b \in BOOLEAN : [y EXCEPT !.handle = b] \in Xfers
           /\ \A b \in BOOLEAN : [y EXCEPT !.closing = b] \in Xfers
           /\ \A b \in BOOLEAN : [y EXCEPT !.close_done = b] \in Xfers
           /\ \A b \in BOOLEAN : [y EXCEPT !.local_eof = b] \in Xfers
           /\ \A n \in Nat : [y EXCEPT !.done = n] \in Xfers
           /\ \A n \in Nat : [y EXCEPT !.file_pos = n] \in Xfers
           /\ \A n \in Nat : [y EXCEPT !.eof_at = n] \in Xfers
           /\ \A b \in BOOLEAN : [y EXCEPT !.eof_known = b] \in Xfers
<1>1. \A n \in 0..XferWindow : [y EXCEPT !.outstanding = n] \in Xfers
  BY DEF Xfers
<1>2. \A n \in Nat : [y EXCEPT !.next_off = n] \in Xfers
  BY DEF Xfers
<1>3. \A q \in Seq([off : Nat, len : 1..Chunk]) : [y EXCEPT !.retry = q] \in Xfers
  BY DEF Xfers
<1>4. \A b \in BOOLEAN : [y EXCEPT !.failed = b] \in Xfers
  BY DEF Xfers
<1>5. \A b \in BOOLEAN : [y EXCEPT !.cancelled = b] \in Xfers
  BY DEF Xfers
<1>6. \A b \in BOOLEAN : [y EXCEPT !.handle = b] \in Xfers
  BY DEF Xfers
<1>7. \A b \in BOOLEAN : [y EXCEPT !.closing = b] \in Xfers
  BY DEF Xfers
<1>8. \A b \in BOOLEAN : [y EXCEPT !.close_done = b] \in Xfers
  BY DEF Xfers
<1>9. \A b \in BOOLEAN : [y EXCEPT !.local_eof = b] \in Xfers
  BY DEF Xfers
<1>10. \A n \in Nat : [y EXCEPT !.done = n] \in Xfers
  BY DEF Xfers
<1>11. \A n \in Nat : [y EXCEPT !.file_pos = n] \in Xfers
  BY DEF Xfers
<1>12. \A n \in Nat : [y EXCEPT !.eof_at = n] \in Xfers
  BY DEF Xfers
<1>13. \A b \in BOOLEAN : [y EXCEPT !.eof_known = b] \in Xfers
  BY DEF Xfers
<1> HIDE DEF Xfers
<1> QED
  BY <1>1, <1>2, <1>3, <1>4, <1>5, <1>6, <1>7, <1>8, <1>9, <1>10, <1>11, <1>12, <1>13

\* Issue queues a block and counts it.
LEMMA Issued ==
    ASSUME NEW w \in Works, w.dead = FALSE, w.x.outstanding < XferWindow, pos \in Nat,
           NEW type \in Blocks, NEW off \in Nat, NEW len \in 0..Chunk
    PROVE  Issue(w, type, off, len) =
              More(w, [w.x EXCEPT !.outstanding = @ + 1], Req(w, type, off, len), 0)
<1> DEFINE z == [w.x EXCEPT !.outstanding = @ + 1]
           u == [x |-> z, dead |-> FALSE, reqs |-> w.reqs, read |-> w.read]
<1>1. w = [x |-> w.x, dead |-> FALSE, reqs |-> w.reqs, read |-> w.read]
  BY DEF Works
<1>2. w.x \in Xfers /\ w.reqs \in Seq(Reqs) /\ w.read \in Nat
  BY DEF Works
<1>3. z \in Xfers
  <2>1. w.x.outstanding + 1 \in 0..XferWindow
    BY <1>2, XferFields, Bounds
  <2> QED BY <1>2, <2>1, XferEdits
<1>4. [w EXCEPT !.x.outstanding = @ + 1] = u
  <2>1. [w EXCEPT !.x.outstanding = @ + 1] = [w EXCEPT !.x = z]
    OBVIOUS
  <2> HIDE DEF z
  <2> QED BY <2>1, WorkEdit
<1>5. Issue(w, type, off, len) = Queue(u, type, off, len)
  <2> HIDE DEF u
  <2> QED BY <1>4 DEF Issue
<1>6. u \in Works
  <2> HIDE DEF z
  <2> QED BY <1>2, <1>3 DEF Works
<1>7. type \in {"OPEN", "READ", "WRITE", "CLOSE"}
  BY DEF Blocks
<1> DEFINE r == [type |-> type, off |-> off, len |-> len,
                 unit |-> IF type = "WRITE" THEN pos + u.read ELSE 0]
<1>8. Queue(u, type, off, len) = [x |-> u.x, dead |-> u.dead, reqs |-> Append(u.reqs, r), read |-> u.read]
  <2> HIDE DEF u
  <2> QED BY <1>6, <1>7, Queued
<1>9. r = Req(w, type, off, len)
  BY DEF Req
<1>10. /\ u.x = z /\ u.dead = FALSE /\ u.reqs = w.reqs /\ u.read = w.read /\ w.read + 0 = w.read
  BY <1>2
<1> HIDE DEF u, z, r
<1> QED
  BY <1>5, <1>8, <1>9, <1>10 DEF More, z

\* What the pump leaves of the transfer y, and what it makes sure of.
Same(z, y) ==
    /\ z.state = y.state /\ z.upload = y.upload /\ z.cancelled = y.cancelled
    /\ z.finished = y.finished /\ z.closing = y.closing /\ z.close_done = y.close_done
    /\ z.handle = y.handle /\ z.total = y.total /\ z.done = y.done /\ z.eof_at = y.eof_at
    /\ z.eof_known = y.eof_known /\ z.file_pos = y.file_pos /\ z.calls = y.calls
Fair(w, y, good) == (y.failed => w.x.failed) /\ (good = XferWindow => w.x.failed = y.failed)
Local(w, y) == IF y.upload THEN pos + w.read <= Size ELSE w.read = 0
Loop(w, y, good) ==
    /\ w.dead = FALSE /\ Same(w.x, y) /\ Fair(w, y, good) /\ Local(w, y)
    /\ w.x.outstanding = y.outstanding + Len(w.reqs)
    /\ Below(w.x) /\ y.next_off <= w.x.next_off
    /\ \A k \in 1..Len(w.reqs) : w.reqs[k].type \in Blocks /\ Sane(w.reqs[k], w.x)
Settled(z) == z.outstanding > 0 \/ z.failed \/ z.cancelled \/ AllDone(z)

\* One more block asked for keeps what holds in the loop.
LEMMA Grows ==
    ASSUME NEW y \in Xfers, NEW w \in Works, NEW good, Loop(w, y, good), pos \in Nat,
           NEW z \in Xfers, NEW r \in Reqs, NEW n \in Nat,
           Same(z, w.x), z.failed = w.x.failed, z.outstanding = w.x.outstanding + 1,
           w.x.next_off <= z.next_off, Below(z), r.type \in Blocks, Sane(r, z),
           IF y.upload THEN pos + w.read + n <= Size ELSE n = 0
    PROVE  More(w, z, r, n) \in Works /\ Loop(More(w, z, r, n), y, good) /\ Settled(z)
<1> DEFINE v == More(w, z, r, n)
           q == Append(w.reqs, r)
<1>1. w.reqs \in Seq(Reqs) /\ w.read \in Nat /\ w.x \in Xfers
  BY DEF Works
<1>2. /\ q \in Seq(Reqs) /\ Len(q) = Len(w.reqs) + 1 /\ q[Len(w.reqs) + 1] = r
      /\ \A k \in 1..Len(w.reqs) : q[k] = w.reqs[k]
  BY <1>1, AppendProperties
<1>3. v.x = z /\ v.dead = FALSE /\ v.reqs = q /\ v.read = w.read + n
  BY DEF More
<1>4. v \in Works
  <2>1. w.read + n \in Nat
    BY <1>1
  <2> HIDE DEF q
  <2> QED BY <1>2, <2>1 DEF More, Works, q
<1> HIDE DEF v, q
<1>5. Same(v.x, y)
  BY <1>3 DEF Loop, Same
<1>6. Fair(v, y, good)
  BY <1>3 DEF Loop, Fair
<1>7. Local(v, y)
  <2>1. Size \in Nat
    BY Bounds
  <2> QED BY <1>1, <1>3, <2>1 DEF Loop, Local
<1>8. /\ v.x.outstanding = y.outstanding + Len(v.reqs)
      /\ y.next_off <= v.x.next_off
  <2>1. /\ w.x.outstanding = y.outstanding + Len(w.reqs) /\ y.next_off <= w.x.next_off
    BY DEF Loop
  <2>2. /\ w.x.outstanding \in Nat /\ y.outstanding \in Nat /\ Len(w.reqs) \in Nat
        /\ y.next_off \in Nat /\ w.x.next_off \in Nat /\ z.next_off \in Nat
    <3>1. /\ w.x.outstanding \in 0..XferWindow /\ y.outstanding \in 0..XferWindow
          /\ y.next_off \in Nat /\ w.x.next_off \in Nat /\ z.next_off \in Nat
      BY <1>1, XferFields
    <3>2. Len(w.reqs) \in Nat
      BY <1>1
    <3> QED BY ONLY <3>1, <3>2
  <2>3. v.x.outstanding = w.x.outstanding + 1 /\ v.x.next_off = z.next_off
    BY <1>3
  <2>4. Len(v.reqs) = Len(w.reqs) + 1
    BY <1>2, <1>3
  <2>5. w.x.next_off <= z.next_off
    OBVIOUS
  <2>6. v.x.outstanding = y.outstanding + (Len(w.reqs) + 1)
    BY ONLY <2>1, <2>2, <2>3
  <2>7. y.next_off <= z.next_off
    BY ONLY <2>1, <2>2, <2>5
  <2> QED BY <2>3, <2>4, <2>6, <2>7, Zenon
<1>9. \A k \in 1..Len(v.reqs) : v.reqs[k].type \in Blocks /\ Sane(v.reqs[k], v.x)
  <2> TAKE k \in 1..Len(v.reqs)
  <2>0. Len(w.reqs) \in Nat
    BY <1>1
  <2>1. CASE k = Len(w.reqs) + 1
    BY <2>1, <1>2, <1>3
  <2>2. CASE k # Len(w.reqs) + 1
    <3>1. k \in 1..Len(w.reqs) /\ v.reqs[k] = w.reqs[k] /\ w.reqs[k] \in Reqs
      BY <2>0, <2>2, <1>1, <1>2, <1>3, ElementOfSeq
    <3> DEFINE u == w.reqs[k]
    <3>2. u.type \in Blocks /\ Sane(u, w.x) /\ u.off \in Nat /\ u.len \in Nat
      BY <3>1, Bounds DEF Loop, Reqs
    <3>3. w.x.next_off \in Nat /\ z.next_off \in Nat /\ z.upload = w.x.upload
      BY <1>1, XferFields DEF Same
    <3> HIDE DEF u
    <3>4. u.type = "READ" => ~z.upload /\ u.off + u.len <= z.next_off
      <4>1. u.type = "READ" => ~w.x.upload /\ u.off + u.len <= w.x.next_off
        BY <3>2 DEF Sane
      <4>2. w.x.next_off <= z.next_off /\ u.off + u.len \in Nat
        BY <3>2
      <4>3. u.off + u.len <= w.x.next_off => u.off + u.len <= z.next_off
        BY ONLY <3>3, <4>2
      <4> QED BY <3>3, <4>1, <4>3
    <3>5. u.type = "WRITE" => z.upload /\ u.unit + u.len <= Size
      <4>1. u.type = "WRITE" => w.x.upload /\ u.unit + u.len <= Size
        BY <3>2 DEF Sane
      <4> QED BY <3>3, <4>1
    <3>6. Sane(u, z)
      BY <3>4, <3>5 DEF Sane
    <3> QED BY <1>3, <3>1, <3>2, <3>6 DEF u
  <2> QED BY <2>1, <2>2
<1>10. Settled(z)
  <2>1. w.x.outstanding \in Nat
    BY <1>1, XferFields
  <2> QED BY <2>1 DEF Settled
<1> QED
  BY <1>3, <1>4, <1>5, <1>6, <1>7, <1>8, <1>9, <1>10 DEF Loop, v

\* The last element of a sequence, and the others.
LEMMA Peeled ==
    ASSUME NEW S, NEW q \in Seq(S), q # <<>>
    PROVE  /\ Front(q) \in Seq(S) /\ Len(Front(q)) = Len(q) - 1
           /\ \A k \in 1..Len(Front(q)) : Front(q)[k] = q[k]
           /\ Last(q) \in S /\ Last(q) = q[Len(q)] /\ Len(q) \in 1..Len(q) /\ Len(q) \in Nat
<1>1. Len(q) \in Nat /\ Len(q) # 0 /\ \A k \in 1..Len(q) : q[k] \in S
  BY LenProperties, ElementOfSeq, EmptySeq
<1>2. /\ SubSeq(q, 1, Len(q) - 1) \in Seq(S)
      /\ Len(SubSeq(q, 1, Len(q) - 1)) = IF 1 <= Len(q) - 1 THEN (Len(q) - 1) - 1 + 1 ELSE 0
      /\ \A k \in 1..((Len(q) - 1) - 1 + 1) : SubSeq(q, 1, Len(q) - 1)[k] = q[1 + k - 1]
  <2>1. \A k \in 1..(Len(q) - 1) : q[k] \in S
    BY <1>1
  <2> QED BY <1>1, <2>1, SubSeqProperties
<1> DEFINE f == SubSeq(q, 1, Len(q) - 1)
<1>3. Front(q) = f /\ Last(q) = q[Len(q)]
  BY DEF Front, Last
<1>4. Len(f) = Len(q) - 1
  <2>1. Len(f) = IF 1 <= Len(q) - 1 THEN (Len(q) - 1) - 1 + 1 ELSE 0
    BY <1>2
  <2>2. Len(q) \in Nat /\ Len(q) # 0
    BY <1>1
  <2> HIDE DEF f
  <2> DEFINE m == Len(q)
  <2> HIDE DEF m
  <2>3. m \in Nat /\ m # 0 /\ Len(f) = IF 1 <= m - 1 THEN (m - 1) - 1 + 1 ELSE 0
    BY <2>1, <2>2 DEF m
  <2>4. (IF 1 <= m - 1 THEN (m - 1) - 1 + 1 ELSE 0) = m - 1
    BY ONLY <2>3
  <2> QED BY <2>3, <2>4 DEF m
<1> HIDE DEF f
<1>5. \A k \in 1..Len(f) : f[k] = q[k]
  <2> TAKE k \in 1..Len(f)
  <2>1. k \in 1..((Len(q) - 1) - 1 + 1) /\ 1 + k - 1 = k
    BY <1>1, <1>4
  <2> QED BY <1>2, <2>1 DEF f
<1> QED
  BY <1>1, <1>2, <1>3, <1>4, <1>5 DEF f

\* Nothing is left to ask for only when the end is reached.
LEMMA AheadIs ==
    ASSUME NEW y, y.next_off \in Nat, y.eof_at \in Nat, y.total \in Nat
    PROVE  /\ Ahead(y) \in 0..Chunk
           /\ Ahead(y) = 0 <=> IF y.eof_known THEN y.eof_at <= y.next_off
                               ELSE y.total # 0 /\ y.next_off >= y.total
           /\ ~y.eof_known /\ y.total # 0 /\ Ahead(y) # 0 => y.next_off + Ahead(y) <= y.total
<1> DEFINE left == IF y.eof_known THEN y.eof_at - y.next_off
                   ELSE IF y.total # 0 THEN y.total - y.next_off ELSE Chunk
<1>1. Ahead(y) = IF left <= 0 THEN 0 ELSE Min({Chunk, left})
  BY DEF Ahead
<1>2. left \in Int /\ Chunk \in Nat /\ Chunk > 0
  BY Bounds
<1>3. Min({Chunk, left}) = IF Chunk <= left THEN Chunk ELSE left
  BY <1>2, MinPair
<1> QED
  BY <1>1, <1>2, <1>3

\* What a turn asks for: a block again, the next one, or the next one to write; or the local
\* file has ended, or cannot be read.
AsksAgain(v, w, u) ==
    /\ ~w.x.upload /\ w.x.retry # <<>>
    /\ v = More(w, u, Req(w, "READ", Last(w.x.retry).off, Last(w.x.retry).len), 0)
    /\ u.retry = Front(w.x.retry) /\ u.next_off = w.x.next_off
AsksOn(v, w, u) ==
    /\ ~w.x.upload /\ w.x.retry = <<>> /\ Ahead(w.x) # 0
    /\ v = More(w, u, Req(w, "READ", w.x.next_off, Ahead(w.x)), 0)
    /\ u.retry = <<>> /\ u.next_off = w.x.next_off + Ahead(w.x)
WritesOn(v, w, u, n) ==
    /\ w.x.upload /\ ~w.x.local_eof /\ ~u.local_eof /\ n # 0 /\ pos + w.read + n <= Size
    /\ v = More(w, u, Req(w, "WRITE", w.x.next_off, n), n)
    /\ u.next_off = w.x.next_off + n
ReadsNoMore(v, w) ==
    /\ w.x.upload /\ v.reqs = w.reqs /\ v.read = w.read /\ Same(v.x, w.x)
    /\ v.x.next_off = w.x.next_off /\ (~v.x.failed => pos + w.read = Size)
Asks(v, w, u) ==
    /\ u \in Xfers /\ Same(u, w.x) /\ u.outstanding = w.x.outstanding + 1 /\ u.failed = w.x.failed
    /\ AsksAgain(v, w, u) \/ AsksOn(v, w, u) \/ \E n \in 0..Chunk : WritesOn(v, w, u, n)
Turned(v, w) ==
    \/ v = w
    \/ ~w.x.failed /\ ~w.x.cancelled /\ w.x.outstanding < XferWindow /\ ReadsNoMore(v, w)
    \/ ~w.x.failed /\ ~w.x.cancelled /\ w.x.outstanding < XferWindow /\ \E u : Asks(v, w, u)

\* Each turn of the loop keeps this, and leaves a transfer that goes on or is done.
LEMMA TurnKeeps ==
    ASSUME NEW y \in Xfers, NEW w \in Works, NEW good \in 0..XferWindow,
           Loop(w, y, good), pos \in Nat, y.handle
    PROVE  LET v == PumpTurn(w, good)
           IN  v \in Works /\ Loop(v, y, good) /\ Settled(v.x) /\ Turned(v, w)
<1> DEFINE v == PumpTurn(w, good)
           z == w.x
           Keeps(u) == u \in Works /\ Loop(u, y, good) /\ Settled(u.x)
           Guard == ~z.failed /\ ~z.cancelled /\ z.handle /\ z.outstanding < XferWindow
           ahead == Ahead(z)
<1>0. /\ z \in Xfers /\ w.reqs \in Seq(Reqs) /\ w.read \in Nat /\ w.dead = FALSE
      /\ Same(z, y) /\ z.handle /\ z.outstanding = y.outstanding + Len(w.reqs)
      /\ Below(z) /\ Len(w.reqs) \in Nat
  BY DEF Works, Loop, Same
<1>a. /\ z.outstanding \in 0..XferWindow /\ y.outstanding \in Nat /\ z.next_off \in Nat
      /\ z.total \in Nat /\ z.eof_at \in Nat /\ z.failed \in BOOLEAN /\ z.cancelled \in BOOLEAN
      /\ z.retry \in Seq([off : Nat, len : 1..Chunk]) /\ z.upload \in BOOLEAN /\ z.upload = y.upload
  <2>1. z.outstanding \in Nat
    BY <1>0, XferFields, Bounds
  <2>2. y.outstanding \in Nat
    BY XferFields, Bounds
  <2>3. z.upload = y.upload
    BY <1>0 DEF Same
  <2> HIDE DEF z
  <2> QED BY <1>0, <2>1, <2>2, <2>3, XferFields
<1>b. z.outstanding \in Nat /\ z.next_off \in Nat /\ XferWindow \in Nat /\ Chunk \in Nat
  BY <1>a, Bounds
<1>c. \A n \in 0..Chunk : z.next_off + n \in Nat /\ z.next_off <= z.next_off + n
  BY ONLY <1>b
<1>d. z.outstanding < XferWindow => z.outstanding + 1 \in 0..XferWindow
  BY ONLY <1>b
<1>1. CASE ~Guard
  <2>1. v = w
    BY <1>1 DEF PumpTurn
  <2>2. Settled(z)
    BY <1>0, <1>1, <1>a, Bounds DEF Settled
  <2> HIDE DEF v
  <2> QED BY <2>1, <2>2 DEF v, Turned
<1>2. CASE Guard /\ ~z.upload /\ z.retry # <<>>
  <2> DEFINE q == Front(z.retry)
             l == Last(z.retry)
             u == [w EXCEPT !.x.retry = Front(@)]
             u1 == [z EXCEPT !.retry = q]
             u2 == [u1 EXCEPT !.outstanding = @ + 1]
             r == Req(w, "READ", l.off, l.len)
  <2>1. /\ q \in Seq([off : Nat, len : 1..Chunk]) /\ Len(q) = Len(z.retry) - 1
        /\ (\A k \in 1..Len(q) : q[k] = z.retry[k]) /\ l \in [off : Nat, len : 1..Chunk]
        /\ l = z.retry[Len(z.retry)] /\ Len(z.retry) \in 1..Len(z.retry)
        /\ Len(z.retry) \in Nat
    BY <1>a, <1>2, Peeled
  <2>2. l.off \in Nat /\ l.len \in 1..Chunk /\ l.off + l.len <= z.next_off
    BY <1>0, <2>1 DEF Below
  <2>3. u1 \in Xfers
    BY <1>0, <2>1, XferEdits
  <2>4. /\ u1.retry = q /\ u1.outstanding = z.outstanding /\ u1.failed = z.failed
        /\ u1.next_off = z.next_off /\ Same(u1, z)
    BY <1>0 DEF Same, Xfers
  <2>5. u = [x |-> u1, dead |-> FALSE, reqs |-> w.reqs, read |-> w.read]
    <3>1. u = [w EXCEPT !.x = u1]
      OBVIOUS
    <3> HIDE DEF u, u1
    <3> QED BY <1>0, <3>1, WorkEdit
  <2> HIDE DEF u1, q, l
  <2>6. u \in Works /\ u.x = u1 /\ u.dead = FALSE /\ u.reqs = w.reqs /\ u.read = w.read
    <3> HIDE DEF u
    <3> QED BY <1>0, <2>3, <2>5 DEF Works
  <2>7. v = Issue(u, "READ", l.off, l.len)
    <3>1. v = PumpRead(w)
      BY <1>2 DEF PumpTurn
    <3> QED BY <1>2, <3>1 DEF PumpRead, l
  <2> HIDE DEF u
  <2>8. Issue(u, "READ", l.off, l.len) = More(u, u2, Req(u, "READ", l.off, l.len), 0)
    <3>1. "READ" \in Blocks /\ l.len \in 0..Chunk /\ u.x.outstanding < XferWindow
      BY <1>2, <2>2, <2>4, <2>6, Bounds DEF Blocks
    <3> QED BY <2>2, <2>6, <3>1, Issued
  <2>9. v = More(w, u2, r, 0)
    BY <2>6, <2>7, <2>8 DEF More, Req
  <2>10. u2 \in Xfers
    <3>1. u1.outstanding + 1 \in 0..XferWindow
      BY <1>2, <1>d, <2>4
    <3> QED BY <2>3, <3>1, XferEdits
  <2>11. /\ u2.retry = q /\ u2.outstanding = z.outstanding + 1 /\ u2.failed = z.failed
         /\ u2.next_off = z.next_off /\ Same(u2, z)
    BY <2>3, <2>4 DEF Same, Xfers
  <2> HIDE DEF u2
  <2>12. Below(u2)
    <3>1. \A k \in 1..Len(q) : q[k].off + q[k].len <= z.next_off
      <4>1. \A k \in 1..Len(z.retry) : z.retry[k].off + z.retry[k].len <= z.next_off
        BY <1>0 DEF Below
      <4>2. \A k \in 1..Len(q) : k \in 1..Len(z.retry)
        BY <2>1
      <4> QED BY <2>1, <4>1, <4>2
    <3> QED BY <1>0, <2>11, <3>1 DEF Below, Same
  <2>13. r \in Reqs /\ r.type \in Blocks /\ Sane(r, u2)
    <3>1. r = [type |-> "READ", off |-> l.off, len |-> l.len, unit |-> 0]
      BY DEF Req
    <3>2. l.len \in 0..Chunk
      BY <2>2, Bounds
    <3>3. ~u2.upload
      BY <1>2, <2>11 DEF Same
    <3> HIDE DEF r
    <3> QED BY <2>2, <2>11, <3>1, <3>2, <3>3 DEF Reqs, Blocks, Sane
  <2>14. IF y.upload THEN pos + w.read + 0 <= Size ELSE 0 = 0
    BY <1>2, <1>a
  <2>15. z.next_off <= u2.next_off
    BY <1>a, <2>11
  <2> HIDE DEF r, v
  <2>16. Keeps(More(w, u2, r, 0))
    <3>1. More(w, u2, r, 0) \in Works /\ Loop(More(w, u2, r, 0), y, good) /\ Settled(u2)
      BY <2>10, <2>11, <2>12, <2>13, <2>14, <2>15, Grows
    <3>2. More(w, u2, r, 0).x = u2
      BY DEF More
    <3> QED BY <3>1, <3>2
  <2>17. AsksAgain(v, w, u2)
    BY <1>2, <2>9, <2>11 DEF AsksAgain, q, l, r
  <2>18. Turned(v, w)
    BY <1>2, <2>10, <2>11, <2>17 DEF Turned, Asks
  <2> QED BY <2>9, <2>16, <2>18 DEF v
<1>3. CASE Guard /\ ~z.upload /\ z.retry = <<>>
  <2> DEFINE u2 == [[z EXCEPT !.next_off = @ + ahead] EXCEPT !.outstanding = @ + 1]
             u1 == [z EXCEPT !.next_off = @ + ahead]
             u == [w EXCEPT !.x.next_off = @ + ahead]
             r == Req(w, "READ", z.next_off, ahead)
  <2>1. ahead \in 0..Chunk /\ (ahead = 0 => AllDone(z))
    BY <1>3, <1>a, AheadIs DEF AllDone
  <2>2. v = IF ahead = 0 THEN w ELSE Issue(u, "READ", z.next_off, ahead)
    BY <1>3 DEF PumpTurn, PumpRead
  <2> HIDE DEF ahead, v
  <2>3. CASE ahead = 0
    <3>1. Settled(z)
      BY <2>1, <2>3 DEF Settled
    <3> QED BY <2>2, <2>3, <3>1 DEF v, Turned
  <2>4. CASE ahead # 0
    <3>1. z.next_off + ahead \in Nat
      BY <1>c, <2>1
    <3>2. u1 \in Xfers
      BY <1>0, <3>1, XferEdits
    <3>3. /\ u1.retry = z.retry /\ u1.outstanding = z.outstanding /\ u1.failed = z.failed
          /\ u1.next_off = z.next_off + ahead /\ Same(u1, z)
      BY <1>0 DEF Same, Xfers
    <3>4. u = [x |-> u1, dead |-> FALSE, reqs |-> w.reqs, read |-> w.read]
      <4>1. u = [w EXCEPT !.x = u1]
        OBVIOUS
      <4> HIDE DEF u, u1
      <4> QED BY <1>0, <4>1, WorkEdit
    <3>5. u2 = [u1 EXCEPT !.outstanding = @ + 1]
      OBVIOUS
    <3> HIDE DEF u1, u2
    <3>6. u \in Works /\ u.x = u1 /\ u.dead = FALSE /\ u.reqs = w.reqs /\ u.read = w.read
      <4> HIDE DEF u
      <4> QED BY <1>0, <3>2, <3>4 DEF Works
    <3> HIDE DEF u
    <3>7. Issue(u, "READ", z.next_off, ahead) = More(u, u2, Req(u, "READ", z.next_off, ahead), 0)
      <4>1. "READ" \in Blocks /\ u.x.outstanding < XferWindow
        BY <1>3, <3>3, <3>6 DEF Blocks
      <4> QED BY <1>a, <2>1, <3>5, <3>6, <4>1, Issued
    <3>8. v = More(w, u2, r, 0)
      BY <2>2, <2>4, <3>6, <3>7 DEF More, Req
    <3>9. u2 \in Xfers
      <4>1. u1.outstanding + 1 \in 0..XferWindow
        BY <1>3, <1>d, <3>3
      <4> QED BY <3>2, <3>5, <4>1, XferEdits
    <3>10. /\ u2.retry = <<>> /\ u2.outstanding = z.outstanding + 1 /\ u2.failed = z.failed
           /\ u2.next_off = z.next_off + ahead /\ Same(u2, z)
      BY <1>3, <3>2, <3>3, <3>5 DEF Same, Xfers
    <3>11. z.next_off <= z.next_off + ahead
      BY <1>c, <2>1
    <3>12. Below(u2)
      <4>1. \A k \in 1..Len(u2.retry) : FALSE
        BY <3>10
      <4>2. z.eof_known => z.eof_at <= z.next_off
        BY <1>0 DEF Below
      <4>3. z.eof_at <= z.next_off => z.eof_at <= u2.next_off
        <5>1. z.eof_at \in Nat /\ z.next_off \in Nat /\ ahead \in Nat /\ u2.next_off = z.next_off + ahead
          BY <1>a, <2>1, <3>10, Bounds
        <5> QED BY ONLY <5>1
      <4>4. u2.eof_known = z.eof_known /\ u2.eof_at = z.eof_at
        BY <3>10 DEF Same
      <4> QED BY <4>1, <4>2, <4>3, <4>4 DEF Below
    <3>13. r \in Reqs /\ r.type \in Blocks /\ Sane(r, u2)
      <4>1. r = [type |-> "READ", off |-> z.next_off, len |-> ahead, unit |-> 0]
        BY DEF Req
      <4>2. ~u2.upload
        BY <1>3, <3>10 DEF Same
      <4>3. z.next_off + ahead <= u2.next_off
        BY <3>1, <3>10
      <4> HIDE DEF r
      <4> QED BY <1>a, <2>1, <4>1, <4>2, <4>3 DEF Reqs, Blocks, Sane
    <3>14. IF y.upload THEN pos + w.read + 0 <= Size ELSE 0 = 0
      BY <1>3, <1>a
    <3> HIDE DEF r
    <3>15. More(w, u2, r, 0) \in Works /\ Loop(More(w, u2, r, 0), y, good) /\ Settled(u2)
      BY <3>9, <3>10, <3>11, <3>12, <3>13, <3>14, Grows
    <3>16. More(w, u2, r, 0).x = u2
      BY DEF More
    <3>17. AsksOn(v, w, u2)
      BY <1>3, <2>4, <3>8, <3>10 DEF AsksOn, r, ahead
    <3>18. Turned(v, w)
      BY <1>3, <3>9, <3>10, <3>17 DEF Turned, Asks
    <3> QED BY <3>8, <3>15, <3>16, <3>18 DEF v
  <2> QED BY <2>3, <2>4
<1>4. CASE Guard /\ z.upload
  <2> DEFINE io == Len(w.reqs) < good
             n == IF io THEN Min({Chunk, Size - (pos + w.read)}) ELSE 0
             u1 == [z EXCEPT !.outstanding = @ + 1]
             u2 == [u1 EXCEPT !.next_off = @ + n]
             sent == [Issue(w, "WRITE", z.next_off, n) EXCEPT !.read = @ + n]
             r == Req(w, "WRITE", z.next_off, n)
  <2>1. v = IF z.local_eof THEN w
            ELSE IF n = 0
            THEN [w EXCEPT !.x.local_eof = TRUE, !.x.failed = IF io THEN @ ELSE TRUE]
            ELSE IF sent.x.failed THEN sent
            ELSE [sent EXCEPT !.x.next_off = @ + n]
    BY <1>4 DEF PumpTurn, PumpWrite
  <2>2. n \in 0..Chunk /\ pos + w.read + n <= Size /\ pos + w.read <= Size
    <3>1. pos + w.read <= Size /\ w.read \in Nat
      BY <1>0, <1>4, <1>a DEF Loop, Local
    <3>2. Min({Chunk, Size - (pos + w.read)}) = IF Chunk <= Size - (pos + w.read) THEN Chunk ELSE Size - (pos + w.read)
      BY <3>1, Bounds, MinPair
    <3> DEFINE s == pos + w.read
               m == Min({Chunk, Size - s})
    <3>3. s \in Nat /\ s <= Size /\ Size \in Nat /\ Chunk \in Nat
      BY <3>1, Bounds
    <3> HIDE DEF s, m
    <3>4. m = IF Chunk <= Size - s THEN Chunk ELSE Size - s
      BY <3>2 DEF m, s
    <3>5. m \in 0..Chunk /\ s + m <= Size /\ 0 \in 0..Chunk /\ s + 0 <= Size
      BY ONLY <3>3, <3>4
    <3>6. n = IF io THEN m ELSE 0
      BY DEF m, s
    <3> HIDE DEF n, io
    <3>7. n \in 0..Chunk /\ s + n <= Size /\ s <= Size
      BY <3>3, <3>5, <3>6
    <3> QED BY <3>7 DEF s
  <2>3. good = XferWindow => io
    BY <1>0, <1>a, <1>4, Bounds
  <2>7. n = 0 /\ io => pos + w.read = Size
    <3> DEFINE s == pos + w.read
               m == Min({Chunk, Size - s})
    <3>1. s \in Nat /\ s <= Size /\ Size \in Nat /\ Chunk \in Nat /\ Chunk > 0
      BY <1>0, <2>2, Bounds
    <3> HIDE DEF s
    <3>2. m = IF Chunk <= Size - s THEN Chunk ELSE Size - s
      BY <3>1, MinPair
    <3>3. n = 0 /\ io => m = 0
      BY DEF s
    <3> HIDE DEF n, io, m
    <3>4. m = 0 => s = Size
      BY ONLY <3>1, <3>2
    <3> QED BY <3>3, <3>4 DEF s
  <2> HIDE DEF v, n
  <2>4. CASE z.local_eof
    <3>1. Settled(z)
      BY <1>4, <2>4 DEF Settled, AllDone
    <3> QED BY <2>1, <2>4, <3>1 DEF v, Turned
  <2>5. CASE ~z.local_eof /\ n = 0
    <3> DEFINE f == IF io THEN z.failed ELSE TRUE
               u3 == [[z EXCEPT !.local_eof = TRUE] EXCEPT !.failed = f]
    <3>1. v = [x |-> u3, dead |-> FALSE, reqs |-> w.reqs, read |-> w.read]
      <4>1. v = [w EXCEPT !.x = u3]
        BY <2>1, <2>5
      <4> HIDE DEF u3
      <4> QED BY <1>0, <4>1, WorkEdit
    <3>2. u3 \in Xfers
      <4>1. [z EXCEPT !.local_eof = TRUE] \in Xfers /\ f \in BOOLEAN
        BY <1>0, <1>a, XferEdits
      <4> HIDE DEF f
      <4> QED BY <4>1, XferEdits
    <3>3. /\ u3.retry = z.retry /\ u3.outstanding = z.outstanding /\ u3.failed = f
          /\ u3.next_off = z.next_off /\ Same(u3, z) /\ u3.local_eof
      BY <1>0 DEF Same, Xfers
    <3> HIDE DEF u3
    <3>4. v \in Works /\ v.x = u3 /\ v.dead = FALSE /\ v.reqs = w.reqs /\ v.read = w.read
      <4> HIDE DEF v
      <4> QED BY <1>0, <3>1, <3>2 DEF Works
    <3>5. Settled(u3)
      <4>1. u3.upload
        BY <1>4, <3>3 DEF Same
      <4> QED BY <3>3, <4>1 DEF Settled, AllDone
    <3>6. Fair(v, y, good)
      BY <2>3, <3>3, <3>4, <1>a DEF Loop, Fair
    <3>7. Same(v.x, y)
      BY <1>0, <3>3, <3>4 DEF Same
    <3>8. Below(v.x)
      BY <1>0, <3>3, <3>4 DEF Below, Same
    <3>9. \A k \in 1..Len(v.reqs) : v.reqs[k].type \in Blocks /\ Sane(v.reqs[k], v.x)
      <4>1. \A k \in 1..Len(w.reqs) : w.reqs[k].type \in Blocks /\ Sane(w.reqs[k], z)
        BY DEF Loop
      <4>2. v.x.upload = z.upload /\ v.x.next_off = z.next_off
        BY <3>3, <3>4 DEF Same
      <4>3. \A q : Sane(q, z) => Sane(q, v.x)
        BY <4>2 DEF Sane
      <4> QED BY <3>4, <4>1, <4>3
    <3>10. /\ v.x.outstanding = y.outstanding + Len(v.reqs) /\ y.next_off <= v.x.next_off
           /\ Local(v, y)
      BY <1>0, <3>3, <3>4 DEF Loop, Local
    <3> HIDE DEF v
    <3>11. Loop(v, y, good)
      BY <3>4, <3>6, <3>7, <3>8, <3>9, <3>10 DEF Loop
    <3>12. ReadsNoMore(v, w)
      <4>1. ~u3.failed => pos + w.read = Size
        BY <2>5, <2>7, <3>3
      <4> QED BY <1>4, <3>3, <3>4, <4>1 DEF ReadsNoMore
    <3>13. Turned(v, w)
      BY <1>4, <3>12 DEF Turned
    <3> QED BY <3>4, <3>5, <3>11, <3>13 DEF v
  <2>6. CASE ~z.local_eof /\ n # 0
    <3>1. Issue(w, "WRITE", z.next_off, n) = More(w, u1, r, 0)
      <4>1. "WRITE" \in Blocks
        BY DEF Blocks
      <4> QED BY <1>0, <1>4, <1>a, <2>2, <4>1, Issued
    <3>2. u1 \in Xfers
      <4>1. z.outstanding + 1 \in 0..XferWindow
        BY <1>4, <1>d
      <4> QED BY <1>0, <4>1, XferEdits
    <3>3. /\ u1.retry = z.retry /\ u1.outstanding = z.outstanding + 1 /\ u1.failed = z.failed
          /\ u1.next_off = z.next_off /\ Same(u1, z) /\ u1.local_eof = z.local_eof
      BY <1>0 DEF Same, Xfers
    <3>4. u2 \in Xfers
      <4> HIDE DEF u1
      <4>1. u1.next_off \in Nat
        BY <3>2 DEF Xfers
      <4>2. n \in Nat
        BY <2>2, Bounds
      <4>3. u1.next_off + n \in Nat
        BY <4>1, <4>2
      <4> QED BY <3>2, <4>3, XferEdits
    <3> HIDE DEF u1
    <3>5. /\ u2.retry = z.retry /\ u2.outstanding = z.outstanding + 1 /\ u2.failed = z.failed
          /\ u2.next_off = z.next_off + n /\ Same(u2, z) /\ u2.local_eof = z.local_eof
      BY <3>2, <3>3 DEF Same, Xfers
    <3>6. v = More(w, u2, r, n)
      <4>1. /\ More(w, u1, r, 0) =
                 [x |-> u1, dead |-> FALSE, reqs |-> Append(w.reqs, r), read |-> w.read + 0]
            /\ w.read + 0 + n = w.read + n
        BY <1>0, <2>2, Bounds DEF More
      <4>2. sent = [x |-> u1, dead |-> FALSE, reqs |-> Append(w.reqs, r), read |-> w.read + n]
        <5> DEFINE i == Issue(w, "WRITE", z.next_off, n)
        <5>1. i = [x |-> u1, dead |-> FALSE, reqs |-> Append(w.reqs, r), read |-> w.read + 0]
          BY <3>1, <4>1
        <5>2. sent = [i EXCEPT !.read = @ + n]
          OBVIOUS
        <5> HIDE DEF r, i, sent
        <5>3. sent = [x |-> u1, dead |-> FALSE, reqs |-> Append(w.reqs, r), read |-> w.read + 0 + n]
          BY <5>1, <5>2
        <5> QED BY <4>1, <5>3
      <4>3. sent.x = u1 /\ sent.x.failed = FALSE
        <5> HIDE DEF sent
        <5> QED BY <1>4, <1>a, <3>3, <4>2
      <4>4. v = [sent EXCEPT !.x = u2]
        <5>1. v = [sent EXCEPT !.x.next_off = @ + n]
          BY <2>1, <2>6, <4>3
        <5>2. [sent EXCEPT !.x.next_off = @ + n] = [sent EXCEPT !.x = [sent.x EXCEPT !.next_off = @ + n]]
          OBVIOUS
        <5> HIDE DEF sent
        <5> QED BY <4>3, <5>1, <5>2
      <4> HIDE DEF sent, r, u2
      <4> QED BY <4>2, <4>4 DEF More
    <3>7. z.next_off <= z.next_off + n
      BY <1>c, <2>2
    <3> HIDE DEF u2
    <3>8. Below(u2)
      <4>1. \A k \in 1..Len(z.retry) : z.retry[k].off + z.retry[k].len <= z.next_off + n
        <5> TAKE k \in 1..Len(z.retry)
        <5>1. z.retry[k] \in [off : Nat, len : 1..Chunk]
          BY <1>a, ElementOfSeq
        <5> DEFINE s == z.retry[k].off + z.retry[k].len
        <5>2. s \in Nat /\ s <= z.next_off /\ n \in Nat /\ z.next_off \in Nat
          <6>1. s <= z.next_off
            BY <1>0 DEF Below
          <6>2. s \in Nat
            <7> DEFINE b == z.retry[k]
            <7>1. b.off \in Nat /\ b.len \in Nat
              BY <5>1, Bounds
            <7>2. s = b.off + b.len
              BY DEF s
            <7> HIDE DEF b
            <7> QED BY <7>1, <7>2
          <6>3. n \in Nat
            BY <2>2, Bounds
          <6> HIDE DEF s
          <6> QED BY <1>b, <6>1, <6>2, <6>3
        <5> HIDE DEF s
        <5>3. s <= z.next_off + n
          BY ONLY <5>2
        <5> QED BY <5>3 DEF s
      <4>2. z.eof_known => z.eof_at <= z.next_off
        BY <1>0 DEF Below
      <4>3. z.eof_at <= z.next_off => z.eof_at <= u2.next_off
        <5>1. z.eof_at \in Nat /\ z.next_off \in Nat /\ n \in Nat /\ u2.next_off = z.next_off + n
          BY <1>a, <2>2, <3>5, Bounds
        <5> QED BY ONLY <5>1
      <4>4. u2.eof_known = z.eof_known /\ u2.eof_at = z.eof_at
        BY <3>5 DEF Same
      <4> QED BY <3>5, <4>1, <4>2, <4>3, <4>4 DEF Below
    <3>9. r \in Reqs /\ r.type \in Blocks /\ Sane(r, u2)
      <4>1. r = [type |-> "WRITE", off |-> z.next_off, len |-> n, unit |-> pos + w.read]
        BY DEF Req
      <4>2. u2.upload
        BY <1>4, <3>5 DEF Same
      <4>3. pos + w.read \in Nat
        BY <1>0
      <4> HIDE DEF r
      <4> QED BY <1>a, <2>2, <4>1, <4>2, <4>3 DEF Reqs, Blocks, Sane
    <3>10. IF y.upload THEN pos + w.read + n <= Size ELSE n = 0
      BY <1>4, <1>a, <2>2
    <3>11. n \in Nat /\ u2.next_off = z.next_off + n
      BY <2>2, <3>5, Bounds
    <3> HIDE DEF r
    <3>12. More(w, u2, r, n) \in Works /\ Loop(More(w, u2, r, n), y, good) /\ Settled(u2)
      BY <3>4, <3>5, <3>7, <3>8, <3>9, <3>10, <3>11, Grows
    <3>13. More(w, u2, r, n).x = u2
      BY DEF More
    <3>14. WritesOn(v, w, u2, n)
      <4>1. pos + w.read + n <= Size
        BY <2>2
      <4> QED BY <1>4, <2>6, <3>5, <3>6, <4>1 DEF WritesOn, r
    <3>15. Turned(v, w)
      BY <1>4, <2>2, <3>4, <3>5, <3>14 DEF Turned, Asks
    <3> QED BY <3>6, <3>12, <3>13, <3>15 DEF v
  <2> QED BY <2>4, <2>5, <2>6
<1> QED
  BY <1>1, <1>2, <1>3, <1>4, <1>a

\* The loop unrolled.
Turns(f, y, good) ==
    /\ f \in [0..(XferWindow + 1) -> Works] /\ f[0] = Work(y)
    /\ \A k \in 1..(XferWindow + 1) : f[k] = PumpTurn(f[k - 1], good)

\* xf_pump is its turns, one after the other, then xf_maybe_finish.
LEMMA PumpIs ==
    ASSUME NEW y, NEW good, NEW f, Turns(f, y, good)
    PROVE  xf_pump(y, good) = xf_maybe_finish(f[XferWindow + 1])
<1> DEFINE N == XferWindow + 1
           Turn(w) == PumpTurn(w, good)
           Def(g) == [k \in 0..N |-> IF k = 0 THEN Work(y) ELSE Turn(g[k - 1])]
           turns == CHOOSE g : g = Def(g)
           a == Work(y)
<1>0. N \in Nat
  BY Bounds
<1>1. f \in [0..N -> Works] /\ f[0] = a /\ \A k \in 1..N : f[k] = Turn(f[k - 1])
  BY DEF Turns
<1>2. xf_pump(y, good) = xf_maybe_finish(turns[N])
  BY Zenon DEF xf_pump
<1> HIDE DEF N, Turn, a
<1>3. f = Def(f)
  <2>1. \A k \in 0..N : k = 0 \/ k \in 1..N
    BY <1>0
  <2>2. f = [k \in 0..N |-> f[k]]
    BY <1>1
  <2>3. \A k \in 0..N : f[k] = IF k = 0 THEN a ELSE Turn(f[k - 1])
    BY <1>0, <1>1, <2>1
  <2> QED BY <2>2, <2>3 DEF a
<1>4. turns = Def(turns)
  BY <1>3, Zenon
<1> HIDE DEF turns
<1>5. \A k \in 0..N : turns[k] = IF k = 0 THEN a ELSE Turn(turns[k - 1])
  BY <1>4 DEF a
<1> DEFINE S == {k \in 0..N : turns[k] = f[k]}
<1>6. 0 \in S
  BY <1>0, <1>1, <1>5
<1>7. ASSUME NEW k \in 0..(N - 1), k \in S PROVE k + 1 \in S
  <2>1. k + 1 \in 0..N /\ k + 1 \in 1..N /\ k + 1 # 0 /\ (k + 1) - 1 = k
    BY <1>0
  <2>2. turns[k + 1] = Turn(turns[k]) /\ f[k + 1] = Turn(f[k])
    BY <1>1, <1>5, <2>1
  <2> QED BY <1>7, <2>1, <2>2
<1>8. N \in S
  <2> HIDE DEF S
  <2>1. 0..N \subseteq S
    BY <1>0, <1>6, <1>7, InductTo
  <2> QED BY <1>0, <2>1
<1> QED
  BY <1>2, <1>8 DEF N

\* The work that a handler starts with.
LEMMA WorkType ==
    ASSUME NEW y \in Xfers, failed = FALSE
    PROVE  /\ Work(y) \in Works /\ Work(y).x = y /\ Work(y).dead = FALSE
           /\ Work(y).reqs = <<>> /\ Work(y).read = 0
<1>1. Work(y) = [x |-> y, dead |-> FALSE, reqs |-> <<>>, read |-> 0]
  BY DEF Work
<1>2. <<>> \in Seq(Reqs) /\ FALSE \in BOOLEAN /\ 0 \in Nat
  BY EmptySeq
<1> QED
  BY <1>1, <1>2 DEF Works

Rounds(f, y, good) ==
    /\ f \in [0..(XferWindow + 1) -> Works] /\ f[0] = Work(y)
    /\ \A k \in 0..(XferWindow + 1) : Loop(f[k], y, good)
    /\ \A k \in 1..(XferWindow + 1) : Turned(f[k], f[k - 1])
    /\ Settled(f[XferWindow + 1].x)
    /\ xf_pump(y, good) = xf_maybe_finish(f[XferWindow + 1])

\* What the pump does to a transfer whose file is open, turn by turn.
LEMMA PumpRounds ==
    ASSUME NEW y \in Xfers, NEW good \in 0..XferWindow, failed = FALSE, pos \in Nat,
           y.handle, Below(y), y.upload => pos <= Size
    PROVE  \E f : Rounds(f, y, good)
<1> DEFINE N == XferWindow + 1
           T == [k \in 0..N |-> {w \in Works : Loop(w, y, good) /\ (k > 0 => Settled(w.x))}]
           step == [k \in 1..N |-> [w \in Works |->
                      IF Loop(w, y, good) THEN PumpTurn(w, good) ELSE w]]
           a == Work(y)
<1>0. N \in Nat /\ N > 0 /\ N \in 0..N /\ 0 \in 0..N
  BY Bounds
<1>1. a \in Works /\ a.x = y /\ a.dead = FALSE /\ a.reqs = <<>> /\ a.read = 0
  BY WorkType
<1> HIDE DEF N, a
<1>2. Loop(a, y, good)
  <2>1. Len(a.reqs) = 0 /\ \A k \in 1..Len(a.reqs) : FALSE
    BY <1>1
  <2>2. y.outstanding \in Nat /\ y.next_off \in Nat
    BY XferFields, Bounds
  <2>3. Same(a.x, y) /\ Fair(a, y, good)
    BY <1>1 DEF Same, Fair
  <2>4. Local(a, y)
    BY <1>1 DEF Local
  <2>5. a.x.outstanding = y.outstanding + Len(a.reqs) /\ y.next_off <= a.x.next_off
    BY <1>1, <2>1, <2>2
  <2> QED BY <1>1, <2>1, <2>3, <2>4, <2>5 DEF Loop
<1>3. a \in T[0]
  BY <1>0, <1>1, <1>2
<1>4. T \in [0..N -> SUBSET Works]
  OBVIOUS
<1>5. \A w \in Works : Loop(w, y, good) =>
         /\ PumpTurn(w, good) \in Works /\ Loop(PumpTurn(w, good), y, good)
         /\ Settled(PumpTurn(w, good).x) /\ Turned(PumpTurn(w, good), w)
  BY TurnKeeps
<1>6. step \in [1..N -> [Works -> Works]]
  BY <1>5
<1>7. \A k \in 1..N : \A w \in T[k - 1] : step[k][w] \in T[k]
  <2> TAKE k \in 1..N
  <2> TAKE w \in T[k - 1]
  <2>1. k - 1 \in 0..N /\ k \in 0..N
    BY <1>0
  <2>2. w \in Works /\ Loop(w, y, good)
    BY <2>1
  <2>3. step[k][w] = PumpTurn(w, good)
    BY <2>2
  <2> QED BY <1>5, <2>1, <2>2, <2>3
<1> HIDE DEF step
<1>8. PICK f : Unrolls(f, a, step, T, N, Works)
  <2> HIDE DEF T
  <2> QED BY <1>0, <1>3, <1>4, <1>6, <1>7, Unrolled
<1>9. /\ f \in [0..N -> Works] /\ f[0] = a
      /\ \A k \in 1..N : f[k] = step[k][f[k - 1]]
      /\ \A k \in 0..N : f[k] \in T[k]
  BY <1>8 DEF Unrolls
<1>10. \A k \in 1..N : f[k] = PumpTurn(f[k - 1], good)
  <2> TAKE k \in 1..N
  <2>1. k - 1 \in 0..N
    BY <1>0
  <2>2. f[k - 1] \in Works /\ Loop(f[k - 1], y, good)
    BY <1>9, <2>1
  <2>3. step[k][f[k - 1]] = PumpTurn(f[k - 1], good)
    BY <2>2 DEF step
  <2> QED BY <1>9, <2>3
<1>11. Turns(f, y, good)
  BY <1>9, <1>10 DEF Turns, N, a
<1>12. xf_pump(y, good) = xf_maybe_finish(f[N])
  BY <1>11, PumpIs DEF N
<1>13. \A k \in 0..N : f[k] \in Works /\ Loop(f[k], y, good)
  BY <1>9
<1>14. Settled(f[N].x)
  BY <1>0, <1>9
<1>15. \A k \in 1..N : Turned(f[k], f[k - 1])
  <2> TAKE k \in 1..N
  <2>1. k - 1 \in 0..N
    BY <1>0
  <2> QED BY <1>5, <1>10, <1>13, <2>1
<1> HIDE DEF T
<1>16. Rounds(f, y, good)
  BY <1>9, <1>12, <1>13, <1>14, <1>15 DEF Rounds, N, a
<1> QED
  BY <1>16

\* What it does to it in the end.
LEMMA Pumps ==
    ASSUME NEW y \in Xfers, NEW good \in 0..XferWindow, failed = FALSE, pos \in Nat,
           y.handle, Below(y), y.upload => pos <= Size
    PROVE  \E w \in Works : /\ Loop(w, y, good) /\ Settled(w.x)
                            /\ xf_pump(y, good) = xf_maybe_finish(w)
<1>1. PICK f : Rounds(f, y, good)
  BY PumpRounds
<1>2. XferWindow + 1 \in 0..(XferWindow + 1)
  BY Bounds
<1> QED
  BY <1>1, <1>2 DEF Rounds

\* It does nothing to one that is done, or not open.
LEMMA PumpRests ==
    ASSUME NEW y \in Xfers, NEW good, failed = FALSE, Below(y),
           ~y.handle \/ y.failed \/ y.cancelled \/ AllDone(y)
    PROVE  xf_pump(y, good) = xf_maybe_finish(Work(y))
<1> DEFINE a == Work(y)
           f == [k \in 0..(XferWindow + 1) |-> a]
<1>1. a \in Works /\ a.x = y
  BY WorkType
<1>2. PumpTurn(a, good) = a
  <2>1. CASE ~(~y.failed /\ ~y.cancelled /\ y.handle /\ y.outstanding < XferWindow)
    <3> HIDE DEF a
    <3> QED BY <1>1, <2>1 DEF PumpTurn
  <2>2. CASE ~y.failed /\ ~y.cancelled /\ y.handle /\ y.outstanding < XferWindow
    <3>1. AllDone(y)
      BY <2>2
    <3> HIDE DEF a
    <3>2. CASE y.upload
      <4>1. y.local_eof
        BY <3>1, <3>2 DEF AllDone
      <4> QED BY <1>1, <2>2, <3>2, <4>1 DEF PumpTurn, PumpWrite
    <3>3. CASE ~y.upload
      <4>1. y.retry = <<>> /\ (y.eof_known \/ (y.total # 0 /\ y.next_off >= y.total))
        BY <3>1, <3>3 DEF AllDone
      <4>2. y.eof_known => y.eof_at <= y.next_off
        BY DEF Below
      <4>3. Ahead(y) = 0
        BY <4>1, <4>2, AheadIs, XferFields
      <4> QED BY <1>1, <2>2, <3>3, <4>1, <4>3 DEF PumpTurn, PumpRead
    <3> QED BY <3>2, <3>3
  <2> QED BY <2>1, <2>2
<1>3. Turns(f, y, good)
  <2>1. XferWindow + 1 \in Nat
    BY Bounds
  <2>2. \A k \in 1..(XferWindow + 1) : k \in 0..(XferWindow + 1) /\ k - 1 \in 0..(XferWindow + 1)
    BY <2>1
  <2>3. f[0] = a /\ \A k \in 1..(XferWindow + 1) : f[k] = a /\ f[k - 1] = a
    BY <2>1, <2>2
  <2>4. f \in [0..(XferWindow + 1) -> Works]
    BY <1>1
  <2> HIDE DEF a, f
  <2>5. \A k \in 1..(XferWindow + 1) : f[k] = PumpTurn(f[k - 1], good)
    BY <1>2, <2>3
  <2> QED BY <2>3, <2>4, <2>5 DEF Turns, a
<1>4. f[XferWindow + 1] = a
  BY Bounds
<1> HIDE DEF a, f
<1> QED
  BY <1>3, <1>4, PumpIs DEF a

-----------------------------------------------------------------------------
(* Requests and their answers *)

\* a response has no answer among a.
Unheard(q, a) == \A m \in 1..Len(a) : a[m].id # q.id
Strays(a) == \A k \in 1..Len(a) : a[k].id = 0 => a[k].type = "STATUS"
Paired(p, a) == Apart(p) /\ Apart(a) /\ Strays(a) /\ Matched(a, p)

Taking(p, a, b, j, reqs, new, n) ==
    /\ Paired(new, b) /\ b \in Seq(Responses(n + Len(reqs)))
    /\ \A k \in 1..Len(RemoveAt(p, j)) : \E i \in 1..Len(p) :
          /\ RemoveAt(p, j)[k] = p[i] /\ new[k] = p[i] /\ i # j
          /\ \A m \in 1..Len(a) : a[m].id = p[i].id <=>
                m # 1 /\ m - 1 \in 1..Len(b) /\ b[m - 1].id = p[i].id
    /\ \A k \in 1..Len(reqs) : Unheard(new[Len(RemoveAt(p, j)) + k], b)
    /\ \A m \in 1..Len(b) : m + 1 \in 1..Len(a) /\ b[m] = a[m + 1]

\* Once the first answer is taken, with its request, and the handler's requests follow, each
\* answer still has its request; and what the others were answered is as it was.
LEMMA Taken ==
    ASSUME NEW n \in Nat, NEW p \in Seq(Requests(n)), NEW a \in Seq(Responses(n)), a # <<>>,
           Paired(p, a), NEW j \in 1..Len(p), p[j].id = a[1].id, NEW reqs \in Seq(Reqs),
           NEW new, Listed(new, RemoveAt(p, j), reqs, n)
    PROVE  Taking(p, a, Tail(a), j, reqs, new, n)
<1> DEFINE R == RemoveAt(p, j)
           b == Tail(a)
           L == Len(p)
<1>0. /\ R \in Seq(Requests(n)) /\ Len(R) = L - 1 /\ L \in Nat /\ j \in 1..L
      /\ \A k \in 1..(L - 1) : R[k] = IF k < j THEN p[k] ELSE p[k + 1]
  <2>1. L \in Nat
    BY LenProperties
  <2> QED BY <2>1, Removed
<1>1. /\ b \in Seq(Responses(n)) /\ Len(b) = Len(a) - 1 /\ Len(a) \in Nat
      /\ \A m \in 1..Len(b) : b[m] = a[m + 1]
  BY HeadTailProperties
<1>2. Len(reqs) \in Nat /\ \A k \in 1..Len(reqs) : reqs[k] \in Reqs
  BY LenProperties, ElementOfSeq
<1>3. \A i \in 1..L : p[i] \in Requests(n) /\ p[i].id \in 1..n
  <2>1. \A i \in 1..L : p[i] \in Requests(n)
    BY ElementOfSeq
  <2> QED BY <2>1 DEF Requests
<1>4. \A m \in 1..Len(a) : a[m] \in Responses(n) /\ a[m].id \in 0..n
  <2>1. \A m \in 1..Len(a) : a[m] \in Responses(n)
    BY ElementOfSeq
  <2> QED BY <2>1 DEF Responses
<1>5. /\ Len(new) = Len(R) + Len(reqs)
      /\ \A k \in 1..Len(R) : new[k] = R[k]
      /\ \A k \in 1..Len(reqs) : new[Len(R) + k] = Request(n + k, reqs[k])
  BY DEF Listed
<1> HIDE DEF R, b, L
<1>6. \A m \in 1..Len(b) : m + 1 \in 1..Len(a) /\ m + 1 # 1 /\ b[m] = a[m + 1]
  BY <1>1
<1>7. \A m \in 1..Len(a) : m # 1 => m - 1 \in 1..Len(b) /\ b[m - 1] = a[m]
  <2> TAKE m \in 1..Len(a)
  <2> HAVE m # 1
  <2>1. m - 1 \in 1..Len(b) /\ (m - 1) + 1 = m
    BY <1>1
  <2> QED BY <1>1, <2>1
<1>8. 1 \in 1..Len(a)
  BY <1>1, EmptySeq
<1> DEFINE Index(k) == IF k < j THEN k ELSE k + 1
<1>b. L \in Nat /\ j \in 1..L /\ Len(R) = L - 1
  BY <1>0
<1>9. \A k \in 1..Len(R) : Index(k) \in 1..L /\ Index(k) # j /\ R[k] = p[Index(k)]
  <2> TAKE k \in 1..Len(R)
  <2>1. Index(k) \in 1..L /\ Index(k) # j
    BY ONLY <1>b, k \in 1..Len(R)
  <2>2. R[k] = p[Index(k)]
    BY <1>0
  <2> QED BY <2>1, <2>2
<1>10. \A i \in 1..L : i # j => \E k \in 1..Len(R) : Index(k) = i
  <2> TAKE i \in 1..L
  <2> HAVE i # j
  <2>1. CASE i < j
    <3>1. i \in 1..Len(R) /\ Index(i) = i
      BY <2>1, <1>0
    <3> QED BY <3>1
  <2>2. CASE ~(i < j)
    <3>1. i - 1 \in 1..Len(R) /\ Index(i - 1) = i
      BY <2>2, <1>0
    <3> QED BY <3>1
  <2> QED BY <2>1, <2>2
<1>11. \A k, l \in 1..Len(R) : Index(k) = Index(l) => k = l
  <2> TAKE k, l \in 1..Len(R)
  <2> QED BY ONLY <1>b, k \in 1..Len(R), l \in 1..Len(R)
<1> HIDE DEF Index
<1>12. \A k \in 1..Len(reqs) : new[Len(R) + k].id = n + k /\ n + k > n
  <2> TAKE k \in 1..Len(reqs)
  <2>1. new[Len(R) + k].id = n + k
    <3>1. new[Len(R) + k] = Request(n + k, reqs[k])
      BY <1>5
    <3>2. \A i, r : Request(i, r).id = i
      BY DEF Request
    <3> QED BY <3>1, <3>2
  <2>2. n + k > n
    OBVIOUS
  <2> QED BY <2>1, <2>2
<1>c. \A k \in 1..Len(new) : k \notin 1..Len(R) => new[k].id > n
  <2> TAKE k \in 1..Len(new)
  <2> HAVE k \notin 1..Len(R)
  <2> DEFINE d == k - Len(R)
  <2>1. d \in 1..Len(reqs) /\ Len(R) + d = k
    BY <1>0, <1>2, <1>5
  <2> HIDE DEF d
  <2>2. new[Len(R) + d].id = n + d /\ n + d > n
    BY <1>12, <2>1
  <2> QED BY <2>1, <2>2
<1>13. Apart(new)
  <2> SUFFICES ASSUME NEW k \in 1..Len(new), NEW l \in 1..Len(new), new[k].id = new[l].id
               PROVE  k = l
    BY DEF Apart
  <2>0. /\ Len(R) \in Nat /\ (k \in 1..Len(R) \/ (k - Len(R) \in 1..Len(reqs) /\ Len(R) + (k - Len(R)) = k))
        /\ (l \in 1..Len(R) \/ (l - Len(R) \in 1..Len(reqs) /\ Len(R) + (l - Len(R)) = l))
    <3>1. Len(R) \in Nat /\ Len(reqs) \in Nat /\ Len(new) = Len(R) + Len(reqs)
      BY <1>0, <1>2, <1>5
    <3>2. \A m \in 1..Len(new) :
             m \in 1..Len(R) \/ (m - Len(R) \in 1..Len(reqs) /\ Len(R) + (m - Len(R)) = m)
      BY ONLY <3>1
    <3> QED BY <3>1, <3>2
  <2>1. CASE k \in 1..Len(R) /\ l \in 1..Len(R)
    <3>1. p[Index(k)].id = p[Index(l)].id
      BY <2>1, <1>5, <1>9
    <3>2. Index(k) = Index(l)
      <4>1. Index(k) \in 1..Len(p) /\ Index(l) \in 1..Len(p)
        BY <2>1, <1>9 DEF L
      <4> QED BY <3>1, <4>1 DEF Paired, Apart
    <3> QED BY <2>1, <3>2, <1>11
  <2>2. \A i \in 1..Len(R) : new[i].id \in 1..n
    BY <1>3, <1>5, <1>9
  <2>3. CASE k \in 1..Len(R) /\ l \notin 1..Len(R)
    <3>1. new[k].id \in 1..n /\ new[l].id > n
      BY <1>c, <2>2, <2>3
    <3> QED BY <3>1
  <2>4. CASE k \notin 1..Len(R) /\ l \in 1..Len(R)
    <3>1. new[l].id \in 1..n /\ new[k].id > n
      BY <1>c, <2>2, <2>4
    <3> QED BY <3>1
  <2>5. CASE k \notin 1..Len(R) /\ l \notin 1..Len(R)
    <3>1. n + (k - Len(R)) = n + (l - Len(R))
      BY <2>0, <2>5, <1>12
    <3> QED BY <2>0, <3>1
  <2> QED BY <2>1, <2>3, <2>4, <2>5
<1>14. Apart(b)
  <2> SUFFICES ASSUME NEW k \in 1..Len(b), NEW l \in 1..Len(b), b[k].id = b[l].id
               PROVE  k = l
    BY DEF Apart
  <2>1. k + 1 \in 1..Len(a) /\ l + 1 \in 1..Len(a) /\ a[k + 1].id = a[l + 1].id
    BY <1>6
  <2>2. k + 1 = l + 1
    BY <2>1 DEF Paired, Apart
  <2> QED BY <2>2
<1>15. Strays(b)
  BY <1>6 DEF Paired, Strays
<1>16. \A i \in 1..L : i # j => \A m \in 1..Len(a) : a[m].id = p[i].id <=>
                       m # 1 /\ m - 1 \in 1..Len(b) /\ b[m - 1].id = p[i].id
  <2> SUFFICES ASSUME NEW i \in 1..L, i # j, NEW m \in 1..Len(a)
               PROVE  a[m].id = p[i].id <=> m # 1 /\ m - 1 \in 1..Len(b) /\ b[m - 1].id = p[i].id
    OBVIOUS
  <2>1. CASE m = 1
    <3>1. p[i].id # p[j].id
      <4>1. i \in 1..Len(p) /\ j \in 1..Len(p)
        BY DEF L
      <4> QED BY <4>1 DEF Paired, Apart
    <3> QED BY <2>1, <3>1
  <2>2. CASE m # 1
    BY <2>2, <1>7
  <2> QED BY <2>1, <2>2
<1>17. Matched(b, new)
  <2> SUFFICES ASSUME NEW k \in 1..Len(b), b[k].id # 0
               PROVE  \E l \in 1..Len(new) : new[l].id = b[k].id /\ Fits(b[k], new[l])
    BY DEF Matched
  <2>1. k + 1 \in 1..Len(a) /\ k + 1 # 1 /\ b[k] = a[k + 1]
    BY <1>6
  <2>2. PICK i \in 1..Len(p) : p[i].id = a[k + 1].id /\ Fits(a[k + 1], p[i])
    BY <2>1 DEF Paired, Matched
  <2>3. i # j
    <3>1. a[k + 1].id = a[1].id => k + 1 = 1
      BY <1>8, <2>1 DEF Paired, Apart
    <3> QED BY <2>1, <2>2, <3>1
  <2>4. PICK l \in 1..Len(R) : Index(l) = i
    BY <1>10, <2>2, <2>3 DEF L
  <2>5. l \in 1..Len(new) /\ new[l] = p[i]
    <3>1. l \in 1..Len(new)
      BY <1>0, <1>2, <1>5
    <3> QED BY <1>5, <1>9, <2>4, <3>1
  <2> QED BY <2>1, <2>2, <2>5
<1>18. \A k \in 1..Len(R) : \E i \in 1..Len(p) :
          /\ R[k] = p[i] /\ new[k] = p[i] /\ i # j
          /\ \A m \in 1..Len(a) : a[m].id = p[i].id <=>
                m # 1 /\ m - 1 \in 1..Len(b) /\ b[m - 1].id = p[i].id
  <2> TAKE k \in 1..Len(R)
  <2>1. Index(k) \in 1..L /\ Index(k) # j /\ R[k] = p[Index(k)] /\ new[k] = p[Index(k)]
    BY <1>5, <1>9
  <2> QED BY <1>16, <2>1 DEF L
<1>19. \A k \in 1..Len(reqs) : Unheard(new[Len(R) + k], b)
  <2> SUFFICES ASSUME NEW k \in 1..Len(reqs), NEW m \in 1..Len(b)
               PROVE  b[m].id # new[Len(R) + k].id
    BY DEF Unheard
  <2>1. b[m].id \in 0..n
    BY <1>4, <1>6
  <2>2. new[Len(R) + k].id = n + k /\ ~(n + k \in 0..n)
    <3>1. ~(n + k \in 0..n)
      BY ONLY n \in Nat, k \in 1..Len(reqs), <1>2
    <3> QED BY <1>12, <3>1
  <2> QED BY <2>1, <2>2
<1>20. b \in Seq(Responses(n + Len(reqs)))
  <2>1. Responses(n) \subseteq Responses(n + Len(reqs))
    <3>1. 0..n \subseteq 0..(n + Len(reqs))
      BY <1>2
    <3> QED BY <3>1 DEF Responses
  <2> QED BY <1>1, <2>1, SeqMonotonic
<1> QED
  BY <1>6, <1>13, <1>14, <1>15, <1>17, <1>18, <1>19, <1>20 DEF Paired, R, b, Taking

-----------------------------------------------------------------------------
(* What a handler leaves behind *)

\* What a handler leaves of the transfer y, whatever it reports.
Frame(z, y) ==
    /\ z.upload = y.upload /\ z.cancelled = y.cancelled /\ z.handle = y.handle
    /\ z.total = y.total /\ z.done = y.done /\ z.eof_at = y.eof_at
    /\ z.eof_known = y.eof_known /\ z.file_pos = y.file_pos
    /\ z.finished = y.finished /\ z.calls = y.calls /\ z.state = y.state
\* It goes on with blocks under way, or it has nothing under way but its CLOSE.
Going(v, y) ==
    /\ ~v.x.closing /\ Only(v.reqs, Blocks)
    /\ v.x.outstanding = y.outstanding + Len(v.reqs) /\ v.x.outstanding > 0
Shutting(v, y) ==
    /\ y.outstanding = 0 /\ v.x.outstanding = 0 /\ Len(v.reqs) = 1 /\ v.reqs[1].type = "CLOSE"
    /\ v.x.closing /\ ~v.x.close_done /\ (v.x.failed \/ v.x.cancelled \/ AllDone(v.x))
Outcome(v, y, good) ==
    /\ v \in Works /\ Frame(v.x, y) /\ Fair(v, y, good) /\ Local(v, y)
    /\ Below(v.x) /\ y.next_off <= v.x.next_off
    /\ \A k \in 1..Len(v.reqs) : Sane(v.reqs[k], v.x)
    /\ Going(v, y) \/ Shutting(v, y)

Closes(y) == [[y EXCEPT !.closing = TRUE] EXCEPT !.close_done = FALSE]
ClosesWhenOver(w) ==
    IF Over(w.x)
    THEN /\ Closes(w.x) \in Xfers /\ xf_maybe_finish(w) \in Works
         /\ xf_maybe_finish(w) = More(w, Closes(w.x), Req(w, "CLOSE", 0, 0), 0)
    ELSE xf_maybe_finish(w) = w

\* A CLOSE is queued once nothing is under way.
LEMMA Shuts ==
    ASSUME NEW w \in Works, w.dead = FALSE, w.x.handle, ~w.x.closing, ~w.x.finished, pos \in Nat
    PROVE  ClosesWhenOver(w)
<1> DEFINE y == w.x
           c == [[y EXCEPT !.closing = TRUE] EXCEPT !.close_done = FALSE]
           u == [w EXCEPT !.x = c]
           r == Req(w, "CLOSE", 0, 0)
           v == xf_maybe_finish(w)
<1>1. y \in Xfers /\ w.reqs \in Seq(Reqs) /\ w.read \in Nat
  BY DEF Works
<1>2. CASE ~Over(y)
  BY <1>2 DEF xf_maybe_finish, ClosesWhenOver
<1>3. CASE Over(y)
  <2>1. c \in Xfers
    <3>1. [y EXCEPT !.closing = TRUE] \in Xfers
      BY <1>1, XferEdits
    <3> QED BY <3>1, XferEdits
  <2>2. v = Queue(u, "CLOSE", 0, 0)
    <3>1. [y EXCEPT !.closing = TRUE, !.close_done = w.dead] = c
      OBVIOUS
    <3> HIDE DEF c
    <3> QED BY <1>3, <3>1 DEF xf_maybe_finish
  <2>3. u = [x |-> c, dead |-> FALSE, reqs |-> w.reqs, read |-> w.read]
    <3> HIDE DEF c
    <3> QED BY WorkEdit
  <2> HIDE DEF c
  <2>4. u \in Works /\ u.x = c /\ u.dead = FALSE /\ u.reqs = w.reqs /\ u.read = w.read
    <3> HIDE DEF u
    <3> QED BY <1>1, <2>1, <2>3 DEF Works
  <2> HIDE DEF u, v
  <2> DEFINE q == [type |-> "CLOSE", off |-> 0, len |-> 0,
                   unit |-> IF "CLOSE" = "WRITE" THEN pos + u.read ELSE 0]
  <2>5. /\ Queue(u, "CLOSE", 0, 0) =
             [x |-> u.x, dead |-> u.dead, reqs |-> Append(u.reqs, q), read |-> u.read]
        /\ Append(u.reqs, q) \in Seq(Reqs)
    <3>1. 0 \in Nat /\ 0 \in 0..Chunk /\ "CLOSE" \in {"OPEN", "READ", "WRITE", "CLOSE"}
      BY Bounds
    <3> QED BY <2>4, <3>1, Queued
  <2>6. q = r
    BY DEF Req
  <2>7. w.read + 0 = w.read
    BY <1>1
  <2> HIDE DEF q, r
  <2>8. v = [x |-> c, dead |-> FALSE, reqs |-> Append(w.reqs, r), read |-> w.read]
    BY <2>2, <2>4, <2>5, <2>6
  <2>9. v \in Works
    <3>1. Append(w.reqs, r) \in Seq(Reqs)
      BY <2>4, <2>5, <2>6
    <3> QED BY <1>1, <2>1, <2>8, <3>1 DEF Works
  <2>10. v = More(w, c, r, 0)
    BY <2>7, <2>8 DEF More
  <2> QED
    BY <1>3, <2>1, <2>9, <2>10 DEF v, c, r, Closes, ClosesWhenOver
<1> QED
  BY <1>2, <1>3

\* What the pump makes of a transfer whose file is open.
LEMMA PumpMoves ==
    ASSUME NEW y \in Xfers, NEW good \in 0..XferWindow, failed = FALSE, pos \in Nat,
           y.handle, ~y.closing, ~y.finished, Below(y), y.upload => pos <= Size
    PROVE  Outcome(xf_pump(y, good), y, good)
<1>1. PICK w \in Works : /\ Loop(w, y, good) /\ Settled(w.x)
                         /\ xf_pump(y, good) = xf_maybe_finish(w)
  BY Pumps
<1> DEFINE v == xf_maybe_finish(w)
           z == w.x
           c == Closes(z)
           r == Req(w, "CLOSE", 0, 0)
<1>a. ClosesWhenOver(w)
  BY <1>1, Shuts DEF Loop, Same
<1>2. /\ z \in Xfers /\ w.reqs \in Seq(Reqs) /\ w.read \in Nat /\ w.dead = FALSE
      /\ Same(z, y) /\ z.handle /\ ~z.closing /\ ~z.finished /\ Below(z)
      /\ z.outstanding = y.outstanding + Len(w.reqs) /\ Len(w.reqs) \in Nat
      /\ Fair(w, y, good) /\ Local(w, y) /\ y.next_off <= z.next_off
      /\ (\A k \in 1..Len(w.reqs) : w.reqs[k].type \in Blocks /\ Sane(w.reqs[k], z))
  BY <1>1 DEF Works, Loop, Same
<1>3. z.outstanding \in Nat /\ y.outstanding \in Nat
  BY <1>2, XferFields, Bounds
<1>4. CASE ~Over(z)
  <2>1. v = w
    BY <1>a, <1>4 DEF ClosesWhenOver
  <2>2. z.outstanding > 0
    BY <1>1, <1>2, <1>3, <1>4 DEF Over, Settled
  <2>3. Going(w, y)
    BY <1>2, <2>2 DEF Going, Only
  <2>4. Frame(z, y)
    BY <1>2 DEF Frame, Same
  <2> HIDE DEF v
  <2>5. Outcome(w, y, good)
    BY <1>1, <1>2, <2>3, <2>4 DEF Outcome
  <2> QED BY <1>1, <2>1, <2>5 DEF v
<1>5. CASE Over(z)
  <2>1. v = More(w, c, r, 0) /\ c \in Xfers /\ v \in Works
    BY <1>a, <1>5 DEF ClosesWhenOver
  <2>2. z.outstanding = 0 /\ (z.failed \/ z.cancelled \/ AllDone(z))
    BY <1>5 DEF Over
  <2>3. y.outstanding = 0 /\ Len(w.reqs) = 0
    BY <1>2, <1>3, <2>2
  <2>4. w.reqs = <<>>
    BY <1>2, <2>3, EmptySeq
  <2>5. /\ c.closing /\ ~c.close_done /\ c.failed = z.failed /\ c.outstanding = z.outstanding
        /\ c.next_off = z.next_off /\ c.retry = z.retry /\ c.local_eof = z.local_eof
        /\ Frame(c, z)
    BY <1>2 DEF Frame, Xfers, Closes
  <2> HIDE DEF c
  <2>6. v.x = c /\ v.reqs = Append(<<>>, r) /\ v.read = w.read + 0 /\ v.dead = FALSE
    <3> HIDE DEF v
    <3> QED BY <2>1, <2>4 DEF More
  <2>7. Len(v.reqs) = 1 /\ v.reqs[1] = r /\ r.type = "CLOSE"
    BY <2>6 DEF Req
  <2> HIDE DEF v, r
  <2>8. AllDone(z) => AllDone(c)
    BY <2>5 DEF AllDone, Frame
  <2>9. Shutting(v, y)
    BY <2>2, <2>3, <2>5, <2>6, <2>7, <2>8 DEF Shutting, Frame
  <2>10. Frame(c, y)
    BY <1>2, <2>5 DEF Frame, Same
  <2>11. Fair(v, y, good)
    BY <1>2, <2>5, <2>6 DEF Fair
  <2>12. Local(v, y)
    BY <1>2, <2>6 DEF Local
  <2>13. Below(c)
    BY <1>2, <2>5 DEF Below, Frame
  <2>14. \A k \in 1..Len(v.reqs) : Sane(v.reqs[k], v.x)
    BY <2>7 DEF Sane
  <2>15. Outcome(v, y, good)
    BY <1>2, <2>1, <2>5, <2>6, <2>9, <2>10, <2>11, <2>12, <2>13, <2>14 DEF Outcome
  <2> QED BY <1>1, <2>15 DEF v
<1> QED
  BY <1>4, <1>5

-----------------------------------------------------------------------------
(* An answer taken *)

Takes(j, v) ==
    /\ Incoming /\ in' = Tail(in) /\ UNCHANGED <<failed, aborted, handles, forgotten>>
    /\ j \in 1..Len(pend) /\ pend[j].id = Head(in).id
    /\ v \in Works /\ Becomes(v, Left(Head(in)))

\* The request that answer r is for.
LEMMA AtIs ==
    ASSUME TypeOK, Numbered, NEW r, NEW j \in 1..Len(pend), pend[j].id = r.id
    PROVE  At(r) = j /\ Left(r) = RemoveAt(pend, j) /\ Asked(r) = pend[j]
<1>1. \A k \in 1..Len(pend) : pend[k].id = r.id => k = j
  BY DEF Numbered, Apart
<1>2. At(r) \in 1..Len(pend) /\ pend[At(r)].id = r.id
  <2>1. \E k \in 1..Len(pend) : pend[k].id = r.id
    OBVIOUS
  <2> QED BY <2>1 DEF At
<1>3. At(r) = j
  BY <1>1, <1>2
<1> QED
  BY <1>3 DEF Left, Asked

Queues(j, v) ==
    /\ x' = v.x /\ next_id' = next_id + Len(v.reqs) /\ next_id' \in Nat /\ Len(v.reqs) \in Nat
    /\ pend' \in Seq(Requests(next_id')) /\ in' \in Seq(Responses(next_id'))
    /\ Listed(pend', RemoveAt(pend, j), v.reqs, next_id) /\ Paired(pend', in')
    /\ Len(RemoveAt(pend, j)) = Len(pend) - 1 /\ Len(pend) \in Nat
    /\ Len(pend') = Len(pend) - 1 + Len(v.reqs)
Leaves(j) ==
    \A k \in 1..(Len(pend) - 1) : \E i \in 1..Len(pend) :
        /\ pend'[k] = pend[i] /\ RemoveAt(pend, j)[k] = pend[i] /\ i # j
        /\ \A m \in 1..Len(in) : in[m].id = pend[i].id <=>
              m # 1 /\ m - 1 \in 1..Len(in') /\ in'[m - 1].id = pend[i].id
Adds(v) ==
    \A k \in 1..Len(v.reqs) :
        /\ pend'[Len(pend) - 1 + k] = Request(next_id + k, v.reqs[k])
        /\ Unheard(pend'[Len(pend) - 1 + k], in')
Shifts == \A m \in 1..Len(in') : m + 1 \in 1..Len(in) /\ in'[m] = in[m + 1]

\* What the list, the answers and the new requests are after an answer was taken.
LEMMA TakenHere ==
    ASSUME OverInv, NEW j, NEW v, Takes(j, v)
    PROVE  Queues(j, v) /\ Leaves(j) /\ Adds(v) /\ Shifts
<1>1. /\ next_id \in Nat /\ pend \in Seq(Requests(next_id)) /\ in \in Seq(Responses(next_id))
      /\ in # <<>> /\ in' = Tail(in) /\ j \in 1..Len(pend) /\ ~failed
      /\ v.reqs \in Seq(Reqs) /\ Len(v.reqs) \in Nat /\ Len(pend) \in Nat
  <2>1. TypeOK
    BY DEF OverInv
  <2>2. v \in Works /\ in # <<>> /\ in' = Tail(in) /\ j \in 1..Len(pend) /\ ~failed
    BY DEF Takes, Incoming
  <2>3. next_id \in Nat /\ pend \in Seq(Requests(next_id)) /\ in \in Seq(Responses(next_id))
    BY <2>1 DEF TypeOK
  <2>4. v.reqs \in Seq(Reqs)
    BY <2>2 DEF Works
  <2> QED BY <2>2, <2>3, <2>4, LenProperties
<1>2. Head(in) = in[1] /\ pend[j].id = in[1].id
  BY <1>1 DEF Takes
<1>3. Left(Head(in)) = RemoveAt(pend, j)
  BY AtIs DEF Takes, OverInv
<1>4. /\ x' = v.x /\ next_id' = next_id + Len(v.reqs)
      /\ pend' = RemoveAt(pend, j) \o [k \in 1..Len(v.reqs) |-> Request(next_id + k, v.reqs[k])]
  BY <1>3 DEF Takes, Becomes
<1> DEFINE R == RemoveAt(pend, j)
<1>5. R \in Seq(Requests(next_id)) /\ Len(R) = Len(pend) - 1
  BY <1>1, Removed
<1> HIDE DEF R
<1>6. Listed(pend', R, v.reqs, next_id)
  BY <1>1, <1>4, <1>5, ListedBy DEF R
<1>7. Paired(pend, in)
  BY <1>1 DEF OverInv, Numbered, Paired, Strays
<1>a. Taking(pend, in, Tail(in), j, v.reqs, pend', next_id)
  BY <1>1, <1>2, <1>6, <1>7, Taken DEF R
<1>8. /\ Paired(pend', in') /\ in' \in Seq(Responses(next_id + Len(v.reqs)))
      /\ \A k \in 1..Len(R) : \E i \in 1..Len(pend) :
            /\ R[k] = pend[i] /\ pend'[k] = pend[i] /\ i # j
            /\ \A m \in 1..Len(in) : in[m].id = pend[i].id <=>
                  m # 1 /\ m - 1 \in 1..Len(in') /\ in'[m - 1].id = pend[i].id
      /\ \A k \in 1..Len(v.reqs) : Unheard(pend'[Len(R) + k], in')
      /\ Shifts
  BY <1>1, <1>a DEF R, Shifts, Taking
<1>9. Leaves(j)
  BY <1>5, <1>8 DEF Leaves, R
<1>10. Adds(v)
  BY <1>5, <1>6, <1>8 DEF Adds, Listed
<1>11. Queues(j, v)
  <2>1. pend' \in Seq(Requests(next_id + Len(v.reqs))) /\ Len(pend') = Len(R) + Len(v.reqs)
    BY <1>6 DEF Listed
  <2>2. next_id' \in Nat
    BY <1>1, <1>4
  <2> QED BY <1>1, <1>4, <1>5, <1>6, <1>8, <2>1, <2>2 DEF Queues, R
<1> QED
  BY <1>8, <1>9, <1>10, <1>11

\* What the others were answered is as it was.
LEMMA HeldOn ==
    ASSUME OverInv, NEW j, NEW v, Takes(j, v)
    PROVE  /\ \A k \in 1..(Len(pend) - 1) : Held(pend'[k], in', handles)
           /\ \A k \in 1..Len(v.reqs) : \A h :
                 (v.reqs[k].type = "OPEN" => h = 0) /\ (v.reqs[k].type = "CLOSE" => h = 1)
                    => Held(pend'[Len(pend) - 1 + k], in', h)
<1>1. Leaves(j) /\ Adds(v) /\ Shifts /\ ~failed
  BY TakenHere DEF Takes, Incoming
<1>2. \A k \in 1..(Len(pend) - 1) : Held(pend'[k], in', handles)
  <2> TAKE k \in 1..(Len(pend) - 1)
  <2>1. PICK i \in 1..Len(pend) :
            /\ pend'[k] = pend[i]
            /\ \A m \in 1..Len(in) : in[m].id = pend[i].id <=>
                  m # 1 /\ m - 1 \in 1..Len(in') /\ in'[m - 1].id = pend[i].id
    BY <1>1 DEF Leaves
  <2>2. \A types : Answered(pend[i], in', types) <=> Answered(pend[i], in, types)
    <3> TAKE types
    <3>1. ASSUME NEW m \in 1..Len(in'), in'[m].id = pend[i].id, in'[m].type \in types
          PROVE  Answered(pend[i], in, types)
      <4>1. m + 1 \in 1..Len(in) /\ in[m + 1].id = pend[i].id /\ in[m + 1].type \in types
        BY <1>1, <3>1 DEF Shifts
      <4> QED BY <4>1 DEF Answered
    <3>2. ASSUME NEW m \in 1..Len(in), in[m].id = pend[i].id, in[m].type \in types
          PROVE  Answered(pend[i], in', types)
      <4>1. m - 1 \in 1..Len(in') /\ in'[m - 1].id = pend[i].id
        BY <2>1, <3>2
      <4>2. in'[m - 1] = in[m]
        <5>1. in'[m - 1] = in[(m - 1) + 1] /\ (m - 1) + 1 = m
          BY <1>1, <4>1 DEF Shifts
        <5> QED BY <5>1
      <4> QED BY <3>2, <4>1, <4>2 DEF Answered
    <3> QED BY <3>1, <3>2 DEF Answered
  <2>3. Held(pend[i], in, handles)
    BY <1>1 DEF OverInv, HandleHeld
  <2> QED BY <2>1, <2>2, <2>3 DEF Held
<1>3. ASSUME NEW k \in 1..Len(v.reqs), NEW h,
             (v.reqs[k].type = "OPEN" => h = 0) /\ (v.reqs[k].type = "CLOSE" => h = 1)
      PROVE  Held(pend'[Len(pend) - 1 + k], in', h)
  <2> DEFINE q == pend'[Len(pend) - 1 + k]
  <2>1. q = Request(next_id + k, v.reqs[k]) /\ Unheard(q, in')
    BY <1>1 DEF Adds
  <2>2. q.type = v.reqs[k].type
    BY <2>1 DEF Request
  <2> HIDE DEF q
  <2>3. \A types : ~Answered(q, in', types)
    BY <2>1 DEF Answered, Unheard
  <2>4. Held(q, in', h)
    BY <1>3, <2>2, <2>3 DEF Held
  <2> QED BY <2>4 DEF q
<1> QED
  BY <1>2, <1>3

\* Where a transfer is when a request of its pends and the engine works.
LEMMA StageOf ==
    ASSUME OverInv, ~failed, NEW j \in 1..Len(pend)
    PROVE  /\ x.state # "IDLE" /\ forgotten = {} /\ Reports(x)
           /\ \/ pend[j].type = "OPEN" /\ Opening(x, pend) /\ Len(pend) = 1
              \/ pend[j].type \in Blocks /\ Moving(x, pend) /\ x.outstanding = Len(pend)
              \/ pend[j].type = "CLOSE" /\ Closing(x, pend) /\ Len(pend) = 1
<1>1. Staged /\ pend \in Seq(Requests(next_id))
  BY DEF OverInv, TypeOK
<1>2. pend # <<>>
  <2>1. Len(pend) # 0
    BY <1>1
  <2> QED BY <2>1
<1>3. x.state # "IDLE" /\ Stages(x, pend) /\ forgotten = {} /\ Reports(x)
  BY <1>1, <1>2 DEF Staged
<1>4. ~Ended(x, pend)
  BY <1>2 DEF Ended
<1>5. CASE Opening(x, pend) /\ Len(pend) = 1
  <2>1. pend[j].type = "OPEN"
    BY <1>5 DEF Opening, Only
  <2> QED BY <1>3, <1>5, <2>1
<1>6. CASE Moving(x, pend) /\ x.outstanding = Len(pend)
  <2>1. pend[j].type \in Blocks
    BY <1>6 DEF Moving, Only
  <2> QED BY <1>3, <1>6, <2>1
<1>7. CASE Closing(x, pend) /\ Len(pend) = 1
  <2>1. pend[j].type = "CLOSE"
    BY <1>7 DEF Closing, Only
  <2> QED BY <1>3, <1>7, <2>1
<1> QED
  BY <1>3, <1>4, <1>5, <1>6, <1>7 DEF Stages

\* The offsets up to the size are those of the copy.
LEMMA InOffsets == \A p \in Nat : p <= Size => p \in Offsets
<1>1. XferWindow * Chunk \in Nat
  BY Bounds
<1> DEFINE m == XferWindow * Chunk
<1> HIDE DEF m
<1>2. Size \in Nat /\ m \in Nat /\ Offsets = 0..(Size + m)
  BY <1>1, Bounds DEF Offsets, m
<1> QED
  BY ONLY <1>2

\* The rest of the state after an answer.
Kept(z) ==
    /\ copy' \in [Offsets -> 0..Size \cup {Missing}]
    /\ pos' \in Nat /\ pos' <= Size /\ (~z.upload => pos' = z.file_pos)
    /\ errors' \in 0..MaxErrors

\* Positioned and the types, whatever became of the transfer.
LEMMA KeptOn ==
    ASSUME OverInv, NEW j, NEW v, Takes(j, v), Kept(v.x), Below(v.x),
           v.x.upload = x.upload, x.next_off <= v.x.next_off,
           \A k \in 1..Len(v.reqs) : Sane(v.reqs[k], v.x)
    PROVE  TypeOK' /\ Numbered' /\ Positioned'
<1>1. Queues(j, v) /\ Leaves(j) /\ Adds(v)
  BY TakenHere
<1>2. /\ v.x \in Xfers /\ x \in Xfers /\ TypeOK /\ ~failed /\ Positioned
      /\ v.reqs \in Seq(Reqs) /\ UNCHANGED <<failed, aborted, handles, forgotten>>
  BY DEF Takes, Incoming, Works, OverInv, TypeOK
<1>3. TypeOK'
  <2>1. /\ x' \in Xfers /\ pend' \in Seq(Requests(next_id')) /\ in' \in Seq(Responses(next_id'))
        /\ next_id' \in Nat
    BY <1>1, <1>2 DEF Queues
  <2>2. /\ copy' \in [Offsets -> 0..Size \cup {Missing}] /\ pos' \in Offsets /\ errors' \in 0..MaxErrors
    BY InOffsets DEF Kept
  <2>3. {failed', aborted'} \subseteq BOOLEAN /\ handles' \in 0..1
    BY <1>2 DEF TypeOK
  <2>4. forgotten' \subseteq 1..next_id'
    <3>1. forgotten \subseteq 1..next_id /\ next_id \in Nat
      BY <1>2 DEF TypeOK
    <3>2. next_id' = next_id + Len(v.reqs) /\ Len(v.reqs) \in Nat /\ forgotten' = forgotten
      BY <1>1, <1>2 DEF Queues
    <3>3. 1..next_id \subseteq 1..(next_id + Len(v.reqs))
      BY ONLY <3>1, <3>2
    <3> QED BY <3>1, <3>2, <3>3
  <2> QED BY <2>1, <2>2, <2>3, <2>4 DEF TypeOK
<1>4. Numbered'
  BY <1>1 DEF Queues, Paired, Strays, Numbered
<1>5. ASSUME NEW k \in 1..Len(pend') PROVE Sane(pend'[k], v.x)
  <2>0. /\ Len(pend') = Len(pend) - 1 + Len(v.reqs) /\ Len(pend) \in Nat /\ Len(v.reqs) \in Nat
        /\ j \in 1..Len(pend)
    BY <1>1 DEF Queues, Takes
  <2>1. CASE k \in 1..(Len(pend) - 1)
    <3>1. PICK i \in 1..Len(pend) : pend'[k] = pend[i]
      BY <1>1, <2>1 DEF Leaves
    <3> DEFINE q == pend[i]
               a == q.off + q.len
    <3>2. q \in Requests(next_id) /\ Sane(q, x)
      BY <1>2, ElementOfSeq DEF TypeOK, Positioned
    <3>3. a \in Nat
      <4>1. q.off \in Nat /\ q.len \in Nat
        BY <3>2, Bounds DEF Requests
      <4>2. a = q.off + q.len
        BY DEF a
      <4> HIDE DEF q, a
      <4> QED BY <4>1, <4>2
    <3>4. x.next_off \in Nat /\ v.x.next_off \in Nat
      BY <1>2, XferFields
    <3> HIDE DEF q
    <3>5. q.type = "READ" => ~v.x.upload /\ a <= x.next_off
      BY <3>2 DEF Sane
    <3>6. q.type = "WRITE" => v.x.upload /\ q.unit + q.len <= Size
      BY <3>2 DEF Sane
    <3>7. a <= x.next_off => a <= v.x.next_off
      <4> HIDE DEF a
      <4> QED BY <3>3, <3>4
    <3>8. Sane(q, v.x)
      BY <3>5, <3>6, <3>7 DEF Sane
    <3> QED BY <3>1, <3>8 DEF q
  <2>2. CASE k \notin 1..(Len(pend) - 1)
    <3> DEFINE d == k - (Len(pend) - 1)
               q == pend'[k]
    <3>1. d \in 1..Len(v.reqs) /\ Len(pend) - 1 + d = k
      BY <2>0, <2>2
    <3> HIDE DEF d
    <3>2. q = Request(next_id + d, v.reqs[d])
      BY <1>1, <3>1 DEF Adds
    <3>3. /\ q.type = v.reqs[d].type /\ q.off = v.reqs[d].off /\ q.len = v.reqs[d].len
          /\ q.unit = v.reqs[d].unit
      <4> HIDE DEF q
      <4> QED BY <3>2 DEF Request
    <3> HIDE DEF q
    <3>4. Sane(v.reqs[d], v.x)
      BY <3>1
    <3>5. Sane(q, v.x)
      BY <3>3, <3>4 DEF Sane
    <3> QED BY <3>5 DEF q
  <2> QED BY <2>1, <2>2
<1>6. Positioned'
  <2>1. x' = v.x
    BY <1>1 DEF Queues
  <2>2. \A k \in 1..Len(pend') : Sane(pend'[k], x')
    BY <1>5, <2>1
  <2>3. Below(x')
    BY <2>1
  <2>4. pos' <= Size /\ (~x'.upload => pos' = x'.file_pos)
    BY <2>1 DEF Kept
  <2> QED BY <2>2, <2>3, <2>4 DEF Positioned, Below, Sane
<1> QED
  BY <1>3, <1>4, <1>6

\* The types of what pends.
LEMMA TypesOn ==
    ASSUME OverInv, NEW j, NEW v, Takes(j, v), NEW types, Only(v.reqs, types),
           \A i \in 1..Len(pend) : i # j => pend[i].type \in types
    PROVE  Only(pend', types)
<1>1. Queues(j, v) /\ Leaves(j) /\ Adds(v)
  BY TakenHere
<1>2. /\ Len(pend') = Len(pend) - 1 + Len(v.reqs) /\ Len(pend) \in Nat /\ Len(v.reqs) \in Nat
      /\ j \in 1..Len(pend)
  BY <1>1 DEF Queues, Takes
<1> SUFFICES ASSUME NEW k \in 1..Len(pend') PROVE pend'[k].type \in types
  BY DEF Only
<1>3. CASE k \in 1..(Len(pend) - 1)
  BY <1>1, <1>3 DEF Leaves
<1>4. CASE k \notin 1..(Len(pend) - 1)
  <2> DEFINE d == k - (Len(pend) - 1)
  <2>1. d \in 1..Len(v.reqs) /\ Len(pend) - 1 + d = k
    BY <1>2, <1>4
  <2> HIDE DEF d
  <2>2. pend'[k].type = v.reqs[d].type
    <3>1. pend'[k] = Request(next_id + d, v.reqs[d])
      BY <1>1, <2>1 DEF Adds
    <3> QED BY <3>1 DEF Request
  <2> QED BY <2>1, <2>2 DEF Only
<1> QED
  BY <1>3, <1>4

\* The handle is the server's for what pends after the answer too.
LEMMA HeldNow ==
    ASSUME OverInv, NEW j, NEW v, Takes(j, v),
           \A k \in 1..Len(v.reqs) : v.reqs[k].type # "OPEN" /\ (v.reqs[k].type = "CLOSE" => handles = 1)
    PROVE  \A k \in 1..Len(pend') : Held(pend'[k], in', handles')
<1>1. Queues(j, v) /\ handles' = handles /\ j \in 1..Len(pend)
  BY TakenHere DEF Takes
<1>2. Len(pend') = Len(pend) - 1 + Len(v.reqs) /\ Len(pend) \in Nat /\ Len(v.reqs) \in Nat
  BY <1>1 DEF Queues
<1> SUFFICES ASSUME NEW k \in 1..Len(pend') PROVE Held(pend'[k], in', handles)
  BY <1>1
<1>3. CASE k \in 1..(Len(pend) - 1)
  BY <1>3, HeldOn
<1>4. CASE k \notin 1..(Len(pend) - 1)
  <2> DEFINE d == k - (Len(pend) - 1)
  <2>1. d \in 1..Len(v.reqs) /\ Len(pend) - 1 + d = k
    BY <1>1, <1>2, <1>4
  <2> HIDE DEF d
  <2>2. Held(pend'[Len(pend) - 1 + d], in', handles)
    BY <2>1, HeldOn
  <2> QED BY <2>1, <2>2
<1> QED
  BY <1>3, <1>4

-----------------------------------------------------------------------------
(* What each action leaves *)

\* Where the transfer is, after the action.
LEMMA Primed ==
    /\ Stages(x, pend)' = Stages(x', pend') /\ Spoilt(x, pend)' = Spoilt(x', pend')
    /\ Moving(x, pend)' = Moving(x', pend') /\ Ended(x, pend)' = Ended(x', pend')
    /\ Reports(x)' = Reports(x') /\ Leaky(x)' = Leaky(x')
    /\ \A k : Held(pend[k], in, handles)' = Held(pend'[k], in', handles')
<1>1. Moving(x, pend)' = Moving(x', pend')
  BY DEF Moving, Only
<1>2. Ended(x, pend)' = Ended(x', pend')
  BY DEF Ended, Leaky
<1>3. Opening(x, pend)' = Opening(x', pend')
  BY DEF Opening, Only, AllDone
<1>4. Closing(x, pend)' = Closing(x', pend')
  BY DEF Closing, Only, AllDone
<1>5. Stages(x, pend)' = Stages(x', pend')
  BY <1>1, <1>2, <1>3, <1>4 DEF Stages
<1>6. Spoilt(x, pend)' = Spoilt(x', pend')
  BY <1>1, <1>3, <1>4 DEF Spoilt
<1>7. Reports(x)' = Reports(x') /\ Leaky(x)' = Leaky(x')
  BY DEF Reports, Leaky
<1>8. \A k : Held(pend[k], in, handles)' = Held(pend'[k], in', handles')
  BY DEF Held, Answered
<1> QED
  BY <1>1, <1>2, <1>5, <1>6, <1>7, <1>8

\* An answer was taken, and the transfer is somewhere again.
Onward(v) ==
    /\ Kept(v.x) /\ Below(v.x) /\ v.x.upload = x.upload /\ x.next_off <= v.x.next_off
    /\ \A k \in 1..Len(v.reqs) :
          /\ Sane(v.reqs[k], v.x)
          /\ v.reqs[k].type # "OPEN" /\ (v.reqs[k].type = "CLOSE" => handles = 1)
    /\ Reports(v.x) /\ v.x.state # "IDLE" /\ Stages(v.x, pend')
    /\ Moving(v.x, pend') => handles = 1
    /\ Ended(v.x, pend') /\ ~Leaky(v.x) => handles = 0

\* Such a handler keeps the invariant.
LEMMA OverOn ==
    ASSUME OverInv, NEW j, NEW v, Takes(j, v), Onward(v)
    PROVE  OverInv'
<1>1. x' = v.x /\ UNCHANGED <<failed, aborted, handles, forgotten>> /\ ~failed /\ j \in 1..Len(pend)
  BY TakenHere DEF Queues, Takes, Incoming
<1>2. TypeOK' /\ Numbered' /\ Positioned'
  BY KeptOn DEF Onward
<1>3. forgotten = {} /\ ~aborted
  BY <1>1, StageOf DEF OverInv, Staged
<1>4. Staged'
  BY <1>1, <1>3, Primed DEF Onward, Staged
<1>5. \A k \in 1..Len(pend') : Held(pend'[k], in', handles')
  BY HeldNow DEF Onward
<1>6. HandleHeld'
  BY <1>1, <1>5, Primed DEF Onward, HandleHeld
<1> QED
  BY <1>2, <1>4, <1>6 DEF OverInv

\* The pump after an answer that leaves the file open and only blocks under way.
Opens(y, j) ==
    /\ y.handle /\ ~y.closing /\ ~y.finished /\ Reports(y) /\ y.state # "IDLE"
    /\ y.upload = x.upload /\ x.next_off <= y.next_off /\ Below(y)
    /\ y.outstanding = Len(pend) - 1 /\ handles = 1
    /\ \A i \in 1..Len(pend) : i # j => pend[i].type \in Blocks

\* Such a transfer is one the pump goes on with.
LEMMA PumpsOn ==
    ASSUME OverInv, ~failed, NEW j, NEW good \in 0..XferWindow, NEW y \in Xfers, Opens(y, j)
    PROVE  Outcome(xf_pump(y, good), y, good)
<1>1. failed = FALSE /\ pos \in Nat /\ pos <= Size
  <2>1. TypeOK /\ Positioned /\ ~failed
    BY DEF OverInv
  <2>2. \A p \in Offsets : p \in Nat
    BY DEF Offsets
  <2> QED BY <2>1, <2>2 DEF TypeOK, Positioned
<1>2. Below(y) /\ y.handle /\ ~y.closing /\ ~y.finished
  BY DEF Opens
<1> QED
  BY <1>1, <1>2, PumpMoves

\* Then the transfer goes on, or its file is being closed.
LEMMA Pumping ==
    ASSUME OverInv, NEW j, NEW good \in 0..XferWindow, NEW y \in Xfers, Opens(y, j),
           Takes(j, xf_pump(y, good)), Kept(xf_pump(y, good).x)
    PROVE  OverInv'
<1> DEFINE v == xf_pump(y, good)
<1>0. Takes(j, v) /\ Kept(v.x)
  OBVIOUS
<1>1. Outcome(v, y, good)
  BY PumpsOn DEF Takes, Incoming
<1> HIDE DEF v
<1>2. /\ v.x \in Xfers /\ v.reqs \in Seq(Reqs) /\ Frame(v.x, y) /\ Below(v.x)
      /\ y.next_off <= v.x.next_off
      /\ (\A k \in 1..Len(v.reqs) : Sane(v.reqs[k], v.x))
      /\ (Going(v, y) \/ Shutting(v, y))
  BY <1>1 DEF Outcome, Works
<1>3. /\ Len(pend') = Len(pend) - 1 + Len(v.reqs) /\ Len(pend) \in Nat /\ Len(v.reqs) \in Nat
      /\ j \in 1..Len(pend) /\ pend' \in Seq(Requests(next_id'))
  BY <1>0, TakenHere DEF Queues, Takes
<1>4. v.x.upload = x.upload /\ Reports(v.x) /\ v.x.state # "IDLE" /\ v.x.handle /\ ~v.x.finished
  BY <1>2 DEF Opens, Frame, Reports
<1>5. x.next_off <= v.x.next_off
  <2>1. x.next_off \in Nat /\ y.next_off \in Nat /\ v.x.next_off \in Nat
    BY <1>2, XferFields DEF OverInv, TypeOK
  <2>2. x.next_off <= y.next_off
    BY DEF Opens
  <2> QED BY <1>2, <2>1, <2>2
<1>6. CASE Going(v, y)
  <2>1. ~v.x.closing /\ Only(v.reqs, Blocks) /\ v.x.outstanding = y.outstanding + Len(v.reqs) /\ v.x.outstanding > 0
    BY <1>6 DEF Going
  <2>2. Only(pend', Blocks)
    BY <1>0, <2>1, TypesOn DEF Opens
  <2>3. v.x.outstanding = Len(pend') /\ pend' # <<>>
    <3>1. y.outstanding = Len(pend) - 1
      BY DEF Opens
    <3>2. v.x.outstanding = Len(pend')
      <4> DEFINE a == Len(pend)
                 b == Len(v.reqs)
      <4>1. v.x.outstanding = y.outstanding + b /\ y.outstanding = a - 1 /\ Len(pend') = a - 1 + b
        BY <1>3, <2>1, <3>1
      <4> HIDE DEF a, b
      <4> QED BY <4>1
    <3>3. Len(pend') # 0
      BY <2>1, <3>2
    <3> QED BY <3>2, <3>3
  <2>4. Moving(v.x, pend')
    BY <1>4, <2>1, <2>2 DEF Moving
  <2>5. Stages(v.x, pend') /\ ~Ended(v.x, pend')
    BY <2>3, <2>4 DEF Stages, Ended
  <2>6. \A k \in 1..Len(v.reqs) : v.reqs[k].type # "OPEN" /\ v.reqs[k].type # "CLOSE"
    BY <2>1 DEF Only, Blocks
  <2>7. Onward(v)
    BY <1>0, <1>2, <1>4, <1>5, <2>5, <2>6 DEF Onward, Opens
  <2> QED BY <1>0, <2>7, OverOn
<1>7. CASE Shutting(v, y)
  <2>1. /\ y.outstanding = 0 /\ v.x.outstanding = 0 /\ Len(v.reqs) = 1 /\ v.reqs[1].type = "CLOSE"
        /\ v.x.closing /\ ~v.x.close_done /\ (v.x.failed \/ v.x.cancelled \/ AllDone(v.x))
    BY <1>7 DEF Shutting
  <2>2. Len(pend) = 1 /\ Len(pend') = 1 /\ j = 1
    BY <1>3, <2>1 DEF Opens
  <2>3. Only(v.reqs, {"CLOSE"})
    BY <2>1 DEF Only
  <2>4. Only(pend', {"CLOSE"})
    BY <1>0, <2>2, <2>3, TypesOn
  <2>5. Closing(v.x, pend')
    BY <1>4, <2>1, <2>2, <2>4 DEF Closing
  <2>6. pend' # <<>>
    BY <2>2
  <2>7. Stages(v.x, pend') /\ ~Ended(v.x, pend') /\ ~Moving(v.x, pend')
    BY <2>1, <2>2, <2>5, <2>6 DEF Stages, Ended, Moving
  <2>8. \A k \in 1..Len(v.reqs) : v.reqs[k].type # "OPEN" /\ handles = 1
    BY <2>3 DEF Only, Opens
  <2>9. Onward(v)
    BY <1>0, <1>2, <1>4, <1>5, <2>7, <2>8 DEF Onward
  <2> QED BY <1>0, <2>9, OverOn
<1> QED
  BY <1>2, <1>6, <1>7

\* The handler of an answer that comes for the request j.
Comes(j) ==
    /\ Incoming /\ in' = Tail(in) /\ UNCHANGED <<failed, aborted, handles, forgotten>>
    /\ j \in 1..Len(pend) /\ pend[j].id = Head(in).id

\* The handlers that pump, whether the local file can be read or not.
LEMMA PumpedOn ==
    ASSUME OverInv, NEW j, Comes(j), NEW z \in Xfers, Opens(z, j), z.file_pos = x.file_pos,
           Pumped(z, Head(in)), UNCHANGED copy
    PROVE  OverInv'
<1>1. PICK good \in (IF x.upload /\ errors < MaxErrors THEN 0..XferWindow ELSE {XferWindow}) :
         /\ Becomes(xf_pump(z, good), Left(Head(in)))
         /\ pos' = pos + xf_pump(z, good).read
         /\ errors' = IF xf_pump(z, good).x.failed /\ ~z.failed THEN errors + 1 ELSE errors
  BY DEF Pumped
<1>2. good \in 0..XferWindow
  BY <1>1, Bounds
<1> DEFINE v == xf_pump(z, good)
<1>3. Outcome(v, z, good)
  BY <1>2, PumpsOn DEF Comes, Incoming
<1>4. Takes(j, v)
  BY <1>1, <1>3 DEF Takes, Comes, Outcome
<1>5. /\ pos' = pos + v.read
      /\ errors' = IF v.x.failed /\ ~z.failed THEN errors + 1 ELSE errors
  BY <1>1
<1> HIDE DEF v
<1>6. /\ v.read \in Nat /\ Frame(v.x, z) /\ Fair(v, z, good) /\ Local(v, z)
  BY <1>3 DEF Outcome, Works
<1>7. pos \in Nat /\ pos <= Size /\ (~x.upload => pos = x.file_pos) /\ Size \in Nat
  <2>1. TypeOK /\ Positioned
    BY DEF OverInv
  <2>2. \A p \in Offsets : p \in Nat
    BY DEF Offsets
  <2> QED BY <2>1, <2>2, Bounds DEF TypeOK, Positioned
<1>8. z.upload = x.upload /\ v.x.upload = x.upload /\ v.x.file_pos = x.file_pos
  BY <1>6 DEF Opens, Frame
<1>9. pos' \in Nat /\ pos' <= Size /\ (~v.x.upload => pos' = v.x.file_pos)
  <2>1. CASE x.upload
    BY <1>5, <1>6, <1>7, <1>8, <2>1 DEF Local
  <2>2. CASE ~x.upload
    <3>1. v.read = 0
      BY <1>6, <1>8, <2>2 DEF Local
    <3> QED BY <1>5, <1>7, <1>8, <2>2, <3>1
  <2> QED BY <2>1, <2>2
<1>10. errors' \in 0..MaxErrors
  <2>1. errors \in 0..MaxErrors /\ MaxErrors \in Nat
    BY Bounds DEF OverInv, TypeOK
  <2>2. CASE errors < MaxErrors
    BY <1>5, <2>1, <2>2
  <2>3. CASE ~(errors < MaxErrors)
    <3>1. good = XferWindow
      BY <1>1, <2>3
    <3>2. v.x.failed = z.failed
      BY <1>6, <3>1 DEF Fair
    <3> QED BY <1>5, <2>1, <3>2
  <2> QED BY <2>2, <2>3
<1>11. Kept(v.x)
  <2>1. copy' \in [Offsets -> 0..Size \cup {Missing}]
    BY DEF OverInv, TypeOK
  <2> QED BY <1>9, <1>10, <2>1 DEF Kept
<1> QED
  BY <1>2, <1>4, <1>11, Pumping DEF v

\* The handlers that leave nothing under way.
LEMMA Ending ==
    ASSUME OverInv, NEW j, NEW v, Takes(j, v), v.reqs = <<>>, Len(pend) = 1,
           Ended(v.x, <<>>), Reports(v.x), v.x.upload = x.upload, v.x.next_off = x.next_off,
           v.x.file_pos = x.file_pos, Below(v.x), ~Leaky(v.x) => handles = 0,
           UNCHANGED <<copy, pos, errors>>
    PROVE  OverInv'
<1>1. Len(pend') = 0 /\ pend' \in Seq(Requests(next_id'))
  BY TakenHere DEF Queues
<1>2. pend' = <<>>
  BY <1>1, EmptySeq
<1>3. Kept(v.x)
  <2>1. TypeOK /\ Positioned
    BY DEF OverInv
  <2>2. \A p \in Offsets : p \in Nat
    BY DEF Offsets
  <2> QED BY <2>1, <2>2 DEF TypeOK, Positioned, Kept
<1>4. Stages(v.x, pend') /\ ~Moving(v.x, pend')
  BY <1>2 DEF Stages, Moving, Ended
<1>5. v.x.state # "IDLE"
  BY DEF Ended, Reports
<1>6. x.next_off <= v.x.next_off
  <2>1. x.next_off \in Nat
    BY XferFields DEF OverInv, TypeOK
  <2> QED BY <2>1
<1>7. \A k \in 1..Len(v.reqs) : FALSE
  OBVIOUS
<1>8. Onward(v)
  BY <1>3, <1>4, <1>5, <1>6, <1>7 DEF Onward
<1> QED
  BY <1>8, OverOn

\* A transfer that reports is as it was, but for the report.
Reported(z, y) ==
    /\ z \in Xfers /\ z.finished /\ z.calls = y.calls + 1 /\ z.state \in {"DONE", "FAILED", "CANCELLED"}
    /\ z.state = "DONE" => ~y.failed /\ ~y.cancelled
    /\ z.upload = y.upload /\ z.failed = y.failed /\ z.cancelled = y.cancelled
    /\ z.closing = y.closing /\ z.close_done = y.close_done /\ z.handle = y.handle
    /\ z.total = y.total /\ z.done = y.done /\ z.next_off = y.next_off /\ z.eof_at = y.eof_at
    /\ z.eof_known = y.eof_known /\ z.outstanding = y.outstanding /\ z.retry = y.retry
    /\ z.file_pos = y.file_pos /\ z.local_eof = y.local_eof

\* Finish reports the transfer, once, and changes nothing else.
LEMMA Finishing ==
    ASSUME NEW y \in Xfers
    PROVE  Reported(Finish(y), y)
<1> DEFINE s == IF y.failed THEN "FAILED" ELSE IF y.cancelled THEN "CANCELLED" ELSE "DONE"
           n == y.calls + 1
           z == [y EXCEPT !.finished = TRUE, !.calls = n, !.state = s]
<1>1. Finish(y) = z
  BY DEF Finish
<1>2. s \in {"DONE", "FAILED", "CANCELLED"} /\ (s = "DONE" => ~y.failed /\ ~y.cancelled)
  OBVIOUS
<1>3. n \in Nat /\ n = y.calls + 1
  BY XferFields
<1> HIDE DEF s, n
<1>4. z \in Xfers
  <2>1. s \in {"IDLE", "RUNNING", "DONE", "FAILED", "CANCELLED"}
    BY <1>2
  <2> QED BY <1>3, <2>1 DEF Xfers
<1>5. /\ z.finished /\ z.calls = n /\ z.state = s
      /\ z.upload = y.upload /\ z.failed = y.failed /\ z.cancelled = y.cancelled
      /\ z.closing = y.closing /\ z.close_done = y.close_done /\ z.handle = y.handle
      /\ z.total = y.total /\ z.done = y.done /\ z.next_off = y.next_off /\ z.eof_at = y.eof_at
      /\ z.eof_known = y.eof_known /\ z.outstanding = y.outstanding /\ z.retry = y.retry
      /\ z.file_pos = y.file_pos /\ z.local_eof = y.local_eof
  BY DEF Xfers
<1> HIDE DEF z
<1> QED
  BY <1>1, <1>2, <1>3, <1>4, <1>5 DEF Reported

\* A handler that has no handle to close only reports.
LEMMA OnlyReports ==
    ASSUME NEW w \in Works, ~w.x.handle \/ w.x.closing
    PROVE  LET v == xf_maybe_finish(w)
           IN  /\ v \in Works /\ v.reqs = w.reqs /\ v.read = w.read /\ v.dead = w.dead
               /\ v.x = IF Over(w.x) /\ ~Waits(w.x) THEN Finish(w.x) ELSE w.x
<1>1. w.x \in Xfers /\ w.reqs \in Seq(Reqs) /\ w.dead \in BOOLEAN /\ w.read \in Nat
  BY DEF Works
<1>2. xf_maybe_finish(w) = IF Over(w.x) /\ ~Waits(w.x) THEN [w EXCEPT !.x = Finish(w.x)] ELSE w
  BY DEF xf_maybe_finish
<1>3. Finish(w.x) \in Xfers
  BY <1>1, Finishing DEF Reported
<1> DEFINE z == Finish(w.x)
<1> HIDE DEF z
<1>4. [w EXCEPT !.x = z] = [x |-> z, dead |-> w.dead, reqs |-> w.reqs, read |-> w.read]
  BY WorkEdit
<1>5. [x |-> z, dead |-> w.dead, reqs |-> w.reqs, read |-> w.read] \in Works
  BY <1>1, <1>3 DEF Works, z
<1> QED
  BY <1>2, <1>4, <1>5 DEF z

\* It has nothing more to do once it failed, or its file is closed.
LEMMA Done ==
    ASSUME NEW y \in Xfers, failed = FALSE, ~y.handle \/ (y.closing /\ y.close_done),
           ~y.finished, y.outstanding = 0, y.failed \/ y.cancelled \/ AllDone(y)
    PROVE  LET v == xf_maybe_finish(Work(y))
           IN  v \in Works /\ v.reqs = <<>> /\ v.x = Finish(y)
<1>1. Work(y) \in Works /\ Work(y).x = y /\ Work(y).reqs = <<>>
  BY WorkType
<1>2. Over(y) /\ ~Waits(y)
  BY DEF Over, Waits
<1> DEFINE w == Work(y)
<1> HIDE DEF w
<1>3. w \in Works /\ w.x = y /\ w.reqs = <<>> /\ (~w.x.handle \/ w.x.closing)
  BY <1>1 DEF w
<1> DEFINE v == xf_maybe_finish(w)
<1>4. v \in Works /\ v.reqs = <<>> /\ v.x = Finish(y)
  BY <1>2, <1>3, OnlyReports
<1> HIDE DEF v
<1> QED
  BY <1>4 DEF v, w

\* An answer to OPEN.
LEMMA Opened ==
    ASSUME OverInv, NEW j, Comes(j), pend[j].type = "OPEN", xf_opened(Head(in)), Head(in).type # "BAD"
    PROVE  OverInv'
<1> DEFINE r == Head(in)
<1>1. /\ ~failed /\ failed = FALSE /\ in # <<>> /\ r = in[1] /\ 1 \in 1..Len(in)
      /\ x \in Xfers /\ j \in 1..Len(pend) /\ pend[j].id = r.id
  <2>1. TypeOK /\ ~failed /\ in # <<>>
    BY DEF Comes, Incoming, OverInv
  <2>2. Len(in) \in Nat /\ Len(in) # 0 /\ failed \in BOOLEAN /\ x \in Xfers
    BY <2>1, EmptySeq DEF TypeOK
  <2> QED BY <2>1, <2>2 DEF Comes
<1>2. x.state # "IDLE" /\ Reports(x) /\ Opening(x, pend) /\ Len(pend) = 1
  <2>1. "OPEN" \notin Blocks
    BY DEF Blocks
  <2> QED BY <1>1, <2>1, StageOf
<1>3. /\ ~x.handle /\ ~x.closing /\ ~x.failed /\ x.finished = x.cancelled /\ x.outstanding = 0
      /\ j = 1
  BY <1>1, <1>2 DEF Opening
<1>4. Held(pend[1], in, handles) /\ Below(x)
  BY <1>1, <1>3 DEF OverInv, HandleHeld, Positioned
<1> HIDE DEF r
<1>5. CASE r.type = "HANDLE"
  <2> DEFINE y == [x EXCEPT !.handle = TRUE]
  <2>1. /\ y \in Xfers
    BY <1>1, XferEdits
  <2>2. /\ y.handle /\ Frame([y EXCEPT !.handle = x.handle], x)
        /\ y.closing = x.closing /\ y.finished = x.finished /\ y.cancelled = x.cancelled
        /\ y.state = x.state /\ y.calls = x.calls /\ y.upload = x.upload
        /\ y.next_off = x.next_off /\ y.outstanding = x.outstanding /\ y.file_pos = x.file_pos
        /\ y.retry = x.retry /\ y.eof_known = x.eof_known /\ y.eof_at = x.eof_at
        /\ y.failed = x.failed
    BY <1>1 DEF Xfers, Frame
  <2>3. Pumped(y, r) /\ UNCHANGED copy
    BY <1>5 DEF xf_opened, r
  <2> HIDE DEF y
  <2>4. Below(y) /\ Reports(y)
    BY <1>2, <1>4, <2>2 DEF Below, Reports
  <2>5. CASE ~x.finished
    <3>1. handles = 1
      <4>1. Answered(pend[1], in, {"HANDLE"})
        BY <1>1, <1>3, <1>5 DEF Answered, r
      <4> QED BY <1>3, <1>4, <4>1 DEF Held
    <3>2. Opens(y, j)
      <4>1. x.next_off <= y.next_off
        <5>1. x.next_off \in Nat
          BY <1>1, XferFields
        <5> QED BY <2>2, <5>1
      <4>2. \A i \in 1..Len(pend) : i = j
        BY <1>2, <1>3
      <4>3. y.outstanding = Len(pend) - 1
        BY <1>2, <1>3, <2>2
      <4> QED BY <1>2, <1>3, <2>2, <2>4, <2>5, <3>1, <4>1, <4>2, <4>3 DEF Opens
    <3> QED BY <2>1, <2>2, <2>3, <3>2, PumpedOn DEF r
  <2>6. CASE x.finished
    <3>1. xf_maybe_finish(Work(y)) = Work(y)
      <4>1. ~Over(y)
        BY <2>2, <2>6 DEF Over
      <4>2. Work(y).x = y
        BY <1>1, <2>1, WorkType
      <4> DEFINE w == Work(y)
      <4> HIDE DEF w
      <4>3. ~Over(w.x)
        BY <4>1, <4>2 DEF w
      <4>4. xf_maybe_finish(w) = w
        BY <4>3 DEF xf_maybe_finish
      <4> QED BY <4>4 DEF w
    <3>2. PICK good \in (IF x.upload /\ errors < MaxErrors THEN 0..XferWindow ELSE {XferWindow}) :
             /\ Becomes(xf_pump(y, good), Left(r))
             /\ pos' = pos + xf_pump(y, good).read
             /\ errors' = IF xf_pump(y, good).x.failed /\ ~y.failed THEN errors + 1 ELSE errors
      BY <2>3 DEF Pumped
    <3>3. xf_pump(y, good) = Work(y)
      BY <1>1, <1>3, <2>1, <2>2, <2>4, <2>6, <3>1, PumpRests
    <3>4. Work(y) \in Works /\ Work(y).x = y /\ Work(y).reqs = <<>> /\ Work(y).read = 0
      BY <1>1, <2>1, WorkType
    <3> DEFINE w == Work(y)
    <3> HIDE DEF w
    <3>5. w \in Works /\ w.x = y /\ w.reqs = <<>> /\ w.read = 0
      BY <3>4 DEF w
    <3>6. Becomes(w, Left(r)) /\ pos' = pos /\ errors' = errors
      <4>1. pos + 0 = pos
        <5>1. pos \in Offsets
          BY DEF OverInv, TypeOK
        <5>2. \A p \in Offsets : p + 0 = p
          BY DEF Offsets
        <5> QED BY <5>1, <5>2
      <4> QED BY <3>2, <3>3, <3>5, <4>1 DEF w
    <3>7. Takes(j, w)
      BY <3>5, <3>6 DEF Takes, Comes, r
    <3>8. Ended(y, <<>>) /\ Leaky(y)
      BY <1>3, <2>2, <2>6 DEF Ended, Leaky
    <3> QED BY <1>2, <2>2, <2>3, <2>4, <3>5, <3>6, <3>7, <3>8, Ending
  <2> QED BY <2>5, <2>6
<1>6. CASE r.type # "HANDLE"
  <2> DEFINE y == xf_fail(x)
             v == xf_maybe_finish(Work(y))
  <2>1. y \in Xfers
    BY <1>1, XferEdits DEF xf_fail
  <2>2. /\ y.failed /\ y.handle = x.handle
        /\ y.closing = x.closing /\ y.finished = x.finished /\ y.cancelled = x.cancelled
        /\ y.state = x.state /\ y.calls = x.calls /\ y.upload = x.upload
        /\ y.next_off = x.next_off /\ y.outstanding = x.outstanding /\ y.file_pos = x.file_pos
        /\ y.retry = x.retry /\ y.eof_known = x.eof_known /\ y.eof_at = x.eof_at
    BY <1>1 DEF Xfers, xf_fail
  <2>3. Becomes(v, Left(r)) /\ UNCHANGED <<pos, errors, copy>>
    BY <1>6 DEF xf_opened, r
  <2> HIDE DEF y
  <2>4. Below(y) /\ Reports(y)
    BY <1>2, <1>4, <2>2 DEF Below, Reports
  <2>5. handles = 0
    <3>1. \A k \in 1..Len(in) : in[k].id = pend[1].id => in[k].type # "HANDLE"
      <4> TAKE k \in 1..Len(in)
      <4> HAVE in[k].id = pend[1].id
      <4>1. k = 1
        BY <1>1, <1>3 DEF OverInv, Numbered, Apart
      <4> QED BY <1>1, <1>6, <4>1
    <3>2. ~Answered(pend[1], in, {"HANDLE"})
      BY <3>1 DEF Answered
    <3> QED BY <1>3, <1>4, <3>2 DEF Held
  <2>6. /\ v \in Works /\ v.reqs = <<>> /\ (v.x = y \/ Reported(v.x, y))
        /\ (x.finished => v.x = y) /\ (~x.finished => Reported(v.x, y))
    <3>1. CASE ~x.finished
      <4>1. v \in Works /\ v.reqs = <<>> /\ v.x = Finish(y)
        BY <1>1, <1>3, <2>1, <2>2, <3>1, Done
      <4> QED BY <2>1, <3>1, <4>1, Finishing
    <3>2. CASE x.finished
      <4>1. Work(y) \in Works /\ Work(y).x = y /\ Work(y).reqs = <<>>
        BY <1>1, <2>1, WorkType
      <4>2. ~Over(y)
        BY <2>2, <3>2 DEF Over
      <4> DEFINE w == Work(y)
      <4> HIDE DEF w
      <4>3. w \in Works /\ w.x = y /\ w.reqs = <<>> /\ ~w.x.handle
        BY <1>3, <2>2, <4>1 DEF w
      <4> DEFINE u == xf_maybe_finish(w)
      <4>4. u \in Works /\ u.reqs = <<>> /\ u.x = y
        BY <4>2, <4>3, OnlyReports
      <4> HIDE DEF u
      <4> QED BY <3>2, <4>4 DEF u, w
    <3> QED BY <3>1, <3>2
  <2> HIDE DEF v
  <2>7. Takes(j, v)
    BY <2>3, <2>6 DEF Takes, Comes, r
  <2>8. Ended(v.x, <<>>) /\ Reports(v.x) /\ Below(v.x) /\ v.x.upload = x.upload
        /\ v.x.next_off = x.next_off /\ v.x.file_pos = x.file_pos
    <3>1. CASE x.finished
      BY <1>3, <2>2, <2>4, <2>6, <3>1 DEF Ended
    <3>2. CASE ~x.finished
      <4>1. y.calls = 0
        BY <2>2, <2>4, <3>2 DEF Reports
      <4>2. Reported(v.x, y)
        BY <2>6, <3>2
      <4>3. Below(v.x)
        BY <2>4, <4>2 DEF Below, Reported
      <4>4. Reports(v.x)
        BY <4>1, <4>2 DEF Reports, Reported
      <4>5. Ended(v.x, <<>>)
        BY <1>3, <2>2, <4>2 DEF Ended, Reported
      <4> QED BY <2>2, <4>2, <4>3, <4>4, <4>5 DEF Reported
    <3> QED BY <3>1, <3>2
  <2> QED BY <1>2, <2>3, <2>5, <2>6, <2>7, <2>8, Ending
<1> QED
  BY <1>5, <1>6

\* What is known when an answer comes for a request.
Known(j, r) ==
    /\ r = Head(in) /\ r = in[1] /\ 1 \in 1..Len(in) /\ r \in Responses(next_id)
    /\ failed = FALSE /\ x \in Xfers /\ j \in 1..Len(pend) /\ pend[j] \in Requests(next_id)
    /\ pend[j].id = r.id /\ r.id # 0 /\ Asked(r) = pend[j] /\ Fits(r, pend[j])
    /\ pos \in Nat /\ pos <= Size /\ (~x.upload => pos = x.file_pos)
    /\ Below(x) /\ Sane(pend[j], x) /\ x.state # "IDLE" /\ Reports(x)
    /\ \A k \in 1..Len(in) : in[k].id = r.id => k = 1

\* What is known of the answer and its request.
LEMMA Knows ==
    ASSUME OverInv, NEW j, Comes(j)
    PROVE  Known(j, Head(in))
<1> DEFINE r == Head(in)
<1>1. TypeOK /\ Numbered /\ Positioned /\ ~failed /\ in # <<>> /\ j \in 1..Len(pend) /\ pend[j].id = r.id
  BY DEF Comes, Incoming, OverInv
<1>2. /\ Len(in) \in Nat /\ Len(in) # 0 /\ failed \in BOOLEAN /\ x \in Xfers
      /\ in \in Seq(Responses(next_id)) /\ pend \in Seq(Requests(next_id)) /\ next_id \in Nat
  BY <1>1, EmptySeq DEF TypeOK
<1>3. r = in[1] /\ 1 \in 1..Len(in)
  BY <1>2
<1>4. r \in Responses(next_id) /\ pend[j] \in Requests(next_id)
  BY <1>1, <1>2, <1>3, ElementOfSeq
<1>5. pend[j].id # 0
  BY <1>4 DEF Requests
<1>6. Asked(r) = pend[j]
  BY <1>1, AtIs
<1>7. Fits(r, pend[j])
  <2>1. PICK i \in 1..Len(pend) : pend[i].id = in[1].id /\ Fits(in[1], pend[i])
    BY <1>1, <1>3, <1>5 DEF Numbered, Matched
  <2>2. i = j
    BY <1>1, <1>3, <2>1 DEF Numbered, Apart
  <2> QED BY <1>3, <2>1, <2>2
<1>8. pos \in Nat /\ pos <= Size /\ (~x.upload => pos = x.file_pos) /\ Below(x) /\ Sane(pend[j], x)
  <2>1. \A p \in Offsets : p \in Nat
    BY DEF Offsets
  <2> QED BY <1>1, <2>1 DEF TypeOK, Positioned
<1>9. \A k \in 1..Len(in) : in[k].id = r.id => k = 1
  BY <1>1, <1>3 DEF Numbered, Apart
<1>10. x.state # "IDLE" /\ Reports(x)
  BY <1>1, StageOf
<1> HIDE DEF r
<1> QED
  BY <1>1, <1>2, <1>3, <1>4, <1>5, <1>6, <1>7, <1>8, <1>9, <1>10 DEF Known, r

\* A transfer with one block less under way.
Fewer(y, j) ==
    /\ y \in Xfers /\ Opens(y, j) /\ y.outstanding = x.outstanding - 1
    /\ y.file_pos = x.file_pos /\ y.retry = x.retry /\ y.next_off = x.next_off
    /\ y.failed = x.failed /\ y.cancelled = x.cancelled /\ y.eof_known = x.eof_known
    /\ y.eof_at = x.eof_at /\ y.done = x.done /\ y.total = x.total /\ y.local_eof = x.local_eof

\* An answer to a block takes one from those under way.
LEMMA Back1 ==
    ASSUME OverInv, NEW j, Comes(j), pend[j].type \in Blocks
    PROVE  Fewer([x EXCEPT !.outstanding = @ - 1], j)
<1> DEFINE y == [x EXCEPT !.outstanding = @ - 1]
<1>1. Known(j, Head(in)) /\ ~failed
  BY Knows DEF Comes, Incoming
<1>2. x \in Xfers /\ j \in 1..Len(pend) /\ Reports(x) /\ x.state # "IDLE" /\ Below(x)
  BY <1>1 DEF Known
<1>3. Moving(x, pend) /\ x.outstanding = Len(pend)
  <2>1. pend[j].type \notin {"OPEN", "CLOSE"}
    BY DEF Blocks
  <2> QED BY <1>1, <1>2, <2>1, StageOf
<1>4. x.outstanding - 1 \in 0..XferWindow
  <2>1. x.outstanding \in 0..XferWindow /\ XferWindow \in Nat
    BY <1>2, XferFields, Bounds
  <2>2. x.outstanding >= 1
    BY <1>2, <1>3
  <2> QED BY <2>1, <2>2
<1>5. y \in Xfers
  BY <1>2, <1>4, XferEdits
<1>6. /\ y.outstanding = x.outstanding - 1
      /\ y.file_pos = x.file_pos /\ y.retry = x.retry /\ y.next_off = x.next_off
      /\ y.failed = x.failed /\ y.cancelled = x.cancelled /\ y.eof_known = x.eof_known
      /\ y.eof_at = x.eof_at /\ y.done = x.done /\ y.total = x.total /\ y.local_eof = x.local_eof
      /\ y.handle = x.handle /\ y.closing = x.closing /\ y.finished = x.finished
      /\ y.state = x.state /\ y.calls = x.calls /\ y.upload = x.upload
  BY <1>2 DEF Xfers
<1> HIDE DEF y
<1>7. handles = 1
  BY <1>1, <1>3 DEF OverInv, HandleHeld
<1>8. x.next_off <= y.next_off
  <2>1. x.next_off \in Nat
    BY <1>2, XferFields
  <2> QED BY <1>6, <2>1
<1>9. Opens(y, j)
  <2>1. Below(y) /\ Reports(y)
    BY <1>2, <1>6 DEF Below, Reports
  <2>2. y.handle /\ ~y.closing /\ ~y.finished
    BY <1>3, <1>6 DEF Moving
  <2>3. \A i \in 1..Len(pend) : pend[i].type \in Blocks
    BY <1>3 DEF Moving, Only
  <2> QED BY <1>2, <1>3, <1>6, <1>7, <1>8, <2>1, <2>2, <2>3 DEF Opens
<1> QED
  BY <1>5, <1>6, <1>9 DEF Fewer, y

\* An answer to a write.
LEMMA Wrote ==
    ASSUME OverInv, NEW j, Comes(j), pend[j].type = "WRITE", xf_write_done(Head(in))
    PROVE  OverInv'
<1> DEFINE r == Head(in)
           q == pend[j]
           y == [x EXCEPT !.outstanding = @ - 1]
           z == IF r.status = "OK" THEN [y EXCEPT !.done = @ + q.len]
                ELSE IF ~x.failed /\ ~x.cancelled THEN xf_fail(y) ELSE y
<1>1. Fewer(y, j)
  BY Back1 DEF Blocks
<1>2. Pumped(z, r) /\ UNCHANGED copy
  BY Knows DEF xf_write_done, Known
<1>3. q.len \in Nat
  <2>1. q \in Requests(next_id)
    BY Knows DEF Known
  <2> HIDE DEF q
  <2> QED BY <2>1, Bounds DEF Requests
<1> HIDE DEF y, r, q
<1>4. y \in Xfers
  BY <1>1 DEF Fewer
<1>5. /\ z \in Xfers /\ z.file_pos = y.file_pos
      /\ z.outstanding = y.outstanding /\ z.retry = y.retry /\ z.next_off = y.next_off
      /\ z.eof_known = y.eof_known /\ z.eof_at = y.eof_at /\ z.calls = y.calls
      /\ z.handle = y.handle /\ z.closing = y.closing /\ z.finished = y.finished
      /\ z.state = y.state /\ z.upload = y.upload
  <2>1. CASE r.status = "OK"
    <3> DEFINE u == [y EXCEPT !.done = @ + q.len]
    <3>1. z = u
      BY <2>1
    <3>2. y.done + q.len \in Nat
      BY <1>3, <1>4, XferFields
    <3>3. u \in Xfers
      BY <1>4, <3>2, XferEdits
    <3>4. /\ u.file_pos = y.file_pos
          /\ u.outstanding = y.outstanding /\ u.retry = y.retry /\ u.next_off = y.next_off
          /\ u.eof_known = y.eof_known /\ u.eof_at = y.eof_at /\ u.calls = y.calls
          /\ u.handle = y.handle /\ u.closing = y.closing /\ u.finished = y.finished
          /\ u.state = y.state /\ u.upload = y.upload
      BY <1>4 DEF Xfers
    <3> HIDE DEF u, z
    <3> QED BY <3>1, <3>3, <3>4
  <2>2. CASE r.status # "OK" /\ ~x.failed /\ ~x.cancelled
    <3> DEFINE u == [y EXCEPT !.failed = TRUE]
    <3>1. z = u
      BY <2>2 DEF xf_fail
    <3>3. u \in Xfers
      BY <1>4, XferEdits
    <3>4. /\ u.file_pos = y.file_pos
          /\ u.outstanding = y.outstanding /\ u.retry = y.retry /\ u.next_off = y.next_off
          /\ u.eof_known = y.eof_known /\ u.eof_at = y.eof_at /\ u.calls = y.calls
          /\ u.handle = y.handle /\ u.closing = y.closing /\ u.finished = y.finished
          /\ u.state = y.state /\ u.upload = y.upload
      BY <1>4 DEF Xfers
    <3> HIDE DEF u, z
    <3> QED BY <3>1, <3>3, <3>4
  <2>3. CASE r.status # "OK" /\ ~(~x.failed /\ ~x.cancelled)
    <3>1. z = y
      BY <2>3
    <3> HIDE DEF z
    <3> QED BY <1>4, <3>1
  <2> QED BY <2>1, <2>2, <2>3
<1> HIDE DEF z
<1>6. Opens(z, j)
  BY <1>1, <1>5 DEF Fewer, Opens, Below, Reports
<1>7. z.file_pos = x.file_pos
  BY <1>1, <1>5 DEF Fewer
<1> QED
  BY <1>2, <1>5, <1>6, <1>7, PumpedOn DEF r

\* An answer to CLOSE.
LEMMA Closed ==
    ASSUME OverInv, NEW j, Comes(j), pend[j].type = "CLOSE", xf_closed(Head(in)), Head(in).type # "BAD"
    PROVE  OverInv'
<1> DEFINE r == Head(in)
           f == IF r.status # "OK" /\ ~x.failed /\ ~x.cancelled THEN TRUE ELSE x.failed
           y == [x EXCEPT !.failed = f]
           z == [y EXCEPT !.close_done = TRUE]
           w == xf_pump(z, XferWindow)
           v == xf_maybe_finish(Work(z))
<1>1. Known(j, r) /\ ~failed
  BY Knows DEF Comes, Incoming
<1> HIDE DEF r
<1>2. /\ x \in Xfers /\ j \in 1..Len(pend) /\ Reports(x) /\ x.state # "IDLE" /\ Below(x)
      /\ failed = FALSE /\ Asked(r) = pend[j] /\ r = in[1] /\ 1 \in 1..Len(in) /\ pend[j].id = r.id
  BY <1>1 DEF Known
<1>3. Closing(x, pend) /\ Len(pend) = 1
  <2>1. pend[j].type \notin Blocks
    BY DEF Blocks
  <2> QED BY <1>1, <1>2, <2>1, StageOf
<1>4. f \in BOOLEAN /\ (x.failed => f)
  BY <1>2, XferFields
<1>5. (IF r.status # "OK" /\ ~x.failed /\ ~x.cancelled THEN xf_fail(x) ELSE x) = y
  <2>1. CASE r.status # "OK" /\ ~x.failed /\ ~x.cancelled
    BY <2>1 DEF xf_fail
  <2>2. CASE ~(r.status # "OK" /\ ~x.failed /\ ~x.cancelled)
    <3>1. y = [x EXCEPT !.failed = x.failed]
      BY <2>2
    <3>2. [x EXCEPT !.failed = x.failed] = x
      BY <1>2 DEF Xfers
    <3> HIDE DEF y
    <3> QED BY <2>2, <3>1, <3>2
  <2> QED BY <2>1, <2>2
<1>6. Becomes(w, Left(r)) /\ UNCHANGED <<copy, pos, errors>>
  BY <1>5 DEF xf_closed, r
<1> HIDE DEF f
<1>7. y \in Xfers
  BY <1>2, <1>4, XferEdits
<1>8. z \in Xfers
  <2> HIDE DEF y
  <2> QED BY <1>7, XferEdits
<1>9. /\ z.failed = f /\ z.close_done /\ z.handle = x.handle /\ z.closing = x.closing
      /\ z.finished = x.finished /\ z.cancelled = x.cancelled /\ z.state = x.state
      /\ z.calls = x.calls /\ z.upload = x.upload /\ z.next_off = x.next_off
      /\ z.outstanding = x.outstanding /\ z.file_pos = x.file_pos /\ z.retry = x.retry
      /\ z.eof_known = x.eof_known /\ z.eof_at = x.eof_at /\ z.total = x.total
      /\ z.local_eof = x.local_eof
  BY <1>2 DEF Xfers
<1> HIDE DEF z, y
<1>10. Below(z) /\ (AllDone(x) => AllDone(z))
  BY <1>2, <1>9 DEF Below, AllDone
<1>11. z.handle /\ z.closing /\ ~z.finished /\ z.outstanding = 0 /\ (z.failed \/ z.cancelled \/ AllDone(z))
  BY <1>3, <1>4, <1>9, <1>10 DEF Closing
<1>12. w = v
  BY <1>2, <1>8, <1>10, <1>11, PumpRests
<1>13. v \in Works /\ v.reqs = <<>> /\ v.x = Finish(z)
  BY <1>2, <1>8, <1>9, <1>11, Done
<1> HIDE DEF w, v
<1>14. Reported(v.x, z)
  BY <1>8, <1>13, Finishing
<1>15. Takes(j, v)
  BY <1>6, <1>12, <1>13 DEF Takes, Comes, r
<1>16. handles = 0
  <2>1. Held(pend[j], in, handles)
    BY <1>1, <1>2 DEF OverInv, HandleHeld
  <2>2. r.type \in {"STATUS", "DATA", "HANDLE"}
    <3>1. r \in Responses(next_id) /\ r.type # "BAD"
      BY <1>1 DEF Known, r
    <3> QED BY <3>1 DEF Responses
  <2>3. Answered(pend[j], in, {"STATUS", "DATA", "HANDLE"})
    BY <1>2, <2>2 DEF Answered
  <2> QED BY <2>1, <2>3 DEF Held
<1>17. Reports(v.x)
  <2>1. z.calls = 0
    BY <1>2, <1>9, <1>11 DEF Reports
  <2> QED BY <1>14, <2>1 DEF Reports, Reported
<1>18. Ended(v.x, <<>>)
  BY <1>9, <1>11, <1>14 DEF Ended, Reported
<1>19. Below(v.x)
  BY <1>10, <1>14 DEF Below, Reported
<1>20. v.x.upload = x.upload /\ v.x.next_off = x.next_off /\ v.x.file_pos = x.file_pos
  BY <1>9, <1>14 DEF Reported
<1> QED
  BY <1>3, <1>6, <1>13, <1>15, <1>16, <1>17, <1>18, <1>19, <1>20, Ending

\* A handler of a read's answer, with the local file where it left it.
LEMMA ReadOn ==
    ASSUME OverInv, NEW j, Comes(j), NEW z \in Xfers, Opens(z, j), Kept(z),
           Becomes(xf_pump(z, XferWindow), Left(Head(in)))
    PROVE  OverInv'
<1> DEFINE v == xf_pump(z, XferWindow)
<1>1. XferWindow \in 0..XferWindow
  BY Bounds
<1>2. Outcome(v, z, XferWindow)
  BY <1>1, PumpsOn DEF Comes, Incoming
<1>3. Takes(j, v)
  BY <1>2 DEF Takes, Comes, Outcome
<1>4. Kept(v.x)
  <2> HIDE DEF v
  <2> QED BY <1>2 DEF Outcome, Frame, Kept
<1> QED
  BY <1>1, <1>3, <1>4, Pumping

\* What stays where it was when some units of a file came.
LEMMA TookIs ==
    ASSUME NEW y \in Xfers, NEW q, q.off \in Nat, q.len \in 0..Chunk, NEW n \in Nat, n <= q.len
    PROVE  LET z == Took(y, q, n)
           IN  /\ z \in Xfers /\ z.file_pos = q.off + n /\ z.done = y.done + n
               /\ z.retry = IF n < q.len /\ Len(y.retry) < XferWindow
                            THEN Append(y.retry, [off |-> q.off + n, len |-> q.len - n])
                            ELSE y.retry
               /\ z.outstanding = y.outstanding /\ z.next_off = y.next_off
               /\ z.eof_known = y.eof_known /\ z.eof_at = y.eof_at /\ z.calls = y.calls
               /\ z.handle = y.handle /\ z.closing = y.closing /\ z.finished = y.finished
               /\ z.state = y.state /\ z.upload = y.upload /\ z.total = y.total
               /\ z.failed = y.failed /\ z.cancelled = y.cancelled
<1> DEFINE y1 == [[y EXCEPT !.file_pos = q.off + n] EXCEPT !.done = @ + n]
           b == [off |-> q.off + n, len |-> q.len - n]
           z == [y1 EXCEPT !.retry = Append(@, b)]
<1>1. Took(y, q, n) = IF n < q.len /\ Len(y1.retry) < XferWindow THEN z ELSE y1
  <2>1. y1 = [y EXCEPT !.file_pos = q.off + n, !.done = @ + n]
    OBVIOUS
  <2> HIDE DEF y1
  <2> QED BY <2>1 DEF Took, Rest
<1>2. q.off + n \in Nat /\ y.done + n \in Nat
  BY XferFields
<1>3. y1 \in Xfers
  <2> DEFINE u == [y EXCEPT !.file_pos = q.off + n]
  <2>1. u \in Xfers /\ u.done = y.done
    <3>1. u \in Xfers
      BY <1>2, XferEdits
    <3>2. u.done = y.done
      BY DEF Xfers
    <3> QED BY <3>1, <3>2
  <2>2. y1 = [u EXCEPT !.done = u.done + n]
    OBVIOUS
  <2> HIDE DEF u, y1
  <2>3. u.done + n \in Nat
    BY <1>2, <2>1
  <2> QED BY <2>1, <2>2, <2>3, XferEdits
<1>4. /\ y1.file_pos = q.off + n /\ y1.done = y.done + n /\ y1.retry = y.retry
      /\ y1.outstanding = y.outstanding /\ y1.next_off = y.next_off
      /\ y1.eof_known = y.eof_known /\ y1.eof_at = y.eof_at /\ y1.calls = y.calls
      /\ y1.handle = y.handle /\ y1.closing = y.closing /\ y1.finished = y.finished
      /\ y1.state = y.state /\ y1.upload = y.upload /\ y1.total = y.total
      /\ y1.failed = y.failed /\ y1.cancelled = y.cancelled
  BY DEF Xfers
<1> HIDE DEF y1
<1>5. CASE ~(n < q.len /\ Len(y.retry) < XferWindow)
  BY <1>1, <1>3, <1>4, <1>5
<1>6. CASE n < q.len /\ Len(y.retry) < XferWindow
  <2>1. b \in [off : Nat, len : 1..Chunk]
    <3>1. q.len - n \in 1..Chunk
      <4> DEFINE l == q.len
      <4>1. l \in 0..Chunk /\ n < l /\ n \in Nat /\ Chunk \in Nat
        BY <1>6, Bounds
      <4> HIDE DEF l
      <4>2. l - n \in 1..Chunk
        BY ONLY <4>1
      <4> QED BY <4>2 DEF l
    <3> QED BY <1>2, <3>1
  <2>2. Append(y1.retry, b) \in Seq([off : Nat, len : 1..Chunk])
    <3>1. y1.retry \in Seq([off : Nat, len : 1..Chunk])
      BY <1>3, XferFields
    <3> HIDE DEF b
    <3> QED BY <2>1, <3>1, AppendProperties
  <2> HIDE DEF b
  <2>3. z \in Xfers
    BY <1>3, <2>2, XferEdits
  <2>4. /\ z.file_pos = y1.file_pos /\ z.done = y1.done /\ z.retry = Append(y1.retry, b)
        /\ z.outstanding = y1.outstanding /\ z.next_off = y1.next_off
        /\ z.eof_known = y1.eof_known /\ z.eof_at = y1.eof_at /\ z.calls = y1.calls
        /\ z.handle = y1.handle /\ z.closing = y1.closing /\ z.finished = y1.finished
        /\ z.state = y1.state /\ z.upload = y1.upload /\ z.total = y1.total
        /\ z.failed = y1.failed /\ z.cancelled = y1.cancelled
    BY <1>3 DEF Xfers
  <2> HIDE DEF z
  <2>5. Took(y, q, n) = z
    BY <1>1, <1>4, <1>6
  <2> QED BY <1>4, <1>6, <2>3, <2>4, <2>5 DEF b
<1> QED
  BY <1>5, <1>6

\* The end of the file as a transfer knows it.
LEMMA AtEofIs ==
    ASSUME NEW y \in Xfers, NEW off \in Nat
    PROVE  LET z == AtEof(y, off)
           IN  /\ z \in Xfers /\ z.eof_known
               /\ z.eof_at = IF y.eof_known /\ y.eof_at <= off THEN y.eof_at ELSE off
               /\ z.retry = y.retry /\ z.file_pos = y.file_pos /\ z.done = y.done
               /\ z.outstanding = y.outstanding /\ z.next_off = y.next_off /\ z.calls = y.calls
               /\ z.handle = y.handle /\ z.closing = y.closing /\ z.finished = y.finished
               /\ z.state = y.state /\ z.upload = y.upload /\ z.total = y.total
               /\ z.failed = y.failed /\ z.cancelled = y.cancelled
<1> DEFINE e == IF y.eof_known THEN Min({y.eof_at, off}) ELSE off
           d == IF y.eof_known /\ y.eof_at <= off THEN y.eof_at ELSE off
           u == [y EXCEPT !.eof_known = TRUE]
           z == [u EXCEPT !.eof_at = e]
<1>1. y.eof_at \in Nat
  BY XferFields
<1>2. e = d /\ d \in Nat
  <2>1. Min({y.eof_at, off}) = IF y.eof_at <= off THEN y.eof_at ELSE off
    BY <1>1, MinPair
  <2> QED BY <1>1, <2>1
<1>3. AtEof(y, off) = z
  BY DEF AtEof
<1> HIDE DEF e, d
<1>4. u \in Xfers
  BY XferEdits
<1>5. z \in Xfers
  <2> HIDE DEF u
  <2> QED BY <1>2, <1>4, XferEdits
<1>6. /\ z.eof_known /\ z.eof_at = e
      /\ z.retry = y.retry /\ z.file_pos = y.file_pos /\ z.done = y.done
      /\ z.outstanding = y.outstanding /\ z.next_off = y.next_off /\ z.calls = y.calls
      /\ z.handle = y.handle /\ z.closing = y.closing /\ z.finished = y.finished
      /\ z.state = y.state /\ z.upload = y.upload /\ z.total = y.total
      /\ z.failed = y.failed /\ z.cancelled = y.cancelled
  BY DEF Xfers
<1> HIDE DEF z
<1> QED
  BY <1>2, <1>3, <1>5, <1>6 DEF d

\* A failed transfer is otherwise as it was.
LEMMA FailIs ==
    ASSUME NEW y \in Xfers
    PROVE  LET z == xf_fail(y)
           IN  /\ z \in Xfers /\ z.failed
               /\ z.retry = y.retry /\ z.file_pos = y.file_pos /\ z.done = y.done
               /\ z.eof_known = y.eof_known /\ z.eof_at = y.eof_at
               /\ z.outstanding = y.outstanding /\ z.next_off = y.next_off /\ z.calls = y.calls
               /\ z.handle = y.handle /\ z.closing = y.closing /\ z.finished = y.finished
               /\ z.close_done = y.close_done /\ z.local_eof = y.local_eof
               /\ z.state = y.state /\ z.upload = y.upload /\ z.total = y.total
               /\ z.cancelled = y.cancelled
<1> DEFINE z == [y EXCEPT !.failed = TRUE]
<1>1. z \in Xfers
  BY XferEdits
<1>2. /\ z.failed
      /\ z.retry = y.retry /\ z.file_pos = y.file_pos /\ z.done = y.done
      /\ z.eof_known = y.eof_known /\ z.eof_at = y.eof_at
      /\ z.outstanding = y.outstanding /\ z.next_off = y.next_off /\ z.calls = y.calls
      /\ z.handle = y.handle /\ z.closing = y.closing /\ z.finished = y.finished
      /\ z.close_done = y.close_done /\ z.local_eof = y.local_eof
      /\ z.state = y.state /\ z.upload = y.upload /\ z.total = y.total
      /\ z.cancelled = y.cancelled
  BY DEF Xfers
<1>3. xf_fail(y) = z
  BY DEF xf_fail
<1> HIDE DEF z
<1> QED
  BY <1>1, <1>2, <1>3

\* An answer to a read.
LEMMA Read ==
    ASSUME OverInv, NEW j, Comes(j), pend[j].type = "READ", xf_read_done(Head(in)),
           Head(in).type # "BAD"
    PROVE  OverInv'
<1> DEFINE r == Head(in)
           q == pend[j]
           y == [x EXCEPT !.outstanding = @ - 1]
           n == Min({r.len, q.len})
           at == IF q.off = x.file_pos THEN pos ELSE q.off
           useful == r.type = "DATA" /\ ~x.failed /\ ~x.cancelled
           z3 == CASE useful -> AtEof(y, q.off)
                   [] r.status = "EOF" -> AtEof(y, q.off)
                   [] r.status = "FAILURE" /\ ~x.failed /\ ~x.cancelled -> xf_fail(y)
                   [] OTHER -> y
<1>1. Known(j, r) /\ Fewer(y, j)
  BY Knows, Back1 DEF Blocks
<1>2. \/ /\ useful /\ n > 0 /\ Writes(at, r.off, n) /\ pos' = at + n
         /\ Becomes(xf_pump(Took(y, q, n), XferWindow), Left(r)) /\ UNCHANGED errors
      \/ /\ useful /\ n > 0 /\ errors < MaxErrors /\ Becomes(xf_pump(xf_fail(y), XferWindow), Left(r))
         /\ errors' = errors + 1 /\ UNCHANGED <<copy, pos>>
      \/ /\ ~(useful /\ n > 0) /\ Becomes(xf_pump(z3, XferWindow), Left(r))
         /\ UNCHANGED <<copy, pos, errors>>
  <2>1. Asked(r) = q
    BY <1>1 DEF Known
  <2> QED BY <2>1 DEF xf_read_done
<1>3. /\ q \in Requests(next_id) /\ r \in Responses(next_id) /\ q.type = "READ" /\ r.type # "BAD"
      /\ Fits(r, q) /\ Sane(q, x) /\ pos \in Nat /\ pos <= Size /\ (~x.upload => pos = x.file_pos)
      /\ x \in Xfers
  BY <1>1 DEF Known
<1> HIDE DEF y, r, q
<1>4. q.off \in Nat /\ q.len \in 0..Chunk /\ r.len \in 0..Chunk /\ r.off \in Nat
  BY <1>3 DEF Requests, Responses
<1>5. n = IF r.len <= q.len THEN r.len ELSE q.len
  BY <1>4, MinPair
<1>6. ~x.upload /\ q.off + q.len <= x.next_off
  BY <1>3 DEF Sane
<1>7. at = q.off
  BY <1>3, <1>6
<1>8. useful /\ n > 0 => n = r.len /\ r.off = q.off /\ n <= q.len /\ n \in Nat /\ q.off + n <= Size
  <2> HAVE useful /\ n > 0
  <2>1. r.len # 0
    BY <1>4, <1>5
  <2>2. r.off = q.off /\ r.len \in 1..q.len /\ q.off + r.len <= Size
    BY <1>3, <2>1 DEF Fits
  <2> QED BY <1>4, <1>5, <2>2
<1>9. y \in Xfers /\ y.next_off = x.next_off /\ y.file_pos = x.file_pos /\ y.upload = x.upload
  BY <1>1 DEF Fewer, Opens
<1>10. /\ copy \in [Offsets -> 0..Size \cup {Missing}] /\ errors \in 0..MaxErrors /\ MaxErrors \in Nat
       /\ Size \in Nat /\ x.next_off \in Nat
  BY <1>3, Bounds, XferFields DEF OverInv, TypeOK
<1> HIDE DEF n, at, useful
<1>11. ASSUME NEW z \in Xfers, z.file_pos = y.file_pos, z.retry = y.retry, z.next_off = y.next_off,
              z.outstanding = y.outstanding, z.calls = y.calls,
              z.handle = y.handle, z.closing = y.closing, z.finished = y.finished,
              z.state = y.state, z.upload = y.upload,
              z.eof_known => z.eof_at <= z.next_off,
              errors' \in 0..MaxErrors, UNCHANGED <<copy, pos>>,
              Becomes(xf_pump(z, XferWindow), Left(r))
       PROVE  OverInv'
  <2>1. Opens(z, j)
    <3>1. Below(z)
      BY <1>1, <1>11 DEF Fewer, Opens, Below
    <3> QED BY <1>1, <1>11, <3>1 DEF Fewer, Opens, Reports
  <2>2. Kept(z)
    BY <1>3, <1>9, <1>10, <1>11 DEF Kept
  <2> QED BY <1>11, <2>1, <2>2, ReadOn DEF r
<1>12. CASE /\ useful /\ n > 0 /\ Writes(at, r.off, n) /\ pos' = at + n
            /\ Becomes(xf_pump(Took(y, q, n), XferWindow), Left(r)) /\ UNCHANGED errors
  <2> DEFINE z == Took(y, q, n)
  <2>0. n \in Nat /\ n <= q.len /\ q.off + n <= Size /\ r.off = q.off /\ pos' = q.off + n
    BY <1>7, <1>8, <1>12
  <2>1. /\ z \in Xfers /\ z.file_pos = q.off + n /\ z.done = y.done + n
        /\ z.retry = (IF n < q.len /\ Len(y.retry) < XferWindow
                      THEN Append(y.retry, [off |-> q.off + n, len |-> q.len - n])
                      ELSE y.retry)
        /\ z.outstanding = y.outstanding /\ z.next_off = y.next_off
        /\ z.eof_known = y.eof_known /\ z.eof_at = y.eof_at /\ z.calls = y.calls
        /\ z.handle = y.handle /\ z.closing = y.closing /\ z.finished = y.finished
        /\ z.state = y.state /\ z.upload = y.upload
    BY <1>4, <1>9, <2>0, TookIs
  <2> HIDE DEF z
  <2>2. Below(z)
    <3>0. Below(y)
      BY <1>1 DEF Fewer, Opens
    <3>1. \A k \in 1..Len(z.retry) : z.retry[k].off + z.retry[k].len <= z.next_off
      <4>1. \A k \in 1..Len(y.retry) : y.retry[k].off + y.retry[k].len <= y.next_off
        BY <3>0 DEF Below
      <4>2. CASE ~(n < q.len /\ Len(y.retry) < XferWindow)
        BY <2>1, <4>1, <4>2
      <4>3. CASE n < q.len /\ Len(y.retry) < XferWindow
        <5> DEFINE b == [off |-> q.off + n, len |-> q.len - n]
        <5>1. b.off + b.len <= y.next_off
          <6>1. q.off + q.len <= y.next_off /\ q.len \in Nat /\ q.off \in Nat /\ n \in Nat
            BY <1>4, <1>6, <1>9, <2>0, Bounds
          <6> QED BY <6>1
        <5>2. z.retry = Append(y.retry, b)
          BY <2>1, <4>3
        <5>3. b \in [off : Nat, len : Nat]
          BY <1>4, <2>0, Bounds
        <5>4. y.retry \in Seq([off : Nat, len : Nat])
          <6>1. y.retry \in Seq([off : Nat, len : 1..Chunk])
            BY <1>9, XferFields
          <6>2. [off : Nat, len : 1..Chunk] \subseteq [off : Nat, len : Nat]
            BY Bounds
          <6> DEFINE S == [off : Nat, len : 1..Chunk]
                     T == [off : Nat, len : Nat]
                     s == y.retry
          <6>3. s \in Seq(S) /\ S \subseteq T
            BY <6>1, <6>2
          <6> HIDE DEF S, T, s
          <6>4. s \in Seq(T)
            BY <6>3, SeqMonotonic
          <6> QED BY <6>4 DEF T, s
        <5> HIDE DEF b
        <5>5. /\ Len(z.retry) = Len(y.retry) + 1 /\ z.retry[Len(y.retry) + 1] = b
              /\ \A k \in 1..Len(y.retry) : z.retry[k] = y.retry[k]
          BY <5>2, <5>3, <5>4, AppendProperties
        <5>6. Len(y.retry) \in Nat
          BY <5>4
        <5>7. \A k \in 1..Len(z.retry) : k \in 1..Len(y.retry) \/ k = Len(y.retry) + 1
          BY <5>5, <5>6
        <5> QED BY <2>1, <4>1, <5>1, <5>5, <5>7
      <4> QED BY <4>2, <4>3
    <3> QED BY <2>1, <3>0, <3>1 DEF Below
  <2>3. Opens(z, j)
    BY <1>1, <2>1, <2>2 DEF Fewer, Opens, Reports
  <2>4. copy' \in [Offsets -> 0..Size \cup {Missing}]
    <3>1. copy' = [o \in Offsets |-> IF o \in q.off..(q.off + n - 1) THEN q.off + (o - q.off) ELSE copy[o]]
      BY <1>7, <1>12, <2>0 DEF Writes
    <3>2. \A o \in Offsets : o \in q.off..(q.off + n - 1) => q.off + (o - q.off) \in 0..Size
      BY <1>4, <1>10, <2>0
    <3>3. \A o \in Offsets : copy[o] \in 0..Size \cup {Missing}
      BY <1>10
    <3> QED BY <3>1, <3>2, <3>3
  <2>5. Kept(z)
    <3>1. q.off + n \in Nat
      BY <1>4, <2>0
    <3> QED BY <1>10, <1>12, <2>0, <2>1, <2>4, <3>1 DEF Kept
  <2> QED BY <1>12, <2>1, <2>3, <2>5, ReadOn DEF r, z
<1>13. CASE /\ useful /\ n > 0 /\ errors < MaxErrors /\ Becomes(xf_pump(xf_fail(y), XferWindow), Left(r))
            /\ errors' = errors + 1 /\ UNCHANGED <<copy, pos>>
  <2> DEFINE z == xf_fail(y)
  <2>1. /\ z \in Xfers /\ z.file_pos = y.file_pos /\ z.retry = y.retry /\ z.next_off = y.next_off
        /\ z.outstanding = y.outstanding /\ z.calls = y.calls
        /\ z.handle = y.handle /\ z.closing = y.closing /\ z.finished = y.finished
        /\ z.state = y.state /\ z.upload = y.upload /\ z.eof_known = y.eof_known /\ z.eof_at = y.eof_at
    BY <1>9, FailIs
  <2> HIDE DEF z
  <2>2. z.eof_known => z.eof_at <= z.next_off
    BY <1>1, <2>1 DEF Fewer, Opens, Below
  <2>3. errors' \in 0..MaxErrors
    BY <1>10, <1>13
  <2> QED BY <1>11, <1>13, <2>1, <2>2, <2>3 DEF z
<1>14. CASE /\ ~(useful /\ n > 0) /\ Becomes(xf_pump(z3, XferWindow), Left(r))
            /\ UNCHANGED <<copy, pos, errors>>
  <2>0. y.eof_known => y.eof_at <= y.next_off
    BY <1>1 DEF Fewer, Opens, Below
  <2>1. z3 \in {AtEof(y, q.off), xf_fail(y), y}
    BY DEF z3
  <2> HIDE DEF z3
  <2>2. CASE z3 = AtEof(y, q.off)
    <3>1. /\ z3 \in Xfers /\ z3.file_pos = y.file_pos /\ z3.retry = y.retry /\ z3.next_off = y.next_off
          /\ z3.outstanding = y.outstanding /\ z3.calls = y.calls
          /\ z3.handle = y.handle /\ z3.closing = y.closing /\ z3.finished = y.finished
          /\ z3.state = y.state /\ z3.upload = y.upload
          /\ z3.eof_at = (IF y.eof_known /\ y.eof_at <= q.off THEN y.eof_at ELSE q.off)
      BY <1>4, <1>9, <2>2, AtEofIs
    <3>2. z3.eof_known => z3.eof_at <= z3.next_off
      <4>1. q.off <= y.next_off
        BY <1>4, <1>6, <1>9, <1>10, Bounds
      <4> QED BY <2>0, <3>1, <4>1
    <3> QED BY <1>10, <1>11, <1>14, <3>1, <3>2
  <2>3. CASE z3 = xf_fail(y)
    <3>1. /\ z3 \in Xfers /\ z3.file_pos = y.file_pos /\ z3.retry = y.retry /\ z3.next_off = y.next_off
          /\ z3.outstanding = y.outstanding /\ z3.calls = y.calls
          /\ z3.handle = y.handle /\ z3.closing = y.closing /\ z3.finished = y.finished
          /\ z3.state = y.state /\ z3.upload = y.upload /\ z3.eof_known = y.eof_known /\ z3.eof_at = y.eof_at
      BY <1>9, <2>3, FailIs
    <3> QED BY <1>10, <1>11, <1>14, <2>0, <3>1
  <2>4. CASE z3 = y
    BY <1>9, <1>10, <1>11, <1>14, <2>0, <2>4
  <2> QED BY <2>1, <2>2, <2>3, <2>4
<1> QED
  BY <1>2, <1>12, <1>13, <1>14

\* The next answer taken, its request on the list or not.
LEMMA ResponseTaken ==
    ASSUME OverInv, RecvResponse
    PROVE  OverInv'
<1>1. /\ Incoming /\ Head(in).type # "BAD" /\ in' = Tail(in)
      /\ UNCHANGED <<failed, aborted, handles, forgotten>>
  BY DEF RecvResponse
<1>2. CASE \E k \in 1..Len(pend) : pend[k].id = Head(in).id
  <2>1. PICK j \in 1..Len(pend) : pend[j].id = Head(in).id
    BY <1>2
  <2>2. Comes(j)
    BY <1>1, <2>1 DEF Comes
  <2>3. Callback(Head(in))
    BY <1>2 DEF RecvResponse
  <2>4. Asked(Head(in)) = pend[j] /\ pend[j].type \in {"OPEN", "READ", "WRITE", "CLOSE"}
    <3>1. Asked(Head(in)) = pend[j] /\ pend[j] \in Requests(next_id)
      BY <2>2, Knows DEF Known
    <3> QED BY <3>1 DEF Requests
  <2>5. CASE pend[j].type = "OPEN"
    <3>1. xf_opened(Head(in))
      BY <2>3, <2>4, <2>5 DEF Callback
    <3> QED BY <1>1, <2>2, <2>5, <3>1, Opened
  <2>6. CASE pend[j].type = "READ"
    <3>1. xf_read_done(Head(in))
      BY <2>3, <2>4, <2>6 DEF Callback
    <3> QED BY <1>1, <2>2, <2>6, <3>1, Read
  <2>7. CASE pend[j].type = "WRITE"
    <3>1. xf_write_done(Head(in))
      BY <2>3, <2>4, <2>7 DEF Callback
    <3> QED BY <1>1, <2>2, <2>7, <3>1, Wrote
  <2>8. CASE pend[j].type = "CLOSE"
    <3>1. xf_closed(Head(in))
      BY <2>3, <2>4, <2>8 DEF Callback
    <3> QED BY <1>1, <2>2, <2>8, <3>1, Closed
  <2> QED BY <2>4, <2>5, <2>6, <2>7, <2>8
<1>3. CASE ~\E k \in 1..Len(pend) : pend[k].id = Head(in).id
  <2>1. UNCHANGED <<x, pend, next_id, copy, pos, errors>>
    BY <1>3 DEF RecvResponse
  <2>2. /\ TypeOK /\ Numbered /\ Staged /\ HandleHeld /\ Positioned /\ in # <<>> /\ ~failed
        /\ in \in Seq(Responses(next_id))
    BY <1>1 DEF OverInv, Incoming, TypeOK
  <2>3. /\ in' \in Seq(Responses(next_id)) /\ Len(in') = Len(in) - 1 /\ Len(in) \in Nat
        /\ \A m \in 1..Len(in') : in'[m] = in[m + 1]
    BY <1>1, <2>2, HeadTailProperties
  <2>4. \A m \in 1..Len(in') : m + 1 \in 1..Len(in) /\ in'[m] = in[m + 1]
    BY <2>3
  <2>5. TypeOK'
    BY <1>1, <2>1, <2>2, <2>3 DEF TypeOK
  <2>6. Numbered'
    <3>1. Apart(in')
      <4> SUFFICES ASSUME NEW k \in 1..Len(in'), NEW l \in 1..Len(in'), in'[k].id = in'[l].id
                   PROVE  k = l
        BY DEF Apart
      <4>1. k + 1 \in 1..Len(in) /\ l + 1 \in 1..Len(in) /\ in[k + 1].id = in[l + 1].id
        BY <2>4
      <4>2. k + 1 = l + 1
        BY <2>2, <4>1 DEF Numbered, Apart
      <4> QED BY <4>2
    <3>2. Matched(in', pend)
      <4>1. Matched(in, pend)
        BY <2>2 DEF Numbered
      <4> QED BY <2>4, <4>1 DEF Matched
    <3>3. \A k \in 1..Len(in') : in'[k].id = 0 => in'[k].type = "STATUS"
      BY <2>2, <2>4 DEF Numbered
    <3>4. Apart(pend)
      BY <2>2 DEF Numbered
    <3>5. Apart(pend') /\ Apart(in') /\ Matched(in', pend')
      BY <2>1, <3>1, <3>2, <3>4
    <3> QED BY <3>3, <3>5 DEF Numbered, Apart, Matched
  <2>7. Staged'
    <3>1. Stages(x, pend)' = Stages(x, pend) /\ Spoilt(x, pend)' = Spoilt(x, pend) /\ Reports(x)' = Reports(x)
      BY <2>1, Primed
    <3> QED BY <1>1, <2>1, <2>2, <3>1 DEF Staged
  <2>8. HandleHeld'
    <3>1. Moving(x, pend)' = Moving(x, pend) /\ Ended(x, pend)' = Ended(x, pend) /\ Leaky(x)' = Leaky(x)
      BY <2>1, Primed
    <3>2. ASSUME NEW k \in 1..Len(pend) PROVE Held(pend[k], in', handles)
      <4>1. \A types : Answered(pend[k], in', types) <=> Answered(pend[k], in, types)
        <5> TAKE types
        <5>1. ASSUME NEW m \in 1..Len(in'), in'[m].id = pend[k].id, in'[m].type \in types
              PROVE  Answered(pend[k], in, types)
          BY <2>4, <5>1 DEF Answered
        <5>2. ASSUME NEW m \in 1..Len(in), in[m].id = pend[k].id, in[m].type \in types
              PROVE  Answered(pend[k], in', types)
          <6>1. m # 1
            <7>1. Head(in) = in[1]
              BY <2>2
            <7> QED BY <1>3, <5>2, <7>1
          <6>2. m - 1 \in 1..Len(in') /\ (m - 1) + 1 = m
            BY <2>3, <6>1
          <6>3. in'[m - 1] = in[m]
            BY <2>4, <6>2
          <6> QED BY <5>2, <6>2, <6>3 DEF Answered
        <5> QED BY <5>1, <5>2 DEF Answered
      <4>2. Held(pend[k], in, handles)
        BY <2>2 DEF HandleHeld
      <4> QED BY <4>1, <4>2 DEF Held
    <3>3. \A k \in 1..Len(pend') : Held(pend'[k], in', handles')
      BY <1>1, <2>1, <3>2
    <3> QED BY <1>1, <2>1, <2>2, <3>1, <3>3, Primed DEF HandleHeld
  <2>9. Positioned'
    BY <2>1, <2>2 DEF Positioned, Sane, Below
  <2> QED BY <2>5, <2>6, <2>7, <2>8, <2>9 DEF OverInv
<1> QED
  BY <1>2, <1>3

\* An answer that cannot be parsed: its request is gone, and the engine has failed.
LEMMA MalformedTaken ==
    ASSUME OverInv, RecvMalformed
    PROVE  OverInv'
<1>1. /\ Incoming /\ Head(in).type = "BAD" /\ in' = Tail(in) /\ failed' = TRUE
      /\ pend' = Left(Head(in)) /\ forgotten' = forgotten \cup {Head(in).id}
      /\ UNCHANGED <<x, next_id, aborted, copy, pos, handles, errors>>
  BY DEF RecvMalformed
<1>2. /\ TypeOK /\ Numbered /\ Staged /\ HandleHeld /\ Positioned /\ in # <<>> /\ ~failed
      /\ in \in Seq(Responses(next_id)) /\ pend \in Seq(Requests(next_id)) /\ next_id \in Nat
      /\ x \in Xfers
  BY <1>1 DEF OverInv, Incoming, TypeOK
<1>3. Head(in) = in[1] /\ 1 \in 1..Len(in) /\ in[1].type = "BAD" /\ Head(in) \in Responses(next_id)
  <2>1. Len(in) \in Nat /\ Len(in) # 0
    BY <1>2, EmptySeq
  <2>2. Head(in) = in[1] /\ 1 \in 1..Len(in)
    BY <1>2, <2>1
  <2> QED BY <1>1, <1>2, <2>2, ElementOfSeq
<1>4. PICK j \in 1..Len(pend) : pend[j].id = Head(in).id
  <2>1. in[1].id # 0
    BY <1>2, <1>3 DEF Numbered
  <2> QED BY <1>2, <1>3, <2>1 DEF Numbered, Matched
<1>5. pend' = RemoveAt(pend, j)
  BY <1>1, <1>2, <1>4, AtIs
<1>6. /\ pend' \in Seq(Requests(next_id)) /\ Len(pend') = Len(pend) - 1 /\ Len(pend) \in Nat
      /\ \A k \in 1..(Len(pend) - 1) : pend'[k] = IF k < j THEN pend[k] ELSE pend[k + 1]
  <2>1. Len(pend) \in Nat
    BY <1>2
  <2> QED BY <1>2, <1>5, <2>1, Removed
<1> DEFINE Index(k) == IF k < j THEN k ELSE k + 1
<1>7. \A k \in 1..Len(pend') : Index(k) \in 1..Len(pend) /\ pend'[k] = pend[Index(k)]
  BY <1>6
<1>8. \A k, l \in 1..Len(pend') : Index(k) = Index(l) => k = l
  <2> TAKE k, l \in 1..Len(pend')
  <2> DEFINE m == Len(pend')
  <2>1. m \in Int /\ k \in 1..m /\ l \in 1..m /\ j \in Int
    BY <1>6
  <2> HIDE DEF m
  <2> QED BY ONLY <2>1
<1> HIDE DEF Index
<1>9. /\ in' \in Seq(Responses(next_id)) /\ Len(in') = Len(in) - 1 /\ Len(in) \in Nat
      /\ \A m \in 1..Len(in') : in'[m] = in[m + 1]
  BY <1>1, <1>2, HeadTailProperties
<1>10. TypeOK'
  <2>1. forgotten' \subseteq 1..next_id
    <3>1. Head(in).id \in 1..next_id
      <4>1. pend[j] \in Requests(next_id)
        BY <1>2, <1>4, ElementOfSeq
      <4> QED BY <1>4, <4>1 DEF Requests
    <3> QED BY <1>1, <1>2, <3>1 DEF TypeOK
  <2> QED BY <1>1, <1>2, <1>6, <1>9, <2>1 DEF TypeOK
<1>11. Numbered'
  <2>0. \A m \in 1..Len(in') : m + 1 \in 1..Len(in) /\ in'[m] = in[m + 1]
    BY <1>9
  <2>1. Apart(in')
    <3> SUFFICES ASSUME NEW k \in 1..Len(in'), NEW l \in 1..Len(in'), in'[k].id = in'[l].id
                 PROVE  k = l
      BY DEF Apart
    <3>1. k + 1 \in 1..Len(in) /\ l + 1 \in 1..Len(in) /\ in[k + 1].id = in[l + 1].id
      BY <2>0
    <3>2. k + 1 = l + 1
      BY <1>2, <3>1 DEF Numbered, Apart
    <3> QED BY <3>2
  <2>2. Apart(pend')
    <3> SUFFICES ASSUME NEW k \in 1..Len(pend'), NEW l \in 1..Len(pend'), pend'[k].id = pend'[l].id
                 PROVE  k = l
      BY DEF Apart
    <3>1. Index(k) \in 1..Len(pend) /\ Index(l) \in 1..Len(pend) /\ pend[Index(k)].id = pend[Index(l)].id
      BY <1>7
    <3>2. Index(k) = Index(l)
      BY <1>2, <3>1 DEF Numbered, Apart
    <3> QED BY <1>8, <3>2
  <2>3. \A k \in 1..Len(in') : in'[k].id = 0 => in'[k].type = "STATUS"
    BY <1>2, <2>0 DEF Numbered
  <2> QED BY <1>1, <2>1, <2>2, <2>3 DEF Numbered, Apart
<1>12. Staged'
  <2>1. /\ x.state # "IDLE" /\ forgotten = {} /\ Reports(x)
        /\ \/ Opening(x, pend) /\ Len(pend) = 1
           \/ Moving(x, pend) /\ x.outstanding = Len(pend)
           \/ Closing(x, pend) /\ Len(pend) = 1
    BY <1>2, <1>4, StageOf
  <2>2. Len(pend') = 0 => pend' = <<>>
    BY <1>6, EmptySeq
  <2>3. Spoilt(x, pend')
    <3>1. CASE Opening(x, pend) /\ Len(pend) = 1
      <4>1. pend' = <<>> /\ \A k \in 1..Len(pend') : FALSE
        BY <1>6, <2>2, <3>1
      <4>2. Opening(x, pend')
        BY <1>6, <3>1, <4>1 DEF Opening, Only
      <4> QED BY <4>1, <4>2 DEF Spoilt
    <3>2. CASE Closing(x, pend) /\ Len(pend) = 1
      <4>1. pend' = <<>> /\ \A k \in 1..Len(pend') : FALSE
        BY <1>6, <2>2, <3>2
      <4>2. Closing(x, pend')
        BY <1>6, <3>2, <4>1 DEF Closing, Only
      <4> QED BY <4>1, <4>2 DEF Spoilt
    <3>3. CASE Moving(x, pend) /\ x.outstanding = Len(pend)
      <4>1. Moving(x, pend')
        BY <1>7, <3>3 DEF Moving, Only
      <4>2. x.outstanding = Len(pend') + 1
        BY <1>6, <3>3
      <4> QED BY <4>1, <4>2 DEF Spoilt
    <3> QED BY <2>1, <3>1, <3>2, <3>3
  <2>4. Spoilt(x, pend)' /\ Reports(x)'
    BY <1>1, <2>1, <2>3, Primed
  <2>5. ~aborted /\ forgotten' # {}
    BY <1>1, <1>2 DEF Staged
  <2> QED BY <1>1, <2>1, <2>4, <2>5 DEF Staged
<1>13. HandleHeld'
  BY <1>1 DEF HandleHeld
<1>14. Positioned'
  <2>1. \A k \in 1..Len(pend') : Sane(pend'[k], x)
    BY <1>2, <1>7 DEF Positioned
  <2> QED BY <1>1, <1>2, <2>1 DEF Positioned, Sane, Below
<1> QED
  BY <1>10, <1>11, <1>12, <1>13, <1>14 DEF OverInv

-----------------------------------------------------------------------------
(* The application *)

\* A new transfer.
LEMMA NewIs ==
    ASSUME NEW upload \in BOOLEAN, NEW total \in Nat
    PROVE  LET y == NewXfer(upload, total)
           IN  y \in Xfers /\ Below(y) /\ ~AllDone(y) /\ Reports(y)
<1> DEFINE y == NewXfer(upload, total)
<1>1. <<>> \in Seq([off : Nat, len : 1..Chunk]) /\ 0 \in Nat /\ 0 \in 0..XferWindow
  BY Bounds, EmptySeq
<1>2. y \in Xfers
  BY <1>1 DEF NewXfer, Xfers
<1>3. Below(y) /\ ~AllDone(y) /\ Reports(y)
  BY DEF NewXfer, Below, AllDone, Reports
<1> QED
  BY <1>2, <1>3

\* What starting a transfer makes of the state.
LEMMA StartIs ==
    ASSUME OverInv, NEW upload \in BOOLEAN, NEW total \in Nat, Start(upload, total)
    PROVE  LET y == NewXfer(upload, total)
               q == [type |-> "OPEN", off |-> 0, len |-> 0, unit |-> 0]
               new == Request(next_id + 1, q)
           IN  /\ x = Idle /\ pend = <<>> /\ pos = 0 /\ handles = 0 /\ ~aborted /\ ~failed
               /\ y \in Xfers /\ Below(y) /\ ~AllDone(y) /\ Reports(y)
               /\ x' = y /\ next_id' = next_id + 1 /\ pend' = <<new>>
               /\ new.id = next_id + 1 /\ new.type = "OPEN" /\ new \in Requests(next_id + 1)
<1> DEFINE y == NewXfer(upload, total)
           v == Queue(Work(y), "OPEN", 0, 0)
           q == [type |-> "OPEN", off |-> 0, len |-> 0, unit |-> 0]
           new == Request(next_id + 1, q)
<1>1. /\ x.state = "IDLE" /\ ~failed /\ Becomes(v, <<>>)
      /\ UNCHANGED <<failed, aborted, in, copy, pos, handles, errors, forgotten>>
  BY DEF Start
<1>2. /\ TypeOK /\ Numbered /\ Staged /\ HandleHeld /\ Positioned
      /\ in \in Seq(Responses(next_id)) /\ next_id \in Nat /\ pos \in Nat /\ failed = FALSE
  <2>1. \A p \in Offsets : p \in Nat
    BY DEF Offsets
  <2> QED BY <1>1, <2>1 DEF OverInv, TypeOK
<1>3. x = Idle /\ pend = <<>> /\ pos = 0 /\ handles = 0 /\ ~aborted
  BY <1>1, <1>2 DEF Staged
<1>4. y \in Xfers /\ Below(y) /\ ~AllDone(y) /\ Reports(y)
  BY NewIs
<1>5. v.x = y /\ v.reqs = <<q>>
  <2> DEFINE w == Work(y)
  <2>1. w \in Works /\ w.x = y /\ w.reqs = <<>>
    BY <1>2, <1>4, WorkType
  <2> HIDE DEF w, y
  <2>2. 0 \in Nat /\ 0 \in 0..Chunk /\ "OPEN" \in {"OPEN", "READ", "WRITE", "CLOSE"}
    BY Bounds
  <2> DEFINE r == [type |-> "OPEN", off |-> 0, len |-> 0,
                   unit |-> IF "OPEN" = "WRITE" THEN pos + w.read ELSE 0]
  <2>3. /\ Queue(w, "OPEN", 0, 0) =
             [x |-> w.x, dead |-> w.dead, reqs |-> Append(w.reqs, r), read |-> w.read]
        /\ Append(w.reqs, r) \in Seq(Reqs)
    <3>1. pos \in Nat
      BY <1>2
    <3>2. w \in Works
      BY <2>1
    <3> QED BY <2>2, <3>1, <3>2, Queued
  <2>4. r = q
    OBVIOUS
  <2> HIDE DEF r, q
  <2>5. v = Queue(w, "OPEN", 0, 0)
    BY DEF w
  <2> HIDE DEF v
  <2>6. v.x = y /\ v.reqs = Append(<<>>, q)
    BY <2>1, <2>3, <2>4, <2>5
  <2> QED BY <2>6
<1> HIDE DEF v, y
<1>6. x' = y /\ next_id' = next_id + 1 /\ pend' = <<new>>
  <2>1. Len(v.reqs) = 1 /\ v.reqs[1] = q
    BY <1>5
  <2>2. pend' = <<>> \o [k \in 1..1 |-> Request(next_id + k, v.reqs[k])]
    BY <1>1, <2>1 DEF Becomes
  <2>3. [k \in 1..1 |-> Request(next_id + k, v.reqs[k])] = [k \in 1..1 |-> new]
    <3>1. \A k \in 1..1 : Request(next_id + k, v.reqs[k]) = new
      <4> TAKE k \in 1..1
      <4>1. k = 1
        OBVIOUS
      <4> QED BY <2>1, <4>1
    <3> QED BY <3>1
  <2> HIDE DEF new
  <2>4. [k \in 1..1 |-> new] = <<new>>
    OBVIOUS
  <2> QED BY <1>1, <1>5, <2>1, <2>2, <2>3, <2>4 DEF Becomes
<1>7. /\ new.id = next_id + 1 /\ new.type = "OPEN" /\ new \in Requests(next_id + 1)
  <2>1. next_id + 1 \in 1..(next_id + 1) /\ 0 \in Nat /\ 0 \in 0..Chunk
    BY <1>2, Bounds
  <2> QED BY <2>1 DEF Request, Requests
<1> QED
  BY <1>1, <1>3, <1>4, <1>6, <1>7 DEF y, new

\* A transfer started.
LEMMA Started ==
    ASSUME OverInv, NEW upload \in BOOLEAN, NEW total \in Nat, Start(upload, total)
    PROVE  OverInv'
<1> DEFINE y == NewXfer(upload, total)
           q == [type |-> "OPEN", off |-> 0, len |-> 0, unit |-> 0]
           new == Request(next_id + 1, q)
<1>a. /\ x = Idle /\ pend = <<>> /\ pos = 0 /\ handles = 0 /\ ~aborted /\ ~failed
      /\ y \in Xfers /\ Below(y) /\ ~AllDone(y) /\ Reports(y)
      /\ x' = y /\ next_id' = next_id + 1 /\ pend' = <<new>>
      /\ new.id = next_id + 1 /\ new.type = "OPEN" /\ new \in Requests(next_id + 1)
  BY StartIs
<1> HIDE DEF y, new
<1>1. ~failed /\ UNCHANGED <<failed, aborted, in, copy, pos, handles, errors, forgotten>>
  BY DEF Start
<1>2. /\ TypeOK /\ Numbered /\ Staged /\ HandleHeld /\ Positioned
      /\ in \in Seq(Responses(next_id)) /\ next_id \in Nat /\ failed = FALSE
  BY <1>1 DEF OverInv, TypeOK
<1>3. x = Idle /\ pend = <<>> /\ pos = 0 /\ handles = 0 /\ ~aborted
  BY <1>a
<1>4. y \in Xfers /\ Below(y) /\ ~AllDone(y) /\ Reports(y)
  BY <1>a
<1>6. x' = y /\ next_id' = next_id + 1 /\ pend' = <<new>>
  BY <1>a
<1>7. /\ new.id = next_id + 1 /\ new.type = "OPEN" /\ new \in Requests(next_id + 1)
  BY <1>a
<1>8. Len(pend') = 1 /\ pend'[1] = new /\ pend' \in Seq(Requests(next_id + 1)) /\ pend' # <<>>
  BY <1>6, <1>7
<1>9. \A k \in 1..Len(pend') : pend'[k] = new
  BY <1>8
<1>10. in \in Seq(Responses(next_id + 1)) /\ 1..next_id \subseteq 1..(next_id + 1)
  <2>1. Responses(next_id) \subseteq Responses(next_id + 1)
    <3>1. 0..next_id \subseteq 0..(next_id + 1)
      BY <1>2
    <3> QED BY <3>1 DEF Responses
  <2> QED BY <1>2, <2>1, SeqMonotonic
<1>11. TypeOK'
  <2>1. next_id' \in Nat
    BY <1>2, <1>6
  <2> QED BY <1>1, <1>2, <1>4, <1>6, <1>8, <1>10, <2>1 DEF TypeOK
<1>12. Matched(in, pend) /\ \A k \in 1..Len(in) : in[k].id = 0
  <2>1. Matched(in, pend)
    BY <1>2, <1>1 DEF Numbered
  <2> QED BY <1>3, <2>1 DEF Matched
<1>13. Numbered'
  <2>1. Apart(pend') /\ Matched(in', pend')
    BY <1>1, <1>9, <1>8, <1>12 DEF Apart, Matched
  <2> QED BY <1>1, <1>2, <2>1 DEF Numbered, Apart, Matched
<1>14. Staged'
  <2>1. Opening(y, pend')
    <3>1. /\ ~y.handle /\ ~y.closing /\ ~y.failed /\ y.finished = y.cancelled /\ y.outstanding = 0
      BY DEF y, NewXfer
    <3> QED BY <1>4, <1>7, <1>8, <1>9, <3>1 DEF Opening, Only
  <2>2. Stages(x', pend') /\ Reports(x') /\ x'.state # "IDLE"
    <3>1. y.state = "RUNNING"
      BY DEF y, NewXfer
    <3> QED BY <1>4, <1>6, <1>8, <2>1, <3>1 DEF Stages
  <2>3. forgotten = {}
    BY <1>1, <1>2 DEF Staged
  <2> QED BY <1>1, <1>2, <2>2, <2>3, Primed DEF Staged
<1>15. HandleHeld'
  <2>1. ~y.handle /\ ~y.finished
    BY DEF y, NewXfer
  <2>2. ~Moving(x', pend') /\ ~Ended(x', pend')
    BY <1>6, <2>1 DEF Moving, Ended
  <2>3. \A k \in 1..Len(pend') : Held(pend'[k], in', handles')
    <3>1. next_id + 1 # 0
      BY <1>2
    <3>2. \A types : ~Answered(new, in, types)
      BY <1>7, <1>12, <3>1 DEF Answered
    <3>3. Held(new, in, 0)
      BY <1>7, <3>2 DEF Held
    <3> QED BY <1>1, <1>3, <1>9, <3>3
  <2> QED BY <2>2, <2>3, Primed DEF HandleHeld
<1>16. Positioned'
  <2>1. y.file_pos = 0
    BY DEF y, NewXfer
  <2>2. \A k \in 1..Len(pend') : Sane(pend'[k], x')
    BY <1>7, <1>9 DEF Sane
  <2>3. pos' <= Size /\ Below(x') /\ pos' = x'.file_pos
    BY <1>1, <1>3, <1>4, <1>6, <2>1, Bounds
  <2> QED BY <2>2, <2>3 DEF Positioned, Sane, Below
<1> QED
  BY <1>11, <1>13, <1>14, <1>15, <1>16 DEF OverInv

\* The handlers that queue nothing.
LEMMA NoQueue ==
    ASSUME NEW v, v.reqs = <<>>, NEW S, NEW left \in Seq(S), Becomes(v, left), next_id \in Nat
    PROVE  x' = v.x /\ pend' = left /\ next_id' = next_id
<1> DEFINE new == [k \in 1..Len(v.reqs) |-> Request(next_id + k, v.reqs[k])]
<1>1. x' = v.x /\ pend' = left \o new /\ next_id' = next_id + Len(v.reqs)
  BY DEF Becomes
<1>2. Len(v.reqs) = 0
  OBVIOUS
<1>3. new = <<>>
  BY <1>2
<1> HIDE DEF new
<1>4. left \o new = left
  BY <1>3
<1> QED
  BY <1>1, <1>2, <1>4

\* What a transfer becomes without an answer, the rest as it was.
LEMMA Alone ==
    ASSUME OverInv, x.state # "IDLE", x' \in Xfers, Reports(x'), x'.state # "IDLE",
           UNCHANGED <<pend, next_id, failed, aborted, in, copy, pos, handles, errors, forgotten>>,
           x'.upload = x.upload, x'.next_off = x.next_off, x'.file_pos = x.file_pos,
           x'.retry = x.retry, x'.eof_known = x.eof_known, x'.eof_at = x.eof_at,
           ~failed => Stages(x', pend) /\ (Moving(x', pend) => Moving(x, pend)) /\ ~Ended(x', pend),
           failed /\ ~aborted => Spoilt(x', pend),
           failed /\ aborted /\ forgotten = {} => x'.finished
    PROVE  OverInv'
<1>1. TypeOK /\ Numbered /\ Staged /\ HandleHeld /\ Positioned
  BY DEF OverInv
<1>2. TypeOK'
  BY <1>1 DEF TypeOK
<1>3. Numbered'
  BY <1>1 DEF Numbered, Apart, Matched
<1>4. Staged'
  BY <1>1, Primed DEF Staged
<1>5. HandleHeld'
  BY <1>1, Primed DEF HandleHeld
<1>6. Positioned'
  BY <1>1 DEF Positioned, Sane, Below
<1> QED
  BY <1>2, <1>3, <1>4, <1>5, <1>6 DEF OverInv

\* A handler of an engine that has failed queues nothing.
Shut(y) == [[y EXCEPT !.closing = TRUE] EXCEPT !.close_done = TRUE]
Dies(v, w, y) ==
    /\ v.reqs = w.reqs /\ v.dead = TRUE /\ Shut(y) \in Xfers
    /\ v.x = IF Over(y) /\ y.handle /\ ~y.closing THEN Finish(Shut(y))
             ELSE IF Over(y) /\ ~Waits(y) THEN Finish(y) ELSE y

\* xf_maybe_finish once the engine has failed.
LEMMA DeadIs ==
    ASSUME NEW y \in Xfers, NEW w \in Works, w.x = y, w.dead = TRUE
    PROVE  Dies(xf_maybe_finish(w), w, y)
<1> DEFINE v == xf_maybe_finish(w)
           c == [[y EXCEPT !.closing = TRUE] EXCEPT !.close_done = TRUE]
           c1 == [y EXCEPT !.closing = TRUE, !.close_done = w.dead]
<1>1. c \in Xfers
  <2>1. [y EXCEPT !.closing = TRUE] \in Xfers
    BY XferEdits
  <2> QED BY <2>1, XferEdits
<1>2. c1 = c
  OBVIOUS
<1>3. v = IF Over(y) /\ y.handle /\ ~y.closing THEN [w EXCEPT !.x = Finish(c1)]
          ELSE IF Over(y) /\ ~Waits(y) THEN [w EXCEPT !.x = Finish(y)] ELSE w
  BY DEF xf_maybe_finish
<1> HIDE DEF v, c, c1
<1>4. \A z : [w EXCEPT !.x = z] = [x |-> z, dead |-> w.dead, reqs |-> w.reqs, read |-> w.read]
  BY WorkEdit
<1>5. \A z : [w EXCEPT !.x = z].x = z /\ [w EXCEPT !.x = z].reqs = w.reqs /\ [w EXCEPT !.x = z].dead = TRUE
  BY <1>4
<1>6. v.reqs = w.reqs /\ v.dead = TRUE
  BY <1>3, <1>5
<1>7. v.x = IF Over(y) /\ y.handle /\ ~y.closing THEN Finish(c)
            ELSE IF Over(y) /\ ~Waits(y) THEN Finish(y) ELSE y
  BY <1>2, <1>3, <1>5
<1> QED
  BY <1>1, <1>6, <1>7 DEF v, c, Dies, Shut

\* The transfer cancelled.
LEMMA Cancels ==
    ASSUME OverInv, sftp_xfer_cancel
    PROVE  OverInv'
<1> DEFINE y == [x EXCEPT !.cancelled = TRUE]
           w == Work(y)
           v == xf_maybe_finish(w)
<1>1. /\ x.state = "RUNNING" /\ ~x.finished /\ ~x.cancelled /\ Becomes(v, pend)
      /\ UNCHANGED <<failed, aborted, in, copy, pos, handles, errors, forgotten>>
  BY DEF sftp_xfer_cancel
<1>2. /\ TypeOK /\ Numbered /\ Staged /\ HandleHeld /\ Positioned /\ next_id \in Nat
      /\ pend \in Seq(Requests(next_id)) /\ failed \in BOOLEAN /\ x \in Xfers /\ Below(x)
  BY DEF OverInv, TypeOK, Positioned
<1>3. y \in Xfers
  BY <1>2, XferEdits
<1>4. /\ y.cancelled /\ y.failed = x.failed /\ y.handle = x.handle /\ y.closing = x.closing
      /\ y.close_done = x.close_done /\ y.finished = x.finished /\ y.state = x.state
      /\ y.calls = x.calls /\ y.upload = x.upload /\ y.next_off = x.next_off
      /\ y.outstanding = x.outstanding /\ y.file_pos = x.file_pos /\ y.retry = x.retry
      /\ y.eof_known = x.eof_known /\ y.eof_at = x.eof_at /\ y.total = x.total
      /\ y.local_eof = x.local_eof
  BY <1>2 DEF Xfers
<1>5. w \in Works /\ w.x = y /\ w.dead = failed /\ w.reqs = <<>>
  <2> HIDE DEF y
  <2>1. w = [x |-> y, dead |-> failed, reqs |-> <<>>, read |-> 0]
    BY DEF Work
  <2>2. <<>> \in Seq(Reqs) /\ 0 \in Nat
    BY EmptySeq
  <2> QED BY <1>2, <1>3, <2>1, <2>2 DEF Works
<1> HIDE DEF y, w
<1>6. Reports(x) /\ x.state # "IDLE" /\ x.calls = 0 /\ Reports(y)
  BY <1>1, <1>2, <1>4 DEF Staged, Reports
<1>7. ASSUME NEW z \in Xfers, v.reqs = <<>>, v.x = z, Reported(z, y) \/ z = y,
             ~failed => Stages(z, pend) /\ (Moving(z, pend) => Moving(x, pend)) /\ ~Ended(z, pend),
             failed /\ ~aborted => Spoilt(z, pend),
             failed /\ aborted /\ forgotten = {} => z.finished
      PROVE  OverInv'
  <2>1. x' = z /\ pend' = pend /\ next_id' = next_id
    <3> HIDE DEF v
    <3> QED BY <1>1, <1>2, <1>7, NoQueue
  <2>2. Reports(z) /\ z.state # "IDLE"
    <3>1. CASE z = y
      BY <1>4, <1>6, <3>1
    <3>2. CASE Reported(z, y)
      <4>1. z.finished /\ z.calls = y.calls + 1 /\ z.state \in {"DONE", "FAILED", "CANCELLED"}
        BY <3>2 DEF Reported
      <4>2. z.calls = 1
        BY <1>4, <1>6, <4>1
      <4> QED BY <4>1, <4>2 DEF Reports
    <3> QED BY <1>7, <3>1, <3>2
  <2>3. /\ z.upload = x.upload /\ z.next_off = x.next_off /\ z.file_pos = x.file_pos
        /\ z.retry = x.retry /\ z.eof_known = x.eof_known /\ z.eof_at = x.eof_at
    BY <1>4, <1>7 DEF Reported
  <2> QED BY <1>1, <1>6, <1>7, <2>1, <2>2, <2>3, Alone
<1>8. ASSUME Opening(x, pend)
      PROVE  v.reqs = <<>> /\ Reported(v.x, y) /\ v.x \in Xfers /\ Opening(v.x, pend)
  <2>1. Over(y) /\ ~Waits(y) /\ ~y.handle
    BY <1>1, <1>4, <1>8 DEF Opening, Over, Waits
  <2>2. v.reqs = w.reqs /\ v.x = Finish(y)
    BY <1>5, <2>1, OnlyReports
  <2> HIDE DEF v
  <2>3. Reported(v.x, y)
    BY <1>3, <2>2, Finishing
  <2>4. AllDone(v.x) => AllDone(x)
    BY <1>4, <2>3 DEF AllDone, Reported
  <2>5. Opening(v.x, pend)
    BY <1>4, <1>8, <2>3, <2>4 DEF Opening, Reported
  <2> QED BY <1>5, <2>2, <2>3, <2>5 DEF Reported
<1>9. ASSUME Moving(x, pend), x.outstanding > 0
      PROVE  v.reqs = <<>> /\ v.x = y /\ Moving(y, pend) /\ ~Ended(y, pend)
  <2>1. ~Over(y)
    BY <1>4, <1>9 DEF Over
  <2>2. v = w
    BY <1>5, <2>1 DEF xf_maybe_finish
  <2>3. Moving(y, pend)
    BY <1>4, <1>9 DEF Moving
  <2> QED BY <1>5, <2>2, <2>3 DEF Moving, Ended
<1>10. ASSUME Closing(x, pend)
       PROVE  v.reqs = <<>> /\ v.x = y /\ Closing(y, pend) /\ ~Moving(y, pend) /\ ~Ended(y, pend)
  <2>1. y.closing /\ Waits(y)
    BY <1>4, <1>10 DEF Closing, Waits
  <2>2. v.reqs = w.reqs /\ v.x = y
    BY <1>5, <2>1, OnlyReports
  <2>3. Closing(y, pend)
    BY <1>4, <1>10 DEF Closing
  <2> QED BY <1>5, <2>2, <2>3 DEF Closing, Moving, Ended
<1>11. Len(pend) \in Nat
  BY <1>2
<1>12. CASE ~failed
  <2>1. Stages(x, pend) /\ ~Ended(x, pend)
    BY <1>1, <1>2, <1>12 DEF Staged, Ended
  <2>2. CASE Opening(x, pend) /\ Len(pend) = 1
    <3>1. v.reqs = <<>> /\ Reported(v.x, y) /\ v.x \in Xfers /\ Opening(v.x, pend)
      BY <1>8, <2>2
    <3>2. Stages(v.x, pend) /\ ~Moving(v.x, pend) /\ ~Ended(v.x, pend)
      <4>1. pend # <<>>
        BY <2>2
      <4> QED BY <2>2, <3>1, <4>1 DEF Stages, Opening, Moving, Ended
    <3> HIDE DEF v
    <3> QED BY <1>7, <1>12, <3>1, <3>2
  <2>3. CASE Moving(x, pend) /\ x.outstanding = Len(pend) /\ pend # <<>>
    <3>1. x.outstanding > 0
      <4>1. Len(pend) # 0
        BY <1>2, <2>3, EmptySeq
      <4> QED BY <1>11, <2>3, <4>1
    <3>2. v.reqs = <<>> /\ v.x = y /\ Moving(y, pend) /\ ~Ended(y, pend)
      BY <1>9, <2>3, <3>1
    <3>3. Stages(y, pend)
      BY <1>4, <2>3, <3>2 DEF Stages
    <3> HIDE DEF v
    <3> QED BY <1>3, <1>7, <1>12, <2>3, <3>2, <3>3
  <2>4. CASE Closing(x, pend) /\ Len(pend) = 1
    <3>1. v.reqs = <<>> /\ v.x = y /\ Closing(y, pend) /\ ~Moving(y, pend) /\ ~Ended(y, pend)
      BY <1>10, <2>4
    <3>2. Stages(y, pend)
      BY <2>4, <3>1 DEF Stages
    <3> HIDE DEF v
    <3> QED BY <1>3, <1>7, <1>12, <3>1, <3>2
  <2> QED BY <2>1, <2>2, <2>3, <2>4 DEF Stages
<1>13. CASE failed /\ ~aborted
  <2>1. Spoilt(x, pend)
    BY <1>1, <1>2, <1>13 DEF Staged
  <2>2. CASE Opening(x, pend) /\ pend = <<>>
    <3>1. v.reqs = <<>> /\ Reported(v.x, y) /\ v.x \in Xfers /\ Opening(v.x, pend)
      BY <1>8, <2>2
    <3>2. Spoilt(v.x, pend)
      BY <2>2, <3>1 DEF Spoilt
    <3> HIDE DEF v
    <3> QED BY <1>7, <1>13, <3>1, <3>2
  <2>3. CASE Moving(x, pend) /\ x.outstanding = Len(pend) + 1
    <3>1. x.outstanding > 0
      BY <1>11, <2>3
    <3>2. v.reqs = <<>> /\ v.x = y /\ Moving(y, pend)
      BY <1>9, <2>3, <3>1
    <3>3. Spoilt(y, pend)
      BY <1>4, <2>3, <3>2 DEF Spoilt
    <3> HIDE DEF v
    <3> QED BY <1>3, <1>7, <1>13, <3>2, <3>3
  <2>4. CASE Closing(x, pend) /\ pend = <<>>
    <3>1. v.reqs = <<>> /\ v.x = y /\ Closing(y, pend)
      BY <1>10, <2>4
    <3>2. Spoilt(y, pend)
      BY <2>4, <3>1 DEF Spoilt
    <3> HIDE DEF v
    <3> QED BY <1>3, <1>7, <1>13, <3>1, <3>2
  <2> QED BY <2>1, <2>2, <2>3, <2>4 DEF Spoilt
<1>14. CASE failed /\ aborted
  <2> DEFINE c == Shut(y)
  <2>1. /\ v.reqs = w.reqs /\ c \in Xfers
        /\ v.x = IF Over(y) /\ y.handle /\ ~y.closing THEN Finish(c)
                 ELSE IF Over(y) /\ ~Waits(y) THEN Finish(y) ELSE y
    <3>1. w \in Works /\ w.x = y /\ w.dead = TRUE
      BY <1>2, <1>5, <1>14
    <3> QED BY <1>3, <3>1, DeadIs DEF Dies
  <2>2. forgotten # {}
    BY <1>1, <1>2, <1>14 DEF Staged
  <2> HIDE DEF v
  <2>3. CASE v.x = Finish(c)
    <3>1. /\ c.calls = y.calls /\ c.upload = y.upload /\ c.next_off = y.next_off
          /\ c.file_pos = y.file_pos /\ c.retry = y.retry /\ c.eof_known = y.eof_known
          /\ c.eof_at = y.eof_at
      BY <1>3 DEF Xfers, Shut
    <3> HIDE DEF c
    <3>2. Reported(v.x, c)
      BY <2>1, <2>3, Finishing
    <3>3. x' = v.x /\ pend' = pend /\ next_id' = next_id
      BY <1>1, <1>2, <1>5, <2>1, NoQueue
    <3>4. Reports(v.x) /\ v.x.state # "IDLE"
      BY <1>4, <1>6, <3>1, <3>2 DEF Reports, Reported
    <3>5. /\ v.x.upload = x.upload /\ v.x.next_off = x.next_off /\ v.x.file_pos = x.file_pos
          /\ v.x.retry = x.retry /\ v.x.eof_known = x.eof_known /\ v.x.eof_at = x.eof_at
          /\ v.x \in Xfers
      BY <1>4, <3>1, <3>2 DEF Reported
    <3> QED BY <1>1, <1>6, <1>14, <2>2, <3>3, <3>4, <3>5, Alone
  <2>4. CASE v.x = Finish(y)
    <3>1. Reported(v.x, y)
      BY <1>3, <2>4, Finishing
    <3>2. v.x \in Xfers
      BY <3>1 DEF Reported
    <3> QED BY <1>5, <1>7, <1>14, <2>1, <2>2, <3>1, <3>2
  <2>5. CASE v.x = y
    BY <1>3, <1>5, <1>7, <1>14, <2>1, <2>2, <2>5
  <2> QED BY <2>1, <2>3, <2>4, <2>5
<1> QED
  BY <1>2, <1>12, <1>13, <1>14

\* What a callback that tells the loss leaves of the transfer y.
Rest5(z, y) ==
    /\ z.upload = y.upload /\ z.next_off = y.next_off /\ z.file_pos = y.file_pos
    /\ z.retry = y.retry /\ z.eof_known = y.eof_known /\ z.eof_at = y.eof_at
Bears(z, y, q) ==
    /\ z \in Xfers /\ Rest5(z, y) /\ z.handle = y.handle /\ z.closing = y.closing
    /\ z.finished = y.finished /\ z.calls = y.calls /\ z.state = y.state
    /\ z.outstanding = IF q.type \in Blocks THEN y.outstanding - 1 ELSE y.outstanding
    /\ z.failed \/ z.cancelled
    /\ q.type = "CLOSE" => z.close_done

\* The loss of a request is this, then xf_maybe_finish.
LEMMA BearsLoss ==
    ASSUME NEW y \in Xfers, NEW q, q.type \in {"OPEN", "READ", "WRITE", "CLOSE"},
           q.type \in Blocks => y.outstanding > 0
    PROVE  \E z : /\ Bears(z, y, q)
                  /\ Lost(y, q) = xf_maybe_finish([Work(z) EXCEPT !.dead = TRUE]).x
<1> DEFINE b == Back(y, q)
           t == IF y.failed \/ y.cancelled THEN b ELSE xf_fail(b)
           z == CASE q.type = "OPEN"  -> xf_fail(y)
                  [] q.type = "CLOSE" -> [t EXCEPT !.close_done = TRUE]
                  [] OTHER -> t
<1>1. Lost(y, q) = xf_maybe_finish([Work(z) EXCEPT !.dead = TRUE]).x
  BY DEF Lost
<1>2. /\ b \in Xfers /\ Rest5(b, y) /\ b.handle = y.handle /\ b.closing = y.closing
      /\ b.finished = y.finished /\ b.calls = y.calls /\ b.state = y.state
      /\ b.outstanding = (IF q.type \in Blocks THEN y.outstanding - 1 ELSE y.outstanding)
      /\ b.failed = y.failed /\ b.cancelled = y.cancelled
  <2>1. CASE q.type \notin Blocks
    <3>1. b = y
      BY <2>1 DEF Back, Blocks
    <3> HIDE DEF b
    <3> QED BY <2>1, <3>1 DEF Rest5
  <2>2. CASE q.type \in Blocks
    <3> DEFINE n == y.outstanding - 1
    <3>1. n \in 0..XferWindow
      <4>1. y.outstanding \in 0..XferWindow /\ XferWindow \in Nat
        BY XferFields, Bounds
      <4> QED BY <2>2, <4>1
    <3>2. b = [y EXCEPT !.outstanding = n]
      BY <2>2 DEF Back, Blocks
    <3> HIDE DEF n
    <3>3. b \in Xfers
      BY <3>1, <3>2, XferEdits
    <3>4. /\ Rest5(b, y) /\ b.handle = y.handle /\ b.closing = y.closing
          /\ b.finished = y.finished /\ b.calls = y.calls /\ b.state = y.state
          /\ b.outstanding = n
          /\ b.failed = y.failed /\ b.cancelled = y.cancelled
      <4> HIDE DEF b
      <4> QED BY <3>2 DEF Rest5, Xfers
    <3> HIDE DEF b
    <3> QED BY <2>2, <3>3, <3>4 DEF n
  <2> QED BY <2>1, <2>2
<1> HIDE DEF b
<1>3. /\ t \in Xfers /\ Rest5(t, b) /\ t.handle = b.handle /\ t.closing = b.closing
      /\ t.finished = b.finished /\ t.calls = b.calls /\ t.state = b.state
      /\ t.outstanding = b.outstanding /\ (t.failed \/ t.cancelled)
  <2>1. CASE y.failed \/ y.cancelled
    <3>1. t = b
      BY <2>1
    <3> HIDE DEF t
    <3> QED BY <1>2, <2>1, <3>1 DEF Rest5
  <2>2. CASE ~(y.failed \/ y.cancelled)
    <3>1. t = xf_fail(b)
      BY <2>2
    <3> HIDE DEF t
    <3> QED BY <1>2, <3>1, FailIs DEF Rest5
  <2> QED BY <2>1, <2>2
<1> HIDE DEF t
<1>4. Bears(z, y, q)
  <2>1. CASE q.type = "OPEN"
    <3>1. z = xf_fail(y) /\ q.type \notin Blocks
      BY <2>1 DEF Blocks
    <3> HIDE DEF z
    <3> QED BY <2>1, <3>1, FailIs DEF Bears, Rest5
  <2>2. CASE q.type = "CLOSE"
    <3>1. z = [t EXCEPT !.close_done = TRUE]
      BY <2>2
    <3>2. z \in Xfers
      <4> HIDE DEF z
      <4> QED BY <1>3, <3>1, XferEdits
    <3>3. /\ Rest5(z, t) /\ z.handle = t.handle /\ z.closing = t.closing /\ z.close_done
          /\ z.finished = t.finished /\ z.calls = t.calls /\ z.state = t.state
          /\ z.outstanding = t.outstanding /\ z.failed = t.failed /\ z.cancelled = t.cancelled
      <4> HIDE DEF z
      <4> QED BY <1>3, <3>1 DEF Rest5, Xfers
    <3> HIDE DEF z
    <3> QED BY <1>2, <1>3, <2>2, <3>2, <3>3 DEF Bears, Rest5, Blocks
  <2>3. CASE q.type \in Blocks
    <3>1. z = t /\ q.type # "CLOSE"
      BY <2>3 DEF Blocks
    <3> HIDE DEF z
    <3> QED BY <1>2, <1>3, <2>3, <3>1 DEF Bears, Rest5
  <2> QED BY <2>1, <2>2, <2>3 DEF Blocks
<1> HIDE DEF z
<1> QED
  BY <1>1, <1>4

\* Whether the transfer ends with a request that is lost.
Loses(u, y, q) ==
    /\ u \in Xfers /\ Rest5(u, y) /\ Reports(u) /\ u.state # "IDLE"
    /\ u.state = "DONE" => y.state = "DONE"
    /\ q.type \in Blocks =>
          /\ u.outstanding = y.outstanding - 1
          /\ u.outstanding > 0 =>
                u.handle = y.handle /\ u.closing = y.closing /\ u.finished = y.finished
          /\ u.outstanding = 0 /\ y.handle /\ ~y.closing => u.finished
    /\ q.type = "OPEN" /\ y.outstanding = 0 /\ ~y.handle => u.finished
    /\ q.type = "CLOSE" /\ y.outstanding = 0 /\ y.closing => u.finished

\* What the loss of one request makes of a transfer.
LEMMA LossIs ==
    ASSUME NEW y \in Xfers, NEW q, q.type \in {"OPEN", "READ", "WRITE", "CLOSE"},
           q.type \in Blocks => y.outstanding > 0, Reports(y), y.state # "IDLE"
    PROVE  Loses(Lost(y, q), y, q)
<1>1. PICK z : /\ Bears(z, y, q)
               /\ Lost(y, q) = xf_maybe_finish([Work(z) EXCEPT !.dead = TRUE]).x
  BY BearsLoss
<1> DEFINE w == [Work(z) EXCEPT !.dead = TRUE]
           u == xf_maybe_finish(w).x
<1>2. z \in Xfers
  BY <1>1 DEF Bears
<1>3. w \in Works /\ w.x = z /\ w.dead = TRUE
  <2> DEFINE e == <<>>
             a == [x |-> z, dead |-> failed, reqs |-> e, read |-> 0]
  <2>1. w = [a EXCEPT !.dead = TRUE]
    BY DEF Work
  <2>2. e \in Seq(Reqs) /\ 0 \in Nat
    BY EmptySeq
  <2> HIDE DEF w, e
  <2>3. w = [x |-> z, dead |-> TRUE, reqs |-> e, read |-> 0]
    BY <2>1
  <2> QED BY <1>2, <2>2, <2>3 DEF Works
<1> HIDE DEF w
<1>4. /\ Shut(z) \in Xfers
      /\ u = IF Over(z) /\ z.handle /\ ~z.closing THEN Finish(Shut(z))
             ELSE IF Over(z) /\ ~Waits(z) THEN Finish(z) ELSE z
  BY <1>2, <1>3, DeadIs DEF Dies
<1>5. /\ Rest5(Shut(z), z) /\ Shut(z).calls = z.calls /\ Shut(z).outstanding = z.outstanding
  BY <1>2 DEF Rest5, Shut, Xfers
<1>6. u = z \/ (~z.finished /\ Reported(u, z)) \/ (~z.finished /\ Reported(u, Shut(z)))
  <2>1. Over(z) => ~z.finished
    BY DEF Over
  <2> HIDE DEF u
  <2> QED BY <1>2, <1>4, <2>1, Finishing
<1>7. Over(z) /\ ~(z.handle /\ z.closing /\ ~z.close_done) => u.finished
  <2>1. Over(z) /\ z.handle /\ ~z.closing => u.finished
    <3>1. Finish(Shut(z)).finished
      BY <1>4, Finishing DEF Reported
    <3> HIDE DEF u
    <3> QED BY <1>4, <3>1
  <2>2. Over(z) /\ ~(z.handle /\ ~z.closing) /\ ~(z.handle /\ z.closing /\ ~z.close_done) => u.finished
    <3>1. Finish(z).finished
      BY <1>2, Finishing DEF Reported
    <3> HIDE DEF u
    <3> QED BY <1>4, <3>1 DEF Waits
  <2> QED BY <2>1, <2>2
<1> HIDE DEF u
<1>8. u \in Xfers /\ Rest5(u, z) /\ Reports(u) /\ u.state # "IDLE" /\ u.outstanding = z.outstanding
  <2>1. Reports(z) /\ z.state # "IDLE"
    BY <1>1 DEF Bears, Reports
  <2>2. CASE u = z
    BY <1>2, <2>1, <2>2 DEF Rest5
  <2>3. CASE ~z.finished /\ Reported(u, z)
    <3>1. z.calls = 0
      BY <2>1, <2>3 DEF Reports
    <3> QED BY <2>3, <3>1 DEF Reports, Reported, Rest5
  <2>4. CASE ~z.finished /\ Reported(u, Shut(z))
    <3>1. z.calls = 0
      BY <2>1, <2>4 DEF Reports
    <3> QED BY <1>5, <2>4, <3>1 DEF Reports, Reported, Rest5
  <2> QED BY <1>6, <2>2, <2>3, <2>4
<1>9. Rest5(u, y)
  BY <1>1, <1>8 DEF Bears, Rest5
<1>10. z.finished => u.finished
  BY <1>6
<1>11. z.outstanding = 0 => z.finished \/ Over(z)
  BY <1>1 DEF Bears, Over
<1>12. ASSUME q.type \in Blocks
       PROVE  /\ u.outstanding = y.outstanding - 1
              /\ (u.outstanding > 0 =>
                     u.handle = y.handle /\ u.closing = y.closing /\ u.finished = y.finished)
              /\ (u.outstanding = 0 /\ y.handle /\ ~y.closing => u.finished)
  <2>1. z.outstanding = y.outstanding - 1
    BY <1>1, <1>12 DEF Bears
  <2>2. u.outstanding > 0 => u = z
    <3>1. u.outstanding > 0 => z.outstanding # 0
      BY <1>8
    <3>2. z.outstanding # 0 => ~Over(z)
      BY DEF Over
    <3> QED BY <1>4, <3>1, <3>2
  <2>3. z.handle = y.handle /\ z.closing = y.closing /\ z.finished = y.finished
    BY <1>1 DEF Bears
  <2>4. u.outstanding = 0 /\ y.handle /\ ~y.closing => u.finished
    BY <1>7, <1>8, <1>10, <1>11, <2>3
  <2> QED BY <1>8, <2>1, <2>2, <2>3, <2>4
<1>13. ASSUME q.type = "OPEN", y.outstanding = 0, ~y.handle PROVE u.finished
  <2>1. z.outstanding = 0 /\ ~z.handle
    BY <1>1, <1>13 DEF Bears, Blocks
  <2> QED BY <1>7, <1>10, <1>11, <2>1
<1>14. ASSUME q.type = "CLOSE", y.outstanding = 0, y.closing PROVE u.finished
  <2>1. z.outstanding = 0 /\ z.close_done
    BY <1>1, <1>14 DEF Bears, Blocks
  <2> QED BY <1>7, <1>10, <1>11, <2>1
<1>15. u.state = "DONE" => y.state = "DONE"
  <2>1. z.state = y.state /\ (z.failed \/ z.cancelled)
    BY <1>1 DEF Bears
  <2>2. Shut(z).failed = z.failed /\ Shut(z).cancelled = z.cancelled
    BY <1>2 DEF Shut, Xfers
  <2>3. Reported(u, z) => u.state # "DONE"
    BY <2>1 DEF Reported
  <2>4. Reported(u, Shut(z)) => u.state # "DONE"
    BY <2>1, <2>2 DEF Reported
  <2> QED BY <1>6, <2>1, <2>3, <2>4
<1>16. Loses(u, y, q)
  BY <1>8, <1>9, <1>12, <1>13, <1>14, <1>15 DEF Loses
<1> QED
  BY <1>1, <1>16 DEF u, w

\* The requests lost one after the other.
LEMMA BereftIs ==
    ASSUME NEW f \in [0..Len(pend) -> Xfers], f[0] = x, Len(pend) \in Nat,
           \A k \in 1..Len(pend) : f[k] = Lost(f[k - 1], pend[k])
    PROVE  Bereft = f[Len(pend)]
<1> DEFINE N == Len(pend)
           Turn(k, w) == Lost(w, pend[k])
           Def(g) == [k \in 0..N |-> IF k = 0 THEN x ELSE Turn(k, g[k - 1])]
           told == CHOOSE g : g = Def(g)
<1>0. N \in Nat
  OBVIOUS
<1>1. f \in [0..N -> Xfers] /\ f[0] = x /\ \A k \in 1..N : f[k] = Turn(k, f[k - 1])
  OBVIOUS
<1>2. Bereft = told[N]
  BY Zenon DEF Bereft
<1> HIDE DEF N, Turn
<1>3. f = Def(f)
  <2>1. \A k \in 0..N : k = 0 \/ k \in 1..N
    BY <1>0
  <2>2. f = [k \in 0..N |-> f[k]]
    BY <1>1
  <2>3. \A k \in 0..N : f[k] = IF k = 0 THEN x ELSE Turn(k, f[k - 1])
    BY <1>0, <1>1, <2>1
  <2> QED BY <2>2, <2>3
<1>4. told = Def(told)
  BY <1>3, Zenon
<1> HIDE DEF told
<1>5. \A k \in 0..N : told[k] = IF k = 0 THEN x ELSE Turn(k, told[k - 1])
  BY <1>4
<1> DEFINE S == {k \in 0..N : told[k] = f[k]}
<1>6. 0 \in S
  BY <1>0, <1>1, <1>5
<1>7. ASSUME NEW k \in 0..(N - 1), k \in S PROVE k + 1 \in S
  <2>1. k + 1 \in 0..N /\ k + 1 \in 1..N /\ k + 1 # 0 /\ (k + 1) - 1 = k
    BY <1>0
  <2>2. told[k + 1] = Turn(k + 1, told[k]) /\ f[k + 1] = Turn(k + 1, f[k])
    BY <1>1, <1>5, <2>1
  <2> QED BY <1>7, <2>1, <2>2
<1>8. N \in S
  <2> HIDE DEF S
  <2>1. 0..N \subseteq S
    BY <1>0, <1>6, <1>7, InductTo
  <2> QED BY <1>0, <2>1
<1> QED
  BY <1>2, <1>8 DEF N

\* Where a transfer is when k of its requests are lost.
Losing(y, k) ==
    /\ y \in Xfers /\ Rest5(y, x) /\ Reports(y) /\ y.state # "IDLE"
    /\ y.state = "DONE" => x.state = "DONE"
    /\ k = 0 => y = x
    /\ Moving(x, pend) =>
          /\ y.outstanding = x.outstanding - k
          /\ y.outstanding > 0 => y.handle /\ ~y.closing /\ ~y.finished
          /\ k > 0 /\ y.outstanding = 0 => y.finished
    /\ ~Moving(x, pend) /\ k > 0 => y.finished

\* Each loss takes one request from those to come; the last one ends the transfer.
LEMMA LosesOn ==
    ASSUME OverInv, x.state # "IDLE", ~aborted, NEW k \in 1..Len(pend), NEW y, Losing(y, k - 1)
    PROVE  Losing(Lost(y, pend[k]), k)
<1> DEFINE q == pend[k]
           u == Lost(y, q)
<1>1. /\ Staged /\ x \in Xfers /\ pend \in Seq(Requests(next_id)) /\ Len(pend) \in Nat /\ pend # <<>>
      /\ q \in Requests(next_id)
  <2>1. TypeOK /\ Staged
    BY DEF OverInv
  <2>2. pend \in Seq(Requests(next_id)) /\ Len(pend) \in Nat
    BY <2>1 DEF TypeOK
  <2>3. pend # <<>>
    <3>1. Len(pend) # 0
      BY <2>2
    <3> QED BY <3>1
  <2> QED BY <2>1, <2>2, <2>3, ElementOfSeq DEF TypeOK
<1>2. q.type \in {"OPEN", "READ", "WRITE", "CLOSE"}
  BY <1>1 DEF Requests
<1>3. \/ Moving(x, pend) /\ (x.outstanding = Len(pend) \/ x.outstanding = Len(pend) + 1)
      \/ Opening(x, pend) /\ Len(pend) = 1
      \/ Closing(x, pend) /\ Len(pend) = 1
  <2>1. CASE ~failed
    <3>1. Stages(x, pend)
      BY <1>1, <2>1 DEF Staged
    <3> QED BY <1>1, <3>1 DEF Stages, Ended
  <2>2. CASE failed
    <3>1. Spoilt(x, pend)
      BY <1>1, <2>2 DEF Staged
    <3> QED BY <1>1, <3>1 DEF Spoilt
  <2> QED BY <2>1, <2>2
<1> HIDE DEF q
<1>4. y \in Xfers /\ Reports(y) /\ y.state # "IDLE" /\ Rest5(y, x)
  BY DEF Losing
<1>8. y.state = "DONE" => x.state = "DONE"
  BY DEF Losing
<1>5. k \in Nat /\ k >= 1 /\ k <= Len(pend)
  BY <1>1
<1>6. CASE Moving(x, pend) /\ (x.outstanding = Len(pend) \/ x.outstanding = Len(pend) + 1)
  <2>1. q.type \in Blocks
    BY <1>6 DEF Moving, Only, q
  <2>2. y.outstanding = x.outstanding - (k - 1) /\ y.outstanding > 0
    <3>1. y.outstanding = x.outstanding - (k - 1)
      BY <1>6 DEF Losing
    <3> QED BY <1>1, <1>5, <1>6, <3>1
  <2>3. y.handle /\ ~y.closing /\ ~y.finished
    BY <1>6, <2>2 DEF Losing
  <2>4. Loses(u, y, q)
    BY <1>2, <1>4, <2>2, LossIs
  <2> HIDE DEF u
  <2>5. u.outstanding = x.outstanding - k
    <3>1. u.outstanding = y.outstanding - 1
      BY <2>1, <2>4 DEF Loses
    <3>2. x.outstanding \in Nat
      BY <1>1, XferFields, Bounds
    <3> QED BY <1>5, <2>2, <3>1, <3>2
  <2>6. u.outstanding > 0 => u.handle /\ ~u.closing /\ ~u.finished
    BY <2>1, <2>3, <2>4 DEF Loses
  <2>7. u.outstanding = 0 => u.finished
    BY <2>1, <2>3, <2>4 DEF Loses
  <2>8. /\ u \in Xfers /\ Reports(u) /\ u.state # "IDLE" /\ Rest5(u, x)
        /\ (u.state = "DONE" => x.state = "DONE")
    BY <1>4, <1>8, <2>4 DEF Loses, Rest5
  <2> QED BY <1>5, <1>6, <2>5, <2>6, <2>7, <2>8 DEF Losing, u, q
<1>7. CASE (Opening(x, pend) \/ Closing(x, pend)) /\ Len(pend) = 1
  <2>1. k = 1 /\ y = x
    BY <1>5, <1>7 DEF Losing
  <2>2. ~Moving(x, pend) /\ x.outstanding = 0
    BY <1>7 DEF Opening, Closing, Moving
  <2>3. q.type \notin Blocks
    BY <1>7 DEF Opening, Closing, Only, Blocks, q
  <2>4. Loses(u, y, q)
    BY <1>2, <1>4, <2>3, LossIs
  <2> HIDE DEF u
  <2>5. u.finished
    <3>1. CASE Opening(x, pend)
      <4>1. q.type = "OPEN" /\ ~x.handle
        BY <1>7, <3>1 DEF Opening, Only, q
      <4> QED BY <2>1, <2>2, <2>4, <4>1 DEF Loses
    <3>2. CASE Closing(x, pend)
      <4>1. q.type = "CLOSE" /\ x.closing
        BY <1>7, <3>2 DEF Closing, Only, q
      <4> QED BY <2>1, <2>2, <2>4, <4>1 DEF Loses
    <3> QED BY <1>7, <3>1, <3>2
  <2>6. /\ u \in Xfers /\ Reports(u) /\ u.state # "IDLE" /\ Rest5(u, x)
        /\ (u.state = "DONE" => x.state = "DONE")
    BY <1>4, <1>8, <2>4 DEF Loses, Rest5
  <2> QED BY <2>1, <2>2, <2>5, <2>6 DEF Losing, u, q
<1> QED
  BY <1>3, <1>6, <1>7

\* What sftp_abort() makes of the transfer.
LEMMA Bereaves ==
    ASSUME OverInv, sftp_abort
    PROVE  Losing(x', Len(pend))
<1> DEFINE N == Len(pend)
           T == [k \in 0..N |-> {y \in Xfers : Losing(y, k)}]
           step == [k \in 1..N |-> [y \in Xfers |-> IF Losing(y, k - 1) THEN Lost(y, pend[k]) ELSE y]]
<1>1. /\ x.state # "IDLE" /\ ~aborted /\ failed' = TRUE /\ aborted' = TRUE /\ x' = Bereft /\ pend' = <<>>
      /\ UNCHANGED <<next_id, in, copy, pos, handles, errors, forgotten>>
  BY DEF sftp_abort
<1>2. /\ TypeOK /\ Numbered /\ Staged /\ HandleHeld /\ Positioned /\ x \in Xfers
      /\ pend \in Seq(Requests(next_id)) /\ N \in Nat
  <2>1. TypeOK
    BY DEF OverInv
  <2>2. pend \in Seq(Requests(next_id))
    BY <2>1 DEF TypeOK
  <2> QED BY <2>1, <2>2 DEF OverInv, TypeOK
<1>3. Losing(x, 0)
  <2>1. Reports(x)
    BY <1>2 DEF Staged
  <2>2. x.outstanding \in Nat /\ x.outstanding - 0 = x.outstanding
    BY <1>2, XferFields, Bounds
  <2>3. Rest5(x, x)
    BY DEF Rest5
  <2>4. Moving(x, pend) => x.handle /\ ~x.closing /\ ~x.finished
    BY DEF Moving
  <2> QED BY <1>1, <1>2, <2>1, <2>2, <2>3, <2>4 DEF Losing
<1> HIDE DEF N
<1>4. \A k \in 1..N : \A y : Losing(y, k - 1) => Losing(Lost(y, pend[k]), k)
  BY <1>1, LosesOn DEF N
<1>5. \A k, y : Losing(y, k) => y \in Xfers
  BY DEF Losing
<1>6. step \in [1..N -> [Xfers -> Xfers]]
  BY <1>4, <1>5
<1>7. T \in [0..N -> SUBSET Xfers] /\ x \in T[0]
  BY <1>2, <1>3
<1>8. \A k \in 1..N : \A w \in T[k - 1] : step[k][w] \in T[k]
  <2> TAKE k \in 1..N
  <2> TAKE w \in T[k - 1]
  <2>1. k - 1 \in 0..N /\ k \in 0..N
    BY <1>2
  <2>2. w \in Xfers /\ Losing(w, k - 1)
    BY <2>1
  <2>3. step[k][w] = Lost(w, pend[k])
    BY <2>2
  <2> QED BY <1>4, <1>5, <2>1, <2>2, <2>3
<1> HIDE DEF step
<1>9. PICK f : Unrolls(f, x, step, T, N, Xfers)
  <2> HIDE DEF T
  <2> QED BY <1>2, <1>6, <1>7, <1>8, Unrolled
<1>10. /\ f \in [0..N -> Xfers] /\ f[0] = x
       /\ (\A k \in 1..N : f[k] = step[k][f[k - 1]])
       /\ (\A k \in 0..N : Losing(f[k], k))
  BY <1>9 DEF Unrolls
<1>11. \A k \in 1..N : f[k] = Lost(f[k - 1], pend[k])
  <2> TAKE k \in 1..N
  <2>1. k - 1 \in 0..N
    BY <1>2
  <2>2. f[k - 1] \in Xfers /\ Losing(f[k - 1], k - 1)
    BY <1>10, <2>1
  <2>3. step[k][f[k - 1]] = Lost(f[k - 1], pend[k])
    BY <2>2 DEF step
  <2> QED BY <1>10, <2>3
<1>12. x' = f[N] /\ Losing(x', N)
  <2>1. Bereft = f[N]
    BY <1>2, <1>10, <1>11, BereftIs DEF N
  <2>2. N \in 0..N
    BY <1>2
  <2> QED BY <1>1, <1>10, <2>1, <2>2
<1> QED
  BY <1>12 DEF N

\* Every pending request told of the loss, the transfer has ended, unless an answer was spoilt.
LEMMA Aborts ==
    ASSUME OverInv, sftp_abort
    PROVE  OverInv'
<1> DEFINE N == Len(pend)
<1>1. /\ x.state # "IDLE" /\ ~aborted /\ failed' = TRUE /\ aborted' = TRUE /\ x' = Bereft /\ pend' = <<>>
      /\ UNCHANGED <<next_id, in, copy, pos, handles, errors, forgotten>>
  BY DEF sftp_abort
<1>2. /\ TypeOK /\ Numbered /\ Staged /\ HandleHeld /\ Positioned /\ x \in Xfers
      /\ pend \in Seq(Requests(next_id)) /\ N \in Nat
  <2>1. TypeOK
    BY DEF OverInv
  <2>2. pend \in Seq(Requests(next_id))
    BY <2>1 DEF TypeOK
  <2> QED BY <2>1, <2>2 DEF OverInv, TypeOK
<1> HIDE DEF N
<1> DEFINE z == x'
<1>13. x' = z /\ Losing(z, N)
  BY Bereaves DEF N
<1> HIDE DEF z
<1>14. z \in Xfers /\ Rest5(z, x) /\ Reports(z) /\ z.state # "IDLE"
  BY <1>13 DEF Losing
<1>15. forgotten = {} => z.finished
  <2> SUFFICES ASSUME forgotten = {} PROVE z.finished
    OBVIOUS
  <2>1. ~failed /\ Stages(x, pend)
    BY <1>1, <1>2 DEF Staged
  <2>2. CASE Ended(x, pend)
    <3>1. N = 0
      BY <2>2 DEF Ended, N
    <3>2. z = x
      BY <1>13, <3>1 DEF Losing
    <3> QED BY <2>2, <3>2 DEF Ended
  <2>3. CASE (Opening(x, pend) \/ Closing(x, pend)) /\ Len(pend) = 1
    <3>1. ~Moving(x, pend) /\ N > 0
      BY <2>3 DEF Opening, Closing, Moving, N
    <3> QED BY <1>13, <3>1 DEF Losing
  <2>4. CASE Moving(x, pend) /\ x.outstanding = Len(pend) /\ pend # <<>>
    <3>1. N > 0 /\ z.outstanding = 0
      <4>1. N # 0
        BY <1>2, <2>4, EmptySeq DEF N
      <4>2. z.outstanding = x.outstanding - N
        BY <1>13, <2>4 DEF Losing
      <4> QED BY <1>2, <2>4, <4>1, <4>2 DEF N
    <3> QED BY <1>13, <2>4, <3>1 DEF Losing
  <2> QED BY <2>1, <2>2, <2>3, <2>4 DEF Stages
<1>16. TypeOK'
  <2>1. <<>> \in Seq(Requests(next_id))
    BY EmptySeq
  <2> QED BY <1>1, <1>2, <1>13, <1>14, <2>1 DEF TypeOK
<1>17. Numbered'
  <2>1. Len(pend') = 0 /\ \A k \in 1..Len(pend') : FALSE
    BY <1>1
  <2> QED BY <1>1, <1>2, <2>1 DEF Numbered, Apart
<1>18. Staged'
  <2>1. Reports(x') /\ x'.state # "IDLE" /\ (forgotten' = {} => x'.finished)
    BY <1>1, <1>13, <1>14, <1>15
  <2> QED BY <1>1, <2>1, Primed DEF Staged
<1>19. HandleHeld'
  BY <1>1 DEF HandleHeld
<1>20. Positioned'
  <2>1. Len(pend') = 0 /\ \A k \in 1..Len(pend') : FALSE
    BY <1>1
  <2>2. Below(x') /\ pos' <= Size /\ (~x'.upload => pos' = x'.file_pos)
    BY <1>1, <1>2, <1>13, <1>14 DEF Positioned, Below, Rest5
  <2> QED BY <2>1, <2>2 DEF Positioned, Below
<1> QED
  BY <1>16, <1>17, <1>18, <1>19, <1>20 DEF OverInv

-----------------------------------------------------------------------------
(* The server *)

\* Where the transfer is, whatever happened to the engine, when a request pends.
LEMMA PendsWhere ==
    ASSUME OverInv, NEW j \in 1..Len(pend)
    PROVE  /\ pend[j].type \in Blocks => Moving(x, pend)
           /\ pend[j].type \notin Blocks => ~failed /\ Len(pend) = 1
           /\ x.state # "IDLE" /\ ~Ended(x, pend)
<1>1. Staged /\ pend \in Seq(Requests(next_id)) /\ failed \in BOOLEAN
  BY DEF OverInv, TypeOK
<1>2. pend # <<>>
  <2>1. Len(pend) # 0
    BY <1>1
  <2> QED BY <2>1
<1>3. x.state # "IDLE" /\ ~Ended(x, pend)
  BY <1>1, <1>2 DEF Staged, Ended
<1>4. CASE ~failed
  <2>1. "OPEN" \notin Blocks /\ "CLOSE" \notin Blocks
    BY DEF Blocks
  <2> QED BY <1>3, <1>4, <2>1, StageOf
<1>5. CASE failed
  <2>1. Spoilt(x, pend)
    BY <1>1, <1>2, <1>3, <1>5 DEF Staged
  <2>2. Moving(x, pend) /\ pend[j].type \in Blocks
    BY <1>2, <2>1 DEF Spoilt, Moving, Only
  <2> QED BY <1>3, <2>2
<1> QED
  BY <1>4, <1>5

\* The server answers a request.
LEMMA AnswersOn ==
    ASSUME OverInv, NEW q \in Unanswered, NEW r \in Responses(next_id), r.id = q.id, Fits(r, q),
           in' = Append(in, r), UNCHANGED <<x, pend, next_id, failed, aborted, pos, forgotten>>,
           copy' \in [Offsets -> 0..Size \cup {Missing}], errors' \in 0..MaxErrors,
           handles' \in 0..1, q.type \in Blocks => handles' = handles, Held(q, in', handles')
    PROVE  OverInv'
<1>1. /\ TypeOK /\ Numbered /\ Staged /\ HandleHeld /\ Positioned
      /\ in \in Seq(Responses(next_id)) /\ pend \in Seq(Requests(next_id)) /\ next_id \in Nat
      /\ Len(in) \in Nat
  <2>1. TypeOK
    BY DEF OverInv
  <2>2. in \in Seq(Responses(next_id))
    BY <2>1 DEF TypeOK
  <2> QED BY <2>1, <2>2 DEF OverInv, TypeOK
<1>2. PICK j \in 1..Len(pend) : q = pend[j]
  <2>1. \E k \in 1..Len(pend) : q = pend[k]
    BY DEF Unanswered, ToSet
  <2> QED BY <2>1
<1>3. \A k \in 1..Len(in) : in[k].id # q.id
  BY DEF Unanswered
<1>4. /\ in' \in Seq(Responses(next_id)) /\ Len(in') = Len(in) + 1 /\ in'[Len(in) + 1] = r
      /\ \A k \in 1..Len(in) : in'[k] = in[k]
  BY <1>1, AppendProperties
<1>5. \A k \in 1..Len(in') : k \in 1..Len(in) \/ k = Len(in) + 1
  BY <1>1, <1>4
<1>6. q.id # 0 /\ q.id \in 1..next_id
  <2>1. q \in Requests(next_id)
    BY <1>1, <1>2, ElementOfSeq
  <2>2. q.id \in 1..next_id
    BY <2>1 DEF Requests
  <2> QED BY <2>2
<1>7. TypeOK'
  BY <1>1, <1>4 DEF TypeOK
<1>8. Numbered'
  <2>1. Apart(in')
    <3> SUFFICES ASSUME NEW k \in 1..Len(in'), NEW l \in 1..Len(in'), in'[k].id = in'[l].id
                 PROVE  k = l
      BY DEF Apart
    <3>1. CASE k \in 1..Len(in) /\ l \in 1..Len(in)
      BY <1>1, <1>4, <3>1 DEF Numbered, Apart
    <3>2. CASE k \in 1..Len(in) /\ l = Len(in) + 1
      BY <1>3, <1>4, <3>2
    <3>3. CASE k = Len(in) + 1 /\ l \in 1..Len(in)
      BY <1>3, <1>4, <3>3
    <3> QED BY <1>5, <3>1, <3>2, <3>3
  <2>2. \A k \in 1..Len(in') : in'[k].id = 0 => in'[k].type = "STATUS"
    BY <1>1, <1>4, <1>5, <1>6 DEF Numbered
  <2>3. ~failed => Matched(in', pend)
    <3> SUFFICES ASSUME ~failed, NEW k \in 1..Len(in'), in'[k].id # 0
                 PROVE  \E i \in 1..Len(pend) : pend[i].id = in'[k].id /\ Fits(in'[k], pend[i])
      BY DEF Matched
    <3>1. CASE k \in 1..Len(in)
      BY <1>1, <1>4, <3>1 DEF Numbered, Matched
    <3>2. CASE k = Len(in) + 1
      BY <1>2, <1>4, <3>2
    <3> QED BY <1>5, <3>1, <3>2
  <2>4. Apart(pend)
    BY <1>1 DEF Numbered
  <2>5. Apart(pend') /\ Apart(in') /\ (~failed' => Matched(in', pend'))
    BY <2>1, <2>3, <2>4
  <2> QED BY <2>2, <2>5 DEF Numbered, Apart, Matched
<1>9. Staged'
  <2>1. x.state # "IDLE"
    BY <1>2, PendsWhere
  <2> QED BY <1>1, <2>1, Primed DEF Staged
<1>10. ASSUME ~failed PROVE HandleHeld'
  <2>1. Moving(x, pend) => handles' = 1
    <3> HAVE Moving(x, pend)
    <3>1. q.type \in Blocks
      BY <1>2 DEF Moving, Only
    <3> QED BY <1>1, <1>10, <3>1 DEF HandleHeld
  <2>2. ~Ended(x, pend)
    BY <1>2, PendsWhere
  <2>3. ASSUME NEW k \in 1..Len(pend) PROVE Held(pend[k], in', handles')
    <3>1. CASE k = j
      BY <1>2, <3>1
    <3>2. CASE k # j
      <4>1. q.type \in Blocks
        <5>1. Len(pend) # 1
          <6>1. \A n \in Nat : j \in 1..n /\ k \in 1..n /\ k # j => n # 1
            OBVIOUS
          <6>2. Len(pend) \in Nat /\ j \in 1..Len(pend) /\ k \in 1..Len(pend) /\ k # j
            BY <1>1, <1>2, <3>2
          <6> QED BY <6>1, <6>2
        <5> QED BY <1>2, <5>1, PendsWhere
      <4>2. Moving(x, pend)
        BY <1>2, <4>1, PendsWhere
      <4>3. pend[k].type \in Blocks
        BY <4>2 DEF Moving, Only
      <4> QED BY <4>3 DEF Held, Blocks
    <3> QED BY <3>1, <3>2
  <2>4. \A k \in 1..Len(pend') : Held(pend'[k], in', handles')
    BY <2>3
  <2> QED BY <2>1, <2>2, <2>4, Primed DEF HandleHeld
<1>11. HandleHeld'
  <2>1. CASE failed
    BY <2>1 DEF HandleHeld
  <2> QED BY <1>10, <2>1
<1>12. Positioned'
  BY <1>1 DEF Positioned, Sane, Below
<1> QED
  BY <1>7, <1>8, <1>9, <1>11, <1>12 DEF OverInv

\* What is known of the answer type to a request that had none.
Answering(q, type) ==
    /\ \A types : Answered(q, in', types) <=> type \in types
    /\ q.type = "OPEN" => handles = 0
    /\ q.type = "CLOSE" => handles = 1
    /\ q \in Requests(next_id) /\ \E j \in 1..Len(pend) : q = pend[j] /\ Sane(q, x)

\* The answer is the only one to its request.
LEMMA AnsweringIs ==
    ASSUME OverInv, NEW q \in Unanswered, NEW r \in Responses(next_id), r.id = q.id,
           in' = Append(in, r)
    PROVE  Answering(q, r.type)
<1>1. /\ TypeOK /\ HandleHeld /\ Positioned
      /\ in \in Seq(Responses(next_id)) /\ pend \in Seq(Requests(next_id)) /\ Len(in) \in Nat
  <2>1. TypeOK
    BY DEF OverInv
  <2>2. in \in Seq(Responses(next_id))
    BY <2>1 DEF TypeOK
  <2> QED BY <2>1, <2>2 DEF OverInv, TypeOK
<1>2. PICK j \in 1..Len(pend) : q = pend[j]
  <2>1. \E k \in 1..Len(pend) : q = pend[k]
    BY DEF Unanswered, ToSet
  <2> QED BY <2>1
<1>3. \A k \in 1..Len(in) : in[k].id # q.id
  BY DEF Unanswered
<1>4. /\ Len(in') = Len(in) + 1 /\ in'[Len(in) + 1] = r
      /\ \A k \in 1..Len(in) : in'[k] = in[k]
  BY <1>1, AppendProperties
<1>5. \A k \in 1..Len(in') : k \in 1..Len(in) \/ k = Len(in) + 1
  BY <1>1, <1>4
<1>6. \A types : Answered(q, in', types) <=> r.type \in types
  <2> TAKE types
  <2>1. ASSUME NEW k \in 1..Len(in'), in'[k].id = q.id, in'[k].type \in types
        PROVE  r.type \in types
    BY <1>3, <1>4, <1>5, <2>1
  <2>2. Len(in) + 1 \in 1..Len(in')
    BY <1>1, <1>4
  <2> QED BY <1>4, <2>1, <2>2 DEF Answered
<1>7. q.type \in {"OPEN", "CLOSE"} => Held(q, in, handles)
  <2>1. q.type \in {"OPEN", "CLOSE"} => ~failed
    BY <1>2, PendsWhere DEF Blocks
  <2> QED BY <1>1, <1>2, <2>1 DEF HandleHeld
<1>8. \A types : ~Answered(q, in, types)
  BY <1>3 DEF Answered
<1>9. (q.type = "OPEN" => handles = 0) /\ (q.type = "CLOSE" => handles = 1)
  BY <1>7, <1>8 DEF Held
<1>10. q \in Requests(next_id) /\ Sane(q, x)
  BY <1>1, <1>2, ElementOfSeq DEF Positioned
<1> QED
  BY <1>2, <1>6, <1>9, <1>10 DEF Answering

\* The server's answers, whatever it makes of the request.
LEMMA Serves ==
    ASSUME OverInv, SvAnswers
    PROVE  OverInv'
<1>1. PICK q \in Unanswered :
          /\ SvOpen(q) \/ SvRead(q) \/ SvWrite(q) \/ SvClose(q) \/ SvFails(q) \/ SvMalformed(q)
          /\ UNCHANGED <<x, pend, next_id, failed, aborted, pos, forgotten>>
  BY DEF SvAnswers
<1>2. /\ copy \in [Offsets -> 0..Size \cup {Missing}] /\ errors \in 0..MaxErrors /\ handles \in 0..1
      /\ Size \in Nat /\ MaxErrors \in Nat /\ next_id \in Nat /\ Chunk \in Nat
  BY Bounds DEF OverInv, TypeOK
<1>3. q \in Requests(next_id)
  <2>1. \E k \in 1..Len(pend) : q = pend[k]
    BY DEF Unanswered, ToSet
  <2>2. pend \in Seq(Requests(next_id))
    BY DEF OverInv, TypeOK
  <2> QED BY <2>1, <2>2, ElementOfSeq
<1>4. /\ q.id \in 1..next_id /\ q.off \in Nat /\ q.len \in 0..Chunk /\ q.unit \in Nat
      /\ q.type \in {"OPEN", "READ", "WRITE", "CLOSE"}
  BY <1>3 DEF Requests
<1>5. ASSUME NEW type \in {"HANDLE", "DATA", "STATUS", "BAD"},
             NEW status \in {"none", "OK", "EOF", "FAILURE"}, NEW off \in Nat, NEW len \in 0..Chunk,
             Answers(q, type, status, off, len),
             Fits(Response(q.id, type, status, off, len), q),
             copy' \in [Offsets -> 0..Size \cup {Missing}], errors' \in 0..MaxErrors,
             q.type \in Blocks => handles' = handles,
             Answering(q, type) => handles' \in 0..1 /\ Held(q, in', handles')
      PROVE  OverInv'
  <2> DEFINE r == Response(q.id, type, status, off, len)
  <2>1. r \in Responses(next_id) /\ r.id = q.id /\ r.type = type
    <3>1. q.id \in 0..next_id
      BY <1>2, <1>4
    <3> QED BY <3>1 DEF Response, Responses
  <2>2. in' = Append(in, r) /\ Fits(r, q)
    BY <1>5 DEF Answers
  <2> HIDE DEF r
  <2>3. Answering(q, type)
    BY <2>1, <2>2, AnsweringIs
  <2> QED BY <1>1, <1>5, <2>1, <2>2, <2>3, AnswersOn
<1>6. CASE SvOpen(q)
  <2>1. /\ q.type = "OPEN" /\ Answers(q, "HANDLE", "none", 0, 0)
        /\ handles' = handles + 1 /\ UNCHANGED <<copy, errors>>
    BY <1>6 DEF SvOpen
  <2>2. Fits(Response(q.id, "HANDLE", "none", 0, 0), q)
    BY <2>1 DEF Fits, Response
  <2>3. Answering(q, "HANDLE") => handles' \in 0..1 /\ Held(q, in', handles')
    <3> HAVE Answering(q, "HANDLE")
    <3>1. handles = 0 /\ Answered(q, in', {"HANDLE"})
      BY <2>1 DEF Answering
    <3> QED BY <2>1, <3>1 DEF Held
  <2>4. q.type \notin Blocks
    BY <2>1 DEF Blocks
  <2>5. 0 \in Nat /\ 0 \in 0..Chunk
    BY <1>2
  <2> QED BY <1>2, <1>5, <2>1, <2>2, <2>3, <2>4, <2>5
<1>7. CASE SvRead(q)
  <2>1. q.type = "READ" /\ UNCHANGED <<handles, copy, errors>>
    BY <1>7 DEF SvRead
  <2>2. \A type : Answering(q, type) => handles' \in 0..1 /\ Held(q, in', handles')
    BY <1>2, <2>1 DEF Held
  <2>3. 0 \in Nat /\ 0 \in 0..Chunk
    BY <1>2
  <2>4. CASE q.off >= Size /\ Answers(q, "STATUS", "EOF", 0, 0)
    <3>1. Fits(Response(q.id, "STATUS", "EOF", 0, 0), q)
      BY <2>1, <2>4 DEF Fits, Response
    <3> QED BY <1>2, <1>5, <2>1, <2>2, <2>3, <2>4, <3>1
  <2>5. CASE q.off >= Size /\ Answers(q, "DATA", "none", q.off, 0)
    <3>1. Fits(Response(q.id, "DATA", "none", q.off, 0), q)
      BY <2>1, <2>5 DEF Fits, Response
    <3> QED BY <1>2, <1>4, <1>5, <2>1, <2>2, <2>3, <2>5, <3>1
  <2>6. CASE ~(q.off >= Size) /\ \E n \in 1..Min({q.len, Size - q.off}) : Answers(q, "DATA", "none", q.off, n)
    <3>1. PICK n \in 1..Min({q.len, Size - q.off}) : Answers(q, "DATA", "none", q.off, n)
      BY <2>6
    <3>2. n \in 1..q.len /\ q.off + n <= Size /\ n \in 0..Chunk
      <4> DEFINE l == q.len
                 o == q.off
      <4>1. l \in 0..Chunk /\ o \in Nat /\ Size \in Nat /\ ~(o >= Size) /\ Chunk \in Nat
        BY <1>2, <1>4, <2>6
      <4> HIDE DEF l, o
      <4>2. Min({l, Size - o}) = IF l <= Size - o THEN l ELSE Size - o
        BY <4>1, MinPair
      <4>3. n \in 1..Min({l, Size - o})
        BY DEF l, o
      <4>4. n \in 1..l /\ o + n <= Size /\ n \in 0..Chunk
        BY <4>1, <4>2, <4>3
      <4> QED BY <4>4 DEF l, o
    <3>3. Fits(Response(q.id, "DATA", "none", q.off, n), q)
      BY <2>1, <3>2 DEF Fits, Response
    <3> QED BY <1>2, <1>4, <1>5, <2>1, <2>2, <3>1, <3>2, <3>3
  <2> QED BY <1>7, <2>4, <2>5, <2>6 DEF SvRead
<1>8. CASE SvWrite(q)
  <2>1. /\ q.type = "WRITE" /\ Answers(q, "STATUS", "OK", 0, 0) /\ Writes(q.off, q.unit, q.len)
        /\ UNCHANGED <<handles, errors>>
    BY <1>8 DEF SvWrite
  <2>2. Fits(Response(q.id, "STATUS", "OK", 0, 0), q)
    BY <2>1 DEF Fits, Response
  <2>3. Answering(q, "STATUS") => handles' \in 0..1 /\ Held(q, in', handles')
    BY <1>2, <2>1 DEF Held
  <2>4. q.unit + q.len <= Size
    <3>1. \E k \in 1..Len(pend) : q = pend[k]
      BY DEF Unanswered, ToSet
    <3>2. Sane(q, x)
      BY <3>1 DEF OverInv, Positioned
    <3> QED BY <2>1, <3>2 DEF Sane
  <2>5. copy' \in [Offsets -> 0..Size \cup {Missing}]
    <3>1. copy' = [o \in Offsets |->
                     IF o \in q.off..(q.off + q.len - 1) THEN q.unit + (o - q.off) ELSE copy[o]]
      BY <2>1 DEF Writes
    <3>2. \A o \in Offsets : o \in q.off..(q.off + q.len - 1) => q.unit + (o - q.off) \in 0..Size
      <4> TAKE o \in Offsets
      <4> HAVE o \in q.off..(q.off + q.len - 1)
      <4> DEFINE l == q.len
                 f == q.off
                 u == q.unit
      <4>1. l \in 0..Chunk /\ f \in Nat /\ u \in Nat /\ u + l <= Size /\ o \in f..(f + l - 1) /\ Size \in Nat
            /\ Chunk \in Nat
        BY <1>2, <1>4, <2>4
      <4> HIDE DEF l, f, u
      <4>2. u + (o - f) \in 0..Size
        BY ONLY <4>1
      <4> QED BY <4>2 DEF l, f, u
    <3>3. \A o \in Offsets : copy[o] \in 0..Size \cup {Missing}
      BY <1>2
    <3> QED BY <3>1, <3>2, <3>3
  <2>6. 0 \in Nat /\ 0 \in 0..Chunk
    BY <1>2
  <2> QED BY <1>2, <1>5, <2>1, <2>2, <2>3, <2>5, <2>6
<1>9. CASE SvClose(q)
  <2>1. q.type = "CLOSE" /\ handles' = handles - 1 /\ UNCHANGED copy /\ q.type \notin Blocks
    BY <1>9 DEF SvClose, Blocks
  <2>2. Answering(q, "STATUS") => handles' \in 0..1 /\ Held(q, in', handles')
    <3> HAVE Answering(q, "STATUS")
    <3>1. handles = 1 /\ Answered(q, in', {"STATUS", "DATA", "HANDLE"})
      BY <2>1 DEF Answering
    <3> QED BY <2>1, <3>1 DEF Held
  <2>3. 0 \in Nat /\ 0 \in 0..Chunk
    BY <1>2
  <2>4. CASE Answers(q, "STATUS", "OK", 0, 0) /\ UNCHANGED errors
    <3>1. Fits(Response(q.id, "STATUS", "OK", 0, 0), q)
      BY <2>1 DEF Fits, Response
    <3> QED BY <1>2, <1>5, <2>1, <2>2, <2>3, <2>4, <3>1
  <2>5. CASE errors < MaxErrors /\ errors' = errors + 1 /\ Answers(q, "STATUS", "FAILURE", 0, 0)
    <3>1. Fits(Response(q.id, "STATUS", "FAILURE", 0, 0), q)
      BY DEF Fits, Response
    <3>2. errors' \in 0..MaxErrors
      BY <1>2, <2>5
    <3> QED BY <1>2, <1>5, <2>1, <2>2, <2>3, <2>5, <3>1, <3>2
  <2> QED BY <1>9, <2>4, <2>5 DEF SvClose
<1>10. CASE SvFails(q)
  <2>1. /\ q.type # "CLOSE" /\ errors < MaxErrors /\ errors' = errors + 1
        /\ Answers(q, "STATUS", "FAILURE", 0, 0) /\ UNCHANGED <<handles, copy>>
    BY <1>10 DEF SvFails
  <2>2. Fits(Response(q.id, "STATUS", "FAILURE", 0, 0), q)
    BY DEF Fits, Response
  <2>3. Answering(q, "STATUS") => handles' \in 0..1 /\ Held(q, in', handles')
    <3> HAVE Answering(q, "STATUS")
    <3>1. ~Answered(q, in', {"HANDLE"}) /\ (q.type = "OPEN" => handles = 0)
      BY DEF Answering
    <3> QED BY <1>2, <2>1, <3>1 DEF Held
  <2>4. errors' \in 0..MaxErrors
    BY <1>2, <2>1
  <2>5. 0 \in Nat /\ 0 \in 0..Chunk
    BY <1>2
  <2> QED BY <1>2, <1>5, <2>1, <2>2, <2>3, <2>4, <2>5
<1>11. CASE SvMalformed(q)
  <2>1. Answers(q, "BAD", "none", 0, 0) /\ UNCHANGED <<handles, copy, errors>>
    BY <1>11 DEF SvMalformed
  <2>2. Fits(Response(q.id, "BAD", "none", 0, 0), q)
    BY DEF Fits, Response
  <2>3. Answering(q, "BAD") => handles' \in 0..1 /\ Held(q, in', handles')
    <3> HAVE Answering(q, "BAD")
    <3>1. /\ ~Answered(q, in', {"HANDLE"}) /\ ~Answered(q, in', {"STATUS", "DATA", "HANDLE"})
          /\ (q.type = "OPEN" => handles = 0) /\ (q.type = "CLOSE" => handles = 1)
      BY DEF Answering
    <3> QED BY <1>2, <2>1, <3>1 DEF Held
  <2>4. 0 \in Nat /\ 0 \in 0..Chunk
    BY <1>2
  <2> QED BY <1>2, <1>5, <2>1, <2>2, <2>3, <2>4
<1> QED
  BY <1>1, <1>6, <1>7, <1>8, <1>9, <1>10, <1>11

\* An answer to no request.
LEMMA Strayed ==
    ASSUME OverInv, SvStray
    PROVE  OverInv'
<1> DEFINE r == Response(0, "STATUS", "OK", 0, 0)
<1>1. /\ (\A k \in 1..Len(in) : in[k].id # 0) /\ in' = Append(in, r)
      /\ UNCHANGED <<x, pend, next_id, failed, aborted, copy, pos, handles, errors, forgotten>>
  BY DEF SvStray
<1>2. /\ TypeOK /\ Numbered /\ Staged /\ HandleHeld /\ Positioned
      /\ in \in Seq(Responses(next_id)) /\ pend \in Seq(Requests(next_id)) /\ next_id \in Nat
      /\ Len(in) \in Nat
  <2>1. TypeOK
    BY DEF OverInv
  <2>2. in \in Seq(Responses(next_id))
    BY <2>1 DEF TypeOK
  <2> QED BY <2>1, <2>2 DEF OverInv, TypeOK
<1>3. r \in Responses(next_id) /\ r.id = 0 /\ r.type = "STATUS"
  <2>1. 0 \in 0..next_id /\ 0 \in Nat /\ 0 \in 0..Chunk
    BY <1>2, Bounds
  <2> QED BY <2>1 DEF Response, Responses
<1> HIDE DEF r
<1>4. /\ in' \in Seq(Responses(next_id)) /\ Len(in') = Len(in) + 1 /\ in'[Len(in) + 1] = r
      /\ \A k \in 1..Len(in) : in'[k] = in[k]
  BY <1>1, <1>2, <1>3, AppendProperties
<1>5. \A k \in 1..Len(in') : k \in 1..Len(in) \/ k = Len(in) + 1
  BY <1>2, <1>4
<1>6. TypeOK'
  BY <1>1, <1>2, <1>4 DEF TypeOK
<1>7. Numbered'
  <2>1. Apart(in')
    <3> SUFFICES ASSUME NEW k \in 1..Len(in'), NEW l \in 1..Len(in'), in'[k].id = in'[l].id
                 PROVE  k = l
      BY DEF Apart
    <3>1. CASE k \in 1..Len(in) /\ l \in 1..Len(in)
      BY <1>2, <1>4, <3>1 DEF Numbered, Apart
    <3>2. CASE k \in 1..Len(in) /\ l = Len(in) + 1
      BY <1>1, <1>3, <1>4, <3>2
    <3>3. CASE k = Len(in) + 1 /\ l \in 1..Len(in)
      BY <1>1, <1>3, <1>4, <3>3
    <3> QED BY <1>5, <3>1, <3>2, <3>3
  <2>2. \A k \in 1..Len(in') : in'[k].id = 0 => in'[k].type = "STATUS"
    BY <1>3, <1>4, <1>5, <1>2 DEF Numbered
  <2>3. ~failed => Matched(in', pend)
    BY <1>2, <1>3, <1>4, <1>5 DEF Numbered, Matched
  <2>4. Apart(pend') /\ Apart(in') /\ (~failed' => Matched(in', pend'))
    BY <1>1, <1>2, <2>1, <2>3 DEF Numbered
  <2> QED BY <2>2, <2>4 DEF Numbered, Apart, Matched
<1>8. Staged'
  BY <1>1, <1>2, Primed DEF Staged
<1>9. ASSUME ~failed PROVE \A k \in 1..Len(pend) : Held(pend[k], in', handles)
  <2> TAKE k \in 1..Len(pend)
  <2>1. pend[k].id # 0
    <3>1. pend[k] \in Requests(next_id)
      BY <1>2, ElementOfSeq
    <3> QED BY <3>1 DEF Requests
  <2>2. \A types : Answered(pend[k], in', types) <=> Answered(pend[k], in, types)
    <3> TAKE types
    <3>1. ASSUME NEW m \in 1..Len(in'), in'[m].id = pend[k].id, in'[m].type \in types
          PROVE  Answered(pend[k], in, types)
      <4>1. m \in 1..Len(in) /\ in'[m] = in[m]
        BY <1>3, <1>4, <1>5, <2>1, <3>1
      <4> QED BY <3>1, <4>1 DEF Answered
    <3>2. ASSUME NEW m \in 1..Len(in), in[m].id = pend[k].id, in[m].type \in types
          PROVE  Answered(pend[k], in', types)
      <4>1. m \in 1..Len(in') /\ in'[m] = in[m]
        BY <1>2, <1>4
      <4> QED BY <3>2, <4>1 DEF Answered
    <3> QED BY <3>1, <3>2 DEF Answered
  <2>3. Held(pend[k], in, handles)
    BY <1>2, <1>9 DEF HandleHeld
  <2> QED BY <2>2, <2>3 DEF Held
<1>10. HandleHeld'
  <2>1. ~failed => \A k \in 1..Len(pend') : Held(pend'[k], in', handles')
    BY <1>1, <1>9
  <2> QED BY <1>1, <1>2, <2>1, Primed DEF HandleHeld
<1>11. Positioned'
  BY <1>1, <1>2 DEF Positioned, Sane, Below
<1> QED
  BY <1>6, <1>7, <1>8, <1>10, <1>11 DEF OverInv

-----------------------------------------------------------------------------
(* The theorem *)

\* It holds at the start.
LEMMA InitOver ==
    Init => OverInv
<1> SUFFICES ASSUME Init PROVE OverInv
  OBVIOUS
<1>1. /\ x = Idle /\ pend = <<>> /\ next_id = 0 /\ in = <<>>
      /\ failed = FALSE /\ aborted = FALSE
      /\ copy = [o \in Offsets |-> Missing] /\ pos = 0
      /\ handles = 0 /\ errors = 0 /\ forgotten = {}
  BY DEF Init
<1> DEFINE y == NewXfer(FALSE, 0)
<1>2. y \in Xfers /\ Below(y)
  BY NewIs
<1>3. Idle = [y EXCEPT !.state = "IDLE"]
  BY DEF Idle
<1>4. ~y.finished /\ y.calls = 0 /\ ~y.upload /\ y.file_pos = 0 /\ ~y.eof_known /\ y.retry = <<>>
      /\ ~y.handle
  BY DEF NewXfer
<1> HIDE DEF y
<1>5. Idle \in Xfers /\ Idle.state = "IDLE" /\ ~Idle.finished /\ Idle.calls = 0 /\ ~Idle.upload
      /\ Idle.file_pos = 0 /\ ~Idle.eof_known /\ Idle.retry = <<>> /\ ~Idle.handle
  BY <1>2, <1>3, <1>4 DEF Xfers
<1>6. Len(pend) = 0 /\ Len(in) = 0 /\ pend \in Seq(Requests(0)) /\ in \in Seq(Responses(0))
  <2>1. <<>> \in Seq(Requests(0)) /\ <<>> \in Seq(Responses(0))
    BY EmptySeq
  <2> QED BY <1>1, <2>1
<1>7. TypeOK
  <2>1. 0 \in Offsets /\ 0 \in 0..MaxErrors
    BY Bounds, InOffsets
  <2>2. pend \in Seq(Requests(next_id)) /\ in \in Seq(Responses(next_id))
    BY <1>1, <1>6
  <2>3. copy \in [Offsets -> 0..Size \cup {Missing}]
    <3> DEFINE gap == Missing
    <3>1. copy = [o \in Offsets |-> gap] /\ gap \in 0..Size \cup {Missing}
      BY <1>1
    <3> HIDE DEF gap
    <3> QED BY <3>1
  <2>4. {failed, aborted} \subseteq BOOLEAN
    BY <1>1
  <2>5. next_id \in Nat /\ handles \in 0..1
    BY <1>1
  <2>6. pos \in Offsets /\ errors \in 0..MaxErrors
    BY <1>1, <2>1
  <2>7. forgotten \subseteq 1..next_id
    BY <1>1
  <2>8. x \in Xfers
    BY <1>1, <1>5
  <2> QED BY <2>2, <2>3, <2>4, <2>5, <2>6, <2>7, <2>8 DEF TypeOK
<1>8. Numbered
  BY <1>6 DEF Numbered, Apart, Matched
<1>9. Staged
  BY <1>1, <1>5 DEF Staged, Reports
<1>10. HandleHeld
  BY <1>1, <1>5, <1>6 DEF HandleHeld, Moving, Ended
<1>11. Positioned
  <2>1. Len(x.retry) = 0
    BY <1>1, <1>5
  <2> QED BY <1>1, <1>5, <1>6, <2>1, Bounds DEF Positioned, Below
<1> QED
  BY <1>7, <1>8, <1>9, <1>10, <1>11 DEF OverInv

\* It depends on the variables alone.
LEMMA StutterOver ==
    OverInv /\ UNCHANGED vars => OverInv'
<1> SUFFICES ASSUME OverInv, UNCHANGED vars PROVE OverInv'
  OBVIOUS
<1>1. /\ TypeOK /\ Numbered /\ Staged /\ HandleHeld /\ Positioned
      /\ UNCHANGED <<x, pend, next_id, failed, aborted, in, copy, pos, handles, errors, forgotten>>
  BY DEF OverInv, vars
<1>2. TypeOK'
  BY <1>1 DEF TypeOK
<1>3. Numbered'
  BY <1>1 DEF Numbered, Apart, Matched
<1>4. Staged'
  BY <1>1, Primed DEF Staged
<1>5. HandleHeld'
  BY <1>1, Primed DEF HandleHeld
<1>6. Positioned'
  BY <1>1 DEF Positioned, Sane, Below
<1> QED
  BY <1>2, <1>3, <1>4, <1>5, <1>6 DEF OverInv

\* Each step of the application, of the engine and of the server.
LEMMA NextOver ==
    OverInv /\ [Next]_vars => OverInv'
<1> SUFFICES ASSUME OverInv, [Next]_vars PROVE OverInv'
  OBVIOUS
<1>1. ASSUME NEW hint \in Hints, sftp_download(hint) PROVE OverInv'
  <2>1. hint \in Nat
    BY TransferAssumption
  <2> QED BY <1>1, <2>1, Started DEF sftp_download
<1>2. CASE sftp_upload
  BY <1>2, Bounds, Started DEF sftp_upload
<1>3. CASE sftp_xfer_cancel
  BY <1>3, Cancels
<1>4. CASE sftp_abort
  BY <1>4, Aborts
<1>5. CASE RecvResponse
  BY <1>5, ResponseTaken
<1>6. CASE RecvMalformed
  BY <1>6, MalformedTaken
<1>7. CASE SvAnswers
  BY <1>7, Serves
<1>8. CASE SvStray
  BY <1>8, Strayed
<1>9. CASE UNCHANGED vars
  BY <1>9, StutterOver
<1> QED
  BY <1>1, <1>2, <1>3, <1>4, <1>5, <1>6, <1>7, <1>8, <1>9 DEF Next

\* The state has its shape; every answer has its request, and where the transfer is, what
\* pends, what the server holds and what was read go together, whatever the answers and
\* their order, cancelling, errors and the loss of the connection.
THEOREM OverInvariant == Spec => []OverInv
<1>1. Init => OverInv
  BY InitOver
<1>2. OverInv /\ [Next]_vars => OverInv'
  BY NextOver
<1> QED
  BY <1>1, <1>2, PTL DEF Spec

\* A finished transfer is over: it was reported once, no callback of it is left, the server
\* holds no handle of it unless the connection is lost, and sftp_abort() ends one under way.
THEOREM FinishedAlwaysOver == Spec => []FinishedIsOver
<1>1. OverInv => FinishedIsOver
  <2> SUFFICES ASSUME OverInv PROVE FinishedIsOver
    OBVIOUS
  <2>1. TypeOK /\ Staged /\ HandleHeld
    BY DEF OverInv
  <2>2. x.finished => x.calls = 1 /\ x.state # "IDLE"
    BY <2>1 DEF Staged, Reports
  <2>3. x.finished /\ ~failed => \/ x.cancelled /\ ~x.closing
                                 \/ pend = <<>> /\ handles = 0
    <3> SUFFICES ASSUME x.finished, ~failed, ~(x.cancelled /\ ~x.closing)
                 PROVE  pend = <<>> /\ handles = 0
      OBVIOUS
    <3>1. Stages(x, pend)
      BY <2>1, <2>2 DEF Staged
    <3>2. ~(Opening(x, pend) /\ Len(pend) = 1)
      BY DEF Opening
    <3>3. Ended(x, pend)
      BY <3>1, <3>2 DEF Stages, Moving, Closing
    <3> QED BY <2>1, <3>3 DEF Ended, Leaky, HandleHeld
  <2>4. x.finished /\ failed /\ ~aborted => x.cancelled /\ ~x.closing
    <3> SUFFICES ASSUME x.finished, failed, ~aborted PROVE x.cancelled /\ ~x.closing
      OBVIOUS
    <3>1. Spoilt(x, pend)
      BY <2>1, <2>2 DEF Staged
    <3> QED BY <3>1 DEF Spoilt, Opening, Moving, Closing
  <2>5. aborted => failed
    BY <2>1 DEF Staged
  <2>6. x.finished /\ aborted => pend = <<>>
    BY <2>1, <2>2, <2>5 DEF Staged
  <2>7. aborted /\ forgotten = {} => x.finished
    <3>1. aborted => x.state # "IDLE"
      BY <2>1, <2>5 DEF Staged
    <3> QED BY <2>1, <2>5, <3>1 DEF Staged
  <2>8. x.finished => \/ x.cancelled /\ ~x.closing
                      \/ pend = <<>> /\ (failed \/ handles = 0)
    BY <2>3, <2>4, <2>5, <2>6
  <2> QED BY <2>1, <2>2, <2>7, <2>8 DEF FinishedIsOver
<1> QED
  BY <1>1, OverInvariant, PTL
=============================================================================
