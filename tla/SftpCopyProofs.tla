--------------------------- MODULE SftpCopyProofs ---------------------------
(***************************************************************************)
(* Proofs about SftpTransfer: a transfer that is reported as done is       *)
(* right, for every size of file, chunk and window, every hint, any order  *)
(* of the answers and any cut of the reads.                                *)
(***************************************************************************)
EXTENDS SftpProofs

\* The units of the file among n units from off on.
Within(off, n) == IF off >= Size THEN 0 ELSE IF off + n > Size THEN Size - off ELSE n
\* The sum of the units of the file in the blocks p, and in those to be asked for again.
Part(q) == IF q.type \in Blocks THEN Within(q.off, q.len) ELSE 0
Asking(p) == Total([k \in 1..Len(p) |-> Part(p[k])])
Again(q) == Total([k \in 1..Len(q) |-> Within(q[k].off, q[k].len)])
Spans(q, o) == o \in q.off..(q.off + q.len - 1)
Covered(p, o) == \E k \in 1..Len(p) : p[k].type \in Blocks /\ Spans(p[k], o)
Retried(q, o) == \E k \in 1..Len(q) : Spans(q[k], o)

\* A download: each unit below next_off has come, or is under way, or is to be asked for again.
Fetched(y, p, c) ==
    /\ Len(y.retry) + y.outstanding <= XferWindow
    /\ \A o \in Offsets :
          /\ c[o] \in {o, Missing}
          /\ c[o] # Missing => o < Size /\ o < y.next_off
          /\ o < Size /\ o < y.next_off => c[o] = o \/ Covered(p, o) \/ Retried(y.retry, o)
    /\ y.done + Asking(p) + Again(y.retry) = Within(0, y.next_off)
    /\ y.eof_known => Size <= y.next_off
    /\ y.total # 0 => y.next_off <= y.total

\* The request was carried out, and its answer is on its way.
Carried(q, a) == \E k \in 1..Len(a) : a[k].id = q.id /\ a[k].type = "STATUS" /\ a[k].status = "OK"
Awaited(p, a, o) ==
    \E k \in 1..Len(p) : p[k].type \in Blocks /\ Spans(p[k], o) /\ ~Carried(p[k], a)
Faithful(q, y) == q.type = "WRITE" => q.unit = q.off /\ q.off + q.len <= y.next_off
\* An upload: each unit read from the file has arrived, or is under way.
Stored(y, p, a, c, at) ==
    /\ at = y.next_off /\ (y.local_eof => at = Size) /\ y.total = Size
    /\ \A k \in 1..Len(p) : Faithful(p[k], y)
    /\ \A o \in Offsets :
          /\ c[o] \in {o, Missing}
          /\ c[o] # Missing => o < y.next_off
          /\ o < y.next_off => c[o] = o \/ Awaited(p, a, o)
    /\ y.done + Asking(p) = y.next_off

\* No failure at the server is without an answer that tells it.
Tells(a) == \E k \in 1..Len(a) : a[k].id # 0 /\ a[k].type = "STATUS" /\ a[k].status = "FAILURE"
Right(y, p, a, c, at, n) ==
    IF y.upload THEN Stored(y, p, a, c, at) /\ (n > 0 => Tells(a)) ELSE Fetched(y, p, c)
\* The transfer goes on, and nothing has gone wrong.
Sound(y) == y.state = "RUNNING" /\ ~y.failed /\ ~y.cancelled
CopyRight ==
    /\ x.state = "IDLE" => copy = [o \in Offsets |-> Missing] /\ errors = 0
    /\ Sound(x) /\ ~failed => Right(x, pend, in, copy, pos, errors)
    /\ x.state = "DONE" => pend = <<>>

RightInv == CopyRight /\ TransferRight

-----------------------------------------------------------------------------
(* Sums *)

\* The sum of a sequence, and of it with one number more.
LEMMA TotalAppend ==
    ASSUME NEW u \in Seq(Int), NEW v \in Seq(Int), Len(v) = Len(u) + 1,
           \A k \in 1..Len(u) : v[k] = u[k]
    PROVE  Total(v) = Total(u) + v[Len(v)]
<1> DEFINE e == <<v[Len(v)]>>
<1>1. Len(u) \in Nat /\ Len(v) \in 1..Len(v) /\ v[Len(v)] \in Int
  BY LenProperties, ElementOfSeq
<1>2. e \in Seq(Int) /\ Len(e) = 1 /\ e[1] = v[Len(v)] /\ Total(e) = v[Len(v)]
  BY <1>1, TotalSmall
<1>3. \A k \in 1..Len(e) : v[Len(u) + k] = e[k]
  BY <1>1, <1>2
<1> HIDE DEF e
<1>5. Len(v) = Len(u) + Len(e)
  BY <1>2
<1>6. \A k \in 1..Len(u) : v[k] = u[k]
  OBVIOUS
<1>4. Total(v) = Total(u) + Total(e)
  BY <1>2, <1>3, <1>5, <1>6, TotalConcat
<1> QED
  BY <1>2, <1>4

\* The first n numbers of w, and those after them.
LEMMA TotalSplit ==
    ASSUME NEW w \in Seq(Int), NEW n \in 0..Len(w)
    PROVE  LET u == [k \in 1..n |-> w[k]]
               v == [k \in 1..(Len(w) - n) |-> w[n + k]]
           IN  /\ u \in Seq(Int) /\ Len(u) = n /\ v \in Seq(Int) /\ Len(v) = Len(w) - n
               /\ Total(w) = Total(u) + Total(v)
<1> DEFINE u == [k \in 1..n |-> w[k]]
           v == [k \in 1..(Len(w) - n) |-> w[n + k]]
<1>1. Len(w) \in Nat /\ n \in Nat /\ Len(w) - n \in Nat /\ \A k \in 1..Len(w) : w[k] \in Int
  BY LenProperties, ElementOfSeq
<1>2. u \in [1..n -> Int]
  BY <1>1
<1>3. v \in [1..(Len(w) - n) -> Int]
  BY <1>1
<1>4. u \in Seq(Int) /\ Len(u) = n
  <2> HIDE DEF u
  <2> QED BY <1>1, <1>2, SeqDef
<1>5. v \in Seq(Int) /\ Len(v) = Len(w) - n
  <2> DEFINE m == Len(w) - n
  <2>1. m \in Nat /\ v \in [1..m -> Int]
    BY <1>1, <1>3
  <2> HIDE DEF v, m
  <2>2. v \in Seq(Int) /\ Len(v) = m
    BY <2>1, SeqDef
  <2> QED BY <2>2 DEF m
<1>6. (\A k \in 1..n : w[k] = u[k]) /\ \A k \in 1..(Len(w) - n) : w[n + k] = v[k]
  OBVIOUS
<1> HIDE DEF u, v
<1>8. Len(w) = Len(u) + Len(v)
  BY <1>1, <1>4, <1>5
<1>9. (\A k \in 1..Len(u) : w[k] = u[k]) /\ \A k \in 1..Len(v) : w[Len(u) + k] = v[k]
  BY <1>4, <1>5, <1>6
<1>7. Total(w) = Total(u) + Total(v)
  BY <1>4, <1>5, <1>8, <1>9, TotalConcat
<1> QED
  BY <1>4, <1>5, <1>7 DEF u, v

\* The sum without the number j.
LEMMA TotalDrop ==
    ASSUME NEW w \in Seq(Int), NEW j \in 1..Len(w), NEW v \in Seq(Int), Len(v) = Len(w) - 1,
           \A k \in 1..Len(v) : v[k] = IF k < j THEN w[k] ELSE w[k + 1]
    PROVE  Total(v) = Total(w) - w[j]
<1> DEFINE a == [k \in 1..(j - 1) |-> w[k]]
           b == [k \in 1..(Len(w) - (j - 1)) |-> w[j - 1 + k]]
           c == [k \in 1..(j - 1) |-> v[k]]
           d == [k \in 1..(Len(v) - (j - 1)) |-> v[j - 1 + k]]
<1>0. Len(w) \in Nat /\ j \in Nat /\ 1 <= j /\ j <= Len(w)
  BY LenProperties
<1>1. j - 1 \in 0..Len(w) /\ j - 1 \in 0..Len(v) /\ j - 1 \in Nat
  BY <1>0
<1>2. /\ b \in Seq(Int) /\ Len(b) = Len(w) - (j - 1) /\ a \in Seq(Int) /\ Len(a) = j - 1
      /\ Total(w) = Total(a) + Total(b)
  BY <1>1, TotalSplit
<1>3. d \in Seq(Int) /\ Len(d) = Len(v) - (j - 1) /\ Total(v) = Total(c) + Total(d)
  BY <1>1, TotalSplit
<1>4. a = c
  <2> SUFFICES ASSUME NEW k \in 1..(j - 1) PROVE w[k] = v[k]
    OBVIOUS
  <2>1. k \in 1..Len(v) /\ k < j
    BY <1>0
  <2> QED BY <2>1
<1> DEFINE e == <<w[j]>>
<1>5. e \in Seq(Int) /\ Len(e) = 1 /\ e[1] = w[j] /\ Total(e) = w[j] /\ w[j] \in Int
  <2>1. w[j] \in Int
    BY ElementOfSeq
  <2> QED BY <2>1, TotalSmall
<1>6. Len(b) = Len(e) + Len(d)
  BY <1>0, <1>2, <1>3, <1>5
<1>7. \A k \in 1..Len(e) : b[k] = e[k]
  <2>1. 1 \in 1..(Len(w) - (j - 1)) /\ j - 1 + 1 = j
    BY <1>0
  <2>2. b[1] = w[j]
    BY <2>1
  <2> HIDE DEF b, e
  <2> QED BY <1>5, <2>2
<1>8. \A k \in 1..Len(d) : b[Len(e) + k] = d[k]
  <2> SUFFICES ASSUME NEW k \in 1..(Len(w) - 1 - (j - 1)) PROVE b[1 + k] = d[k]
    BY <1>3, <1>5
  <2>1. 1 + k \in 1..(Len(w) - (j - 1)) /\ j - 1 + (1 + k) = j + k
    BY <1>0
  <2>2. j - 1 + k \in 1..Len(v) /\ ~(j - 1 + k < j) /\ (j - 1 + k) + 1 = j + k
    BY <1>0
  <2>3. b[1 + k] = w[j + k]
    BY <2>1
  <2>4. k \in 1..(Len(v) - (j - 1)) /\ d[k] = v[j - 1 + k]
    OBVIOUS
  <2> HIDE DEF b, d
  <2>5. v[j - 1 + k] = w[j + k]
    BY <2>2
  <2> QED BY <2>3, <2>4, <2>5
<1> HIDE DEF a, b, c, d, e
<1>9. Total(b) = Total(e) + Total(d)
  <2>1. b \in Seq(Int) /\ d \in Seq(Int) /\ e \in Seq(Int)
    BY <1>2, <1>3, <1>5
  <2> QED BY ONLY <2>1, <1>6, <1>7, <1>8, TotalConcat
<1>10. Total(a) \in Int /\ Total(d) \in Int
  <2>1. \A q \in Seq(Int) : \E g : IsSums(g, q) /\ Total(q) = g[Len(q)]
    BY TotalIsLast
  <2>2. \A q \in Seq(Int) : Total(q) \in Int
    <3> TAKE q \in Seq(Int)
    <3>1. PICK g : IsSums(g, q) /\ Total(q) = g[Len(q)]
      BY <2>1
    <3>2. Len(q) \in 0..Len(q)
      BY LenProperties
    <3> QED BY <3>1, <3>2 DEF IsSums
  <2> QED BY <1>2, <1>3, <2>2
<1>11. Total(v) = Total(a) + Total(d) /\ Total(w) = Total(a) + (w[j] + Total(d))
  BY <1>2, <1>3, <1>4, <1>5, <1>9
<1> QED
  BY <1>5, <1>10, <1>11

AnyReq == [id : Nat, type : {"OPEN", "READ", "WRITE", "CLOSE"}, off : Nat, len : 0..Chunk,
           unit : Nat]
Retries == [off : Nat, len : 1..Chunk]

\* Requests by number are requests.
LEMMA AnyRequests ==
    ASSUME NEW n \in Nat
    PROVE  Requests(n) \subseteq AnyReq /\ Seq(Requests(n)) \subseteq Seq(AnyReq)
<1>1. 1..n \subseteq Nat
  OBVIOUS
<1>2. Requests(n) \subseteq AnyReq
  BY <1>1 DEF Requests, AnyReq
<1> QED
  BY <1>2, SeqMonotonic

\* The units of the file among some are a number.
LEMMA WithinNat ==
    ASSUME NEW o \in Nat, NEW n \in Nat
    PROVE  Within(o, n) \in Nat
<1>1. Size \in Nat
  BY Bounds
<1> QED
  BY <1>1 DEF Within

\* What is asked for, as numbers.
LEMMA AskingIs ==
    ASSUME NEW p \in Seq(AnyReq)
    PROVE  LET u == [k \in 1..Len(p) |-> Part(p[k])]
           IN  u \in Seq(Int) /\ Len(u) = Len(p) /\ Asking(p) = Total(u) /\ Asking(p) \in Nat
<1> DEFINE u == [k \in 1..Len(p) |-> Part(p[k])]
<1>1. Len(p) \in Nat /\ \A k \in 1..Len(p) : p[k] \in AnyReq
  BY LenProperties, ElementOfSeq
<1>2. \A q \in AnyReq : Part(q) \in Nat
  <2> TAKE q \in AnyReq
  <2>1. q.off \in Nat /\ q.len \in Nat
    BY Bounds DEF AnyReq
  <2> QED BY <2>1, WithinNat DEF Part
<1>3. u \in [1..Len(p) -> Nat] /\ u \in [1..Len(p) -> Int] /\ \A k \in 1..Len(p) : u[k] \in Nat
  BY <1>1, <1>2
<1>4. Asking(p) = Total(u)
  BY DEF Asking
<1> HIDE DEF u
<1>5. u \in Seq(Int) /\ Len(u) = Len(p)
  BY <1>1, <1>3, SeqDef
<1>6. Total(u) \in Nat
  <2>1. \A k \in 1..Len(u) : u[k] >= 0
    BY <1>3, <1>5
  <2> QED BY <1>5, <2>1, TotalNat
<1> QED
  BY <1>4, <1>5, <1>6 DEF u

\* A request more adds its units, one less takes them away, and no request asks for none.
LEMMA AskingMore ==
    ASSUME NEW p \in Seq(AnyReq), NEW q \in AnyReq
    PROVE  Asking(Append(p, q)) = Asking(p) + Part(q)
<1> DEFINE s == Append(p, q)
           u == [k \in 1..Len(p) |-> Part(p[k])]
           v == [k \in 1..Len(s) |-> Part(s[k])]
<1>0. Len(p) \in Nat
  BY LenProperties
<1>1. /\ s \in Seq(AnyReq) /\ Len(s) = Len(p) + 1 /\ s[Len(p) + 1] = q
      /\ \A k \in 1..Len(p) : s[k] = p[k]
  BY AppendProperties
<1> HIDE DEF s
<1>2. u \in Seq(Int) /\ Len(u) = Len(p) /\ Asking(p) = Total(u)
  BY AskingIs
<1>3. v \in Seq(Int) /\ Len(v) = Len(s) /\ Asking(s) = Total(v)
  BY <1>1, AskingIs
<1>4. \A k \in 1..Len(p) : v[k] = u[k]
  BY <1>0, <1>1
<1>5. v[Len(s)] = Part(q)
  BY <1>0, <1>1
<1> HIDE DEF u, v
<1>6. Total(v) = Total(u) + v[Len(v)]
  <2>1. Len(v) = Len(u) + 1 /\ \A k \in 1..Len(u) : v[k] = u[k]
    BY <1>1, <1>2, <1>3, <1>4
  <2> QED BY <1>2, <1>3, <2>1, TotalAppend
<1> QED
  BY <1>2, <1>3, <1>5, <1>6 DEF s

\* A request less takes its units away.
LEMMA AskingLess ==
    ASSUME NEW p \in Seq(AnyReq), NEW j \in 1..Len(p)
    PROVE  Asking(RemoveAt(p, j)) = Asking(p) - Part(p[j])
<1> DEFINE s == RemoveAt(p, j)
           u == [k \in 1..Len(p) |-> Part(p[k])]
           v == [k \in 1..Len(s) |-> Part(s[k])]
<1>0. Len(p) \in Nat
  BY LenProperties
<1>1. /\ s \in Seq(AnyReq) /\ Len(s) = Len(p) - 1
      /\ \A k \in 1..(Len(p) - 1) : s[k] = IF k < j THEN p[k] ELSE p[k + 1]
  BY Removed
<1> HIDE DEF s
<1>2. u \in Seq(Int) /\ Len(u) = Len(p) /\ Asking(p) = Total(u)
  BY AskingIs
<1>3. v \in Seq(Int) /\ Len(v) = Len(s) /\ Asking(s) = Total(v)
  BY <1>1, AskingIs
<1>4. \A k \in 1..Len(s) : v[k] = IF k < j THEN u[k] ELSE u[k + 1]
  <2> TAKE k \in 1..Len(s)
  <2>1. k \in 1..(Len(p) - 1) /\ k \in 1..Len(p) /\ k + 1 \in 1..Len(p)
    BY <1>0, <1>1
  <2>2. v[k] = Part(s[k]) /\ u[k] = Part(p[k]) /\ u[k + 1] = Part(p[k + 1])
    BY <2>1
  <2> HIDE DEF u, v
  <2> QED BY <1>1, <2>1, <2>2
<1>5. u[j] = Part(p[j])
  OBVIOUS
<1> HIDE DEF u, v
<1>6. Total(v) = Total(u) - u[j]
  <2>1. Len(v) = Len(u) - 1 /\ j \in 1..Len(u)
    BY <1>1, <1>2, <1>3
  <2>2. \A k \in 1..Len(v) : v[k] = IF k < j THEN u[k] ELSE u[k + 1]
    BY <1>3, <1>4
  <2>3. u \in Seq(Int) /\ v \in Seq(Int)
    BY <1>2, <1>3
  <2> QED BY ONLY <2>1, <2>2, <2>3, TotalDrop
<1> QED
  BY <1>2, <1>3, <1>5, <1>6 DEF s

\* What is to be asked for again, as numbers.
LEMMA AgainIs ==
    ASSUME NEW p \in Seq(Retries)
    PROVE  LET u == [k \in 1..Len(p) |-> Within(p[k].off, p[k].len)]
           IN  u \in Seq(Int) /\ Len(u) = Len(p) /\ Again(p) = Total(u) /\ Again(p) \in Nat
<1> DEFINE u == [k \in 1..Len(p) |-> Within(p[k].off, p[k].len)]
<1>1. Len(p) \in Nat /\ \A k \in 1..Len(p) : p[k] \in Retries
  BY LenProperties, ElementOfSeq
<1>2. \A q \in Retries : Within(q.off, q.len) \in Nat
  <2> TAKE q \in Retries
  <2>1. q.off \in Nat /\ q.len \in Nat
    BY Bounds DEF Retries
  <2> QED BY <2>1, WithinNat
<1>3. u \in [1..Len(p) -> Nat] /\ u \in [1..Len(p) -> Int] /\ \A k \in 1..Len(p) : u[k] \in Nat
  BY <1>1, <1>2
<1>4. Again(p) = Total(u)
  BY DEF Again
<1> HIDE DEF u
<1>5. u \in Seq(Int) /\ Len(u) = Len(p)
  BY <1>1, <1>3, SeqDef
<1>6. Total(u) \in Nat
  <2>1. \A k \in 1..Len(u) : u[k] >= 0
    BY <1>3, <1>5
  <2> QED BY <1>5, <2>1, TotalNat
<1> QED
  BY <1>4, <1>5, <1>6 DEF u

\* A block more to be asked for again.
LEMMA AgainMore ==
    ASSUME NEW p \in Seq(Retries), NEW q \in Retries
    PROVE  Again(Append(p, q)) = Again(p) + Within(q.off, q.len)
<1> DEFINE s == Append(p, q)
           u == [k \in 1..Len(p) |-> Within(p[k].off, p[k].len)]
           v == [k \in 1..Len(s) |-> Within(s[k].off, s[k].len)]
<1>0. Len(p) \in Nat
  BY LenProperties
<1>1. /\ s \in Seq(Retries) /\ Len(s) = Len(p) + 1 /\ s[Len(p) + 1] = q
      /\ \A k \in 1..Len(p) : s[k] = p[k]
  BY AppendProperties
<1> HIDE DEF s
<1>2. u \in Seq(Int) /\ Len(u) = Len(p) /\ Again(p) = Total(u)
  BY AgainIs
<1>3. v \in Seq(Int) /\ Len(v) = Len(s) /\ Again(s) = Total(v)
  BY <1>1, AgainIs
<1>4. \A k \in 1..Len(p) : v[k] = u[k]
  BY <1>0, <1>1
<1>5. v[Len(s)] = Within(q.off, q.len)
  BY <1>0, <1>1
<1> HIDE DEF u, v
<1>6. Total(v) = Total(u) + v[Len(v)]
  <2>1. Len(v) = Len(u) + 1 /\ \A k \in 1..Len(u) : v[k] = u[k]
    BY <1>1, <1>2, <1>3, <1>4
  <2> QED BY <1>2, <1>3, <2>1, TotalAppend
<1> QED
  BY <1>2, <1>3, <1>5, <1>6 DEF s

\* The last block to be asked for again, and the others.
LEMMA AgainLast ==
    ASSUME NEW p \in Seq(Retries), p # <<>>
    PROVE  Again(p) = Again(Front(p)) + Within(Last(p).off, Last(p).len)
<1> DEFINE s == Front(p)
           u == [k \in 1..Len(s) |-> Within(s[k].off, s[k].len)]
           v == [k \in 1..Len(p) |-> Within(p[k].off, p[k].len)]
<1>1. /\ s \in Seq(Retries) /\ Len(s) = Len(p) - 1 /\ Len(p) \in Nat /\ Len(p) \in 1..Len(p)
      /\ \A k \in 1..Len(s) : s[k] = p[k]
      /\ Last(p) = p[Len(p)]
  BY Peeled
<1> HIDE DEF s
<1>2. u \in Seq(Int) /\ Len(u) = Len(s) /\ Again(s) = Total(u)
  BY <1>1, AgainIs
<1>3. v \in Seq(Int) /\ Len(v) = Len(p) /\ Again(p) = Total(v)
  BY AgainIs
<1>4. \A k \in 1..Len(s) : v[k] = u[k]
  BY <1>1
<1>5. v[Len(p)] = Within(Last(p).off, Last(p).len)
  BY <1>1
<1> HIDE DEF u, v
<1>6. Total(v) = Total(u) + v[Len(v)]
  <2>1. Len(v) = Len(u) + 1 /\ \A k \in 1..Len(u) : v[k] = u[k]
    BY <1>1, <1>2, <1>3, <1>4
  <2> QED BY <1>2, <1>3, <2>1, TotalAppend
<1> QED
  BY <1>2, <1>3, <1>5, <1>6 DEF s

\* Nothing asked for is no unit.
LEMMA AskingNone ==
    Asking(<<>>) = 0 /\ Again(<<>>) = 0
<1>1. [k \in 1..Len(<<>>) |-> Part(<<>>[k])] = <<>>
  OBVIOUS
<1>2. [k \in 1..Len(<<>>) |-> Within(<<>>[k].off, <<>>[k].len)] = <<>>
  OBVIOUS
<1> QED
  BY <1>1, <1>2, TotalSmall DEF Asking, Again

-----------------------------------------------------------------------------
(* A download *)

\* Offsets are numbers.
LEMMA OffsetsNat == Offsets \subseteq Nat
<1>1. Size + XferWindow * Chunk \in Nat
  BY Bounds
<1> QED
  BY <1>1 DEF Offsets

\* What a request more makes of a download: z after y.
AsksMore(z, y, q) ==
    /\ Len(z.retry) + z.outstanding <= XferWindow
    /\ y.next_off <= z.next_off /\ (z.total # 0 => z.next_off <= z.total)
    /\ z.done = y.done /\ z.total = y.total /\ z.eof_known = y.eof_known
    /\ Part(q) + Again(z.retry) + Within(0, y.next_off) = Again(y.retry) + Within(0, z.next_off)
    /\ \A o \in Offsets : Retried(y.retry, o) => Retried(z.retry, o) \/ Spans(q, o)
    /\ \A o \in Offsets : y.next_off <= o /\ o < z.next_off => Spans(q, o)

\* A download that asks for a block more is still right.
LEMMA FetchedGrow ==
    ASSUME NEW y \in Xfers, NEW z \in Xfers, NEW p \in Seq(AnyReq), NEW q \in AnyReq, NEW c,
           q.type \in Blocks, Fetched(y, p, c), AsksMore(z, y, q)
    PROVE  Fetched(z, Append(p, q), c)
<1> DEFINE s == Append(p, q)
<1>0. Len(p) \in Nat
  BY LenProperties
<1>1. /\ s \in Seq(AnyReq) /\ Len(s) = Len(p) + 1 /\ s[Len(p) + 1] = q
      /\ \A k \in 1..Len(p) : s[k] = p[k]
  BY AppendProperties
<1>2. Asking(s) = Asking(p) + Part(q)
  BY AskingMore
<1> HIDE DEF s
<1>3. Asking(p) \in Nat /\ Asking(s) \in Nat
  BY <1>1, AskingIs
<1>4. \A o : Covered(p, o) => Covered(s, o)
  <2> SUFFICES ASSUME NEW o, NEW k \in 1..Len(p), p[k].type \in Blocks, Spans(p[k], o)
               PROVE  Covered(s, o)
    BY DEF Covered
  <2>1. k \in 1..Len(s) /\ s[k] = p[k]
    BY <1>0, <1>1
  <2> QED BY <2>1 DEF Covered
<1>5. \A o : Spans(q, o) => Covered(s, o)
  <2>1. Len(p) + 1 \in 1..Len(s)
    BY <1>0, <1>1
  <2> QED BY <1>1, <2>1 DEF Covered
<1>6. z.done + Asking(s) + Again(z.retry) = Within(0, z.next_off)
  <2>1. /\ y.next_off \in Nat /\ z.next_off \in Nat /\ y.done \in Nat
        /\ y.retry \in Seq(Retries) /\ z.retry \in Seq(Retries)
    BY XferFields DEF Retries
  <2>2. Again(y.retry) \in Nat /\ Again(z.retry) \in Nat
    BY <2>1, AgainIs
  <2>3. Within(0, y.next_off) \in Nat /\ Within(0, z.next_off) \in Nat
    BY <2>1, WithinNat
  <2>4. Part(q) \in Nat
    <3>1. q.off \in Nat /\ q.len \in Nat
      BY Bounds DEF AnyReq
    <3> QED BY <3>1, WithinNat DEF Part
  <2>5. y.done + Asking(p) + Again(y.retry) = Within(0, y.next_off)
    BY DEF Fetched
  <2>6. Part(q) + Again(z.retry) + Within(0, y.next_off) = Again(y.retry) + Within(0, z.next_off)
    BY DEF AsksMore
  <2>7. z.done = y.done
    BY DEF AsksMore
  <2> DEFINE a == Asking(p)
             b == Part(q)
             d == Again(y.retry)
             e == Again(z.retry)
             f == Within(0, y.next_off)
             g == Within(0, z.next_off)
             h == y.done
  <2>8. a \in Nat /\ b \in Nat /\ d \in Nat /\ e \in Nat /\ f \in Nat /\ g \in Nat /\ h \in Nat
    BY <1>3, <2>1, <2>2, <2>3, <2>4
  <2>9. h + a + d = f /\ b + e + f = d + g
    BY <2>5, <2>6
  <2>10. z.done = h /\ Asking(s) = a + b
    BY <1>2, <2>7
  <2> HIDE DEF a, b, d, e, f, g, h
  <2>11. h + (a + b) + e = g
    BY ONLY <2>8, <2>9
  <2> QED BY <2>10, <2>11 DEF e, g
<1>7. ASSUME NEW o \in Offsets
      PROVE  /\ c[o] \in {o, Missing}
             /\ c[o] # Missing => o < Size /\ o < z.next_off
             /\ o < Size /\ o < z.next_off => c[o] = o \/ Covered(s, o) \/ Retried(z.retry, o)
  <2>1. o \in Nat /\ y.next_off \in Nat /\ z.next_off \in Nat
    BY OffsetsNat, XferFields
  <2>2. /\ c[o] \in {o, Missing}
        /\ c[o] # Missing => o < Size /\ o < y.next_off
        /\ o < Size /\ o < y.next_off => c[o] = o \/ Covered(p, o) \/ Retried(y.retry, o)
    BY DEF Fetched
  <2>3. y.next_off <= z.next_off
    BY DEF AsksMore
  <2>4. Retried(y.retry, o) => Retried(z.retry, o) \/ Covered(s, o)
    BY <1>5 DEF AsksMore
  <2>5. y.next_off <= o /\ o < z.next_off => Covered(s, o)
    BY <1>5 DEF AsksMore
  <2>6. Covered(p, o) => Covered(s, o)
    BY <1>4
  <2>7. c[o] # Missing => o < Size /\ o < z.next_off
    BY <2>1, <2>2, <2>3
  <2>8. ASSUME o < Size, o < z.next_off
        PROVE  c[o] = o \/ Covered(s, o) \/ Retried(z.retry, o)
    <3>1. CASE o < y.next_off
      BY <2>2, <2>4, <2>6, <2>8, <3>1
    <3>2. CASE ~(o < y.next_off)
      BY <2>1, <2>5, <2>8, <3>2
    <3> QED BY <3>1, <3>2
  <2> QED BY <2>2, <2>7, <2>8
<1>8. (z.eof_known => Size <= z.next_off)
  <2>1. Size \in Nat /\ y.next_off \in Nat /\ z.next_off \in Nat
    BY Bounds, XferFields
  <2>2. y.next_off <= z.next_off /\ (z.eof_known => Size <= y.next_off)
    BY DEF AsksMore, Fetched
  <2> QED BY <2>1, <2>2
<1>9. Len(z.retry) + z.outstanding <= XferWindow /\ (z.total # 0 => z.next_off <= z.total)
  BY DEF AsksMore
<1> QED
  BY <1>6, <1>7, <1>8, <1>9 DEF Fetched, s

\* The pump asks again for the last block of those that came short.
LEMMA AgainAsked ==
    ASSUME NEW y \in Xfers, NEW z \in Xfers, NEW q \in AnyReq, NEW p, NEW c, Fetched(y, p, c),
           y.retry # <<>>, z.retry = Front(y.retry), z.next_off = y.next_off, Same(z, y),
           z.outstanding = y.outstanding + 1, q.type = "READ",
           q.off = Last(y.retry).off, q.len = Last(y.retry).len
    PROVE  AsksMore(z, y, q)
<1>0. y.retry \in Seq(Retries) /\ y.next_off \in Nat /\ y.outstanding \in Nat
  <2>1. y.retry \in Seq(Retries) /\ y.next_off \in Nat /\ y.outstanding \in 0..XferWindow
    BY XferFields DEF Retries
  <2> QED BY <2>1, Bounds
<1>1. /\ z.retry \in Seq(Retries) /\ Len(z.retry) = Len(y.retry) - 1 /\ Len(y.retry) \in Nat
      /\ \A k \in 1..Len(z.retry) : z.retry[k] = y.retry[k]
      /\ Last(y.retry) = y.retry[Len(y.retry)] /\ Last(y.retry) \in Retries
  <2> DEFINE s == y.retry
             f == Front(s)
  <2>1. s \in Seq(Retries) /\ s # <<>>
    BY <1>0
  <2>2. z.retry = f
    OBVIOUS
  <2> HIDE DEF s
  <2>3. /\ f \in Seq(Retries) /\ Len(f) = Len(s) - 1 /\ Len(s) \in Nat
        /\ \A k \in 1..Len(f) : f[k] = s[k]
        /\ Last(s) = s[Len(s)] /\ Last(s) \in Retries
    BY ONLY <2>1, Peeled
  <2> HIDE DEF f
  <2> QED BY ONLY <2>2, <2>3 DEF s
<1>2. Again(y.retry) = Again(z.retry) + Part(q)
  <2>1. Again(y.retry) = Again(Front(y.retry)) + Within(Last(y.retry).off, Last(y.retry).len)
    BY <1>0, AgainLast
  <2>2. Part(q) = Within(Last(y.retry).off, Last(y.retry).len)
    BY DEF Part, Blocks
  <2> QED BY <2>1, <2>2
<1>3. Part(q) + Again(z.retry) + Within(0, y.next_off) = Again(y.retry) + Within(0, z.next_off)
  <2>1. Again(y.retry) \in Nat /\ Again(z.retry) \in Nat
    BY <1>0, <1>1, AgainIs
  <2>2. Within(0, y.next_off) \in Nat
    BY <1>0, WithinNat
  <2>3. Part(q) \in Nat
    <3>1. q.off \in Nat /\ q.len \in Nat
      BY Bounds DEF AnyReq
    <3> QED BY <3>1, WithinNat DEF Part
  <2>4. Within(0, z.next_off) = Within(0, y.next_off)
    OBVIOUS
  <2> QED BY <1>2, <2>1, <2>2, <2>3, <2>4
<1>4. ASSUME NEW o \in Offsets, Retried(y.retry, o)
      PROVE  Retried(z.retry, o) \/ Spans(q, o)
  <2>1. PICK k \in 1..Len(y.retry) : Spans(y.retry[k], o)
    BY <1>4 DEF Retried
  <2>2. CASE k = Len(y.retry)
    <3>1. Spans(q, o)
      BY <1>1, <2>1, <2>2 DEF Spans
    <3> QED BY <3>1
  <2>3. CASE k # Len(y.retry)
    <3>1. k \in 1..Len(z.retry)
      BY <1>1, <2>3
    <3> QED BY <1>1, <2>1, <3>1 DEF Retried
  <2> QED BY <2>2, <2>3
<1>5. ASSUME NEW o \in Offsets, y.next_off <= o, o < z.next_off PROVE FALSE
  <2>1. o \in Nat
    BY OffsetsNat
  <2> QED BY <1>0, <1>5, <2>1
<1>6. Len(z.retry) + z.outstanding <= XferWindow
  <2>1. Len(y.retry) + y.outstanding <= XferWindow
    BY DEF Fetched
  <2>2. Len(z.retry) + z.outstanding = Len(y.retry) + y.outstanding
    BY <1>0, <1>1
  <2> QED BY <2>1, <2>2
<1>7. /\ z.done = y.done /\ z.total = y.total /\ z.eof_known = y.eof_known
      /\ z.total # 0 => z.next_off <= z.total
  BY DEF Same, Fetched
<1>8. y.next_off <= z.next_off
  BY <1>0
<1> QED
  BY <1>3, <1>4, <1>5, <1>6, <1>7, <1>8 DEF AsksMore

\* The pump asks for the next block.
LEMMA NextAsked ==
    ASSUME NEW y \in Xfers, NEW z \in Xfers, NEW q \in AnyReq, NEW p, NEW c, Fetched(y, p, c),
           Below(y), y.retry = <<>>, Ahead(y) # 0, z.retry = <<>>,
           z.next_off = y.next_off + Ahead(y), Same(z, y),
           z.outstanding = y.outstanding + 1, y.outstanding < XferWindow, q.type = "READ",
           q.off = y.next_off, q.len = Ahead(y)
    PROVE  AsksMore(z, y, q)
<1>0. /\ y.next_off \in Nat /\ z.next_off \in Nat /\ y.outstanding \in Nat
      /\ y.eof_at \in Nat /\ y.total \in Nat
  BY XferFields, Bounds
<1>1. /\ Ahead(y) \in 0..Chunk
      /\ Ahead(y) = 0 <=> IF y.eof_known THEN y.eof_at <= y.next_off
                          ELSE y.total # 0 /\ y.next_off >= y.total
      /\ ~y.eof_known /\ y.total # 0 /\ Ahead(y) # 0 => y.next_off + Ahead(y) <= y.total
  BY <1>0, AheadIs
<1>2. Ahead(y) \in Nat /\ ~y.eof_known
  BY <1>1, Bounds DEF Below
<1>3. Part(q) + Again(z.retry) + Within(0, y.next_off) = Again(y.retry) + Within(0, z.next_off)
  <2>1. Again(y.retry) = 0 /\ Again(z.retry) = 0
    BY AskingNone
  <2>2. Part(q) = Within(y.next_off, Ahead(y))
    BY DEF Part, Blocks
  <2> DEFINE a == y.next_off
             n == Ahead(y)
  <2>3. a \in Nat /\ n \in Nat /\ Size \in Nat /\ z.next_off = a + n
    BY <1>0, <1>2, Bounds
  <2> HIDE DEF a, n
  <2>4. Within(a, n) + Within(0, a) = Within(0, a + n)
    BY ONLY <2>3 DEF Within
  <2>5. Within(a, n) \in Nat /\ Within(0, a) \in Nat /\ Within(0, a + n) \in Nat
    <3>1. 0 \in Nat /\ a \in Nat /\ n \in Nat /\ a + n \in Nat
      BY <2>3
    <3> QED BY ONLY <3>1, WithinNat
  <2>6. Part(q) = Within(a, n) /\ Within(0, z.next_off) = Within(0, a + n)
    BY <2>2, <2>3 DEF a, n
  <2>7. Within(0, y.next_off) = Within(0, a)
    BY DEF a
  <2> QED BY <2>1, <2>4, <2>5, <2>6, <2>7
<1>4. \A o \in Offsets : ~Retried(y.retry, o)
  <2>1. Len(y.retry) = 0
    BY EmptySeq
  <2> QED BY <2>1 DEF Retried
<1>5. ASSUME NEW o \in Offsets, y.next_off <= o, o < z.next_off PROVE Spans(q, o)
  <2>1. o \in Nat
    BY OffsetsNat
  <2> QED BY <1>0, <1>2, <1>5, <2>1 DEF Spans
<1>6. Len(z.retry) + z.outstanding <= XferWindow
  <2>1. Len(z.retry) = 0 /\ XferWindow \in Nat
    BY Bounds, EmptySeq
  <2> QED BY <1>0, <2>1
<1>7. z.done = y.done /\ z.total = y.total /\ z.eof_known = y.eof_known
  BY DEF Same
<1>8. y.next_off <= z.next_off
  BY <1>0, <1>2
<1>9. z.total # 0 => z.next_off <= z.total
  BY <1>1, <1>2, <1>7
<1> QED
  BY <1>3, <1>4, <1>5, <1>6, <1>7, <1>8, <1>9 DEF AsksMore

\* A request that was taken off a list leaves the others on it.
LEMMA LeftThere ==
    ASSUME NEW S, NEW p \in Seq(S), NEW j \in 1..Len(p), NEW k \in 1..Len(p), k # j
    PROVE  \E i \in 1..Len(RemoveAt(p, j)) : RemoveAt(p, j)[i] = p[k]
<1> DEFINE s == RemoveAt(p, j)
<1>0. Len(p) \in Nat
  BY LenProperties
<1>1. /\ Len(s) = Len(p) - 1
      /\ \A i \in 1..(Len(p) - 1) : s[i] = IF i < j THEN p[i] ELSE p[i + 1]
  BY Removed
<1> HIDE DEF s
<1>2. CASE k < j
  <2>1. k \in 1..(Len(p) - 1)
    BY <1>0, <1>2
  <2>2. s[k] = p[k]
    BY <1>1, <1>2, <2>1
  <2> QED BY <1>1, <2>1, <2>2 DEF s
<1>3. CASE ~(k < j)
  <2>1. k - 1 \in 1..(Len(p) - 1) /\ ~(k - 1 < j) /\ (k - 1) + 1 = k
    BY <1>0, <1>3
  <2>2. s[k - 1] = p[k]
    BY <1>1, <2>1
  <2> QED BY <1>1, <2>1, <2>2 DEF s
<1> QED
  BY <1>2, <1>3

\* And there are no others.
LEMMA WasThere ==
    ASSUME NEW S, NEW p \in Seq(S), NEW j \in 1..Len(p), NEW i \in 1..Len(RemoveAt(p, j))
    PROVE  \E k \in 1..Len(p) : k # j /\ RemoveAt(p, j)[i] = p[k]
<1> DEFINE s == RemoveAt(p, j)
<1>0. Len(p) \in Nat
  BY LenProperties
<1>1. /\ Len(s) = Len(p) - 1
      /\ \A k \in 1..(Len(p) - 1) : s[k] = IF k < j THEN p[k] ELSE p[k + 1]
  BY Removed
<1>2. i \in 1..(Len(p) - 1)
  BY <1>1
<1> HIDE DEF s
<1>3. CASE i < j
  <2>1. i \in 1..Len(p) /\ i # j /\ s[i] = p[i]
    BY <1>0, <1>1, <1>2, <1>3
  <2> QED BY <2>1 DEF s
<1>4. CASE ~(i < j)
  <2>1. i + 1 \in 1..Len(p) /\ i + 1 # j
    BY <1>0, <1>2, <1>4
  <2>2. s[i] = p[i + 1]
    BY <1>1, <1>2, <1>4
  <2> QED BY <2>1, <2>2 DEF s
<1> QED
  BY <1>3, <1>4

\* What an answer makes of a download: z after y, with the copy d after c.
TakesAway(z, y, q, d, c) ==
    /\ Len(z.retry) + z.outstanding <= XferWindow
    /\ z.next_off = y.next_off /\ z.total = y.total /\ (z.eof_known => Size <= z.next_off)
    /\ z.done + Again(z.retry) = y.done + Again(y.retry) + Part(q)
    /\ \A o \in Offsets :
          /\ d[o] = c[o] \/ (d[o] = o /\ o < Size /\ o < y.next_off)
          /\ Retried(y.retry, o) => Retried(z.retry, o)
          /\ q.type \in Blocks /\ Spans(q, o) /\ o < Size => d[o] = o \/ Retried(z.retry, o)

\* A download after an answer that does not fail it is still right.
LEMMA FetchedDrop ==
    ASSUME NEW y \in Xfers, NEW z \in Xfers, NEW p \in Seq(AnyReq), NEW j \in 1..Len(p),
           NEW c, NEW d, Fetched(y, p, c), TakesAway(z, y, p[j], d, c)
    PROVE  Fetched(z, RemoveAt(p, j), d)
<1> DEFINE s == RemoveAt(p, j)
           q == p[j]
<1>0. q \in AnyReq
  BY ElementOfSeq
<1>1. s \in Seq(AnyReq)
  BY Removed
<1>2. Asking(s) = Asking(p) - Part(q)
  BY AskingLess
<1>3. Asking(p) \in Nat /\ Asking(s) \in Nat
  BY <1>1, AskingIs
<1>4. \A o : Covered(p, o) => Covered(s, o) \/ (q.type \in Blocks /\ Spans(q, o))
  <2> SUFFICES ASSUME NEW o, NEW k \in 1..Len(p), p[k].type \in Blocks, Spans(p[k], o), k # j
               PROVE  Covered(s, o)
    BY DEF Covered
  <2>1. PICK i \in 1..Len(s) : s[i] = p[k]
    BY LeftThere
  <2> HIDE DEF s
  <2> QED BY <2>1 DEF Covered
<1> HIDE DEF s, q
<1>6. z.done + Asking(s) + Again(z.retry) = Within(0, z.next_off)
  <2>1. /\ y.next_off \in Nat /\ z.next_off \in Nat /\ y.done \in Nat /\ z.done \in Nat
        /\ y.retry \in Seq(Retries) /\ z.retry \in Seq(Retries)
    BY XferFields DEF Retries
  <2>2. Again(y.retry) \in Nat /\ Again(z.retry) \in Nat
    BY <2>1, AgainIs
  <2>3. Within(0, y.next_off) \in Nat
    BY <2>1, WithinNat
  <2>4. Part(q) \in Nat
    <3>1. q.off \in Nat /\ q.len \in Nat
      BY <1>0, Bounds DEF AnyReq
    <3> QED BY <3>1, WithinNat DEF Part
  <2>5. y.done + Asking(p) + Again(y.retry) = Within(0, y.next_off)
    BY DEF Fetched
  <2>6. z.done + Again(z.retry) = y.done + Again(y.retry) + Part(q) /\ z.next_off = y.next_off
    BY DEF TakesAway, q
  <2> DEFINE a == Asking(p)
             b == Part(q)
             e == Again(y.retry)
             f == Again(z.retry)
             g == Within(0, y.next_off)
             h == y.done
             i == z.done
  <2>8. a \in Nat /\ b \in Nat /\ e \in Nat /\ f \in Nat /\ g \in Nat /\ h \in Nat /\ i \in Nat
    BY <1>3, <2>1, <2>2, <2>3, <2>4
  <2>9. h + a + e = g /\ i + f = h + e + b
    BY <2>5, <2>6
  <2> HIDE DEF a, b, e, f, g, h, i
  <2>11. i + (a - b) + f = g
    BY ONLY <2>8, <2>9
  <2> QED BY <1>2, <2>6, <2>11 DEF a, b, f, g, i
<1>7. ASSUME NEW o \in Offsets
      PROVE  /\ d[o] \in {o, Missing}
             /\ d[o] # Missing => o < Size /\ o < z.next_off
             /\ o < Size /\ o < z.next_off => d[o] = o \/ Covered(s, o) \/ Retried(z.retry, o)
  <2>1. o # Missing /\ z.next_off = y.next_off
    BY OffsetsNat DEF Missing, TakesAway
  <2>2. /\ c[o] \in {o, Missing}
        /\ c[o] # Missing => o < Size /\ o < y.next_off
        /\ o < Size /\ o < y.next_off => c[o] = o \/ Covered(p, o) \/ Retried(y.retry, o)
    BY DEF Fetched
  <2>3. /\ d[o] = c[o] \/ (d[o] = o /\ o < Size /\ o < y.next_off)
        /\ Retried(y.retry, o) => Retried(z.retry, o)
        /\ q.type \in Blocks /\ Spans(q, o) /\ o < Size => d[o] = o \/ Retried(z.retry, o)
    BY DEF TakesAway, q
  <2>4. Covered(p, o) => Covered(s, o) \/ (q.type \in Blocks /\ Spans(q, o))
    BY <1>4
  <2>5. d[o] \in {o, Missing} /\ (d[o] # Missing => o < Size /\ o < z.next_off)
    BY <2>1, <2>2, <2>3
  <2>6. ASSUME o < Size, o < z.next_off
        PROVE  d[o] = o \/ Covered(s, o) \/ Retried(z.retry, o)
    BY <2>1, <2>2, <2>3, <2>4, <2>6
  <2> QED BY <2>5, <2>6
<1>8. /\ Len(z.retry) + z.outstanding <= XferWindow /\ (z.eof_known => Size <= z.next_off)
      /\ z.total # 0 => z.next_off <= z.total
  BY DEF TakesAway, Fetched
<1> QED
  BY <1>6, <1>7, <1>8 DEF Fetched, s

\* Units of a block came: they are in the copy, and the rest is to be asked for again.
LEMMA TookAway ==
    ASSUME NEW y \in Xfers, NEW z \in Xfers, NEW q \in AnyReq, NEW n \in Nat, NEW p, NEW c, NEW d,
           Fetched(y, p, c), y.outstanding > 0, q.type = "READ", n > 0, n <= q.len,
           q.off + n <= Size, q.off + q.len <= y.next_off,
           z.outstanding = y.outstanding - 1, z.done = y.done + n, z.next_off = y.next_off,
           z.total = y.total, z.eof_known = y.eof_known,
           z.retry = IF n < q.len /\ Len(y.retry) < XferWindow
                     THEN Append(y.retry, [off |-> q.off + n, len |-> q.len - n]) ELSE y.retry,
           \A o \in Offsets : d[o] = IF o \in q.off..(q.off + n - 1) THEN o ELSE c[o]
    PROVE  TakesAway(z, y, q, d, c)
<1> DEFINE rest == [off |-> q.off + n, len |-> q.len - n]
           short == n < q.len
<1>0. /\ y.retry \in Seq(Retries) /\ y.next_off \in Nat /\ y.done \in Nat
      /\ y.outstanding \in Nat /\ XferWindow \in Nat /\ Len(y.retry) \in Nat
  <2>1. y.retry \in Seq(Retries) /\ y.next_off \in Nat /\ y.done \in Nat /\ y.outstanding \in 0..XferWindow
    BY XferFields DEF Retries
  <2> QED BY <2>1, Bounds, LenProperties
<1>1. /\ q.off \in Nat /\ q.len \in Nat /\ q.len <= Chunk /\ Size \in Nat /\ Chunk \in Nat
  BY Bounds DEF AnyReq
<1>2. Len(y.retry) + y.outstanding <= XferWindow
  BY DEF Fetched
<1>3. Len(y.retry) < XferWindow
  BY <1>0, <1>2
<1>4. short => rest \in Retries /\ rest.off = q.off + n /\ rest.len = q.len - n
  <2> SUFFICES ASSUME short PROVE rest \in Retries
    OBVIOUS
  <2> DEFINE o == q.off
             l == q.len
  <2>1. o \in Nat /\ l \in Nat /\ l <= Chunk /\ n < l /\ n > 0
    BY <1>1
  <2> HIDE DEF o, l
  <2>2. o + n \in Nat /\ l - n \in 1..Chunk
    BY ONLY <2>1, <1>1, n \in Nat
  <2>3. [off |-> o + n, len |-> l - n] \in Retries
    BY <2>2 DEF Retries
  <2> QED BY <2>3 DEF o, l
<1>5. z.retry = IF short THEN Append(y.retry, rest) ELSE y.retry
  BY <1>3
<1> HIDE DEF rest
<1>6. short => /\ Len(Append(y.retry, rest)) = Len(y.retry) + 1
               /\ Append(y.retry, rest)[Len(y.retry) + 1] = rest
               /\ \A k \in 1..Len(y.retry) : Append(y.retry, rest)[k] = y.retry[k]
  BY <1>0, <1>4, AppendProperties
<1>7. Len(z.retry) + z.outstanding <= XferWindow
  <2>1. Len(z.retry) = Len(y.retry) \/ Len(z.retry) = Len(y.retry) + 1
    BY <1>5, <1>6
  <2>2. z.outstanding = y.outstanding - 1
    OBVIOUS
  <2> QED BY <1>0, <1>2, <2>1, <2>2
<1>8. z.done + Again(z.retry) = y.done + Again(y.retry) + Part(q)
  <2> DEFINE a == Again(y.retry)
             b == Again(z.retry)
             h == y.done
             o == q.off
             l == q.len
  <2>1. a \in Nat /\ h \in Nat /\ o \in Nat /\ l \in Nat
    BY <1>0, <1>1, AgainIs
  <2>2. Part(q) = Within(o, l)
    BY DEF Part, Blocks
  <2>3. b = IF short THEN a + Within(o + n, l - n) ELSE a
    <3>1. CASE short
      <4>1. Again(Append(y.retry, rest)) = Again(y.retry) + Within(rest.off, rest.len)
        BY <1>0, <1>4, <3>1, AgainMore
      <4> QED BY <1>4, <1>5, <3>1, <4>1
    <3>2. CASE ~short
      BY <1>5, <3>2
    <3> QED BY <3>1, <3>2
  <2>4. short <=> n < l
    OBVIOUS
  <2>5. o + n <= Size /\ n <= l /\ n > 0 /\ Size \in Nat
    BY <1>1
  <2>6. z.done = h + n
    OBVIOUS
  <2> HIDE DEF short, a, b, h, o, l
  <2>7. Within(o, l) = IF short THEN n + Within(o + n, l - n) ELSE n
    BY ONLY <2>1, <2>4, <2>5, n \in Nat DEF Within
  <2>8. short => Within(o + n, l - n) \in Nat
    <3> SUFFICES ASSUME short PROVE Within(o + n, l - n) \in Nat
      OBVIOUS
    <3>1. o + n \in Nat /\ l - n \in Nat
      BY <2>1, <2>4, <2>5
    <3> QED BY ONLY <3>1, WithinNat
  <2>9. h + n + b = h + a + Within(o, l)
    BY ONLY <2>1, <2>3, <2>7, <2>8, n \in Nat
  <2> QED BY <2>2, <2>6, <2>9 DEF a, b, h
<1>9. ASSUME NEW i \in Offsets
      PROVE  /\ d[i] = c[i] \/ (d[i] = i /\ i < Size /\ i < y.next_off)
             /\ Retried(y.retry, i) => Retried(z.retry, i)
             /\ q.type \in Blocks /\ Spans(q, i) /\ i < Size => d[i] = i \/ Retried(z.retry, i)
  <2>0. i \in Nat
    BY OffsetsNat
  <2>1. d[i] = c[i] \/ (d[i] = i /\ i < Size /\ i < y.next_off)
    <3>1. CASE i \in q.off..(q.off + n - 1)
      <4>1. d[i] = i
        BY <3>1
      <4>2. i < Size /\ i < y.next_off
        <5> DEFINE o == q.off
                   l == q.len
                   m == y.next_off
        <5>1. /\ o \in Nat /\ l \in Nat /\ m \in Nat /\ Size \in Nat /\ n <= l
              /\ o + n <= Size /\ o + l <= m /\ i \in o..(o + n - 1)
          BY <1>0, <1>1, <3>1
        <5> HIDE DEF o, l, m
        <5>2. i < Size /\ i < m
          BY ONLY <5>1, <2>0, n \in Nat
        <5> QED BY <5>2 DEF m
      <4> QED BY <4>1, <4>2
    <3>2. CASE i \notin q.off..(q.off + n - 1)
      BY <3>2
    <3> QED BY <3>1, <3>2
  <2>2. ASSUME Retried(y.retry, i) PROVE Retried(z.retry, i)
    <3>1. PICK k \in 1..Len(y.retry) : Spans(y.retry[k], i)
      BY <2>2 DEF Retried
    <3>2. k \in 1..Len(z.retry) /\ z.retry[k] = y.retry[k]
      BY <1>0, <1>5, <1>6
    <3> QED BY <3>1, <3>2 DEF Retried
  <2>3. ASSUME Spans(q, i) PROVE d[i] = i \/ Retried(z.retry, i)
    <3>1. CASE i \in q.off..(q.off + n - 1)
      BY <3>1
    <3>2. CASE i \notin q.off..(q.off + n - 1)
      <4>1. i \in q.off..(q.off + q.len - 1)
        BY <2>3 DEF Spans
      <4>2. short /\ i \in (q.off + n)..(q.off + n + (q.len - n) - 1)
        <5> DEFINE o == q.off
                   l == q.len
        <5>1. /\ o \in Nat /\ l \in Nat /\ n <= l /\ i \notin o..(o + n - 1)
              /\ i \in o..(o + l - 1)
          BY <1>1, <3>2, <4>1
        <5> HIDE DEF o, l
        <5>2. n < l /\ i \in (o + n)..(o + n + (l - n) - 1)
          BY ONLY <5>1, <2>0, n \in Nat
        <5> QED BY <5>2 DEF o, l
      <4>3. Spans(rest, i)
        BY <1>4, <4>2 DEF Spans
      <4>4. Len(y.retry) + 1 \in 1..Len(z.retry) /\ z.retry[Len(y.retry) + 1] = rest
        <5>1. z.retry = Append(y.retry, rest) /\ Len(z.retry) = Len(y.retry) + 1
          BY <1>5, <1>6, <4>2
        <5>2. Len(y.retry) + 1 \in 1..(Len(y.retry) + 1)
          BY <1>0
        <5> QED BY <1>6, <4>2, <5>1, <5>2
      <4> QED BY <4>3, <4>4 DEF Retried
    <3> QED BY <3>1, <3>2
  <2> QED BY <2>1, <2>2, <2>3
<1>10. z.eof_known => Size <= z.next_off
  BY DEF Fetched
<1> QED
  BY <1>7, <1>8, <1>9, <1>10 DEF TakesAway

\* No unit of the file came, for there is none where it was asked for.
LEMMA EofAway ==
    ASSUME NEW y \in Xfers, NEW z \in Xfers, NEW q \in AnyReq, NEW p, NEW c,
           Fetched(y, p, c), y.outstanding > 0, q.type = "READ", q.off >= Size,
           q.off + q.len <= y.next_off,
           z.outstanding = y.outstanding - 1, z.done = y.done, z.next_off = y.next_off,
           z.total = y.total, z.retry = y.retry
    PROVE  TakesAway(z, y, q, c, c)
<1>0. /\ y.retry \in Seq(Retries) /\ y.next_off \in Nat /\ y.done \in Nat
      /\ y.outstanding \in Nat /\ XferWindow \in Nat /\ Len(y.retry) \in Nat
  <2>1. y.retry \in Seq(Retries) /\ y.next_off \in Nat /\ y.done \in Nat /\ y.outstanding \in 0..XferWindow
    BY XferFields DEF Retries
  <2> QED BY <2>1, Bounds, LenProperties
<1>1. q.off \in Nat /\ q.len \in Nat /\ Size \in Nat
  BY Bounds DEF AnyReq
<1>2. Len(z.retry) + z.outstanding <= XferWindow
  BY <1>0 DEF Fetched
<1>3. Part(q) = 0
  BY <1>1 DEF Part, Within
<1>4. z.done + Again(z.retry) = y.done + Again(y.retry) + Part(q)
  <2>1. Again(y.retry) \in Nat
    BY <1>0, AgainIs
  <2> QED BY <1>0, <1>3, <2>1
<1>5. ASSUME NEW o \in Offsets, Spans(q, o), o < Size PROVE FALSE
  <2>1. o \in Nat
    BY OffsetsNat
  <2> QED BY <1>1, <1>5, <2>1 DEF Spans
<1>6. Size <= z.next_off
  BY <1>0, <1>1
<1> QED
  BY <1>2, <1>4, <1>5, <1>6 DEF TakesAway

\* An answer that is not about a block.
LEMMA NoBlock ==
    ASSUME NEW y \in Xfers, NEW z \in Xfers, NEW q, q.type \notin Blocks, NEW p, NEW c,
           Fetched(y, p, c), z.outstanding = y.outstanding, z.done = y.done,
           z.next_off = y.next_off, z.total = y.total, z.retry = y.retry,
           z.eof_known = y.eof_known
    PROVE  TakesAway(z, y, q, c, c)
<1>0. y.retry \in Seq(Retries) /\ y.done \in Nat
  BY XferFields DEF Retries
<1>1. Again(y.retry) \in Nat
  BY <1>0, AgainIs
<1>2. Part(q) = 0
  BY DEF Part
<1>3. z.done + Again(z.retry) = y.done + Again(y.retry) + Part(q)
  BY <1>0, <1>1, <1>2
<1>4. Len(z.retry) + z.outstanding <= XferWindow /\ (z.eof_known => Size <= z.next_off)
  BY DEF Fetched
<1> QED
  BY <1>3, <1>4 DEF TakesAway

-----------------------------------------------------------------------------
(* An upload *)

\* An upload that writes a block more is still right.
LEMMA StoredGrow ==
    ASSUME NEW y \in Xfers, NEW z \in Xfers, NEW p \in Seq(AnyReq), NEW q \in AnyReq, NEW a, NEW c,
           NEW at \in Nat, NEW n \in Nat, Stored(y, p, a, c, at), q.type = "WRITE",
           q.off = y.next_off, q.unit = at, q.len = n, at + n <= Size, Unheard(q, a),
           z.next_off = y.next_off + n, ~z.local_eof, z.total = y.total, z.done = y.done
    PROVE  Stored(z, Append(p, q), a, c, at + n)
<1> DEFINE s == Append(p, q)
<1>0. Len(p) \in Nat /\ y.next_off \in Nat /\ z.next_off \in Nat /\ y.done \in Nat /\ Size \in Nat
  BY LenProperties, XferFields, Bounds
<1>1. /\ s \in Seq(AnyReq) /\ Len(s) = Len(p) + 1 /\ s[Len(p) + 1] = q
      /\ \A k \in 1..Len(p) : s[k] = p[k]
  BY AppendProperties
<1>2. Asking(s) = Asking(p) + Part(q)
  BY AskingMore
<1> HIDE DEF s
<1>3. at = y.next_off /\ y.total = Size /\ y.done + Asking(p) = y.next_off
  BY DEF Stored
<1>4. Part(q) = n
  <2>1. Part(q) = Within(at, n)
    BY <1>3 DEF Part, Blocks
  <2>2. Within(at, n) = n
    BY <1>0 DEF Within
  <2> QED BY <2>1, <2>2
<1>5. z.done + Asking(s) = z.next_off
  <2>1. Asking(p) \in Nat
    BY AskingIs
  <2> QED BY <1>0, <1>2, <1>3, <1>4, <2>1
<1>6. \A k \in 1..Len(s) : Faithful(s[k], z)
  <2> TAKE k \in 1..Len(s)
  <2>1. CASE k \in 1..Len(p)
    <3>1. Faithful(p[k], y) /\ p[k] \in AnyReq /\ s[k] = p[k]
      BY <1>1, <2>1, ElementOfSeq DEF Stored
    <3> DEFINE r == p[k]
    <3>2. r \in AnyReq /\ Faithful(r, y)
      BY <3>1
    <3> HIDE DEF r
    <3>3. r.off \in Nat /\ r.len \in Nat
      BY <3>2, Bounds DEF AnyReq
    <3>a. r.off + r.len \in Nat
      BY <3>3
    <3>b. y.next_off <= z.next_off
      BY <1>0
    <3>4. r.off + r.len \in Nat /\ y.next_off <= z.next_off
      BY <3>a, <3>b
    <3>5. r.type = "WRITE" => r.off + r.len <= z.next_off
      <4> SUFFICES ASSUME r.type = "WRITE" PROVE r.off + r.len <= z.next_off
        OBVIOUS
      <4>1. r.off + r.len <= y.next_off
        BY <3>2 DEF Faithful
      <4> DEFINE l == r.off + r.len
      <4> HIDE DEF l
      <4>2. l \in Nat /\ l <= y.next_off
        BY <3>4, <4>1 DEF l
      <4>3. l <= z.next_off
        BY <1>0, <3>4, <4>2
      <4> QED BY <4>3 DEF l
    <3>6. Faithful(r, z)
      BY <3>2, <3>5 DEF Faithful
    <3> QED BY <3>1, <3>6 DEF r
  <2>2. CASE k \notin 1..Len(p)
    <3>1. s[k] = q
      BY <1>0, <1>1, <2>2
    <3>2. Faithful(q, z)
      BY <1>0, <1>3 DEF Faithful
    <3> QED BY <3>1, <3>2
  <2> QED BY <2>1, <2>2
<1>7. ASSUME NEW o \in Offsets
      PROVE  /\ c[o] \in {o, Missing}
             /\ c[o] # Missing => o < z.next_off
             /\ o < z.next_off => c[o] = o \/ Awaited(s, a, o)
  <2>1. o \in Nat
    BY OffsetsNat
  <2>2. /\ c[o] \in {o, Missing} /\ (c[o] # Missing => o < y.next_off)
        /\ o < y.next_off => c[o] = o \/ Awaited(p, a, o)
    BY DEF Stored
  <2>3. Awaited(p, a, o) => Awaited(s, a, o)
    <3> SUFFICES ASSUME NEW k \in 1..Len(p), p[k].type \in Blocks, Spans(p[k], o),
                        ~Carried(p[k], a)
                 PROVE  Awaited(s, a, o)
      BY DEF Awaited
    <3>1. 1..Len(p) \subseteq 1..Len(s)
      BY <1>0, <1>1
    <3>2. k \in 1..Len(s) /\ s[k] = p[k]
      BY <1>1, <3>1
    <3> QED BY <3>2 DEF Awaited
  <2>4. ASSUME ~(o < y.next_off), o < z.next_off PROVE Awaited(s, a, o)
    <3>1. ~Carried(q, a)
      BY DEF Unheard, Carried
    <3>2. Spans(q, o)
      BY <1>0, <2>1, <2>4 DEF Spans
    <3>3. Len(p) + 1 \in 1..Len(s)
      BY <1>0, <1>1
    <3> QED BY <1>1, <3>1, <3>2, <3>3 DEF Awaited, Blocks
  <2>5. c[o] # Missing => o < z.next_off
    BY <1>0, <2>1, <2>2
  <2> QED BY <2>2, <2>3, <2>4, <2>5
<1>8. at + n = z.next_off /\ z.total = Size
  BY <1>3
<1> QED
  BY <1>5, <1>6, <1>7, <1>8 DEF Stored, s

\* An upload after an answer that does not fail it is still right.
LEMMA StoredDrop ==
    ASSUME NEW y \in Xfers, NEW z \in Xfers, NEW p \in Seq(AnyReq), NEW j \in 1..Len(p),
           NEW a, NEW b, NEW c, NEW at, Stored(y, p, a, c, at), at <= Size,
           p[j].type \in Blocks => p[j].type = "WRITE" /\ Carried(p[j], a),
           \A q : Carried(q, b) => Carried(q, a),
           z.next_off = y.next_off, z.local_eof = y.local_eof, z.total = y.total,
           z.done = IF p[j].type \in Blocks THEN y.done + p[j].len ELSE y.done
    PROVE  Stored(z, RemoveAt(p, j), b, c, at)
<1> DEFINE s == RemoveAt(p, j)
           q == p[j]
<1>0. Len(p) \in Nat /\ y.next_off \in Nat /\ y.done \in Nat /\ Size \in Nat
  BY LenProperties, XferFields, Bounds
<1>1. s \in Seq(AnyReq)
  BY Removed
<1>2. Asking(s) = Asking(p) - Part(q)
  BY AskingLess
<1>3. at = y.next_off /\ y.total = Size /\ y.done + Asking(p) = y.next_off
  BY DEF Stored
<1>a. q \in AnyReq /\ q.off \in Nat /\ q.len \in Nat
  <2>1. q \in AnyReq
    BY ElementOfSeq
  <2> QED BY <2>1, Bounds DEF AnyReq
<1>b. \A i \in 1..Len(s) : \E k \in 1..Len(p) : k # j /\ s[i] = p[k]
  BY WasThere
<1>c. \A k \in 1..Len(p) : k # j => \E i \in 1..Len(s) : s[i] = p[k]
  BY LeftThere
<1> HIDE DEF s
<1>4. Part(q) = IF q.type \in Blocks THEN q.len ELSE 0
  <2>1. CASE q.type \in Blocks
    <3>1. q.off + q.len <= y.next_off
      BY <2>1 DEF Stored, Faithful
    <3> DEFINE o == q.off
               l == q.len
               m == y.next_off
    <3>2. o \in Nat /\ l \in Nat /\ m \in Nat /\ Size \in Nat /\ o + l <= m /\ m <= Size
      BY <1>0, <1>3, <1>a, <3>1
    <3>3. Part(q) = Within(o, l)
      BY <2>1 DEF Part
    <3> HIDE DEF o, l, m
    <3>4. Within(o, l) = l
      BY ONLY <3>2 DEF Within
    <3> QED BY <2>1, <3>3, <3>4 DEF l
  <2>2. CASE q.type \notin Blocks
    BY <2>2 DEF Part
  <2> QED BY <2>1, <2>2
<1>5. z.done + Asking(s) = z.next_off
  <2>1. Asking(p) \in Nat
    BY AskingIs
  <2> DEFINE t == Part(q)
             e == Asking(p)
             h == y.done
             m == y.next_off
  <2>2. t \in Nat /\ e \in Nat /\ h \in Nat /\ m \in Nat /\ h + e = m
    BY <1>0, <1>3, <1>4, <1>a, <2>1
  <2>3. z.done = h + t
    BY <1>0, <1>4
  <2> HIDE DEF t, e, h, m
  <2>4. h + t + (e - t) = m
    BY ONLY <2>2
  <2>5. z.next_off = m
    BY DEF m
  <2> QED BY <1>2, <2>3, <2>4, <2>5 DEF t, e
<1>6. \A k \in 1..Len(s) : Faithful(s[k], z)
  <2> TAKE i \in 1..Len(s)
  <2>1. PICK k \in 1..Len(p) : s[i] = p[k]
    BY <1>b
  <2>2. Faithful(p[k], y)
    BY DEF Stored
  <2> QED BY <2>1, <2>2 DEF Faithful
<1>7. ASSUME NEW o \in Offsets, Awaited(p, a, o)
      PROVE  Awaited(s, b, o)
  <2>1. PICK k \in 1..Len(p) : p[k].type \in Blocks /\ Spans(p[k], o) /\ ~Carried(p[k], a)
    BY <1>7 DEF Awaited
  <2>2. k # j
    BY <2>1
  <2>3. PICK i \in 1..Len(s) : s[i] = p[k]
    BY <1>c, <2>2
  <2>4. ~Carried(s[i], b)
    BY <2>1, <2>3
  <2> QED BY <2>1, <2>3, <2>4 DEF Awaited
<1>8. \A o \in Offsets :
         /\ c[o] \in {o, Missing} /\ (c[o] # Missing => o < z.next_off)
         /\ o < z.next_off => c[o] = o \/ Awaited(s, b, o)
  BY <1>7 DEF Stored
<1>9. at = z.next_off /\ (z.local_eof => at = Size) /\ z.total = Size
  BY DEF Stored
<1> QED
  BY <1>5, <1>6, <1>8, <1>9 DEF Stored, s

\* So it is when the server carries out a write, or answers something else.
LEMMA StoredOn ==
    ASSUME NEW y, NEW p, NEW a, NEW b, NEW c, NEW d, NEW at, Stored(y, p, a, c, at),
           \A o \in Offsets : d[o] = c[o] \/ (d[o] = o /\ o < y.next_off),
           \A k \in 1..Len(p) : \A o \in Offsets :
              p[k].type \in Blocks /\ Spans(p[k], o) /\ Carried(p[k], b)
                 => Carried(p[k], a) \/ d[o] = o
    PROVE  Stored(y, p, b, d, at)
<1>1. ASSUME NEW o \in Offsets
      PROVE  /\ d[o] \in {o, Missing} /\ (d[o] # Missing => o < y.next_off)
             /\ o < y.next_off => d[o] = o \/ Awaited(p, b, o)
  <2>1. /\ c[o] \in {o, Missing} /\ (c[o] # Missing => o < y.next_off)
        /\ o < y.next_off => c[o] = o \/ Awaited(p, a, o)
    BY DEF Stored
  <2>2. d[o] = c[o] \/ (d[o] = o /\ o < y.next_off)
    OBVIOUS
  <2>3. ASSUME Awaited(p, a, o) PROVE d[o] = o \/ Awaited(p, b, o)
    BY <2>3 DEF Awaited
  <2> QED BY <2>1, <2>2, <2>3
<1> QED
  BY <1>1 DEF Stored

-----------------------------------------------------------------------------
(* The pump *)

\* Of the transfer and what pends, without the failures at the server.
CopyFits(y, p, a, c, at) == IF y.upload THEN Stored(y, p, a, c, at) ELSE Fetched(y, p, c)

\* The close of its file leaves a transfer right.
LEMMA QuietlyMore ==
    ASSUME NEW y \in Xfers, NEW z \in Xfers, NEW p \in Seq(AnyReq), NEW q \in AnyReq,
           NEW a, NEW c, NEW at, CopyFits(y, p, a, c, at), q.type = "CLOSE",
           z.upload = y.upload, z.retry = y.retry, z.outstanding = y.outstanding,
           z.next_off = y.next_off, z.done = y.done, z.total = y.total,
           z.eof_known = y.eof_known, z.local_eof = y.local_eof
    PROVE  CopyFits(z, Append(p, q), a, c, at)
<1> DEFINE s == Append(p, q)
<1>0. Len(p) \in Nat /\ Asking(p) \in Nat
  BY LenProperties, AskingIs
<1>1. /\ s \in Seq(AnyReq) /\ Len(s) = Len(p) + 1 /\ s[Len(p) + 1] = q
      /\ \A k \in 1..Len(p) : s[k] = p[k]
  BY AppendProperties
<1>2. Asking(s) = Asking(p)
  <2>1. Part(q) = 0
    BY DEF Part, Blocks
  <2>2. Asking(s) = Asking(p) + Part(q)
    BY AskingMore
  <2> HIDE DEF s
  <2> QED BY <1>0, <2>1, <2>2
<1> HIDE DEF s
<1>3. 1..Len(p) \subseteq 1..Len(s)
  BY <1>0, <1>1
<1>4. \A o : Covered(p, o) => Covered(s, o)
  BY <1>1, <1>3 DEF Covered
<1>5. \A o : Awaited(p, a, o) => Awaited(s, a, o)
  BY <1>1, <1>3 DEF Awaited
<1>6. \A k \in 1..Len(s) : k \in 1..Len(p) \/ s[k] = q
  BY <1>0, <1>1
<1>7. ASSUME Fetched(y, p, c) PROVE Fetched(z, s, c)
  BY <1>2, <1>4, <1>7 DEF Fetched
<1>8. ASSUME Stored(y, p, a, c, at) PROVE Stored(z, s, a, c, at)
  <2>1. \A k \in 1..Len(s) : Faithful(s[k], z)
    <3> TAKE k \in 1..Len(s)
    <3>1. CASE k \in 1..Len(p)
      <4>1. Faithful(p[k], y)
        BY <1>8, <3>1 DEF Stored
      <4> QED BY <1>1, <3>1, <4>1 DEF Faithful
    <3>2. CASE s[k] = q
      BY <3>2 DEF Faithful
    <3> QED BY <1>6, <3>1, <3>2
  <2> QED BY <1>2, <1>5, <1>8, <2>1 DEF Stored
<1> QED
  BY <1>7, <1>8 DEF CopyFits, s

\* What pends once a handler at w is done.
NowPend(w, left) == left \o [k \in 1..Len(w.reqs) |-> Request(next_id + k, w.reqs[k])]

\* It is a list of requests; one request more comes last; none leaves the list as it is.
LEMMA NowPendIs ==
    ASSUME next_id \in Nat, NEW left \in Seq(Requests(next_id)), NEW w \in Works
    PROVE  NowPend(w, left) \in Seq(AnyReq)
<1>1. w.reqs \in Seq(Reqs) /\ Len(w.reqs) \in Nat
  BY LenProperties DEF Works
<1>2. Listed(NowPend(w, left), left, w.reqs, next_id)
  BY <1>1, ListedBy DEF NowPend
<1>3. next_id + Len(w.reqs) \in Nat
  BY <1>1
<1> QED
  BY <1>2, <1>3, AnyRequests DEF Listed

\* Without requests of the handler it is what was left.
LEMMA NowPendNone ==
    ASSUME next_id \in Nat, NEW left \in Seq(Requests(next_id)), NEW w \in Works, w.reqs = <<>>
    PROVE  NowPend(w, left) = left
<1>1. w.reqs \in Seq(Reqs) /\ Len(w.reqs) = 0
  BY EmptySeq DEF Works
<1> DEFINE s == NowPend(w, left)
<1>2. Listed(s, left, w.reqs, next_id)
  BY <1>1, ListedBy DEF NowPend
<1> HIDE DEF s
<1>3. Len(left) \in Nat
  BY LenProperties
<1>4. Len(s) = Len(left) /\ (\A k \in 1..Len(left) : s[k] = left[k]) /\ s \in Seq(Requests(next_id))
  <2>1. next_id + Len(w.reqs) = next_id
    BY <1>1
  <2> QED BY <1>1, <1>2, <1>3, <2>1 DEF Listed
<1>5. s = left
  BY <1>3, <1>4, SeqEqual
<1> QED
  BY <1>5 DEF s

\* A request more of the handler comes last, with the next number.
LEMMA NowPendMore ==
    ASSUME next_id \in Nat, NEW left \in Seq(Requests(next_id)), NEW w \in Works, NEW u, NEW r \in Reqs,
           NEW n, More(w, u, r, n) \in Works
    PROVE  LET q == Request(next_id + (Len(w.reqs) + 1), r)
           IN  /\ q \in AnyReq /\ q.type = r.type /\ q.off = r.off /\ q.len = r.len
               /\ q.unit = r.unit /\ q.id = next_id + (Len(w.reqs) + 1)
               /\ NowPend(More(w, u, r, n), left) = Append(NowPend(w, left), q)
<1> DEFINE v == More(w, u, r, n)
           m == Len(w.reqs)
           q == Request(next_id + (m + 1), r)
           s == NowPend(w, left)
           t == NowPend(v, left)
<1>1. w.reqs \in Seq(Reqs) /\ m \in Nat
  BY LenProperties DEF Works
<1>2. v.reqs = Append(w.reqs, r) /\ v.reqs \in Seq(Reqs)
  BY DEF More, Works
<1>3. Len(v.reqs) = m + 1 /\ v.reqs[m + 1] = r /\ \A k \in 1..m : v.reqs[k] = w.reqs[k]
  BY <1>1, <1>2, AppendProperties
<1>4. Listed(s, left, w.reqs, next_id) /\ Listed(t, left, v.reqs, next_id)
  BY <1>1, <1>2, ListedBy DEF NowPend
<1>5. s \in Seq(AnyReq) /\ t \in Seq(AnyReq)
  BY NowPendIs
<1>6. q \in AnyReq /\ q.type = r.type /\ q.off = r.off /\ q.len = r.len /\ q.unit = r.unit
      /\ q.id = next_id + (m + 1)
  <2>1. next_id + (m + 1) \in Nat
    BY <1>1
  <2> HIDE DEF m
  <2> QED BY <2>1 DEF Request, AnyReq, Reqs
<1> HIDE DEF v, m, q, s, t
<1>7. Len(left) \in Nat
  BY LenProperties
<1>8. Len(s) = Len(left) + m /\ Len(t) = Len(left) + m + 1
  BY <1>1, <1>3, <1>4, <1>7 DEF Listed, m
<1>9. /\ Append(s, q) \in Seq(AnyReq) /\ Len(Append(s, q)) = Len(s) + 1
      /\ Append(s, q)[Len(s) + 1] = q /\ \A k \in 1..Len(s) : Append(s, q)[k] = s[k]
  BY <1>5, <1>6, AppendProperties
<1>10. \A k \in 1..Len(left) : s[k] = left[k] /\ t[k] = left[k]
  BY <1>4 DEF Listed
<1>11. \A k \in 1..m : s[Len(left) + k] = t[Len(left) + k]
  <2> TAKE k \in 1..m
  <2>1. k \in 1..Len(v.reqs) /\ k \in 1..Len(w.reqs)
    BY <1>1, <1>3 DEF m
  <2>2. t[Len(left) + k] = Request(next_id + k, v.reqs[k])
    BY <1>4, <2>1 DEF Listed
  <2>3. s[Len(left) + k] = Request(next_id + k, w.reqs[k])
    BY <1>4, <2>1 DEF Listed
  <2> QED BY <1>3, <2>2, <2>3
<1>12. t[Len(left) + m + 1] = q
  <2>1. m + 1 \in 1..Len(v.reqs)
    BY <1>1, <1>3
  <2>2. t[Len(left) + (m + 1)] = Request(next_id + (m + 1), v.reqs[m + 1])
    BY <1>4, <2>1 DEF Listed
  <2>3. Len(left) + (m + 1) = Len(left) + m + 1
    BY <1>1, <1>7
  <2> QED BY <1>3, <2>2, <2>3 DEF q
<1>13. \A k \in 1..Len(t) : t[k] = Append(s, q)[k]
  <2> TAKE k \in 1..Len(t)
  <2>1. CASE k \in 1..Len(left)
    <3>1. k \in 1..Len(s)
      BY <1>1, <1>7, <1>8, <2>1
    <3> QED BY <1>9, <1>10, <2>1, <3>1
  <2>2. CASE k = Len(left) + m + 1
    BY <1>8, <1>9, <1>12, <2>2
  <2>3. CASE k \notin 1..Len(left) /\ k # Len(left) + m + 1
    <3>1. k - Len(left) \in 1..m /\ Len(left) + (k - Len(left)) = k /\ k \in 1..Len(s)
      BY <1>1, <1>7, <1>8, <2>3
    <3> QED BY <1>9, <1>11, <3>1
  <2> QED BY <2>1, <2>2, <2>3
<1>14. t = Append(s, q)
  <2>1. Len(t) = Len(Append(s, q))
    BY <1>8, <1>9
  <2> QED BY <1>5, <1>9, <1>13, <2>1, SeqEqual
<1> QED
  BY <1>6, <1>14 DEF v, m, q, s, t

\* The handler's work, while nothing has gone wrong, leaves a right copy with what pends.
RightWork(w, left, a, c) ==
    ~w.x.failed /\ ~w.x.cancelled => CopyFits(w.x, NowPend(w, left), a, c, pos + w.read)

\* A turn of the loop keeps it.
LEMMA TurnRight ==
    ASSUME next_id \in Nat, pos \in Nat, NEW left \in Seq(Requests(next_id)),
           NEW a \in Seq(Responses(next_id)), NEW c, NEW w \in Works, NEW v \in Works,
           Turned(v, w), Below(w.x), RightWork(w, left, a, c)
    PROVE  RightWork(v, left, a, c)
<1> DEFINE p == NowPend(w, left)
<1>1. CASE v = w
  BY <1>1
<1>0. w.x \in Xfers /\ v.x \in Xfers /\ w.read \in Nat /\ w.reqs \in Seq(Reqs)
  BY DEF Works
<1>2. CASE ~w.x.failed /\ ~w.x.cancelled /\ ReadsNoMore(v, w)
  <2> SUFFICES ASSUME ~v.x.failed PROVE CopyFits(v.x, NowPend(v, left), a, c, pos + v.read)
    BY DEF RightWork
  <2>1. /\ w.x.upload /\ v.reqs = w.reqs /\ v.read = w.read /\ Same(v.x, w.x)
        /\ v.x.next_off = w.x.next_off /\ pos + w.read = Size
    BY <1>2 DEF ReadsNoMore
  <2>2. Stored(w.x, p, a, c, pos + w.read)
    BY <1>2, <2>1 DEF RightWork, CopyFits
  <2>3. NowPend(v, left) = p
    BY <2>1 DEF NowPend
  <2> HIDE DEF p
  <2>4. \A k \in 1..Len(p) : Faithful(p[k], w.x) => Faithful(p[k], v.x)
    BY <2>1 DEF Faithful
  <2>5. Stored(v.x, p, a, c, pos + w.read)
    BY <2>1, <2>2, <2>4 DEF Stored, Same
  <2>6. v.x.upload
    BY <2>1 DEF Same
  <2> QED BY <2>1, <2>3, <2>5, <2>6 DEF CopyFits
<1>3. ASSUME ~w.x.failed, ~w.x.cancelled, w.x.outstanding < XferWindow, NEW u, Asks(v, w, u)
      PROVE  CopyFits(v.x, NowPend(v, left), a, c, pos + v.read)
  <2> DEFINE y == w.x
             m == Len(w.reqs)
  <2>1. /\ u \in Xfers /\ Same(u, y) /\ u.outstanding = y.outstanding + 1
        /\ AsksAgain(v, w, u) \/ AsksOn(v, w, u) \/ \E n \in 0..Chunk : WritesOn(v, w, u, n)
    BY <1>3 DEF Asks
  <2>2. CopyFits(y, p, a, c, pos + w.read)
    BY <1>3 DEF RightWork
  <2>3. p \in Seq(AnyReq)
    BY NowPendIs
  <2>4. y.next_off \in Nat /\ y.retry \in Seq(Retries) /\ y.eof_at \in Nat /\ y.total \in Nat
    BY <1>0, XferFields DEF Retries
  <2> HIDE DEF p, y
  <2>5. CASE AsksAgain(v, w, u)
    <3> DEFINE l == Last(y.retry)
               r == Req(w, "READ", l.off, l.len)
               q == Request(next_id + (m + 1), r)
    <3>1. /\ ~y.upload /\ y.retry # <<>> /\ v = More(w, u, r, 0)
          /\ u.retry = Front(y.retry) /\ u.next_off = y.next_off
      BY <2>5 DEF AsksAgain, y
    <3>2. l \in Retries
      BY <2>4, <3>1, Peeled
    <3> HIDE DEF l
    <3>3. r \in Reqs /\ r.type = "READ" /\ r.off = l.off /\ r.len = l.len
      <4>1. l.off \in Nat /\ l.len \in 0..Chunk
        BY <3>2, Bounds DEF Retries
      <4> QED BY <4>1 DEF Req, Reqs
    <3> HIDE DEF r
    <3>4. /\ q \in AnyReq /\ q.type = r.type /\ q.off = r.off /\ q.len = r.len
          /\ NowPend(v, left) = Append(p, q)
      BY <3>1, <3>3, NowPendMore DEF p
    <3> HIDE DEF q
    <3>5. Fetched(y, p, c)
      BY <2>2, <3>1 DEF CopyFits
    <3>6. AsksMore(u, y, q)
      <4>1. y \in Xfers /\ q.type = "READ" /\ q.off = Last(y.retry).off /\ q.len = Last(y.retry).len
        BY <1>0, <3>3, <3>4 DEF y, l
      <4> QED BY <2>1, <3>1, <3>4, <3>5, <4>1, AgainAsked
    <3>7. Fetched(u, Append(p, q), c)
      <4>1. y \in Xfers /\ u \in Xfers /\ q \in AnyReq /\ q.type \in Blocks
        BY <1>0, <2>1, <3>3, <3>4 DEF y, Blocks
      <4> QED BY <2>3, <3>5, <3>6, <4>1, FetchedGrow
    <3>8. v.x = u /\ ~u.upload
      BY <2>1, <3>1 DEF More, Same
    <3> QED BY <3>4, <3>7, <3>8 DEF CopyFits
  <2>6. CASE AsksOn(v, w, u)
    <3> DEFINE r == Req(w, "READ", y.next_off, Ahead(y))
               q == Request(next_id + (m + 1), r)
    <3>1. /\ ~y.upload /\ y.retry = <<>> /\ Ahead(y) # 0 /\ v = More(w, u, r, 0)
          /\ u.retry = <<>> /\ u.next_off = y.next_off + Ahead(y)
      BY <2>6 DEF AsksOn, y
    <3>2. Ahead(y) \in 0..Chunk
      BY <2>4, AheadIs
    <3>3. r \in Reqs /\ r.type = "READ" /\ r.off = y.next_off /\ r.len = Ahead(y)
      BY <2>4, <3>2 DEF Req, Reqs
    <3> HIDE DEF r
    <3>4. /\ q \in AnyReq /\ q.type = r.type /\ q.off = r.off /\ q.len = r.len
          /\ NowPend(v, left) = Append(p, q)
      BY <3>1, <3>3, NowPendMore DEF p
    <3> HIDE DEF q
    <3>5. Fetched(y, p, c)
      BY <2>2, <3>1 DEF CopyFits
    <3>6. AsksMore(u, y, q)
      <4>1. /\ y \in Xfers /\ Below(y) /\ y.outstanding < XferWindow
            /\ q.type = "READ" /\ q.off = y.next_off /\ q.len = Ahead(y)
        BY <1>0, <1>3, <3>3, <3>4 DEF y
      <4> QED BY <2>1, <3>1, <3>4, <3>5, <4>1, NextAsked
    <3>7. Fetched(u, Append(p, q), c)
      <4>1. y \in Xfers /\ u \in Xfers /\ q \in AnyReq /\ q.type \in Blocks
        BY <1>0, <2>1, <3>3, <3>4 DEF y, Blocks
      <4> QED BY <2>3, <3>5, <3>6, <4>1, FetchedGrow
    <3>8. v.x = u /\ ~u.upload
      BY <2>1, <3>1 DEF More, Same
    <3> QED BY <3>4, <3>7, <3>8 DEF CopyFits
  <2>7. ASSUME NEW n \in 0..Chunk, WritesOn(v, w, u, n)
        PROVE  CopyFits(v.x, NowPend(v, left), a, c, pos + v.read)
    <3> DEFINE r == Req(w, "WRITE", y.next_off, n)
               q == Request(next_id + (m + 1), r)
               at == pos + w.read
    <3>1. /\ y.upload /\ ~u.local_eof /\ at + n <= Size /\ v = More(w, u, r, n)
          /\ u.next_off = y.next_off + n
      BY <2>7 DEF WritesOn, y
    <3>2. at \in Nat /\ n \in Nat
      BY <1>0, Bounds
    <3>3. r \in Reqs /\ r.type = "WRITE" /\ r.off = y.next_off /\ r.len = n /\ r.unit = at
      BY <2>4, <3>2 DEF Req, Reqs
    <3>a. v.read = w.read + n
      BY <3>1 DEF More
    <3>b. pos + v.read = at + n
      BY <1>0, <3>2, <3>a
    <3> HIDE DEF r, at
    <3>4. /\ q \in AnyReq /\ q.type = r.type /\ q.off = r.off /\ q.len = r.len /\ q.unit = r.unit
          /\ q.id = next_id + (m + 1) /\ NowPend(v, left) = Append(p, q)
      BY <3>1, <3>3, NowPendMore DEF p
    <3> HIDE DEF q
    <3>5. Stored(y, p, a, c, at)
      BY <2>2, <3>1 DEF CopyFits, at
    <3>6. Unheard(q, a)
      <4> SUFFICES ASSUME NEW k \in 1..Len(a) PROVE a[k].id # q.id
        BY DEF Unheard
      <4>1. a[k] \in Responses(next_id)
        BY ElementOfSeq
      <4>2. a[k].id \in 0..next_id
        BY <4>1 DEF Responses
      <4>3. m \in Nat
        BY <1>0, LenProperties
      <4> QED BY <3>4, <4>2, <4>3
    <3>7. Stored(u, Append(p, q), a, c, at + n)
      <4>1. /\ y \in Xfers /\ u \in Xfers /\ q \in AnyReq /\ q.type = "WRITE"
            /\ q.off = y.next_off /\ q.unit = at /\ q.len = n
        BY <1>0, <2>1, <3>3, <3>4 DEF y
      <4>2. u.total = y.total /\ u.done = y.done
        BY <2>1 DEF Same
      <4> QED BY <2>3, <3>1, <3>2, <3>5, <3>6, <4>1, <4>2, StoredGrow
    <3>8. v.x = u /\ u.upload
      BY <2>1, <3>1 DEF More, Same
    <3> QED BY <3>4, <3>7, <3>8, <3>b DEF CopyFits
  <2> QED BY <2>1, <2>5, <2>6, <2>7
<1> QED
  BY <1>1, <1>2, <1>3 DEF Turned, RightWork

\* The pump leaves a right copy, with what pends, if it was given one.
LEMMA PumpRight ==
    ASSUME next_id \in Nat, pos \in Nat, NEW left \in Seq(Requests(next_id)),
           NEW a \in Seq(Responses(next_id)), NEW c, NEW y \in Xfers, NEW good \in 0..XferWindow,
           failed = FALSE, y.handle, ~y.closing, ~y.finished, Below(y), y.upload => pos <= Size,
           ~y.failed /\ ~y.cancelled => CopyFits(y, left, a, c, pos)
    PROVE  RightWork(xf_pump(y, good), left, a, c)
<1>1. PICK f : Rounds(f, y, good)
  BY PumpRounds
<1> DEFINE N == XferWindow + 1
           S == {k \in 0..N : RightWork(f[k], left, a, c)}
<1>2. N \in Nat /\ N \in 0..N /\ 0 \in 0..N
  BY Bounds
<1> HIDE DEF N
<1>3. /\ f \in [0..N -> Works] /\ f[0] = Work(y)
      /\ \A k \in 0..N : Loop(f[k], y, good)
      /\ \A k \in 1..N : Turned(f[k], f[k - 1])
      /\ xf_pump(y, good) = xf_maybe_finish(f[N])
  BY <1>1 DEF Rounds, N
<1>4. RightWork(Work(y), left, a, c)
  <2>1. Work(y) \in Works /\ Work(y).x = y /\ Work(y).reqs = <<>> /\ Work(y).read = 0
    BY WorkType
  <2>2. NowPend(Work(y), left) = left
    BY <2>1, NowPendNone
  <2>3. pos + Work(y).read = pos
    BY <2>1
  <2> QED BY <2>1, <2>2, <2>3 DEF RightWork
<1>5. 0 \in S
  BY <1>2, <1>3, <1>4
<1>6. \A k \in 0..(N - 1) : k \in S => k + 1 \in S
  <2> SUFFICES ASSUME NEW k \in 0..(N - 1), k \in S PROVE k + 1 \in S
    OBVIOUS
  <2>1. k + 1 \in 1..N /\ k + 1 \in 0..N /\ k \in 0..N /\ (k + 1) - 1 = k
    BY <1>2
  <2>2. f[k] \in Works /\ f[k + 1] \in Works /\ Turned(f[k + 1], f[k]) /\ Below(f[k].x)
    BY <1>3, <2>1 DEF Loop
  <2>3. RightWork(f[k], left, a, c)
    OBVIOUS
  <2>4. RightWork(f[k + 1], left, a, c)
    BY <2>2, <2>3, TurnRight
  <2> QED BY <2>1, <2>4
<1>7. N \in S
  <2> HIDE DEF S
  <2>1. 0..N \subseteq S
    BY <1>2, <1>5, <1>6, InductTo
  <2> QED BY <1>2, <2>1
<1> DEFINE w == f[N]
           v == xf_maybe_finish(w)
           z == Closes(w.x)
           r == Req(w, "CLOSE", 0, 0)
           q == Request(next_id + (Len(w.reqs) + 1), r)
<1>8. w \in Works /\ Loop(w, y, good) /\ RightWork(w, left, a, c)
  BY <1>2, <1>3, <1>7
<1>9. w.x \in Xfers /\ w.read \in Nat
  BY <1>8 DEF Works
<1>10. ClosesWhenOver(w)
  BY <1>8, Shuts DEF Loop, Same
<1>11. CASE ~Over(w.x)
  BY <1>3, <1>8, <1>10, <1>11 DEF ClosesWhenOver
<1>12. CASE Over(w.x)
  <2>1. v = More(w, z, r, 0) /\ z \in Xfers /\ v \in Works
    BY <1>10, <1>12 DEF ClosesWhenOver
  <2>2. /\ z.upload = w.x.upload /\ z.retry = w.x.retry /\ z.outstanding = w.x.outstanding
        /\ z.next_off = w.x.next_off /\ z.done = w.x.done /\ z.total = w.x.total
        /\ z.eof_known = w.x.eof_known /\ z.local_eof = w.x.local_eof
        /\ z.failed = w.x.failed /\ z.cancelled = w.x.cancelled
    BY <1>9 DEF Closes, Xfers
  <2>3. r \in Reqs /\ r.type = "CLOSE"
    <3>1. 0 \in Nat /\ 0 \in 0..Chunk
      BY Bounds
    <3> QED BY <3>1 DEF Req, Reqs
  <2> HIDE DEF w, v, z, r
  <2>4. q \in AnyReq /\ q.type = r.type /\ NowPend(v, left) = Append(NowPend(w, left), q)
    BY <1>8, <2>1, <2>3, NowPendMore
  <2>5. v.x = z /\ v.read = w.read
    BY <1>9, <2>1 DEF More
  <2>6. NowPend(w, left) \in Seq(AnyReq)
    BY <1>8, NowPendIs
  <2> HIDE DEF q
  <2>7. ASSUME ~z.failed, ~z.cancelled
        PROVE  CopyFits(z, Append(NowPend(w, left), q), a, c, pos + w.read)
    <3>1. CopyFits(w.x, NowPend(w, left), a, c, pos + w.read)
      BY <1>8, <2>2, <2>7 DEF RightWork
    <3> QED BY <1>9, <2>1, <2>2, <2>3, <2>4, <2>6, <3>1, QuietlyMore
  <2>8. RightWork(v, left, a, c)
    BY <2>4, <2>5, <2>7 DEF RightWork
  <2> QED BY <1>3, <2>8 DEF v, w
<1> QED
  BY <1>11, <1>12

-----------------------------------------------------------------------------
(* An answer taken *)

\* Of a transfer that has gone wrong, or that was cancelled, nothing is said.
LEMMA NothingSaid ==
    ASSUME x'.state \notin {"IDLE", "DONE"}, ~Sound(x') \/ failed'
    PROVE  RightInv'
<1>1. CopyRight'
  BY DEF CopyRight, Sound
<1>2. TransferRight'
  BY DEF TransferRight
<1> QED
  BY <1>1, <1>2 DEF RightInv

\* What is said of one that goes on.
LEMMA SaidOn ==
    ASSUME x'.state \notin {"IDLE", "DONE"},
           Sound(x') /\ ~failed' =>
              /\ CopyFits(x', pend', in', copy', pos')
              /\ x'.upload /\ errors' > 0 => Tells(in')
    PROVE  RightInv'
<1>1. CopyRight'
  <2>1. (Sound(x) /\ ~failed => Right(x, pend, in, copy, pos, errors))'
    <3>1. ASSUME Sound(x'), ~failed' PROVE Right(x', pend', in', copy', pos', errors')
      BY <3>1 DEF Right, CopyFits
    <3>2. Sound(x)' = Sound(x')
      BY DEF Sound
    <3>3. Right(x, pend, in, copy, pos, errors)' = Right(x', pend', in', copy', pos', errors')
      BY DEF Right, Stored, Fetched, Tells, Asking, Again, Part, Within, Covered, Retried, Spans,
             Awaited, Carried, Faithful, Offsets, Missing, Blocks
    <3> QED BY <3>1, <3>2, <3>3
  <2> QED BY <2>1 DEF CopyRight
<1>2. TransferRight'
  BY DEF TransferRight
<1> QED
  BY <1>1, <1>2 DEF RightInv

\* While a request pends, the transfer is neither idle nor done.
LEMMA NotYet ==
    ASSUME OverInv, RightInv, NEW j \in 1..Len(pend)
    PROVE  x.state \notin {"IDLE", "DONE"}
<1>1. x.state # "IDLE"
  BY PendsWhere
<1>2. pend # <<>>
  <2>1. Len(<<>>) = 0
    BY EmptySeq
  <2> QED BY <2>1
<1> QED
  BY <1>1, <1>2 DEF RightInv, CopyRight

\* What the answers tell once the first of them was taken.
LEMMA TellsOn ==
    ASSUME OverInv, in # <<>>
    PROVE  /\ Tail(in) \in Seq(Responses(next_id))
           /\ \A q : Carried(q, Tail(in)) => Carried(q, in)
           /\ Tells(in) /\ ~(Head(in).id # 0 /\ Head(in).type = "STATUS" /\ Head(in).status = "FAILURE")
                 => Tells(Tail(in))
<1>0. in \in Seq(Responses(next_id))
  BY DEF OverInv, TypeOK
<1>1. /\ Tail(in) \in Seq(Responses(next_id)) /\ Len(Tail(in)) = Len(in) - 1 /\ Len(in) \in Nat
      /\ \A m \in 1..Len(Tail(in)) : Tail(in)[m] = in[m + 1]
  BY <1>0, HeadTailProperties
<1> DEFINE t == Tail(in)
<1> HIDE DEF t
<1>2. /\ t \in Seq(Responses(next_id)) /\ Len(t) = Len(in) - 1
      /\ \A m \in 1..Len(t) : t[m] = in[m + 1]
  BY <1>1 DEF t
<1>3. \A m \in 1..Len(t) : m + 1 \in 1..Len(in) /\ t[m] = in[m + 1]
  BY <1>1, <1>2
<1>4. \A q : Carried(q, t) => Carried(q, in)
  BY <1>3 DEF Carried
<1>5. ASSUME Tells(in), ~(Head(in).id # 0 /\ Head(in).type = "STATUS" /\ Head(in).status = "FAILURE")
      PROVE  Tells(t)
  <2>1. PICK k \in 1..Len(in) : in[k].id # 0 /\ in[k].type = "STATUS" /\ in[k].status = "FAILURE"
    BY <1>5 DEF Tells
  <2>2. k # 1
    BY <1>5, <2>1
  <2>3. k - 1 \in 1..Len(t) /\ (k - 1) + 1 = k
    BY <1>1, <1>2, <2>2
  <2>4. t[k - 1] = in[k]
    BY <1>2, <2>3
  <2> QED BY <2>1, <2>3, <2>4 DEF Tells
<1> QED
  BY <1>2, <1>4, <1>5 DEF t

\* What a callback has to leave for the pump.
Ready(z, j) ==
    ~z.failed /\ ~z.cancelled =>
        /\ CopyFits(z, RemoveAt(pend, j), in', copy', pos)
        /\ z.upload /\ errors > 0 => Tells(in')

\* The pump leaves the copy right, whatever it asks for.
LEMMA PumpedRight ==
    ASSUME OverInv, RightInv, NEW j, Comes(j), NEW z \in Xfers, Opens(z, j), Ready(z, j),
           NEW good \in 0..XferWindow, Becomes(xf_pump(z, good), Left(Head(in))),
           z.upload => pos' = pos + xf_pump(z, good).read,
           z.upload /\ ~xf_pump(z, good).x.failed => errors' = errors
    PROVE  RightInv'
<1> DEFINE v == xf_pump(z, good)
           left == RemoveAt(pend, j)
<1>1. Known(j, Head(in)) /\ ~failed /\ failed = FALSE
  BY Knows DEF Comes, Incoming, Known
<1>2. /\ j \in 1..Len(pend) /\ pend \in Seq(Requests(next_id)) /\ next_id \in Nat
      /\ pend[j].id = Head(in).id /\ TypeOK /\ Numbered /\ in' = Tail(in) /\ in # <<>>
      /\ pos \in Nat /\ pos <= Size
  <2>1. pos \in Nat /\ pos <= Size
    BY <1>1 DEF Known
  <2> QED BY <2>1 DEF Comes, Incoming, OverInv, TypeOK
<1>3. Left(Head(in)) = left
  BY <1>2, AtIs
<1>4. left \in Seq(Requests(next_id))
  BY <1>2, Removed
<1>5. in' \in Seq(Responses(next_id))
  BY <1>2, TellsOn
<1>6. Outcome(v, z, good)
  BY <1>1, PumpsOn
<1>7. RightWork(v, left, in', copy')
  <2>1. z.handle /\ ~z.closing /\ ~z.finished /\ Below(z)
    BY DEF Opens
  <2>2. ~z.failed /\ ~z.cancelled => CopyFits(z, left, in', copy', pos)
    BY DEF Ready
  <2> HIDE DEF v, left
  <2> QED BY <1>1, <1>2, <1>4, <1>5, <2>1, <2>2, PumpRight DEF v
<1>8. x' = v.x /\ pend' = NowPend(v, left)
  BY <1>3 DEF Becomes, NowPend
<1> HIDE DEF v, left
<1>9. /\ v \in Works /\ Frame(v.x, z) /\ Fair(v, z, good)
  BY <1>6 DEF Outcome
<1>10. x'.state \notin {"IDLE", "DONE"}
  <2>1. z.state \notin {"IDLE", "DONE"}
    BY DEF Opens, Reports
  <2> QED BY <1>8, <1>9, <2>1 DEF Frame
<1>11. ASSUME Sound(x'), ~failed'
       PROVE  /\ CopyFits(x', pend', in', copy', pos')
              /\ x'.upload /\ errors' > 0 => Tells(in')
  <2>1. ~v.x.failed /\ ~v.x.cancelled
    BY <1>8, <1>11 DEF Sound
  <2>2. ~z.failed /\ ~z.cancelled /\ v.x.upload = z.upload
    BY <1>9, <2>1 DEF Fair, Frame
  <2>3. CopyFits(v.x, pend', in', copy', pos + v.read)
    BY <1>7, <1>8, <2>1 DEF RightWork
  <2>4. CopyFits(v.x, pend', in', copy', pos')
    <3>1. CASE z.upload
      <4>1. pos' = pos + v.read
        BY <3>1 DEF v
      <4> QED BY <2>3, <4>1
    <3>2. CASE ~z.upload
      BY <2>2, <2>3, <3>2 DEF CopyFits
    <3> QED BY <3>1, <3>2
  <2>5. v.x.upload /\ errors' > 0 => Tells(in')
    <3> SUFFICES ASSUME v.x.upload, errors' > 0 PROVE Tells(in')
      OBVIOUS
    <3>1. errors' = errors
      BY <2>1, <2>2 DEF v
    <3> QED BY <2>2, <3>1 DEF Ready
  <2> QED BY <1>8, <2>4, <2>5
<1> QED
  BY <1>10, <1>11, SaidOn

\* What is known of a right copy when an answer comes.
LEMMA RightKnown ==
    ASSUME OverInv, RightInv, NEW j, Comes(j)
    PROVE  /\ Known(j, Head(in)) /\ failed = FALSE /\ j \in 1..Len(pend) /\ in' = Tail(in) /\ in # <<>>
           /\ x \in Xfers /\ x.state \notin {"IDLE", "DONE"} /\ pend \in Seq(AnyReq)
           /\ ~x.failed /\ ~x.cancelled => x.state = "RUNNING" \/ x.finished
           /\ Sound(x) => /\ CopyFits(x, pend, in, copy, pos)
                          /\ x.upload /\ errors > 0 => Tells(in)
<1>1. Known(j, Head(in)) /\ failed = FALSE /\ j \in 1..Len(pend) /\ in' = Tail(in) /\ in # <<>>
  BY Knows DEF Comes, Incoming, Known
<1>2. x \in Xfers /\ Reports(x)
  BY <1>1 DEF Known
<1>3. x.state \notin {"IDLE", "DONE"}
  BY <1>1, NotYet
<1>4. pend \in Seq(AnyReq)
  BY AnyRequests DEF OverInv, TypeOK
<1>5. ~x.finished => x.state = "RUNNING"
  BY <1>2, <1>3, XferFields DEF Reports
<1>6. ASSUME Sound(x)
      PROVE  CopyFits(x, pend, in, copy, pos) /\ (x.upload /\ errors > 0 => Tells(in))
  <2>1. Right(x, pend, in, copy, pos, errors)
    BY <1>1, <1>6 DEF RightInv, CopyRight
  <2> QED BY <2>1 DEF Right, CopyFits
<1> QED
  BY <1>1, <1>2, <1>3, <1>4, <1>5, <1>6

\* An answer to OPEN.
LEMMA OpenedRight ==
    ASSUME OverInv, RightInv, NEW j, Comes(j), pend[j].type = "OPEN", xf_opened(Head(in)),
           Head(in).type # "BAD"
    PROVE  RightInv'
<1> DEFINE r == Head(in)
<1>1. /\ ~failed /\ failed = FALSE /\ in # <<>> /\ r = in[1] /\ 1 \in 1..Len(in)
      /\ x \in Xfers /\ j \in 1..Len(pend) /\ pend[j].id = r.id /\ in' = Tail(in)
      /\ x.state \notin {"IDLE", "DONE"} /\ Reports(x) /\ Below(x)
  BY RightKnown DEF Known
<1>2. Opening(x, pend) /\ Len(pend) = 1
  <2>1. "OPEN" \notin Blocks
    BY DEF Blocks
  <2> QED BY <1>1, <2>1, StageOf
<1>3. /\ ~x.handle /\ ~x.closing /\ ~x.failed /\ x.finished = x.cancelled /\ x.outstanding = 0
      /\ j = 1
  BY <1>1, <1>2 DEF Opening
<1> HIDE DEF r
<1>5. CASE r.type = "HANDLE"
  <2> DEFINE y == [x EXCEPT !.handle = TRUE]
  <2>1. /\ y \in Xfers
    BY <1>1, XferEdits
  <2>2. /\ y.handle /\ y.closing = x.closing /\ y.finished = x.finished /\ y.cancelled = x.cancelled
        /\ y.state = x.state /\ y.calls = x.calls /\ y.upload = x.upload
        /\ y.next_off = x.next_off /\ y.outstanding = x.outstanding /\ y.file_pos = x.file_pos
        /\ y.retry = x.retry /\ y.eof_known = x.eof_known /\ y.eof_at = x.eof_at
        /\ y.failed = x.failed /\ y.done = x.done /\ y.total = x.total /\ y.local_eof = x.local_eof
    BY <1>1 DEF Xfers
  <2>3. PICK good \in (IF x.upload /\ errors < MaxErrors THEN 0..XferWindow ELSE {XferWindow}) :
             /\ Becomes(xf_pump(y, good), Left(r))
             /\ pos' = pos + xf_pump(y, good).read
             /\ errors' = IF xf_pump(y, good).x.failed /\ ~y.failed THEN errors + 1 ELSE errors
    BY <1>5 DEF xf_opened, r, Pumped
  <2>a. UNCHANGED copy /\ good \in 0..XferWindow
    BY <2>3, Bounds DEF xf_opened, r
  <2> HIDE DEF y
  <2>4. Below(y) /\ Reports(y)
    BY <1>1, <2>2 DEF Below, Reports
  <2>5. CASE ~x.finished
    <3>1. handles = 1
      <4>1. Answered(pend[1], in, {"HANDLE"})
        BY <1>1, <1>3, <1>5 DEF Answered, r
      <4>2. Held(pend[1], in, handles)
        BY <1>1, <1>3 DEF OverInv, HandleHeld
      <4> QED BY <1>3, <4>1, <4>2 DEF Held
    <3>2. Opens(y, j)
      <4>1. x.next_off <= y.next_off
        <5>1. x.next_off \in Nat
          BY <1>1, XferFields
        <5> QED BY <2>2, <5>1
      <4>2. \A i \in 1..Len(pend) : i = j
        BY <1>2, <1>3
      <4>3. y.outstanding = Len(pend) - 1
        BY <1>2, <1>3, <2>2
      <4> QED BY <1>1, <1>3, <2>2, <2>4, <2>5, <3>1, <4>1, <4>2, <4>3 DEF Opens
    <3>3. Ready(y, j)
      <4> SUFFICES ASSUME ~y.failed, ~y.cancelled
                   PROVE  /\ CopyFits(y, RemoveAt(pend, j), in', copy', pos)
                          /\ y.upload /\ errors > 0 => Tells(in')
        BY DEF Ready
      <4>1. Sound(x)
        BY <1>3, <2>2, <2>5, RightKnown DEF Sound
      <4>2. /\ CopyFits(x, pend, in, copy, pos) /\ (x.upload /\ errors > 0 => Tells(in))
            /\ pend \in Seq(AnyReq)
        BY <4>1, RightKnown
      <4>3. pend[j].type \notin Blocks
        BY DEF Blocks
      <4>4. CASE x.upload
        <5>1. Stored(x, pend, in, copy, pos)
          BY <4>2, <4>4 DEF CopyFits
        <5>2. Stored(y, RemoveAt(pend, j), Tail(in), copy, pos)
          <6>1. \A q : Carried(q, Tail(in)) => Carried(q, in)
            BY <1>1, TellsOn
          <6>2. pos <= Size
            BY RightKnown DEF Known
          <6> QED BY <1>1, <2>1, <2>2, <4>2, <4>3, <5>1, <6>1, <6>2, StoredDrop
        <5>3. Tells(in) => Tells(Tail(in))
          BY <1>1, <1>5, TellsOn DEF r
        <5> QED BY <1>1, <2>2, <2>a, <4>2, <4>4, <5>2, <5>3 DEF CopyFits
      <4>5. CASE ~x.upload
        <5>1. Fetched(x, pend, copy)
          BY <4>2, <4>5 DEF CopyFits
        <5>2. TakesAway(y, x, pend[j], copy, copy)
          BY <1>1, <2>1, <2>2, <4>3, <5>1, NoBlock
        <5>3. Fetched(y, RemoveAt(pend, j), copy)
          BY <1>1, <2>1, <4>2, <5>1, <5>2, FetchedDrop
        <5> QED BY <2>2, <2>a, <4>5, <5>3 DEF CopyFits
      <4> QED BY <4>4, <4>5
    <3> QED BY <2>1, <2>2, <2>3, <2>a, <3>2, <3>3, PumpedRight DEF r
  <2>6. CASE x.finished
    <3>1. xf_maybe_finish(Work(y)) = Work(y) /\ Work(y).x = y
      <4>1. ~Over(y)
        BY <2>2, <2>6 DEF Over
      <4>2. Work(y).x = y
        BY <1>1, <2>1, WorkType
      <4> DEFINE w == Work(y)
      <4> HIDE DEF w
      <4>3. ~Over(w.x)
        BY <4>1, <4>2 DEF w
      <4>4. xf_maybe_finish(w) = w
        BY <4>3 DEF xf_maybe_finish
      <4> QED BY <4>2, <4>4 DEF w
    <3>2. xf_pump(y, good) = Work(y)
      BY <1>1, <1>3, <2>1, <2>2, <2>4, <2>6, <3>1, PumpRests
    <3>3. x' = y
      BY <2>3, <3>1, <3>2 DEF Becomes
    <3>4. x'.cancelled /\ x'.state \notin {"IDLE", "DONE"}
      BY <1>1, <1>3, <2>2, <2>6, <3>3
    <3> QED BY <3>4, NothingSaid DEF Sound
  <2> QED BY <2>5, <2>6
<1>6. CASE r.type # "HANDLE"
  <2> DEFINE y == xf_fail(x)
             w == Work(y)
             v == xf_maybe_finish(w)
  <2>1. /\ y \in Xfers /\ y.failed /\ y.handle = x.handle /\ y.closing = x.closing
        /\ y.state = x.state
    BY <1>1, FailIs
  <2>2. x' = v.x
    BY <1>6 DEF xf_opened, r, Becomes
  <2> HIDE DEF y
  <2>3. w \in Works /\ w.x = y
    BY <1>1, <2>1, WorkType
  <2> HIDE DEF w
  <2>4. v.x = y \/ v.x = Finish(y)
    BY <1>3, <2>1, <2>3, OnlyReports
  <2>5. x'.failed /\ x'.state \notin {"IDLE", "DONE"}
    <3>1. CASE v.x = y
      BY <1>1, <2>1, <2>2, <3>1
    <3>2. CASE v.x = Finish(y)
      <4>1. Reported(x', y)
        BY <2>1, <2>2, <3>2, Finishing
      <4> QED BY <2>1, <4>1 DEF Reported
    <3> QED BY <2>4, <3>1, <3>2
  <2> QED BY <2>5, NothingSaid DEF Sound
<1> QED
  BY <1>5, <1>6

\* An answer to a write.
LEMMA WroteRight ==
    ASSUME OverInv, RightInv, NEW j, Comes(j), pend[j].type = "WRITE", xf_write_done(Head(in)),
           Head(in).type # "BAD"
    PROVE  RightInv'
<1> DEFINE r == Head(in)
           q == pend[j]
           y == [x EXCEPT !.outstanding = @ - 1]
           z == IF r.status = "OK" THEN [y EXCEPT !.done = @ + q.len]
                ELSE IF ~x.failed /\ ~x.cancelled THEN xf_fail(y) ELSE y
<1>1. Fewer(y, j)
  BY Back1 DEF Blocks
<1>2. Pumped(z, r) /\ UNCHANGED copy
  BY Knows DEF xf_write_done, Known
<1>3. /\ q \in Requests(next_id) /\ Fits(r, q) /\ Sane(q, x) /\ r = in[1] /\ 1 \in 1..Len(in)
      /\ q.id = r.id /\ pos <= Size /\ in' = Tail(in) /\ in # <<>> /\ x \in Xfers
      /\ j \in 1..Len(pend)
  BY RightKnown DEF Known
<1>4. q.type = "WRITE" /\ r.type # "BAD"
  OBVIOUS
<1> HIDE DEF y, r, q
<1>5. q.len \in Nat /\ x.upload
  BY <1>3, <1>4, Bounds DEF Requests, Sane
<1>6. y \in Xfers /\ y.failed = x.failed /\ y.cancelled = x.cancelled /\ y.done = x.done
      /\ y.total = x.total /\ y.local_eof = x.local_eof /\ y.next_off = x.next_off
      /\ y.upload = x.upload
  BY <1>1 DEF Fewer, Opens
<1>7. /\ z \in Xfers
      /\ z.outstanding = y.outstanding /\ z.retry = y.retry /\ z.next_off = y.next_off
      /\ z.eof_known = y.eof_known /\ z.eof_at = y.eof_at /\ z.calls = y.calls
      /\ z.handle = y.handle /\ z.closing = y.closing /\ z.finished = y.finished
      /\ z.state = y.state /\ z.upload = y.upload
      /\ z.total = y.total /\ z.local_eof = y.local_eof
      /\ ~z.failed /\ ~z.cancelled =>
            r.status = "OK" /\ ~x.failed /\ ~x.cancelled /\ z.done = y.done + q.len
  <2>1. CASE r.status = "OK"
    <3> DEFINE u == [y EXCEPT !.done = @ + q.len]
    <3>1. z = u
      BY <2>1
    <3>2. y.done + q.len \in Nat
      BY <1>5, <1>6, XferFields
    <3>3. u \in Xfers
      BY <1>6, <3>2, XferEdits
    <3>4. /\ u.done = y.done + q.len /\ u.failed = y.failed /\ u.cancelled = y.cancelled
          /\ u.outstanding = y.outstanding /\ u.retry = y.retry /\ u.next_off = y.next_off
          /\ u.eof_known = y.eof_known /\ u.eof_at = y.eof_at /\ u.calls = y.calls
          /\ u.handle = y.handle /\ u.closing = y.closing /\ u.finished = y.finished
          /\ u.state = y.state /\ u.upload = y.upload
          /\ u.total = y.total /\ u.local_eof = y.local_eof
      BY <1>6 DEF Xfers
    <3> HIDE DEF u, z
    <3> QED BY <1>6, <2>1, <3>1, <3>3, <3>4
  <2>2. CASE r.status # "OK" /\ ~x.failed /\ ~x.cancelled
    <3>1. z = xf_fail(y)
      BY <2>2
    <3> HIDE DEF z
    <3> QED BY <1>6, <3>1, FailIs
  <2>3. CASE r.status # "OK" /\ ~(~x.failed /\ ~x.cancelled)
    <3>1. z = y
      BY <2>3
    <3> HIDE DEF z
    <3> QED BY <1>6, <2>3, <3>1
  <2> QED BY <2>1, <2>2, <2>3
<1> HIDE DEF z
<1>8. Opens(z, j)
  BY <1>1, <1>7 DEF Fewer, Opens, Below, Reports
<1>9. PICK good \in (IF x.upload /\ errors < MaxErrors THEN 0..XferWindow ELSE {XferWindow}) :
             /\ Becomes(xf_pump(z, good), Left(r))
             /\ pos' = pos + xf_pump(z, good).read
             /\ errors' = IF xf_pump(z, good).x.failed /\ ~z.failed THEN errors + 1 ELSE errors
  BY <1>2 DEF Pumped
<1>10. good \in 0..XferWindow
  BY <1>9, Bounds
<1>11. Ready(z, j)
  <2> SUFFICES ASSUME ~z.failed, ~z.cancelled
               PROVE  /\ CopyFits(z, RemoveAt(pend, j), in', copy', pos)
                      /\ z.upload /\ errors > 0 => Tells(in')
    BY DEF Ready
  <2>1. r.status = "OK" /\ z.done = x.done + q.len /\ Sound(x)
    <3>1. ~x.failed /\ ~x.cancelled
      BY <1>7
    <3>2. ~x.finished
      <4>1. Moving(x, pend)
        BY <1>3, <1>4, PendsWhere DEF q, Blocks
      <4> QED BY <4>1 DEF Moving
    <3> QED BY <1>6, <1>7, <3>1, <3>2, RightKnown DEF Sound
  <2>2. /\ CopyFits(x, pend, in, copy, pos) /\ (x.upload /\ errors > 0 => Tells(in))
        /\ pend \in Seq(AnyReq)
    BY <2>1, RightKnown
  <2>3. Stored(x, pend, in, copy, pos)
    BY <1>5, <2>2 DEF CopyFits
  <2>4. Carried(q, in)
    <3>1. r.type = "STATUS"
      BY <1>3, <1>4 DEF Fits
    <3> QED BY <1>3, <2>1, <3>1 DEF Carried
  <2>5. \A k : Carried(k, Tail(in)) => Carried(k, in)
    BY <1>3, TellsOn
  <2>6. Stored(z, RemoveAt(pend, j), Tail(in), copy, pos)
    <3>1. pend[j].type = "WRITE" /\ Carried(pend[j], in)
      BY <2>4 DEF q
    <3>2. z.done = IF pend[j].type \in Blocks THEN x.done + pend[j].len ELSE x.done
      BY <2>1, <3>1 DEF q, Blocks
    <3> QED BY <1>3, <1>6, <1>7, <2>2, <2>3, <2>5, <3>1, <3>2, StoredDrop
  <2>7. Tells(in) => Tells(Tail(in))
    BY <1>3, <2>1, TellsOn DEF r
  <2> QED BY <1>2, <1>3, <1>5, <1>6, <1>7, <2>2, <2>6, <2>7 DEF CopyFits
<1> QED
  BY <1>7, <1>8, <1>9, <1>10, <1>11, PumpedRight DEF r

\* An answer to a read.
LEMMA ReadRight ==
    ASSUME OverInv, RightInv, NEW j, Comes(j), pend[j].type = "READ", xf_read_done(Head(in)),
           Head(in).type # "BAD"
    PROVE  RightInv'
<1> DEFINE r == Head(in)
           q == pend[j]
           y == [x EXCEPT !.outstanding = @ - 1]
           n == Min({r.len, q.len})
           at == IF q.off = x.file_pos THEN pos ELSE q.off
           useful == r.type = "DATA" /\ ~x.failed /\ ~x.cancelled
           z3 == CASE useful -> AtEof(y, q.off)
                   [] r.status = "EOF" -> AtEof(y, q.off)
                   [] r.status = "FAILURE" /\ ~x.failed /\ ~x.cancelled -> xf_fail(y)
                   [] OTHER -> y
<1>1. Known(j, r) /\ Fewer(y, j)
  BY Knows, Back1 DEF Blocks
<1>2. \/ /\ useful /\ n > 0 /\ Writes(at, r.off, n)
         /\ Becomes(xf_pump(Took(y, q, n), XferWindow), Left(r))
      \/ Becomes(xf_pump(xf_fail(y), XferWindow), Left(r))
      \/ ~(useful /\ n > 0) /\ Becomes(xf_pump(z3, XferWindow), Left(r)) /\ UNCHANGED copy
  <2>1. Asked(r) = q
    BY <1>1 DEF Known
  <2> QED BY <2>1 DEF xf_read_done
<1>3. /\ q \in Requests(next_id) /\ r \in Responses(next_id) /\ q.type = "READ" /\ r.type # "BAD"
      /\ Fits(r, q) /\ Sane(q, x) /\ pos \in Nat /\ pos <= Size /\ (~x.upload => pos = x.file_pos)
      /\ x \in Xfers /\ j \in 1..Len(pend) /\ next_id \in Nat
  BY <1>1 DEF Known, OverInv, TypeOK
<1>a. q \in AnyReq
  BY <1>3, AnyRequests
<1>b. Moving(x, pend) /\ x.outstanding > 0
  <2>1. pend[j].type \in Blocks
    BY DEF Blocks
  <2>2. Moving(x, pend) /\ x.outstanding = Len(pend)
    BY <1>1, <2>1, StageOf DEF Known, Blocks
  <2>3. Len(pend) \in Nat
    BY DEF OverInv, TypeOK
  <2> QED BY <1>3, <2>2, <2>3
<1>c. /\ ~x.failed /\ ~x.cancelled => Fetched(x, pend, copy)
      /\ pend \in Seq(AnyReq)
  <2>1. ~x.finished /\ ~x.upload
    BY <1>b, <1>3 DEF Moving, Sane
  <2>2. ~x.failed /\ ~x.cancelled => Sound(x)
    BY <2>1, RightKnown DEF Sound
  <2> QED BY <2>1, <2>2, RightKnown DEF CopyFits
<1>9. /\ y \in Xfers /\ y.next_off = x.next_off /\ y.upload = x.upload /\ y.done = x.done
      /\ y.total = x.total /\ y.eof_known = x.eof_known /\ y.retry = x.retry
      /\ y.outstanding = x.outstanding - 1 /\ y.failed = x.failed /\ y.cancelled = x.cancelled
      /\ y.eof_at = x.eof_at
  BY <1>1 DEF Fewer, Opens
<1> HIDE DEF y, r, q
<1>4. q.off \in Nat /\ q.len \in 0..Chunk /\ r.len \in 0..Chunk /\ r.off \in Nat
  BY <1>3 DEF Requests, Responses
<1>5. n = IF r.len <= q.len THEN r.len ELSE q.len
  BY <1>4, MinPair
<1>6. ~x.upload /\ q.off + q.len <= x.next_off
  BY <1>3 DEF Sane
<1>7. at = q.off
  BY <1>3, <1>6
<1>8. useful /\ n > 0 => n = r.len /\ r.off = q.off /\ n <= q.len /\ n \in Nat /\ q.off + n <= Size
  <2> HAVE useful /\ n > 0
  <2>1. r.len # 0
    BY <1>4, <1>5
  <2>2. r.off = q.off /\ r.len \in 1..q.len /\ q.off + r.len <= Size
    BY <1>3, <2>1 DEF Fits
  <2> QED BY <1>4, <1>5, <2>2
<1>10. ~(useful /\ n > 0) /\ ~x.failed /\ ~x.cancelled =>
          q.off >= Size \/ (r.status = "FAILURE" /\ ~useful)
  <2> HAVE ~(useful /\ n > 0) /\ ~x.failed /\ ~x.cancelled
  <2>1. \/ r.type = "STATUS" /\ r.status = "FAILURE"
        \/ q.off >= Size
        \/ r.type = "DATA" /\ r.len \in 1..q.len
    BY <1>3 DEF Fits
  <2>2. ~(r.type = "DATA" /\ r.len \in 1..q.len)
    BY <1>4, <1>5
  <2> QED BY <2>1, <2>2
<1> HIDE DEF n, at
<1>11. ASSUME NEW z \in Xfers, Below(z), z.next_off = y.next_off,
              z.outstanding = y.outstanding, z.calls = y.calls,
              z.handle = y.handle, z.closing = y.closing, z.finished = y.finished,
              z.state = y.state, z.upload = y.upload,
              ~z.failed /\ ~z.cancelled => Fetched(z, RemoveAt(pend, j), copy'),
              Becomes(xf_pump(z, XferWindow), Left(r))
       PROVE  RightInv'
  <2>1. Opens(z, j)
    BY <1>1, <1>11 DEF Fewer, Opens, Reports
  <2>2. ~z.upload
    BY <1>6, <1>9, <1>11
  <2>3. Ready(z, j)
    BY <1>11, <2>2 DEF Ready, CopyFits
  <2>4. XferWindow \in 0..XferWindow
    BY Bounds
  <2> QED BY <1>11, <2>1, <2>2, <2>3, <2>4, PumpedRight DEF r
<1>12. CASE /\ useful /\ n > 0 /\ Writes(at, r.off, n)
            /\ Becomes(xf_pump(Took(y, q, n), XferWindow), Left(r))
  <2> DEFINE z == Took(y, q, n)
             rest == [off |-> q.off + n, len |-> q.len - n]
  <2>0. n \in Nat /\ n > 0 /\ n <= q.len /\ q.off + n <= Size /\ r.off = q.off
    BY <1>8, <1>12
  <2>1. /\ z \in Xfers /\ z.done = y.done + n
        /\ z.retry = (IF n < q.len /\ Len(y.retry) < XferWindow
                      THEN Append(y.retry, rest) ELSE y.retry)
        /\ z.outstanding = y.outstanding /\ z.next_off = y.next_off
        /\ z.eof_known = y.eof_known /\ z.eof_at = y.eof_at /\ z.calls = y.calls
        /\ z.handle = y.handle /\ z.closing = y.closing /\ z.finished = y.finished
        /\ z.state = y.state /\ z.upload = y.upload /\ z.total = y.total
        /\ z.failed = y.failed /\ z.cancelled = y.cancelled
    BY <1>4, <1>9, <2>0, TookIs
  <2> HIDE DEF z
  <2>2. Below(z)
    <3>0. Below(y)
      BY <1>1 DEF Fewer, Opens
    <3>a. \A k \in 1..Len(y.retry) : y.retry[k].off + y.retry[k].len <= y.next_off
      BY <3>0 DEF Below
    <3>1. CASE ~(n < q.len /\ Len(y.retry) < XferWindow)
      BY <2>1, <3>0, <3>1 DEF Below
    <3>2. CASE n < q.len /\ Len(y.retry) < XferWindow
      <4>1. y.retry \in Seq(Retries) /\ Len(y.retry) \in Nat
        BY <1>9, XferFields, LenProperties DEF Retries
      <4>2. rest \in Retries /\ rest.off + rest.len = q.off + q.len
        <5> DEFINE o == q.off
                   l == q.len
        <5>1. o \in Nat /\ l \in Nat /\ l <= Chunk /\ n < l /\ n > 0 /\ Chunk \in Nat
          BY <1>4, <2>0, <3>2, Bounds
        <5> HIDE DEF o, l
        <5>2. o + n \in Nat /\ l - n \in 1..Chunk /\ (o + n) + (l - n) = o + l
          BY ONLY <5>1, <2>0
        <5>3. [off |-> o + n, len |-> l - n] \in Retries
          BY <5>2 DEF Retries
        <5> QED BY <5>2, <5>3 DEF o, l
      <4> HIDE DEF rest
      <4>3. /\ Len(z.retry) = Len(y.retry) + 1 /\ z.retry[Len(y.retry) + 1] = rest
            /\ \A k \in 1..Len(y.retry) : z.retry[k] = y.retry[k]
        BY <2>1, <3>2, <4>1, <4>2, AppendProperties
      <4>4. \A k \in 1..Len(z.retry) : k \in 1..Len(y.retry) \/ k = Len(y.retry) + 1
        BY <4>1, <4>3
      <4>5. rest.off + rest.len <= y.next_off
        BY <1>6, <1>9, <4>2
      <4>6. \A k \in 1..Len(z.retry) : z.retry[k].off + z.retry[k].len <= z.next_off
        BY <2>1, <3>a, <4>3, <4>4, <4>5
      <4> QED BY <2>1, <3>0, <4>6 DEF Below
    <3> QED BY <3>1, <3>2
  <2>3. \A o \in Offsets : copy'[o] = IF o \in q.off..(q.off + n - 1) THEN o ELSE copy[o]
    <3> TAKE o \in Offsets
    <3>1. copy' = [i \in Offsets |-> IF i \in q.off..(q.off + n - 1) THEN q.off + (i - q.off) ELSE copy[i]]
      BY <1>7, <1>12, <2>0 DEF Writes
    <3>2. o \in Nat /\ q.off + (o - q.off) = o
      BY <1>4, OffsetsNat
    <3> QED BY <3>1, <3>2
  <2>4. ASSUME ~x.failed, ~x.cancelled
        PROVE  Fetched(z, RemoveAt(pend, j), copy')
    <3>1. Fetched(x, pend, copy)
      BY <1>c, <2>4
    <3>2. TakesAway(z, x, q, copy', copy)
      <4>1. q.off + q.len <= x.next_off /\ z.outstanding = x.outstanding - 1 /\ z.done = x.done + n
            /\ z.next_off = x.next_off /\ z.total = x.total /\ z.eof_known = x.eof_known
        BY <1>6, <1>9, <2>1
      <4>2. z.retry = IF n < q.len /\ Len(x.retry) < XferWindow
                      THEN Append(x.retry, [off |-> q.off + n, len |-> q.len - n]) ELSE x.retry
        BY <1>9, <2>1
      <4> QED BY <1>3, <1>a, <1>b, <2>0, <2>1, <2>3, <3>1, <4>1, <4>2, TookAway
    <3> QED BY <1>3, <1>c, <2>1, <3>1, <3>2, FetchedDrop DEF q
  <2>5. ~z.failed /\ ~z.cancelled => Fetched(z, RemoveAt(pend, j), copy')
    BY <1>9, <2>1, <2>4
  <2> QED BY <1>11, <1>12, <2>1, <2>2, <2>5 DEF z
<1>13. CASE Becomes(xf_pump(xf_fail(y), XferWindow), Left(r))
  <2> DEFINE z == xf_fail(y)
  <2>1. /\ z \in Xfers /\ z.failed /\ z.retry = y.retry /\ z.next_off = y.next_off
        /\ z.outstanding = y.outstanding /\ z.calls = y.calls
        /\ z.handle = y.handle /\ z.closing = y.closing /\ z.finished = y.finished
        /\ z.state = y.state /\ z.upload = y.upload /\ z.eof_known = y.eof_known /\ z.eof_at = y.eof_at
    BY <1>9, FailIs
  <2> HIDE DEF z
  <2>2. Below(z)
    BY <1>1, <2>1 DEF Fewer, Opens, Below
  <2> QED BY <1>11, <1>13, <2>1, <2>2 DEF z
<1>14. CASE ~(useful /\ n > 0) /\ Becomes(xf_pump(z3, XferWindow), Left(r)) /\ UNCHANGED copy
  <2>0. Below(y)
    BY <1>1 DEF Fewer, Opens
  <2>1. \/ z3 = AtEof(y, q.off)
        \/ z3 = xf_fail(y)
        \/ z3 = y /\ ~useful /\ ~(r.status = "FAILURE" /\ ~x.failed /\ ~x.cancelled)
    BY DEF z3
  <2>a. z3 = AtEof(y, q.off) /\ ~x.failed /\ ~x.cancelled => q.off >= Size \/ z3 = xf_fail(y)
    <3> SUFFICES ASSUME ~x.failed, ~x.cancelled, r.status = "FAILURE", ~useful
                 PROVE  z3 = xf_fail(y)
      BY <1>10, <1>14
    <3> QED BY DEF z3
  <2> HIDE DEF z3
  <2>2. CASE z3 = AtEof(y, q.off) /\ z3 # xf_fail(y)
    <3>1. /\ z3 \in Xfers /\ z3.retry = y.retry /\ z3.next_off = y.next_off /\ z3.done = y.done
          /\ z3.outstanding = y.outstanding /\ z3.calls = y.calls /\ z3.total = y.total
          /\ z3.handle = y.handle /\ z3.closing = y.closing /\ z3.finished = y.finished
          /\ z3.state = y.state /\ z3.upload = y.upload
          /\ z3.failed = y.failed /\ z3.cancelled = y.cancelled
          /\ z3.eof_at = (IF y.eof_known /\ y.eof_at <= q.off THEN y.eof_at ELSE q.off)
      BY <1>4, <1>9, <2>2, AtEofIs
    <3>2. Below(z3)
      <4>1. q.off <= y.next_off
        <5> DEFINE o == q.off
                   l == q.len
                   m == y.next_off
        <5>1. o \in Nat /\ l \in Nat /\ m \in Nat /\ o + l <= m
          BY <1>4, <1>6, <1>9, Bounds, XferFields
        <5> HIDE DEF o, l, m
        <5>2. o <= m
          BY ONLY <5>1
        <5> QED BY <5>2 DEF o, m
      <4> QED BY <2>0, <3>1, <4>1 DEF Below
    <3>3. ASSUME ~x.failed, ~x.cancelled
          PROVE  Fetched(z3, RemoveAt(pend, j), copy)
      <4>1. Fetched(x, pend, copy) /\ q.off >= Size
        BY <1>c, <2>2, <2>a, <3>3
      <4>2. TakesAway(z3, x, q, copy, copy)
        <5>1. /\ z3.outstanding = x.outstanding - 1 /\ z3.done = x.done /\ z3.next_off = x.next_off
              /\ z3.total = x.total /\ z3.retry = x.retry
          BY <1>9, <3>1
        <5> QED BY <1>3, <1>6, <1>a, <1>b, <3>1, <4>1, <5>1, EofAway
      <4> QED BY <1>3, <1>c, <3>1, <4>1, <4>2, FetchedDrop DEF q
    <3>4. ~z3.failed /\ ~z3.cancelled => Fetched(z3, RemoveAt(pend, j), copy')
      BY <1>9, <1>14, <3>1, <3>3
    <3> QED BY <1>11, <1>14, <3>1, <3>2, <3>4
  <2>3. CASE z3 = xf_fail(y)
    BY <1>13, <1>14, <2>3
  <2>4. CASE z3 = y /\ ~useful /\ ~(r.status = "FAILURE" /\ ~x.failed /\ ~x.cancelled)
    <3>1. ASSUME ~x.failed, ~x.cancelled PROVE Fetched(y, RemoveAt(pend, j), copy)
      <4>1. Fetched(x, pend, copy) /\ q.off >= Size
        BY <1>10, <1>14, <1>c, <2>4, <3>1
      <4>2. TakesAway(y, x, q, copy, copy)
        BY <1>3, <1>6, <1>9, <1>a, <1>b, <4>1, EofAway
      <4> QED BY <1>3, <1>9, <1>c, <4>1, <4>2, FetchedDrop DEF q
    <3>2. ~y.failed /\ ~y.cancelled => Fetched(y, RemoveAt(pend, j), copy')
      BY <1>9, <1>14, <3>1
    <3> QED BY <1>9, <1>11, <1>14, <2>0, <2>4, <3>2
  <2> QED BY <2>1, <2>2, <2>3, <2>4
<1> QED
  BY <1>2, <1>12, <1>13, <1>14

-----------------------------------------------------------------------------
(* A transfer that is reported as done *)

\* What TransferRight says of the copy c of a transfer y.
Wanted(y) == IF y.upload \/ y.total = 0 THEN Size ELSE Min({y.total, Size})
Whole(y, c) == c = [o \in Offsets |-> IF o < Wanted(y) THEN o ELSE Missing] /\ y.done = Wanted(y)

\* No block pends.
Quiet(p) == Asking(p) = 0 /\ \A k \in 1..Len(p) : p[k].type \notin Blocks

\* A download that has come to the end, with nothing under way, is whole.
LEMMA DownloadWhole ==
    ASSUME NEW y \in Xfers, NEW p, NEW c \in [Offsets -> 0..Size \cup {Missing}],
           Fetched(y, p, c), Quiet(p), ~y.upload, AllDone(y)
    PROVE  Whole(y, c)
<1>1. /\ Size \in Nat /\ y.next_off \in Nat /\ y.total \in Nat /\ y.done \in Nat
      /\ y.retry = <<>> /\ Len(<<>>) = 0
  BY Bounds, XferFields, EmptySeq DEF AllDone
<1>2. \A o \in Offsets : ~Covered(p, o) /\ ~Retried(y.retry, o)
  BY <1>1 DEF Covered, Retried, Quiet
<1>3. y.done = Within(0, y.next_off)
  <2>1. Asking(p) = 0 /\ Again(y.retry) = 0
    BY <1>1, AskingNone DEF Quiet
  <2>2. y.done + Asking(p) + Again(y.retry) = Within(0, y.next_off)
    BY DEF Fetched
  <2>3. Within(0, y.next_off) \in Nat
    BY <1>1, WithinNat
  <2> QED BY <1>1, <2>1, <2>2, <2>3
<1> DEFINE m == y.next_off
           t == y.total
           e == y.eof_known
<1>4. (e => Size <= m) /\ (t # 0 => m <= t) /\ (e \/ (t # 0 /\ m >= t))
  BY DEF Fetched, AllDone
<1>5. Within(0, m) = IF m <= Size THEN m ELSE Size
  <2>1. 0 + m = m /\ Size - 0 = Size
    BY <1>1
  <2> HIDE DEF m
  <2>2. m \in Nat
    BY <1>1 DEF m
  <2> QED BY <1>1, <2>1, <2>2 DEF Within
<1>6. Wanted(y) = IF t = 0 THEN Size ELSE IF t <= Size THEN t ELSE Size
  BY <1>1, MinPair DEF Wanted
<1>7. Wanted(y) = IF m <= Size THEN m ELSE Size
  <2>1. m \in Nat /\ t \in Nat /\ e \in BOOLEAN
    BY <1>1, XferFields
  <2> HIDE DEF m, t, e
  <2> QED BY <1>1, <1>4, <1>6, <2>1
<1>8. \A o \in Offsets : c[o] = IF o < Wanted(y) THEN o ELSE Missing
  <2> TAKE o \in Offsets
  <2>1. /\ c[o] \in {o, Missing} /\ (c[o] # Missing => o < Size /\ o < m)
        /\ o < Size /\ o < m => c[o] = o
    BY <1>2 DEF Fetched
  <2>2. o \in Nat
    BY OffsetsNat
  <2>3. o < Wanted(y) <=> o < Size /\ o < m
    <3>1. m \in Nat
      BY <1>1
    <3> HIDE DEF m
    <3> QED BY <1>1, <1>7, <2>2, <3>1
  <2> QED BY <2>1, <2>3
<1>9. c = [o \in Offsets |-> IF o < Wanted(y) THEN o ELSE Missing]
  BY <1>8
<1> QED
  BY <1>3, <1>5, <1>7, <1>9 DEF Whole

\* So is an upload that has read its file to the end.
LEMMA UploadWhole ==
    ASSUME NEW y \in Xfers, NEW p, NEW a, NEW c \in [Offsets -> 0..Size \cup {Missing}], NEW at,
           Stored(y, p, a, c, at), Quiet(p), y.upload, AllDone(y)
    PROVE  Whole(y, c)
<1>1. Size \in Nat /\ y.done \in Nat /\ y.next_off = Size /\ Wanted(y) = Size
  BY Bounds, XferFields DEF Stored, AllDone, Wanted
<1>2. y.done = Size
  <2>1. y.done + Asking(p) = y.next_off /\ Asking(p) = 0
    BY DEF Stored, Quiet
  <2> QED BY <1>1, <2>1
<1>3. \A o \in Offsets : c[o] = IF o < Size THEN o ELSE Missing
  <2> TAKE o \in Offsets
  <2>1. /\ c[o] \in {o, Missing} /\ (c[o] # Missing => o < y.next_off)
        /\ o < y.next_off => c[o] = o \/ Awaited(p, a, o)
    BY DEF Stored
  <2>2. ~Awaited(p, a, o)
    BY DEF Awaited, Quiet
  <2> QED BY <1>1, <2>1, <2>2
<1>4. c = [o \in Offsets |-> IF o < Size THEN o ELSE Missing]
  BY <1>3
<1> QED
  BY <1>1, <1>2, <1>4 DEF Whole

\* An answer to CLOSE: a transfer that is then reported as done is whole.
LEMMA ClosedRight ==
    ASSUME OverInv, RightInv, NEW j, Comes(j), pend[j].type = "CLOSE", xf_closed(Head(in)),
           Head(in).type # "BAD"
    PROVE  RightInv'
<1> DEFINE r == Head(in)
           f == IF r.status # "OK" /\ ~x.failed /\ ~x.cancelled THEN TRUE ELSE x.failed
           y == [x EXCEPT !.failed = f]
           z == [y EXCEPT !.close_done = TRUE]
           w == xf_pump(z, XferWindow)
           v == xf_maybe_finish(Work(z))
<1>1. Known(j, r) /\ ~failed
  BY Knows DEF Comes, Incoming
<1> HIDE DEF r
<1>2. /\ x \in Xfers /\ j \in 1..Len(pend) /\ Reports(x) /\ x.state # "IDLE" /\ Below(x)
      /\ failed = FALSE /\ Asked(r) = pend[j] /\ r = in[1] /\ 1 \in 1..Len(in) /\ pend[j].id = r.id
      /\ \A k \in 1..Len(in) : in[k].id = r.id => k = 1
  BY <1>1 DEF Known
<1>3. Closing(x, pend) /\ Len(pend) = 1
  <2>1. pend[j].type \notin Blocks
    BY DEF Blocks
  <2> QED BY <1>1, <1>2, <2>1, StageOf
<1>4. f \in BOOLEAN /\ (x.failed => f) /\ (~f /\ ~x.cancelled => r.status = "OK")
  BY <1>2, XferFields
<1>5. (IF r.status # "OK" /\ ~x.failed /\ ~x.cancelled THEN xf_fail(x) ELSE x) = y
  <2>1. CASE r.status # "OK" /\ ~x.failed /\ ~x.cancelled
    BY <2>1 DEF xf_fail
  <2>2. CASE ~(r.status # "OK" /\ ~x.failed /\ ~x.cancelled)
    <3>1. y = [x EXCEPT !.failed = x.failed]
      BY <2>2
    <3>2. [x EXCEPT !.failed = x.failed] = x
      BY <1>2 DEF Xfers
    <3> HIDE DEF y
    <3> QED BY <2>2, <3>1, <3>2
  <2> QED BY <2>1, <2>2
<1>6. Becomes(w, Left(r)) /\ UNCHANGED <<copy, pos, errors>>
  BY <1>5 DEF xf_closed, r
<1> HIDE DEF f
<1>7. y \in Xfers
  BY <1>2, <1>4, XferEdits
<1>8. z \in Xfers
  <2> HIDE DEF y
  <2> QED BY <1>7, XferEdits
<1>9. /\ z.failed = f /\ z.close_done /\ z.handle = x.handle /\ z.closing = x.closing
      /\ z.finished = x.finished /\ z.cancelled = x.cancelled
      /\ z.upload = x.upload /\ z.next_off = x.next_off
      /\ z.outstanding = x.outstanding /\ z.retry = x.retry /\ z.done = x.done
      /\ z.eof_known = x.eof_known /\ z.eof_at = x.eof_at /\ z.total = x.total
      /\ z.local_eof = x.local_eof
  BY <1>2 DEF Xfers
<1> HIDE DEF z, y
<1>10. Below(z) /\ (AllDone(x) => AllDone(z))
  BY <1>2, <1>9 DEF Below, AllDone
<1>11. z.handle /\ z.closing /\ ~z.finished /\ z.outstanding = 0 /\ (z.failed \/ z.cancelled \/ AllDone(z))
  BY <1>3, <1>4, <1>9, <1>10 DEF Closing
<1>12. w = v
  BY <1>2, <1>8, <1>10, <1>11, PumpRests
<1>13. v \in Works /\ v.reqs = <<>> /\ v.x = Finish(z)
  BY <1>2, <1>8, <1>9, <1>11, Done
<1> HIDE DEF w, v
<1>14. x' = v.x /\ Reported(x', z)
  BY <1>6, <1>8, <1>12, <1>13, Finishing DEF Becomes
<1>15. CASE x'.state # "DONE"
  <2>1. x'.state \notin {"IDLE", "DONE"} /\ ~Sound(x')
    BY <1>14, <1>15 DEF Reported, Sound
  <2> QED BY <2>1, NothingSaid
<1>16. CASE x'.state = "DONE"
  <2>1. ~x.failed /\ ~x.cancelled /\ r.status = "OK"
    BY <1>4, <1>9, <1>14, <1>16 DEF Reported
  <2>2. Sound(x) /\ AllDone(x)
    BY <1>3, <2>1, RightKnown DEF Sound, Closing
  <2>3. /\ CopyFits(x, pend, in, copy, pos) /\ (x.upload /\ errors > 0 => Tells(in))
        /\ pend \in Seq(AnyReq)
    BY <2>2, RightKnown
  <2>4. RemoveAt(pend, j) = <<>>
    <3> DEFINE n == Len(pend)
               m == Len(RemoveAt(pend, j))
    <3>1. m = n - 1 /\ RemoveAt(pend, j) \in Seq(AnyReq)
      BY <1>2, <2>3, Removed
    <3>2. n = 1
      BY <1>3
    <3> HIDE DEF n, m
    <3>3. m = 0
      BY ONLY <3>1, <3>2
    <3> QED BY <3>1, <3>3, EmptySeq DEF m
  <2>5. pend' = <<>>
    <3>1. pend \in Seq(Requests(next_id)) /\ next_id \in Nat
      BY DEF OverInv, TypeOK
    <3>a. pend[j].id = Head(in).id
      BY <1>2 DEF r
    <3>b. TypeOK /\ Numbered
      BY DEF OverInv
    <3>2. Left(r) = RemoveAt(pend, j)
      BY <1>2, <3>a, <3>b, AtIs DEF r
    <3>3. Becomes(v, <<>>) /\ <<>> \in Seq(AnyReq)
      BY <1>6, <1>12, <2>4, <3>2
    <3> QED BY <1>13, <3>1, <3>3, NoQueue
  <2>6. Quiet(pend)
    <3>1. \A k \in 1..Len(pend) : k = j
      BY <1>2, <1>3
    <3>2. pend[j].type \notin Blocks
      BY DEF Blocks
    <3>3. Part(pend[j]) = 0
      BY <3>2 DEF Part
    <3>4. Asking(<<>>) = Asking(pend) - Part(pend[j])
      BY <1>2, <2>3, <2>4, AskingLess
    <3>5. Asking(pend) \in Nat
      BY <2>3, AskingIs
    <3>6. Asking(pend) = 0
      BY <3>3, <3>4, <3>5, AskingNone
    <3> QED BY <3>1, <3>2, <3>6 DEF Quiet
  <2>7. copy \in [Offsets -> 0..Size \cup {Missing}] /\ errors \in Nat
    BY Bounds DEF OverInv, TypeOK
  <2>8. Whole(x, copy)
    <3>1. CASE x.upload
      BY <1>2, <2>2, <2>3, <2>6, <2>7, <3>1, UploadWhole DEF CopyFits
    <3>2. CASE ~x.upload
      BY <1>2, <2>2, <2>3, <2>6, <2>7, <3>2, DownloadWhole DEF CopyFits
    <3> QED BY <3>1, <3>2
  <2>9. handles = 0
    <3>1. Held(pend[j], in, handles)
      BY <1>1, <1>2 DEF OverInv, HandleHeld
    <3>2. r.type \in {"STATUS", "DATA", "HANDLE"}
      <4>1. r \in Responses(next_id) /\ r.type # "BAD"
        BY <1>1 DEF Known, r
      <4> QED BY <4>1 DEF Responses
    <3>3. Answered(pend[j], in, {"STATUS", "DATA", "HANDLE"})
      BY <1>2, <3>2 DEF Answered
    <3> QED BY <3>1, <3>3 DEF Held
  <2>10. x.upload => errors = 0
    <3> SUFFICES ASSUME x.upload, errors > 0 PROVE FALSE
      BY <2>7
    <3>1. PICK k \in 1..Len(in) : in[k].id # 0 /\ in[k].type = "STATUS" /\ in[k].status = "FAILURE"
      BY <2>3 DEF Tells
    <3>2. PICK i \in 1..Len(pend) : pend[i].id = in[k].id
      BY <1>1, <3>1 DEF OverInv, Numbered, Matched
    <3>3. i = j
      BY <1>2, <1>3
    <3>4. k = 1
      BY <1>2, <3>2, <3>3
    <3> QED BY <1>2, <2>1, <3>1, <3>4
  <2>11. UNCHANGED <<copy, errors, handles>>
    BY <1>6 DEF Comes
  <2>12. x'.upload = x.upload /\ x'.total = x.total /\ x'.done = x.done
    BY <1>9, <1>14 DEF Reported
  <2>13. TransferRight'
    BY <2>8, <2>9, <2>10, <2>11, <2>12 DEF TransferRight, Whole, Wanted, Offsets, Missing
  <2>14. CopyRight'
    BY <1>16, <2>5 DEF CopyRight, Sound
  <2> QED BY <2>13, <2>14 DEF RightInv
<1> QED
  BY <1>15, <1>16

-----------------------------------------------------------------------------
(* Steps that leave the transfer alone *)

\* Answers come and go, and writes are carried out.
LEMMA Aside ==
    ASSUME RightInv, UNCHANGED <<x, pend, failed, pos>>,
           x.state \in {"IDLE", "DONE"} => UNCHANGED <<copy, errors, handles>>,
           ~x.upload => UNCHANGED copy,
           x.upload /\ Sound(x) /\ ~failed /\ Stored(x, pend, in, copy, pos) =>
              /\ \A o \in Offsets : copy'[o] = copy[o] \/ (copy'[o] = o /\ o < x.next_off)
              /\ \A k \in 1..Len(pend) : \A o \in Offsets :
                    pend[k].type \in Blocks /\ Spans(pend[k], o) /\ Carried(pend[k], in')
                       => Carried(pend[k], in) \/ copy'[o] = o,
           errors' > 0 /\ (errors > 0 => Tells(in)) => Tells(in')
    PROVE  RightInv'
<1>1. CASE x.state \in {"IDLE", "DONE"}
  <2>1. UNCHANGED <<x, pend, copy, errors, handles>>
    BY <1>1
  <2>2. TransferRight'
    BY <2>1 DEF RightInv, TransferRight, Offsets, Missing
  <2>3. CopyRight'
    BY <1>1, <2>1 DEF RightInv, CopyRight, Sound, Offsets, Missing
  <2> QED BY <2>2, <2>3 DEF RightInv
<1>2. CASE x.state \notin {"IDLE", "DONE"}
  <2>1. ASSUME Sound(x), ~failed
        PROVE  CopyFits(x, pend, in', copy', pos) /\ (x.upload /\ errors' > 0 => Tells(in'))
    <3>1. Right(x, pend, in, copy, pos, errors)
      BY <2>1 DEF RightInv, CopyRight
    <3>2. CASE x.upload
      <4>1. Stored(x, pend, in, copy, pos) /\ (errors > 0 => Tells(in))
        BY <3>1, <3>2 DEF Right
      <4>2. Stored(x, pend, in', copy', pos)
        BY <2>1, <3>2, <4>1, StoredOn
      <4> QED BY <3>2, <4>1, <4>2 DEF CopyFits
    <3>3. CASE ~x.upload
      BY <3>1, <3>3 DEF Right, CopyFits
    <3> QED BY <3>2, <3>3
  <2>2. x'.state \notin {"IDLE", "DONE"} /\ Sound(x') = Sound(x) /\ failed' = failed
    BY <1>2 DEF Sound
  <2> QED BY <2>1, <2>2, SaidOn
<1> QED
  BY <1>1, <1>2

\* The next answer taken, its request on the list or not.
LEMMA ResponseRight ==
    ASSUME OverInv, RightInv, RecvResponse
    PROVE  RightInv'
<1>1. /\ Incoming /\ Head(in).type # "BAD" /\ in' = Tail(in)
      /\ UNCHANGED <<failed, aborted, handles, forgotten>>
  BY DEF RecvResponse
<1>2. CASE \E k \in 1..Len(pend) : pend[k].id = Head(in).id
  <2>1. PICK j \in 1..Len(pend) : pend[j].id = Head(in).id
    BY <1>2
  <2>2. Comes(j)
    BY <1>1, <2>1 DEF Comes
  <2>3. Callback(Head(in))
    BY <1>2 DEF RecvResponse
  <2>4. Asked(Head(in)) = pend[j] /\ pend[j].type \in {"OPEN", "READ", "WRITE", "CLOSE"}
    <3>1. Asked(Head(in)) = pend[j] /\ pend[j] \in Requests(next_id)
      BY <2>2, Knows DEF Known
    <3> QED BY <3>1 DEF Requests
  <2>5. CASE pend[j].type = "OPEN"
    <3>1. xf_opened(Head(in))
      BY <2>3, <2>4, <2>5 DEF Callback
    <3> QED BY <1>1, <2>2, <2>5, <3>1, OpenedRight
  <2>6. CASE pend[j].type = "READ"
    <3>1. xf_read_done(Head(in))
      BY <2>3, <2>4, <2>6 DEF Callback
    <3> QED BY <1>1, <2>2, <2>6, <3>1, ReadRight
  <2>7. CASE pend[j].type = "WRITE"
    <3>1. xf_write_done(Head(in))
      BY <2>3, <2>4, <2>7 DEF Callback
    <3> QED BY <1>1, <2>2, <2>7, <3>1, WroteRight
  <2>8. CASE pend[j].type = "CLOSE"
    <3>1. xf_closed(Head(in))
      BY <2>3, <2>4, <2>8 DEF Callback
    <3> QED BY <1>1, <2>2, <2>8, <3>1, ClosedRight
  <2> QED BY <2>4, <2>5, <2>6, <2>7, <2>8
<1>3. CASE ~\E k \in 1..Len(pend) : pend[k].id = Head(in).id
  <2>1. UNCHANGED <<x, pend, next_id, copy, pos, errors>>
    BY <1>3 DEF RecvResponse
  <2>2. in # <<>> /\ ~failed /\ in \in Seq(Responses(next_id)) /\ Numbered
    BY <1>1 DEF OverInv, Incoming, TypeOK
  <2>3. Head(in).id = 0
    <3>1. Head(in) = in[1] /\ 1 \in 1..Len(in)
      <4>1. Len(in) \in Nat /\ Len(in) # 0
        BY <2>2, EmptySeq
      <4> QED BY <2>2, <4>1
    <3> QED BY <1>3, <2>2, <3>1 DEF Numbered, Matched
  <2>4. /\ \A q : Carried(q, in') => Carried(q, in)
        /\ Tells(in) => Tells(in')
    BY <1>1, <2>2, <2>3, TellsOn
  <2>5. errors' > 0 /\ (errors > 0 => Tells(in)) => Tells(in')
    BY <2>1, <2>4
  <2> QED BY <1>1, <2>1, <2>4, <2>5, Aside
<1> QED
  BY <1>2, <1>3

\* An answer that cannot be parsed.
LEMMA MalformedRight ==
    ASSUME OverInv, RightInv, RecvMalformed
    PROVE  RightInv'
<1>1. Incoming /\ Head(in).type = "BAD" /\ failed' = TRUE /\ UNCHANGED x
  BY DEF RecvMalformed
<1>2. Numbered /\ in # <<>> /\ ~failed /\ in \in Seq(Responses(next_id))
  BY <1>1 DEF OverInv, Incoming, TypeOK
<1>3. Head(in) = in[1] /\ 1 \in 1..Len(in) /\ in[1].type = "BAD"
  <2>1. Len(in) \in Nat /\ Len(in) # 0
    BY <1>2, EmptySeq
  <2> QED BY <1>1, <1>2, <2>1
<1>4. PICK j \in 1..Len(pend) : pend[j].id = Head(in).id
  <2>1. in[1].id # 0
    BY <1>2, <1>3 DEF Numbered
  <2> QED BY <1>2, <1>3, <2>1 DEF Numbered, Matched
<1> QED
  BY <1>1, NotYet, NothingSaid

\* What one answer more tells.
LEMMA TellsMore ==
    ASSUME NEW S, NEW a \in Seq(S), NEW r \in S, NEW b, b = Append(a, r)
    PROVE  /\ \A q : Carried(q, b) =>
                Carried(q, a) \/ (r.id = q.id /\ r.type = "STATUS" /\ r.status = "OK")
           /\ Tells(a) => Tells(b)
           /\ r.id # 0 /\ r.type = "STATUS" /\ r.status = "FAILURE" => Tells(b)
<1>1. /\ Len(b) = Len(a) + 1 /\ b[Len(a) + 1] = r /\ Len(a) \in Nat
      /\ \A k \in 1..Len(a) : b[k] = a[k]
  BY AppendProperties
<1>2. /\ \A k \in 1..Len(b) : k \in 1..Len(a) \/ k = Len(a) + 1
      /\ \A k \in 1..Len(a) : k \in 1..Len(b)
      /\ Len(a) + 1 \in 1..Len(b)
  BY <1>1
<1>3. \A q : Carried(q, b) =>
         Carried(q, a) \/ (r.id = q.id /\ r.type = "STATUS" /\ r.status = "OK")
  BY <1>1, <1>2 DEF Carried
<1>4. Tells(a) => Tells(b)
  BY <1>1, <1>2 DEF Tells
<1>5. r.id # 0 /\ r.type = "STATUS" /\ r.status = "FAILURE" => Tells(b)
  BY <1>1, <1>2 DEF Tells
<1> QED
  BY <1>3, <1>4, <1>5

\* The server's answers, whatever it makes of the request.
LEMMA ServesRight ==
    ASSUME OverInv, RightInv, SvAnswers
    PROVE  RightInv'
<1>1. PICK q \in Unanswered :
          /\ SvOpen(q) \/ SvRead(q) \/ SvWrite(q) \/ SvClose(q) \/ SvFails(q) \/ SvMalformed(q)
          /\ UNCHANGED <<x, pend, next_id, failed, aborted, pos, forgotten>>
  BY DEF SvAnswers
<1>2. PICK j \in 1..Len(pend) : q = pend[j]
  <2>1. \E k \in 1..Len(pend) : q = pend[k]
    BY DEF Unanswered, ToSet
  <2> QED BY <2>1
<1>3. /\ in \in Seq(Responses(next_id)) /\ next_id \in Nat /\ errors \in Nat
      /\ \A k \in 1..Len(pend) : pend[k].id = q.id => pend[k] = q
      /\ q \in Requests(next_id) /\ Sane(q, x) /\ x.state \notin {"IDLE", "DONE"}
  <2>1. in \in Seq(Responses(next_id)) /\ next_id \in Nat /\ errors \in Nat
        /\ pend \in Seq(Requests(next_id))
    BY Bounds DEF OverInv, TypeOK
  <2>2. \A k \in 1..Len(pend) : pend[k].id = q.id => pend[k] = q
    BY <1>2 DEF OverInv, Numbered, Apart
  <2>3. q \in Requests(next_id) /\ Sane(q, x)
    BY <1>2, <2>1, ElementOfSeq DEF OverInv, Positioned
  <2>4. x.state \notin {"IDLE", "DONE"}
    BY <1>2, NotYet
  <2> QED BY <2>1, <2>2, <2>3, <2>4
<1>4. /\ q.id \in 1..next_id /\ q.off \in Nat /\ q.len \in 0..Chunk /\ q.id # 0
      /\ 0 \in Nat /\ 0 \in 0..Chunk
  BY <1>3, Bounds DEF Requests
<1>5. ASSUME NEW type \in {"HANDLE", "DATA", "STATUS", "BAD"},
             NEW status \in {"none", "OK", "EOF", "FAILURE"}, NEW off \in Nat, NEW len \in 0..Chunk,
             Answers(q, type, status, off, len),
             ~x.upload => UNCHANGED copy,
             x.upload /\ Stored(x, pend, in, copy, pos) =>
                /\ \A o \in Offsets : copy'[o] = copy[o] \/ (copy'[o] = o /\ o < x.next_off)
                /\ q.type \in Blocks /\ status = "OK" =>
                      \A o \in Offsets : Spans(q, o) => copy'[o] = o,
             errors' = errors \/ (type = "STATUS" /\ status = "FAILURE")
      PROVE  RightInv'
  <2> DEFINE r == Response(q.id, type, status, off, len)
  <2>1. r \in Responses(next_id) /\ r.id = q.id /\ r.type = type /\ r.status = status
    <3>1. q.id \in 0..next_id
      BY <1>3, <1>4
    <3> QED BY <3>1 DEF Response, Responses
  <2>2. in' = Append(in, r)
    BY <1>5 DEF Answers
  <2> HIDE DEF r
  <2>3. /\ \A p : Carried(p, in') =>
             Carried(p, in) \/ (r.id = p.id /\ r.type = "STATUS" /\ r.status = "OK")
        /\ Tells(in) => Tells(in')
        /\ r.id # 0 /\ r.type = "STATUS" /\ r.status = "FAILURE" => Tells(in')
    BY <1>3, <2>1, <2>2, TellsMore
  <2>4. errors' > 0 /\ (errors > 0 => Tells(in)) => Tells(in')
    BY <1>4, <1>5, <2>1, <2>3
  <2>5. ASSUME x.upload, Stored(x, pend, in, copy, pos),
               NEW k \in 1..Len(pend), NEW o \in Offsets,
               pend[k].type \in Blocks, Spans(pend[k], o), Carried(pend[k], in')
        PROVE  Carried(pend[k], in) \/ copy'[o] = o
    <3> SUFFICES ASSUME ~Carried(pend[k], in) PROVE copy'[o] = o
      OBVIOUS
    <3>1. pend[k] = q /\ status = "OK"
      BY <1>3, <2>1, <2>3, <2>5
    <3> QED BY <1>5, <2>5, <3>1
  <2> QED BY <1>1, <1>3, <1>5, <2>4, <2>5, Aside
<1>6. ASSUME NEW type \in {"HANDLE", "DATA", "STATUS", "BAD"},
             NEW status \in {"none", "OK", "EOF", "FAILURE"}, NEW off \in Nat, NEW len \in 0..Chunk,
             Answers(q, type, status, off, len), UNCHANGED copy,
             q.type \in Blocks => status # "OK",
             errors' = errors \/ (type = "STATUS" /\ status = "FAILURE")
      PROVE  RightInv'
  BY <1>5, <1>6
<1>7. CASE SvOpen(q)
  <2>1. Answers(q, "HANDLE", "none", 0, 0) /\ UNCHANGED <<copy, errors>>
    BY <1>7 DEF SvOpen
  <2> QED BY <1>4, <1>6, <2>1
<1>8. CASE SvRead(q)
  <2>1. UNCHANGED <<copy, errors>>
    BY <1>8 DEF SvRead
  <2>2. CASE q.off >= Size /\ Answers(q, "STATUS", "EOF", 0, 0)
    BY <1>4, <1>6, <2>1, <2>2
  <2>3. CASE q.off >= Size /\ Answers(q, "DATA", "none", q.off, 0)
    BY <1>4, <1>6, <2>1, <2>3
  <2>4. CASE ~(q.off >= Size) /\ \E n \in 1..Min({q.len, Size - q.off}) : Answers(q, "DATA", "none", q.off, n)
    <3>1. PICK n \in 1..Min({q.len, Size - q.off}) : Answers(q, "DATA", "none", q.off, n)
      BY <2>4
    <3>2. n \in 0..Chunk
      <4> DEFINE l == q.len
                 d == Size - q.off
      <4>1. l \in 0..Chunk /\ d \in Int /\ Chunk \in Nat
        BY <1>4, Bounds
      <4> HIDE DEF l, d
      <4>2. Min({l, d}) = IF l <= d THEN l ELSE d
        BY <4>1, MinPair
      <4>3. n \in 1..Min({l, d})
        BY DEF l, d
      <4> QED BY <4>1, <4>2, <4>3
    <3> QED BY <1>4, <1>6, <2>1, <3>1, <3>2
  <2> QED BY <1>8, <2>2, <2>3, <2>4 DEF SvRead
<1>9. CASE SvWrite(q)
  <2>1. /\ q.type = "WRITE" /\ Answers(q, "STATUS", "OK", 0, 0) /\ Writes(q.off, q.unit, q.len)
        /\ UNCHANGED errors /\ x.upload
    BY <1>3, <1>9 DEF SvWrite, Sane
  <2>2. ASSUME Stored(x, pend, in, copy, pos)
        PROVE  /\ \A o \in Offsets : copy'[o] = copy[o] \/ (copy'[o] = o /\ o < x.next_off)
               /\ \A o \in Offsets : Spans(q, o) => copy'[o] = o
    <3>1. q.unit = q.off /\ q.off + q.len <= x.next_off
      BY <1>2, <2>1, <2>2 DEF Stored, Faithful
    <3>2. \A o \in Offsets : copy'[o] = IF Spans(q, o) THEN q.off + (o - q.off) ELSE copy[o]
      <4>1. copy' = [o \in Offsets |->
                       IF o \in q.off..(q.off + q.len - 1) THEN q.unit + (o - q.off) ELSE copy[o]]
        BY <2>1 DEF Writes
      <4> QED BY <3>1, <4>1 DEF Spans
    <3>3. \A o \in Offsets : Spans(q, o) => q.off + (o - q.off) = o /\ o < x.next_off
      <4> TAKE o \in Offsets
      <4> DEFINE f == q.off
                 l == q.len
                 m == x.next_off
      <4>1. f \in Nat /\ l \in Nat /\ m \in Nat /\ f + l <= m /\ o \in Nat
        <5>1. x \in Xfers
          BY DEF OverInv, TypeOK
        <5> QED BY <1>4, <3>1, <5>1, OffsetsNat, Bounds, XferFields
      <4>2. Spans(q, o) <=> o \in f..(f + l - 1)
        BY DEF Spans
      <4> HIDE DEF f, l, m
      <4>3. o \in f..(f + l - 1) => f + (o - f) = o /\ o < m
        BY ONLY <4>1
      <4> QED BY <4>2, <4>3 DEF f, m
    <3> QED BY <3>2, <3>3
  <2> QED BY <1>4, <1>5, <2>1, <2>2
<1>10. CASE SvClose(q)
  <2>1. q.type \notin Blocks /\ UNCHANGED copy
    BY <1>10 DEF SvClose, Blocks
  <2>2. \/ Answers(q, "STATUS", "OK", 0, 0) /\ errors' = errors
        \/ Answers(q, "STATUS", "FAILURE", 0, 0)
    BY <1>10 DEF SvClose
  <2> QED BY <1>4, <1>6, <2>1, <2>2
<1>11. CASE SvFails(q)
  <2>1. Answers(q, "STATUS", "FAILURE", 0, 0) /\ UNCHANGED copy
    BY <1>11 DEF SvFails
  <2> QED BY <1>4, <1>6, <2>1
<1>12. CASE SvMalformed(q)
  <2>1. Answers(q, "BAD", "none", 0, 0) /\ UNCHANGED <<copy, errors>>
    BY <1>12 DEF SvMalformed
  <2> QED BY <1>4, <1>6, <2>1
<1> QED
  BY <1>1, <1>7, <1>8, <1>9, <1>10, <1>11, <1>12

\* An answer to no request.
LEMMA StrayedRight ==
    ASSUME OverInv, RightInv, SvStray
    PROVE  RightInv'
<1> DEFINE r == Response(0, "STATUS", "OK", 0, 0)
<1>1. /\ in' = Append(in, r)
      /\ UNCHANGED <<x, pend, next_id, failed, aborted, copy, pos, handles, errors, forgotten>>
  BY DEF SvStray
<1>2. in \in Seq(Responses(next_id)) /\ pend \in Seq(Requests(next_id)) /\ next_id \in Nat
  BY DEF OverInv, TypeOK
<1>3. r \in Responses(next_id) /\ r.id = 0
  <2>1. 0 \in 0..next_id /\ 0 \in Nat /\ 0 \in 0..Chunk
    BY <1>2, Bounds
  <2> QED BY <2>1 DEF Response, Responses
<1> HIDE DEF r
<1>4. /\ \A q : Carried(q, in') => Carried(q, in) \/ r.id = q.id
      /\ Tells(in) => Tells(in')
  <2> DEFINE b == in'
             S == Responses(next_id)
  <2>1. in \in Seq(S) /\ r \in S /\ b = Append(in, r)
    BY <1>1, <1>2, <1>3
  <2> HIDE DEF b, S
  <2>2. /\ \A q : Carried(q, b) =>
              Carried(q, in) \/ (r.id = q.id /\ r.type = "STATUS" /\ r.status = "OK")
        /\ Tells(in) => Tells(b)
    BY <2>1, TellsMore
  <2> QED BY <2>2 DEF b
<1>5. \A k \in 1..Len(pend) : pend[k].id # r.id
  <2> TAKE k \in 1..Len(pend)
  <2>1. pend[k] \in Requests(next_id)
    BY <1>2, ElementOfSeq
  <2> QED BY <1>3, <2>1 DEF Requests
<1>6. \A k \in 1..Len(pend) : Carried(pend[k], in') => Carried(pend[k], in)
  BY <1>4, <1>5
<1> QED
  BY <1>1, <1>4, <1>6, Aside

-----------------------------------------------------------------------------
(* The application *)

\* A transfer started has nothing in its copy.
LEMMA StartRight ==
    ASSUME OverInv, RightInv, NEW upload \in BOOLEAN, NEW total \in Nat, upload => total = Size,
           Start(upload, total)
    PROVE  RightInv'
<1> DEFINE y == NewXfer(upload, total)
           q == [type |-> "OPEN", off |-> 0, len |-> 0, unit |-> 0]
           new == Request(next_id + 1, q)
<1>1. /\ x = Idle /\ pos = 0 /\ ~failed /\ y \in Xfers
      /\ x' = y /\ pend' = <<new>>
      /\ new.type = "OPEN" /\ new \in Requests(next_id + 1)
  BY StartIs
<1>2. /\ y.state = "RUNNING" /\ y.upload = upload /\ y.total = total /\ y.done = 0
      /\ y.next_off = 0 /\ ~y.eof_known /\ y.outstanding = 0 /\ y.retry = <<>> /\ ~y.local_eof
  BY DEF NewXfer
<1> HIDE DEF y, new
<1>3. /\ x.state = "IDLE" /\ UNCHANGED <<failed, in, copy, pos, errors>>
  BY DEF Start
<1>4. copy = [o \in Offsets |-> Missing] /\ errors = 0
  BY <1>3 DEF RightInv, CopyRight
<1>5. new \in AnyReq
  <2>1. next_id + 1 \in Nat
    BY DEF OverInv, TypeOK
  <2> QED BY <1>1, <2>1, AnyRequests
<1>6. Asking(<<new>>) = 0
  <2>1. Asking(Append(<<>>, new)) = Asking(<<>>) + Part(new)
    <3>1. <<>> \in Seq(AnyReq)
      BY EmptySeq
    <3> QED BY <1>5, <3>1, AskingMore
  <2>2. Append(<<>>, new) = <<new>>
    OBVIOUS
  <2>3. Part(new) = 0
    BY <1>1 DEF Part, Blocks
  <2> QED BY <2>1, <2>2, <2>3, AskingNone
<1>7. \A o \in Offsets : copy[o] = Missing /\ ~(o < 0)
  BY <1>4, OffsetsNat
<1>8. Len(<<>>) = 0 /\ Len(<<new>>) = 1 /\ <<new>>[1] = new
  OBVIOUS
<1>9. CASE upload
  <2>1. \A k \in 1..Len(<<new>>) : Faithful(<<new>>[k], y)
    <3>1. \A k \in 1..Len(<<new>>) : <<new>>[k] = new
      BY <1>8
    <3> QED BY <1>1, <3>1 DEF Faithful
  <2>2. Stored(y, <<new>>, in, copy, pos)
    BY <1>1, <1>2, <1>6, <1>7, <1>9, <2>1 DEF Stored
  <2>3. CopyFits(x', pend', in', copy', pos') /\ errors' = 0
    BY <1>1, <1>2, <1>3, <1>4, <1>9, <2>2 DEF CopyFits
  <2> QED BY <1>1, <1>2, <2>3, SaidOn
<1>10. CASE ~upload
  <2>1. Within(0, 0) = 0
    BY Bounds DEF Within
  <2>2. Fetched(y, <<new>>, copy)
    <3>1. Len(y.retry) + y.outstanding <= XferWindow
      BY <1>2, <1>8, Bounds
    <3>2. y.done + Asking(<<new>>) + Again(y.retry) = Within(0, y.next_off)
      BY <1>2, <1>6, <2>1, AskingNone
    <3>3. y.next_off <= y.total
      BY <1>2
    <3> QED BY <1>2, <1>7, <3>1, <3>2, <3>3 DEF Fetched
  <2>3. CopyFits(x', pend', in', copy', pos') /\ ~x'.upload
    BY <1>1, <1>2, <1>3, <1>10, <2>2 DEF CopyFits
  <2> QED BY <1>1, <1>2, <2>3, SaidOn
<1> QED
  BY <1>9, <1>10

\* A transfer that was cancelled is never reported as done.
LEMMA CancelRight ==
    ASSUME OverInv, RightInv, sftp_xfer_cancel
    PROVE  RightInv'
<1> DEFINE y == [x EXCEPT !.cancelled = TRUE]
           w == Work(y)
           v == xf_maybe_finish(w)
<1>1. x.state = "RUNNING" /\ x' = v.x /\ x \in Xfers /\ failed \in BOOLEAN
  BY DEF sftp_xfer_cancel, Becomes, OverInv, TypeOK
<1>2. y \in Xfers /\ y.cancelled /\ y.state = "RUNNING"
  <2>1. y \in Xfers
    BY <1>1, XferEdits
  <2> QED BY <1>1, <2>1 DEF Xfers
<1> HIDE DEF y
<1>3. w.x = y
  BY DEF Work
<1> HIDE DEF w
<1> DEFINE c == [y EXCEPT !.closing = TRUE, !.close_done = w.dead]
<1>4. v.x \in {c, Finish(c), Finish(y), y}
  <2> DEFINE u == [w EXCEPT !.x = c]
  <2>1. u.x = c /\ Queue(u, "CLOSE", 0, 0).x = u.x
    BY DEF Queue
  <2> QED BY <1>3, <2>1 DEF xf_maybe_finish
<1>5. c.cancelled /\ c.state = "RUNNING"
  BY <1>2 DEF Xfers
<1> HIDE DEF c, v
<1>6. \A z : z.cancelled => Finish(z).state \in {"FAILED", "CANCELLED"}
  BY DEF Finish
<1>7. x'.state \notin {"IDLE", "DONE"} /\ ~Sound(x')
  BY <1>1, <1>2, <1>4, <1>5, <1>6 DEF Sound
<1> QED
  BY <1>7, NothingSaid

\* Nor one that lost its connection, unless it was so before.
LEMMA AbortRight ==
    ASSUME OverInv, RightInv, sftp_abort
    PROVE  RightInv'
<1>1. Losing(x', Len(pend)) /\ failed' = TRUE /\ UNCHANGED <<copy, handles, errors>> /\ pend' = <<>>
  BY Bereaves DEF sftp_abort
<1>2. CASE x'.state # "DONE"
  <2>1. x'.state # "IDLE"
    BY <1>1 DEF Losing
  <2> QED BY <1>1, <1>2, <2>1, NothingSaid
<1>3. CASE x'.state = "DONE"
  <2>1. x.state = "DONE"
    BY <1>1, <1>3 DEF Losing
  <2>2. pend = <<>>
    BY <2>1 DEF RightInv, CopyRight
  <2>3. x' = x
    BY <1>1, <2>2 DEF Losing
  <2>4. TransferRight'
    BY <1>1, <2>3 DEF RightInv, TransferRight, Offsets, Missing
  <2>5. CopyRight'
    BY <1>1, <1>3 DEF CopyRight, Sound
  <2> QED BY <2>4, <2>5 DEF RightInv
<1> QED
  BY <1>2, <1>3

-----------------------------------------------------------------------------
(* The theorem *)

\* It holds at the start.
LEMMA InitRight ==
    Init => RightInv
<1> SUFFICES ASSUME Init PROVE RightInv
  OBVIOUS
<1>1. x.state = "IDLE" /\ copy = [o \in Offsets |-> Missing] /\ errors = 0
  BY DEF Init, Idle, NewXfer
<1>2. CopyRight
  BY <1>1 DEF CopyRight, Sound
<1>3. TransferRight
  BY <1>1 DEF TransferRight
<1> QED
  BY <1>2, <1>3 DEF RightInv

\* Each step of the application, of the engine and of the server.
LEMMA NextRight ==
    OverInv /\ RightInv /\ [Next]_vars => RightInv'
<1> SUFFICES ASSUME OverInv, RightInv, [Next]_vars PROVE RightInv'
  OBVIOUS
<1>1. ASSUME NEW hint \in Hints, sftp_download(hint) PROVE RightInv'
  <2>1. hint \in Nat
    BY TransferAssumption
  <2> QED BY <1>1, <2>1, StartRight DEF sftp_download
<1>2. CASE sftp_upload
  BY <1>2, Bounds, StartRight DEF sftp_upload
<1>3. CASE sftp_xfer_cancel
  BY <1>3, CancelRight
<1>4. CASE sftp_abort
  BY <1>4, AbortRight
<1>5. CASE RecvResponse
  BY <1>5, ResponseRight
<1>6. CASE RecvMalformed
  BY <1>6, MalformedRight
<1>7. CASE SvAnswers
  BY <1>7, ServesRight
<1>8. CASE SvStray
  BY <1>8, StrayedRight
<1>9. CASE UNCHANGED vars
  <2>1. UNCHANGED <<x, pend, failed, in, copy, pos, handles, errors>>
    BY <1>9 DEF vars
  <2>2. (\A q : Carried(q, in') => Carried(q, in)) /\ (Tells(in) => Tells(in'))
    BY <2>1
  <2>3. \A o \in Offsets : copy'[o] = copy[o]
    BY <2>1
  <2> QED BY <2>1, <2>2, <2>3, Aside
<1> QED
  BY <1>1, <1>2, <1>3, <1>4, <1>5, <1>6, <1>7, <1>8, <1>9 DEF Next

\* While a transfer goes on, each unit asked for is in the copy, or under way, or to be asked
\* for again, and the count of those that came goes with it.
THEOREM RightInvariant == Spec => [](OverInv /\ RightInv)
<1>1. Init => OverInv /\ RightInv
  BY InitOver, InitRight
<1>2. OverInv /\ RightInv /\ [Next]_vars => OverInv' /\ RightInv'
  BY NextOver, NextRight
<1> QED
  BY <1>1, <1>2, PTL DEF Spec

\* A download reported as done is the remote file, up to the size asked for, and an upload is
\* at the server, whole, with its handle closed and no error on the way: for every size of
\* file, chunk and window, every hint, and whatever the order and the length of the answers.
THEOREM TransferAlwaysRight == Spec => []TransferRight
<1>1. RightInv => TransferRight
  BY DEF RightInv
<1> QED
  BY <1>1, RightInvariant, PTL

=============================================================================
