---------------------------- MODULE ChannelsProofs ----------------------------
(***************************************************************************)
(* Proof that channels are kept apart, that windows and data add up, and   *)
(* that neither side is ever accused: ChannelsInv is inductive, for any    *)
(* workload, table, window, backlog and packet size.                       *)
(*                                                                         *)
(* Each handler is a sequence of elementary steps on four things: u, what  *)
(* the client has sent, d, what the server has, t, the client's table, and *)
(* s, that of the server.  One lemma for each says that it keeps Linked.   *)
(***************************************************************************)
EXTENDS Channels, SumProofs

-----------------------------------------------------------------------------
(* Queues, and what is under way in them *)

UpWeights(q, type, r) ==
    [k \in 1..Len(q) |-> IF q[k].type = type /\ q[k].ch = r THEN q[k].n ELSE 0]
DownWeights(q, type, r) ==
    [k \in 1..Len(q) |-> IF q[k].type = type /\ q[k].rid = r THEN q[k].n ELSE 0]

\* The fields of a message.
LEMMA MessageFields ==
    /\ \A m \in UpMessage : m.type \in OutTypes /\ m.ch \in Nat /\ m.n \in Nat
    /\ \A m \in DownMessage : /\ m.type \in InTypes /\ m.ch \in Slots \cup {0}
                              /\ m.rid \in Rids \cup {0} /\ m.n \in Nat
BY DEF UpMessage, DownMessage

\* What counts of a message is a natural number.
LEMMA WeightsType ==
    /\ \A u \in Seq(UpMessage) : \A type, r :
          /\ UpWeights(u, type, r) \in Seq(Int) /\ Len(UpWeights(u, type, r)) = Len(u)
          /\ \A k \in 1..Len(u) : UpWeights(u, type, r)[k] >= 0
    /\ \A d \in Seq(DownMessage) : \A type, r :
          /\ DownWeights(d, type, r) \in Seq(Int) /\ Len(DownWeights(d, type, r)) = Len(d)
          /\ \A k \in 1..Len(d) : DownWeights(d, type, r)[k] >= 0
<1>1. ASSUME NEW u \in Seq(UpMessage), NEW type, NEW r
      PROVE  /\ UpWeights(u, type, r) \in Seq(Int) /\ Len(UpWeights(u, type, r)) = Len(u)
             /\ \A k \in 1..Len(u) : UpWeights(u, type, r)[k] >= 0
  <2>1. Len(u) \in Nat /\ \A k \in 1..Len(u) : u[k].n \in Nat
    BY LenProperties, ElementOfSeq, MessageFields
  <2>2. UpWeights(u, type, r) \in [1..Len(u) -> Nat]
    BY <2>1 DEF UpWeights
  <2> HIDE DEF UpWeights
  <2> QED BY <2>1, <2>2
<1>2. ASSUME NEW d \in Seq(DownMessage), NEW type, NEW r
      PROVE  /\ DownWeights(d, type, r) \in Seq(Int) /\ Len(DownWeights(d, type, r)) = Len(d)
             /\ \A k \in 1..Len(d) : DownWeights(d, type, r)[k] >= 0
  <2>1. Len(d) \in Nat /\ \A k \in 1..Len(d) : d[k].n \in Nat
    BY LenProperties, ElementOfSeq, MessageFields
  <2>2. DownWeights(d, type, r) \in [1..Len(d) -> Nat]
    BY <2>1 DEF DownWeights
  <2> HIDE DEF DownWeights
  <2> QED BY <2>1, <2>2
<1> QED
  BY <1>1, <1>2

\* The units are the total of these weights: a natural number, none if no message counts.
LEMMA UnitsNat ==
    /\ \A u \in Seq(UpMessage) : \A type, r :
          /\ UpUnits(u, type, r) = Total(UpWeights(u, type, r))
          /\ UpUnits(u, type, r) \in Nat
          /\ (\A k \in 1..Len(u) : u[k].type = type => u[k].ch # r) => UpUnits(u, type, r) = 0
    /\ \A d \in Seq(DownMessage) : \A type, r :
          /\ DownUnits(d, type, r) = Total(DownWeights(d, type, r))
          /\ DownUnits(d, type, r) \in Nat
          /\ (\A k \in 1..Len(d) : d[k].type = type => d[k].rid # r) => DownUnits(d, type, r) = 0
<1>1. ASSUME NEW u \in Seq(UpMessage), NEW type, NEW r
      PROVE  /\ UpUnits(u, type, r) = Total(UpWeights(u, type, r))
             /\ UpUnits(u, type, r) \in Nat
             /\ (\A k \in 1..Len(u) : u[k].type = type => u[k].ch # r) => UpUnits(u, type, r) = 0
  <2>1. UpUnits(u, type, r) = Total(UpWeights(u, type, r))
    BY DEF UpUnits, UpWeights
  <2>2. Total(UpWeights(u, type, r)) \in Nat
    BY WeightsType, TotalNat
  <2>3. ASSUME \A k \in 1..Len(u) : u[k].type = type => u[k].ch # r
        PROVE  Total(UpWeights(u, type, r)) = 0
    <3>1. \A k \in 1..Len(u) : UpWeights(u, type, r)[k] = 0
      BY <2>3 DEF UpWeights
    <3> QED BY <3>1, WeightsType, TotalNat
  <2> QED BY <2>1, <2>2, <2>3
<1>2. ASSUME NEW d \in Seq(DownMessage), NEW type, NEW r
      PROVE  /\ DownUnits(d, type, r) = Total(DownWeights(d, type, r))
             /\ DownUnits(d, type, r) \in Nat
             /\ (\A k \in 1..Len(d) : d[k].type = type => d[k].rid # r) => DownUnits(d, type, r) = 0
  <2>1. DownUnits(d, type, r) = Total(DownWeights(d, type, r))
    BY DEF DownUnits, DownWeights
  <2>2. Total(DownWeights(d, type, r)) \in Nat
    BY WeightsType, TotalNat
  <2>3. ASSUME \A k \in 1..Len(d) : d[k].type = type => d[k].rid # r
        PROVE  Total(DownWeights(d, type, r)) = 0
    <3>1. \A k \in 1..Len(d) : DownWeights(d, type, r)[k] = 0
      BY <2>3 DEF DownWeights
    <3> QED BY <3>1, WeightsType, TotalNat
  <2> QED BY <2>1, <2>2, <2>3
<1> QED
  BY <1>1, <1>2

\* What one message counts.
UpCounts(m, type, r) == IF m.type = type /\ m.ch = r THEN m.n ELSE 0
DownCounts(m, type, r) == IF m.type = type /\ m.rid = r THEN m.n ELSE 0

\* w is u and then v.
Joined(w, u, v) ==
    /\ Len(u) \in Nat /\ Len(v) \in Nat /\ Len(w) = Len(u) + Len(v)
    /\ \A k \in 1..Len(u) : w[k] = u[k]
    /\ \A k \in 1..Len(v) : w[Len(u) + k] = v[k]

\* The units of two queues, one behind the other.
LEMMA UnitsJoined ==
    /\ \A w, u, v \in Seq(UpMessage) : Joined(w, u, v) => \A type, r :
          UpUnits(w, type, r) = UpUnits(u, type, r) + UpUnits(v, type, r)
    /\ \A w, u, v \in Seq(DownMessage) : Joined(w, u, v) => \A type, r :
          DownUnits(w, type, r) = DownUnits(u, type, r) + DownUnits(v, type, r)
<1>1. ASSUME NEW w \in Seq(UpMessage), NEW u \in Seq(UpMessage), NEW v \in Seq(UpMessage),
             Joined(w, u, v), NEW type, NEW r
      PROVE  UpUnits(w, type, r) = UpUnits(u, type, r) + UpUnits(v, type, r)
  <2> DEFINE a == UpWeights(w, type, r)
             b == UpWeights(u, type, r)
             c == UpWeights(v, type, r)
  <2>1. /\ a \in Seq(Int) /\ b \in Seq(Int) /\ c \in Seq(Int)
        /\ Len(a) = Len(w) /\ Len(b) = Len(u) /\ Len(c) = Len(v)
    BY WeightsType
  <2>2. \A k \in 1..Len(u) : k \in 1..Len(w) /\ w[k] = u[k]
    BY <1>1 DEF Joined
  <2>3. \A k \in 1..Len(v) : Len(u) + k \in 1..Len(w) /\ w[Len(u) + k] = v[k]
    BY <1>1 DEF Joined
  <2>4. \A k \in 1..Len(u) : a[k] = b[k]
    BY <2>2 DEF UpWeights
  <2>5. \A k \in 1..Len(v) : a[Len(u) + k] = c[k]
    BY <2>3 DEF UpWeights
  <2>6. Len(a) = Len(b) + Len(c)
    BY <1>1, <2>1 DEF Joined
  <2> HIDE DEF a, b, c
  <2>7. Total(a) = Total(b) + Total(c)
    <3>1. \A k \in 1..Len(b) : a[k] = b[k]
      BY <2>1, <2>4
    <3>2. \A k \in 1..Len(c) : a[Len(b) + k] = c[k]
      BY <2>1, <2>5
    <3> QED BY <2>1, <2>6, <3>1, <3>2, TotalConcat
  <2> QED BY <2>7, UnitsNat DEF a, b, c
<1>2. ASSUME NEW w \in Seq(DownMessage), NEW u \in Seq(DownMessage), NEW v \in Seq(DownMessage),
             Joined(w, u, v), NEW type, NEW r
      PROVE  DownUnits(w, type, r) = DownUnits(u, type, r) + DownUnits(v, type, r)
  <2> DEFINE a == DownWeights(w, type, r)
             b == DownWeights(u, type, r)
             c == DownWeights(v, type, r)
  <2>1. /\ a \in Seq(Int) /\ b \in Seq(Int) /\ c \in Seq(Int)
        /\ Len(a) = Len(w) /\ Len(b) = Len(u) /\ Len(c) = Len(v)
    BY WeightsType
  <2>2. \A k \in 1..Len(u) : k \in 1..Len(w) /\ w[k] = u[k]
    BY <1>2 DEF Joined
  <2>3. \A k \in 1..Len(v) : Len(u) + k \in 1..Len(w) /\ w[Len(u) + k] = v[k]
    BY <1>2 DEF Joined
  <2>4. \A k \in 1..Len(u) : a[k] = b[k]
    BY <2>2 DEF DownWeights
  <2>5. \A k \in 1..Len(v) : a[Len(u) + k] = c[k]
    BY <2>3 DEF DownWeights
  <2>6. Len(a) = Len(b) + Len(c)
    BY <1>2, <2>1 DEF Joined
  <2> HIDE DEF a, b, c
  <2>7. Total(a) = Total(b) + Total(c)
    <3>1. \A k \in 1..Len(b) : a[k] = b[k]
      BY <2>1, <2>4
    <3>2. \A k \in 1..Len(c) : a[Len(b) + k] = c[k]
      BY <2>1, <2>5
    <3> QED BY <2>1, <2>6, <3>1, <3>2, TotalConcat
  <2> QED BY <2>7, UnitsNat DEF a, b, c
<1> QED
  BY <1>1, <1>2

\* The units of one message.
LEMMA UnitsOfOne ==
    /\ \A m \in UpMessage : \A type, r : UpUnits(<<m>>, type, r) = UpCounts(m, type, r)
    /\ \A m \in DownMessage : \A type, r : DownUnits(<<m>>, type, r) = DownCounts(m, type, r)
<1>1. ASSUME NEW m \in UpMessage, NEW type, NEW r
      PROVE  UpUnits(<<m>>, type, r) = UpCounts(m, type, r)
  <2> DEFINE q == <<m>>
             w == UpWeights(q, type, r)
             x == <<UpCounts(m, type, r)>>
  <2>1. q \in Seq(UpMessage) /\ Len(q) = 1 /\ q[1] = m
    OBVIOUS
  <2>2. UpCounts(m, type, r) \in Int
    BY MessageFields DEF UpCounts
  <2>3. w = [k \in 1..1 |-> UpCounts(m, type, r)]
    BY <2>1 DEF UpWeights, UpCounts
  <2>4. x = [k \in 1..1 |-> UpCounts(m, type, r)]
    BY <2>2
  <2>5. Total(w) = UpCounts(m, type, r)
    BY <2>2, <2>3, <2>4, TotalSmall
  <2> QED BY <2>1, <2>5, UnitsNat
<1>2. ASSUME NEW m \in DownMessage, NEW type, NEW r
      PROVE  DownUnits(<<m>>, type, r) = DownCounts(m, type, r)
  <2> DEFINE q == <<m>>
             w == DownWeights(q, type, r)
             x == <<DownCounts(m, type, r)>>
  <2>1. q \in Seq(DownMessage) /\ Len(q) = 1 /\ q[1] = m
    OBVIOUS
  <2>2. DownCounts(m, type, r) \in Int
    BY MessageFields DEF DownCounts
  <2>3. w = [k \in 1..1 |-> DownCounts(m, type, r)]
    BY <2>1 DEF DownWeights, DownCounts
  <2>4. x = [k \in 1..1 |-> DownCounts(m, type, r)]
    BY <2>2
  <2>5. Total(w) = DownCounts(m, type, r)
    BY <2>2, <2>3, <2>4, TotalSmall
  <2> QED BY <2>1, <2>5, UnitsNat
<1> QED
  BY <1>1, <1>2

\* v is u and then m; v is u without its first message.
UpLonger(v, u, m) ==
    /\ u \in Seq(UpMessage) /\ v \in Seq(UpMessage) /\ m \in UpMessage
    /\ Len(u) \in Nat /\ Len(v) = Len(u) + 1 /\ v[Len(u) + 1] = m
    /\ \A k \in 1..Len(u) : v[k] = u[k]
    /\ \A type, r : UpUnits(v, type, r) = UpUnits(u, type, r) + UpCounts(m, type, r)
DownLonger(v, u, m) ==
    /\ u \in Seq(DownMessage) /\ v \in Seq(DownMessage) /\ m \in DownMessage
    /\ Len(u) \in Nat /\ Len(v) = Len(u) + 1 /\ v[Len(u) + 1] = m
    /\ \A k \in 1..Len(u) : v[k] = u[k]
    /\ \A type, r : DownUnits(v, type, r) = DownUnits(u, type, r) + DownCounts(m, type, r)
UpShorter(v, u) ==
    /\ u \in Seq(UpMessage) /\ v \in Seq(UpMessage) /\ u[1] \in UpMessage
    /\ Len(v) \in Nat /\ Len(u) = Len(v) + 1
    /\ \A k \in 1..Len(v) : v[k] = u[k + 1]
    /\ \A type, r : UpUnits(u, type, r) = UpUnits(v, type, r) + UpCounts(u[1], type, r)
DownShorter(v, u) ==
    /\ u \in Seq(DownMessage) /\ v \in Seq(DownMessage) /\ u[1] \in DownMessage
    /\ Len(v) \in Nat /\ Len(u) = Len(v) + 1
    /\ \A k \in 1..Len(v) : v[k] = u[k + 1]
    /\ \A type, r : DownUnits(u, type, r) = DownUnits(v, type, r) + DownCounts(u[1], type, r)

\* A message appended to a queue, and the first one taken off it.
LEMMA Lengthen ==
    /\ \A u \in Seq(UpMessage), m \in UpMessage : UpLonger(Append(u, m), u, m)
    /\ \A d \in Seq(DownMessage), m \in DownMessage : DownLonger(Append(d, m), d, m)
<1>1. ASSUME NEW u \in Seq(UpMessage), NEW m \in UpMessage PROVE UpLonger(Append(u, m), u, m)
  <2> DEFINE v == Append(u, m)
             w == <<m>>
  <2>1. /\ v \in Seq(UpMessage) /\ Len(u) \in Nat /\ Len(v) = Len(u) + 1
        /\ v[Len(u) + 1] = m /\ \A k \in 1..Len(u) : v[k] = u[k]
    BY AppendProperties, LenProperties
  <2>2. w \in Seq(UpMessage) /\ Len(w) = 1 /\ w[1] = m
    OBVIOUS
  <2>3. \A type, r : UpUnits(w, type, r) = UpCounts(m, type, r)
    BY UnitsOfOne
  <2>4. \A type, r : UpUnits(u, type, r) \in Nat
    BY UnitsNat
  <2> HIDE DEF v, w
  <2>5. Joined(v, u, w)
    BY <2>1, <2>2 DEF Joined
  <2>6. \A type, r : UpUnits(v, type, r) = UpUnits(u, type, r) + UpUnits(w, type, r)
    BY <2>1, <2>2, <2>5, UnitsJoined
  <2>7. \A type, r : UpUnits(v, type, r) = UpUnits(u, type, r) + UpCounts(m, type, r)
    BY <2>3, <2>6
  <2>8. UpLonger(v, u, m)
    BY <2>1, <2>7 DEF UpLonger
  <2> QED BY <2>8 DEF v
<1>2. ASSUME NEW u \in Seq(DownMessage), NEW m \in DownMessage PROVE DownLonger(Append(u, m), u, m)
  <2> DEFINE v == Append(u, m)
             w == <<m>>
  <2>1. /\ v \in Seq(DownMessage) /\ Len(u) \in Nat /\ Len(v) = Len(u) + 1
        /\ v[Len(u) + 1] = m /\ \A k \in 1..Len(u) : v[k] = u[k]
    BY AppendProperties, LenProperties
  <2>2. w \in Seq(DownMessage) /\ Len(w) = 1 /\ w[1] = m
    OBVIOUS
  <2>3. \A type, r : DownUnits(w, type, r) = DownCounts(m, type, r)
    BY UnitsOfOne
  <2> HIDE DEF v, w
  <2>5. Joined(v, u, w)
    BY <2>1, <2>2 DEF Joined
  <2>6. \A type, r : DownUnits(v, type, r) = DownUnits(u, type, r) + DownUnits(w, type, r)
    BY <2>1, <2>2, <2>5, UnitsJoined
  <2>7. \A type, r : DownUnits(v, type, r) = DownUnits(u, type, r) + DownCounts(m, type, r)
    BY <2>3, <2>6
  <2>8. DownLonger(v, u, m)
    BY <2>1, <2>7 DEF DownLonger
  <2> QED BY <2>8 DEF v
<1> QED
  BY <1>1, <1>2

\* The first message taken off a queue.
LEMMA Shorten ==
    /\ \A u \in Seq(UpMessage) : u # <<>> => UpShorter(Tail(u), u) /\ Head(u) = u[1]
    /\ \A d \in Seq(DownMessage) : d # <<>> => DownShorter(Tail(d), d) /\ Head(d) = d[1]
<1>1. ASSUME NEW u \in Seq(UpMessage), u # <<>> PROVE UpShorter(Tail(u), u) /\ Head(u) = u[1]
  <2> DEFINE v == Tail(u)
             w == <<u[1]>>
  <2>1. v \in Seq(UpMessage) /\ Len(v) = Len(u) - 1 /\ \A k \in 1..Len(v) : v[k] = u[k + 1]
    BY <1>1, HeadTailProperties
  <2>2. Len(u) \in Nat \ {0} /\ Len(v) \in Nat
    BY <1>1, <2>1, EmptySeq, LenProperties
  <2>3. u[1] \in UpMessage /\ Head(u) = u[1]
    BY <2>2, ElementOfSeq
  <2>4. w \in Seq(UpMessage) /\ Len(w) = 1 /\ w[1] = u[1]
    BY <2>3
  <2>5. \A type, r : UpUnits(w, type, r) = UpCounts(u[1], type, r)
    BY <2>3, UnitsOfOne
  <2>6. \A type, r : UpUnits(v, type, r) \in Nat
    BY <2>1, UnitsNat
  <2>7. \A type, r : UpCounts(u[1], type, r) \in Int
    BY <2>3, MessageFields DEF UpCounts
  <2> HIDE DEF v, w
  <2>8. Joined(u, w, v)
    BY <2>1, <2>2, <2>4 DEF Joined
  <2>9. \A type, r : UpUnits(u, type, r) = UpUnits(w, type, r) + UpUnits(v, type, r)
    BY <2>1, <2>4, <2>8, UnitsJoined
  <2>10. \A type, r : UpUnits(u, type, r) = UpUnits(v, type, r) + UpCounts(u[1], type, r)
    BY <2>5, <2>6, <2>7, <2>9
  <2>11. UpShorter(v, u)
    BY <2>1, <2>2, <2>3, <2>10 DEF UpShorter
  <2> QED BY <2>3, <2>11 DEF v
<1>2. ASSUME NEW u \in Seq(DownMessage), u # <<>> PROVE DownShorter(Tail(u), u) /\ Head(u) = u[1]
  <2> DEFINE v == Tail(u)
             w == <<u[1]>>
  <2>1. v \in Seq(DownMessage) /\ Len(v) = Len(u) - 1 /\ \A k \in 1..Len(v) : v[k] = u[k + 1]
    BY <1>2, HeadTailProperties
  <2>2. Len(u) \in Nat \ {0} /\ Len(v) \in Nat
    BY <1>2, <2>1, EmptySeq, LenProperties
  <2>3. u[1] \in DownMessage /\ Head(u) = u[1]
    BY <2>2, ElementOfSeq
  <2>4. w \in Seq(DownMessage) /\ Len(w) = 1 /\ w[1] = u[1]
    BY <2>3
  <2>5. \A type, r : DownUnits(w, type, r) = DownCounts(u[1], type, r)
    BY <2>3, UnitsOfOne
  <2>6. \A type, r : DownUnits(v, type, r) \in Nat
    BY <2>1, UnitsNat
  <2>7. \A type, r : DownCounts(u[1], type, r) \in Int
    BY <2>3, MessageFields DEF DownCounts
  <2> HIDE DEF v, w
  <2>8. Joined(u, w, v)
    BY <2>1, <2>2, <2>4 DEF Joined
  <2>9. \A type, r : DownUnits(u, type, r) = DownUnits(w, type, r) + DownUnits(v, type, r)
    BY <2>1, <2>4, <2>8, UnitsJoined
  <2>10. \A type, r : DownUnits(u, type, r) = DownUnits(v, type, r) + DownCounts(u[1], type, r)
    BY <2>5, <2>6, <2>7, <2>9
  <2>11. DownShorter(v, u)
    BY <2>1, <2>2, <2>3, <2>10 DEF DownShorter
  <2> QED BY <2>3, <2>11 DEF v
<1> QED
  BY <1>1, <1>2

-----------------------------------------------------------------------------
(* What Linked says *)

\* The fields of a channel, at the client and at the server.
LEMMA ChanFields ==
    \A c \in Chan :
       /\ c.state \in {"FREE", "OPENING", "OPEN"} /\ c.remote_id \in Rids \cup {0}
       /\ c.remote_window \in 0..WindowLimit /\ c.local_window \in 0..Window
       /\ c.out \in 0..Backlog /\ c.written \in Nat /\ c.surfaced \in Nat /\ c.x11_pending \in Nat
       /\ {c.eof_sent, c.close_recv, c.close_sent, c.want_eof, c.want_close} \subseteq BOOLEAN
       /\ {c.is_x11, c.x11_setup_done, c.rejected} \subseteq BOOLEAN
BY DEF Chan

\* Likewise.
LEMMA SvFields ==
    \A v \in SvChan :
       /\ v.state \in {"none", "opening", "open", "done"} /\ v.slot \in Slots \cup {0}
       /\ v.win \in Nat /\ v.grant \in 0..SvWindow /\ v.got \in Nat /\ v.sent \in Nat
       /\ v.owed \in Nat \cup {-1}
       /\ {v.eof_in, v.eof_out, v.close_in, v.close_out} \subseteq BOOLEAN
BY DEF SvChan

\* The types of all that Linked is about.
LEMMA TypesOf ==
    ASSUME NEW t, NEW u, NEW d, NEW s, Typed(t, u, d, s)
    PROVE  /\ t \in [Slots -> Chan] /\ s \in [Rids -> SvChan]
           /\ u \in Seq(UpMessage) /\ d \in Seq(DownMessage)
           /\ \A i \in Slots : t[i] \in Chan
           /\ \A r \in Rids : s[r] \in SvChan
           /\ Len(u) \in Nat /\ Len(d) \in Nat
           /\ \A k \in 1..Len(u) : u[k] \in UpMessage
           /\ \A k \in 1..Len(d) : d[k] \in DownMessage
           /\ \A type, r : UpUnits(u, type, r) \in Nat /\ DownUnits(d, type, r) \in Nat
<1>1. t \in [Slots -> Chan] /\ s \in [Rids -> SvChan]
      /\ u \in Seq(UpMessage) /\ d \in Seq(DownMessage)
  BY DEF Typed
<1>2. \A type, r : UpUnits(u, type, r) \in Nat /\ DownUnits(d, type, r) \in Nat
  BY <1>1, UnitsNat
<1>3. Len(u) \in Nat /\ Len(d) \in Nat
  BY <1>1, LenProperties
<1>4. /\ \A k \in 1..Len(u) : u[k] \in UpMessage
      /\ \A k \in 1..Len(d) : d[k] \in DownMessage
  BY <1>1, ElementOfSeq
<1> QED
  BY <1>1, <1>2, <1>3, <1>4

\* A channel of the server has one slot.
LEMMA BoundOnce ==
    ASSUME NEW t, NEW u, NEW d, NEW s, Linked(t, u, d, s), NEW i \in Slots, NEW j \in Slots,
           NEW r \in Rids, Bound(u, s, i, r), Bound(u, s, j, r)
    PROVE  i = j
<1>1. UpOrder(u) /\ Len(u) \in Nat
  BY TypesOf DEF Linked
<1>2. r # 0
  BY DEF Rids
<1>3. CASE s[r].state # "opening"
  BY <1>3 DEF Bound
<1>4. CASE s[r].state = "opening"
  <2>1. PICK k \in 1..Len(u) : u[k].type = "OPEN_CONFIRM" /\ u[k].ch = r /\ u[k].n = i
    BY <1>4 DEF Bound
  <2>2. PICK l \in 1..Len(u) : u[l].type = "OPEN_CONFIRM" /\ u[l].ch = r /\ u[l].n = j
    BY <1>4 DEF Bound
  <2>3. ~(k < l) /\ ~(l < k)
    BY <1>1, <1>2, <2>1, <2>2 DEF UpOrder, UpFollows, Outcomes
  <2>4. k = l
    BY <1>1, <2>3
  <2> QED BY <2>1, <2>2, <2>4
<1> QED
  BY <1>3, <1>4

\* Two slots do not hold one channel.
LEMMA HeldOnce ==
    ASSUME NEW t, NEW u, NEW d, NEW s, Linked(t, u, d, s), NEW i \in Slots, NEW j \in Slots,
           NEW r, Holds(t, i, r), Holds(t, j, r)
    PROVE  r \in Rids /\ i = j
<1>1. SlotFits(t[i], i, u, d, s) /\ SlotFits(t[j], j, u, d, s)
  BY DEF Linked, SlotsRight
<1>2. r \in Rids /\ Bound(u, s, i, r) /\ Bound(u, s, j, r)
  BY <1>1 DEF SlotFits, Holds
<1> QED
  BY <1>2, BoundOnce

\* Nothing is under way on a channel of which the client has yet to hear.
LEMMA UnnamedUnits ==
    ASSUME NEW u \in Seq(UpMessage), NEW r, Unnamed(u, r)
    PROVE  UpUnits(u, "DATA", r) = 0 /\ UpUnits(u, "ADJUST", r) = 0
<1>1. /\ \A k \in 1..Len(u) : u[k].type = "DATA" => u[k].ch # r
      /\ \A k \in 1..Len(u) : u[k].type = "ADJUST" => u[k].ch # r
  BY DEF Unnamed
<1> QED
  BY <1>1, UnitsNat

-----------------------------------------------------------------------------
(* Steps of the client on a channel that is open *)

\* Slot i becomes c; channel r becomes v.
Becomes(t2, t, i, c) == i \in Slots /\ c \in Chan /\ t2 = [t EXCEPT ![i] = c]
SvBecomes(s2, s, r, v) == r \in Rids /\ v \in SvChan /\ s2 = [s EXCEPT ![r] = v]
\* It stays the same channel.
SameChannel(c, b) == c.state = b.state /\ c.remote_id = b.remote_id

\* What holds of the slots then.
LEMMA SameHolds ==
    ASSUME NEW t \in [Slots -> Chan], NEW t2, NEW i, NEW c, Becomes(t2, t, i, c), SameChannel(c, t[i])
    PROVE  /\ t2 \in [Slots -> Chan] /\ t2[i] = c
           /\ \A j \in Slots : /\ t2[j].state = t[j].state /\ t2[j].remote_id = t[j].remote_id
                               /\ j # i => t2[j] = t[j]
           /\ \A j \in Slots : \A r : Holds(t2, j, r) <=> Holds(t, j, r)
           /\ \A r : Unheld(t2, r) <=> Unheld(t, r)
<1>1. t2 \in [Slots -> Chan] /\ t2[i] = c /\ i \in Slots
  BY DEF Becomes
<1>2. \A j \in Slots : j # i => t2[j] = t[j]
  BY DEF Becomes
<1>3. \A j \in Slots : t2[j].state = t[j].state /\ t2[j].remote_id = t[j].remote_id
  BY <1>1, <1>2 DEF SameChannel
<1>4. \A j \in Slots : \A r : Holds(t2, j, r) <=> Holds(t, j, r)
  BY <1>3 DEF Holds
<1> QED
  BY <1>1, <1>2, <1>3, <1>4 DEF Unheld

\* A message of either side depends on the table only for which slots hold what.
LEMMA MessagesKeep ==
    ASSUME NEW t, NEW t2, NEW u, NEW d, NEW s,
           Typed(t, u, d, s), Typed(t2, u, d, s),
           \A j \in Slots : t2[j].state = t[j].state,
           \A j \in Slots : \A r : Holds(t2, j, r) <=> Holds(t, j, r),
           \A r : Unheld(t2, r) <=> Unheld(t, r)
    PROVE  /\ UpRight(t, u, s) => UpRight(t2, u, s)
           /\ DownRight(t, u, d, s) => DownRight(t2, u, d, s)
           /\ SvRight(t, u, d, s) => SvRight(t2, u, d, s)
<1>1. ASSUME UpRight(t, u, s) PROVE UpRight(t2, u, s)
  <2> SUFFICES ASSUME NEW k \in 1..Len(u) PROVE UpFits(u[k], k, t2, u, s)
    BY DEF UpRight
  <2>1. UpFits(u[k], k, t, u, s)
    BY <1>1 DEF UpRight
  <2> QED BY <2>1 DEF UpFits
<1>2. ASSUME DownRight(t, u, d, s) PROVE DownRight(t2, u, d, s)
  <2> SUFFICES ASSUME NEW k \in 1..Len(d) PROVE DownFits(d[k], k, t2, u, d, s)
    BY DEF DownRight
  <2>1. DownFits(d[k], k, t, u, d, s)
    BY <1>2 DEF DownRight
  <2> QED BY <2>1 DEF DownFits
<1>3. ASSUME SvRight(t, u, d, s) PROVE SvRight(t2, u, d, s)
  <2> SUFFICES ASSUME NEW r \in Rids PROVE SvFits(s[r], r, t2, u, d)
    BY DEF SvRight
  <2>1. SvFits(s[r], r, t, u, d)
    BY <1>3 DEF SvRight
  <2> QED BY <2>1 DEF SvFits
<1> QED
  BY <1>1, <1>2, <1>3

\* Nothing is said: only the slot changes.
LEMMA Touch ==
    ASSUME NEW t, NEW u, NEW d, NEW s, Linked(t, u, d, s), NEW t2, NEW i, NEW c,
           Becomes(t2, t, i, c), SameChannel(c, t[i]), SlotFits(c, i, u, d, s)
    PROVE  Linked(t2, u, d, s)
<1>1. Typed(t, u, d, s) /\ t \in [Slots -> Chan]
  BY TypesOf DEF Linked
<1>2. /\ t2 \in [Slots -> Chan] /\ t2[i] = c
      /\ \A j \in Slots : t2[j].state = t[j].state
      /\ \A j \in Slots : j # i => t2[j] = t[j]
      /\ \A j \in Slots : \A r : Holds(t2, j, r) <=> Holds(t, j, r)
      /\ \A r : Unheld(t2, r) <=> Unheld(t, r)
  BY <1>1, SameHolds
<1>3. Typed(t2, u, d, s)
  BY <1>1, <1>2 DEF Typed
<1>4. UpRight(t2, u, s) /\ DownRight(t2, u, d, s) /\ SvRight(t2, u, d, s)
  BY <1>1, <1>2, <1>3, MessagesKeep DEF Linked
<1>5. SlotsRight(t2, u, d, s)
  BY <1>2 DEF Linked, SlotsRight
<1> QED
  BY <1>3, <1>4, <1>5 DEF Linked

\* The places of a queue that is u and then q.
LEMMA Places ==
    ASSUME NEW v, NEW u, NEW q, Joined(v, u, q)
    PROVE  /\ \A k \in 1..Len(v) :
                 \/ k \in 1..Len(u) /\ v[k] = u[k]
                 \/ \E l \in 1..Len(q) : k = Len(u) + l /\ v[k] = q[l]
           /\ \A k \in 1..Len(u) : k \in 1..Len(v) /\ v[k] = u[k]
           /\ \A l \in 1..Len(q) : Len(u) + l \in 1..Len(v) /\ v[Len(u) + l] = q[l]
<1>1. ASSUME NEW k \in 1..Len(v), k \notin 1..Len(u)
      PROVE  \E l \in 1..Len(q) : k = Len(u) + l /\ v[k] = q[l]
  <2>1. k - Len(u) \in 1..Len(q) /\ k = Len(u) + (k - Len(u))
    BY <1>1 DEF Joined
  <2> QED BY <2>1 DEF Joined
<1> QED
  BY <1>1 DEF Joined

\* Every message of q is about the open channel r, none opens or confirms one.
About(q, r) ==
    \A k \in 1..Len(q) : q[k].ch = r /\ q[k].type \in Talk \cup {"REQUEST", "FAILURE"}

\* A series of messages on an open channel: each fits and follows what is under way, and
\* the slot fits them all.
LEMMA Say ==
    ASSUME NEW t, NEW u, NEW d, NEW s, Linked(t, u, d, s), NEW t2, NEW i, NEW c,
           Becomes(t2, t, i, c), SameChannel(c, t[i]), t[i].state = "OPEN",
           NEW v \in Seq(UpMessage), NEW q \in Seq(UpMessage), Joined(v, u, q),
           About(q, c.remote_id),
           \A k \in 1..Len(q) : UpFits(q[k], Len(u) + k, t, v, s),
           \A j \in 1..Len(u) : \A k \in 1..Len(q) : UpFollows(u[j], q[k]),
           \A j, k \in 1..Len(q) : j < k => UpFollows(q[j], q[k]),
           SlotFits(c, i, v, d, s)
    PROVE  Linked(t2, v, d, s)
<1> DEFINE r == c.remote_id
<1>1. Typed(t, u, d, s) /\ t \in [Slots -> Chan] /\ i \in Slots
  BY TypesOf DEF Linked, Becomes
<1>2. /\ t2 \in [Slots -> Chan] /\ t2[i] = c
      /\ \A j \in Slots : t2[j].state = t[j].state
      /\ \A j \in Slots : j # i => t2[j] = t[j]
      /\ \A j \in Slots : \A n : Holds(t2, j, n) <=> Holds(t, j, n)
      /\ \A n : Unheld(t2, n) <=> Unheld(t, n)
  BY <1>1, SameHolds
<1>3. Typed(t2, v, d, s) /\ Typed(t, v, d, s)
  BY <1>1, <1>2 DEF Typed
<1>4. Holds(t, i, r) /\ r \in Rids /\ r # 0 /\ ~Unheld(t, r)
  <2>1. Holds(t, i, r)
    BY <1>1 DEF Holds, SameChannel
  <2>2. r \in Rids
    BY <1>1, <2>1, HeldOnce
  <2> QED BY <1>1, <2>1, <2>2 DEF Unheld, Rids
<1>5. Len(u) \in Nat /\ Len(v) \in Nat /\ Len(q) \in Nat
      /\ \A k \in 1..Len(u) : k \in 1..Len(v) /\ v[k] = u[k]
  BY Places, LenProperties DEF Joined
<1>0. ASSUME NEW k \in 1..Len(v), k \notin 1..Len(u)
      PROVE  v[k].ch = r /\ v[k].type \in Talk \cup {"REQUEST", "FAILURE"}
  <2>1. PICK l \in 1..Len(q) : v[k] = q[l]
    BY <1>0, Places
  <2> QED BY <2>1 DEF About
<1>6. /\ \A type, n : UpUnits(v, type, n) = UpUnits(u, type, n) + UpUnits(q, type, n)
      /\ \A type, n : UpUnits(u, type, n) \in Nat /\ UpUnits(q, type, n) \in Nat
      /\ \A type, n : UpUnits(v, type, n) \in Nat
      /\ \A type, n : (\A k \in 1..Len(q) : q[k].type = type => q[k].ch # n) => UpUnits(q, type, n) = 0
  BY <1>1, TypesOf, UnitsNat, UnitsJoined
<1>7. \A type, n : n # r => UpUnits(v, type, n) = UpUnits(u, type, n)
  <2> SUFFICES ASSUME NEW type, NEW n, n # r PROVE UpUnits(v, type, n) = UpUnits(u, type, n)
    OBVIOUS
  <2>1. UpUnits(q, type, n) = 0
    BY <1>6 DEF About
  <2> QED BY <2>1, <1>6
<1>8. UpRight(t, v, s)
  <2> SUFFICES ASSUME NEW k \in 1..Len(v) PROVE UpFits(v[k], k, t, v, s)
    BY DEF UpRight
  <2>1. CASE k \in 1..Len(u)
    <3>1. UpFits(u[k], k, t, u, s) /\ v[k] = u[k]
      BY <1>5, <2>1 DEF Linked, UpRight
    <3>2. \A n : ConfirmsUp(u, k - 1, n) => ConfirmsUp(v, k - 1, n)
      BY <1>5, <2>1 DEF ConfirmsUp
    <3>3. ASSUME u[k].type = "EOF" \/ u[k].type = "CLOSE"
          PROVE  UpUnits(v, "DATA", u[k].ch) = UpUnits(u, "DATA", u[k].ch)
      <4>1. ASSUME NEW l \in 1..Len(q), q[l].type = "DATA", q[l].ch = u[k].ch PROVE FALSE
        <5>1. UpFollows(u[k], q[l]) /\ q[l].ch # 0
          BY <2>1, <1>4 DEF About
        <5> QED BY <5>1, <4>1, <3>3 DEF UpFollows, Talk
      <4>2. UpUnits(q, "DATA", u[k].ch) = 0
        BY <4>1, <1>6
      <4> QED BY <4>2, <1>6
    <3> QED BY <3>1, <3>2, <3>3 DEF UpFits
  <2>2. CASE k \notin 1..Len(u)
    BY <2>2, Places
  <2> QED BY <2>1, <2>2
<1>9. DownRight(t, v, d, s)
  <2> SUFFICES ASSUME NEW k \in 1..Len(d) PROVE DownFits(d[k], k, t, v, d, s)
    BY DEF DownRight
  <2>1. DownFits(d[k], k, t, u, d, s)
    BY DEF Linked, DownRight
  <2>2. ASSUME Unheld(t, d[k].rid), Unnamed(u, d[k].rid) PROVE Unnamed(v, d[k].rid)
    <3>1. ASSUME NEW l \in 1..Len(v), v[l].type # "OPEN" PROVE v[l].ch # d[k].rid
      <4>1. CASE l \in 1..Len(u)
        BY <2>2, <3>1, <4>1, <1>5 DEF Unnamed
      <4>2. CASE l \notin 1..Len(u)
        <5>1. v[l].ch = r
          BY <4>2, <1>0
        <5> QED BY <5>1, <2>2, <1>4
      <4> QED BY <4>1, <4>2
    <3> QED BY <3>1 DEF Unnamed
  <2> QED BY <2>1, <2>2 DEF DownFits, Confirmed
<1>10. UpOrder(v)
  <2> SUFFICES ASSUME NEW j \in 1..Len(v), NEW k \in 1..Len(v), j < k PROVE UpFollows(v[j], v[k])
    BY DEF UpOrder
  <2>1. CASE k \in 1..Len(u)
    <3>1. j \in 1..Len(u)
      BY <2>1, <1>5
    <3> QED BY <2>1, <3>1, <1>5 DEF Linked, UpOrder
  <2>2. CASE k \notin 1..Len(u)
    <3>1. PICK l \in 1..Len(q) : k = Len(u) + l /\ v[k] = q[l]
      BY <2>2, Places
    <3>2. CASE j \in 1..Len(u)
      BY <3>1, <3>2, <1>5
    <3>3. CASE j \notin 1..Len(u)
      <4>1. PICK n \in 1..Len(q) : j = Len(u) + n /\ v[j] = q[n]
        BY <3>3, Places
      <4>2. n < l
        BY <3>1, <4>1, <1>5
      <4> QED BY <3>1, <4>1, <4>2
    <3> QED BY <3>2, <3>3
  <2> QED BY <2>1, <2>2
<1>11. OneOutcome(v, d)
  <2>1. ASSUME NEW k \in 1..Len(v), v[k].type = "OPEN" PROVE k \in 1..Len(u) /\ v[k] = u[k]
    <3>1. ASSUME k \notin 1..Len(u) PROVE FALSE
      BY <2>1, <3>1, <1>0 DEF Talk
    <3> QED BY <3>1, <1>5
  <2>2. OneOutcome(u, d)
    BY DEF Linked
  <2> QED BY <2>1, <2>2 DEF OneOutcome
<1>12. SlotsRight(t2, v, d, s)
  <2> SUFFICES ASSUME NEW j \in Slots PROVE SlotFits(t2[j], j, v, d, s)
    BY DEF SlotsRight
  <2>1. CASE j = i
    BY <2>1, <1>2
  <2>2. CASE j # i
    <3> DEFINE b == t[j]
               n == b.remote_id
    <3>1. SlotFits(b, j, u, d, s) /\ t2[j] = b
      BY <2>2, <1>2 DEF Linked, SlotsRight
    <3>2. ASSUME b.state = "OPEN" PROVE n # r
      BY <2>2, <3>2, <1>1, <1>4, HeldOnce DEF Holds
    <3>3. Bound(u, s, j, n) => Bound(v, s, j, n)
      BY <1>5 DEF Bound
    <3>4. ASSUME n # r, NEW type, Mute(u, type, n) PROVE Mute(v, type, n)
      <4> SUFFICES ASSUME NEW k \in 1..Len(v), v[k].ch = n PROVE v[k].type # type
        BY DEF Mute
      <4>1. ASSUME k \notin 1..Len(u) PROVE FALSE
        BY <3>4, <4>1, <1>0
      <4> QED BY <3>4, <4>1, <1>5 DEF Mute
    <3>5. ASSUME n # r, Adds(b, u, d, s[n], n) PROVE Adds(b, v, d, s[n], n)
      BY <3>5, <1>7 DEF Adds
    <3> HIDE DEF b, n
    <3>6. SlotFits(b, j, v, d, s)
      BY <3>1, <3>2, <3>3, <3>4, <3>5 DEF SlotFits, n
    <3> QED BY <3>1, <3>6
  <2> QED BY <2>1, <2>2
<1>13. SvRight(t, v, d, s)
  <2> SUFFICES ASSUME NEW n \in Rids PROVE SvFits(s[n], n, t, v, d)
    BY DEF SvRight
  <2>1. SvFits(s[n], n, t, u, d)
    BY DEF Linked, SvRight
  <2>2. UpUnits(v, "DATA", n) <= s[n].grant
    <3>1. CASE n # r
      BY <3>1, <2>1, <1>7 DEF SvFits
    <3>2. CASE n = r
      <4>1. Adds(c, v, d, s[r], r)
        BY DEF SlotFits, SameChannel
      <4>2. c.remote_window \in Nat /\ DownUnits(d, "ADJUST", r) \in Nat
        BY <1>1, TypesOf, ChanFields DEF Becomes
      <4> QED BY <3>2, <4>1, <4>2, <1>6 DEF Adds
    <3> QED BY <3>1, <3>2
  <2> QED BY <2>1, <2>2 DEF SvFits
<1>14. UpRight(t2, v, s) /\ DownRight(t2, v, d, s) /\ SvRight(t2, v, d, s)
  BY <1>2, <1>3, <1>8, <1>9, <1>13, MessagesKeep
<1> QED
  BY <1>3, <1>10, <1>11, <1>12, <1>14 DEF Linked

\* What a channel that is open allows to be said on it.
LEMMA OpenMay ==
    ASSUME NEW t, NEW u, NEW d, NEW s, Linked(t, u, d, s), NEW i \in Slots,
           t[i].state = "OPEN", NEW r, r = t[i].remote_id
    PROVE  /\ r \in Rids /\ r # 0 /\ Bound(u, s, i, r) /\ Adds(t[i], u, d, s[r], r)
           /\ s[r].state \in {"open", "done"} \/ ConfirmsUp(u, Len(u), r)
           /\ s[r].state # "done" \/ s[r].close_in
           /\ ~t[i].close_sent =>
                 s[r].state # "done" /\ ~s[r].close_in /\ Mute(u, "CLOSE", r)
           /\ ~t[i].eof_sent => ~s[r].eof_in /\ Mute(u, "EOF", r)
           /\ \A j \in 1..Len(u) : \A m :
                 (/\ m.ch = r /\ m.type \in Talk \cup {"REQUEST", "FAILURE"}
                  /\ m.type \in Talk => ~t[i].close_sent
                  /\ m.type \in {"DATA", "EOF"} => ~t[i].eof_sent)
                    => UpFollows(u[j], m)
<1>1. SlotFits(t[i], i, u, d, s) /\ UpRight(t, u, s) /\ SvRight(t, u, d, s) /\ Len(u) \in Nat
  BY TypesOf DEF Linked, SlotsRight
<1>2. /\ r \in Rids /\ Bound(u, s, i, r) /\ Adds(t[i], u, d, s[r], r)
      /\ ~t[i].close_sent => ~s[r].close_in /\ Mute(u, "CLOSE", r)
      /\ ~t[i].eof_sent => ~s[r].eof_in /\ Mute(u, "EOF", r)
  BY <1>1 DEF SlotFits
<1>3. r # 0 /\ i # 0 /\ Holds(t, i, r)
  BY <1>2 DEF Rids, Slots, Holds
<1>4. s[r].state \in {"open", "done"} \/ ConfirmsUp(u, Len(u), r)
  BY <1>2 DEF Bound, ConfirmsUp
<1>5. s[r].state = "done" => s[r].close_in
  <2>1. SvFits(s[r], r, t, u, d)
    BY <1>1, <1>2 DEF SvRight
  <2> QED BY <2>1, <1>2, <1>3 DEF SvFits, Bound
<1>6. ASSUME NEW j \in 1..Len(u), NEW m, m.ch = r, m.type \in Talk \cup {"REQUEST", "FAILURE"},
             m.type \in Talk => ~t[i].close_sent, m.type \in {"DATA", "EOF"} => ~t[i].eof_sent
      PROVE  UpFollows(u[j], m)
  <2> SUFFICES ASSUME u[j].ch = m.ch, m.ch # 0, u[j].type # "OPEN"
               PROVE  /\ u[j].type # "OPEN_FAIL" /\ m.type \notin Outcomes
                      /\ u[j].type = "CLOSE" => m.type \notin Talk
                      /\ u[j].type = "EOF" => m.type \notin {"DATA", "EOF"}
    BY DEF UpFollows
  <2>1. u[j].type # "OPEN_FAIL"
    <3>1. UpFits(u[j], j, t, u, s)
      BY <1>1 DEF UpRight
    <3> QED BY <3>1, <1>3, <1>6 DEF UpFits, Unheld
  <2>2. m.type \notin Outcomes
    BY <1>6 DEF Talk, Outcomes
  <2>3. u[j].type = "CLOSE" => m.type \notin Talk
    BY <1>2, <1>6 DEF Mute
  <2>4. u[j].type = "EOF" => m.type \notin {"DATA", "EOF"}
    BY <1>2, <1>6 DEF Mute
  <2> QED BY <2>1, <2>2, <2>3, <2>4
<1> QED
  BY <1>2, <1>3, <1>4, <1>5, <1>6

\* Two queues, one behind the other.
LEMMA JoinedCat ==
    \A S : \A u, q \in Seq(S) : u \o q \in Seq(S) /\ Joined(u \o q, u, q)
BY ConcatProperties, LenProperties DEF Joined

\* Of two queues each may be mute.
LEMMA MuteJoined ==
    ASSUME NEW v, NEW u, NEW q, Joined(v, u, q), NEW type, NEW r, Mute(u, type, r),
           \A k \in 1..Len(q) : q[k].type # type
    PROVE  Mute(v, type, r)
<1> SUFFICES ASSUME NEW k \in 1..Len(v), v[k].ch = r PROVE v[k].type # type
  BY DEF Mute
<1>1. CASE k \in 1..Len(u)
  BY <1>1, Places DEF Mute
<1>2. CASE k \notin 1..Len(u)
  <2>1. PICK l \in 1..Len(q) : v[k] = q[l]
    BY <1>2, Places
  <2> QED BY <2>1
<1> QED
  BY <1>1, <1>2

\* How slot i may change while q is said: what is sent leaves the backlog and the window.
Tells(b, c, q, r) ==
    /\ About(q, r)
    /\ \A k \in 1..Len(q) : /\ q[k].type \in Talk => ~b.close_sent
                            /\ q[k].type \in {"DATA", "EOF"} => ~b.eof_sent
                            /\ q[k].type = "DATA" => q[k].n <= MaxPacket
                            /\ q[k].type = "CLOSE" => c.close_sent
                            /\ q[k].type = "EOF" => c.eof_sent
                            /\ q[k].type = "EOF" \/ (q[k].type = "CLOSE" /\ q[k].x = "asked") =>
                                  q[k].n = b.written /\ b.out = 0
    /\ Len(q) = 1 \/ \A k \in 1..Len(q) : q[k].type = "DATA"
    /\ (b.close_sent => c.close_sent) /\ (b.eof_sent => c.eof_sent) /\ ~c.close_recv
    /\ c.eof_sent => c.out = 0 /\ c.want_eof
    /\ c.local_window = b.local_window + UpUnits(q, "ADJUST", r)
    /\ b.remote_window = c.remote_window + UpUnits(q, "DATA", r)
    /\ b.out = c.out + UpUnits(q, "DATA", r)
    /\ c.written = b.written /\ c.x11_pending + c.surfaced = b.x11_pending + b.surfaced

\* What is linked to a slot through a queue stays linked when the queue grows.
LEMMA BoundJoined ==
    ASSUME NEW v, NEW u, NEW q, Joined(v, u, q), NEW s, NEW i, NEW r, Bound(u, s, i, r)
    PROVE  Bound(v, s, i, r)
<1>1. \A k \in 1..Len(u) : k \in 1..Len(v) /\ v[k] = u[k]
  BY ONLY Joined(v, u, q), Places
<1>2. CASE s[r].state \in {"open", "done"} /\ s[r].slot = i
  BY <1>2 DEF Bound
<1>3. CASE /\ s[r].state = "opening"
           /\ \E k \in 1..Len(u) : u[k].type = "OPEN_CONFIRM" /\ u[k].ch = r /\ u[k].n = i
  BY <1>1, <1>3 DEF Bound
<1> QED BY <1>2, <1>3 DEF Bound

\* What an open channel says keeps the two sides linked.
LEMMA Tell ==
    ASSUME NEW t, NEW u, NEW d, NEW s, Linked(t, u, d, s), NEW t2, NEW i, NEW c,
           Becomes(t2, t, i, c), SameChannel(c, t[i]), t[i].state = "OPEN",
           NEW q \in Seq(UpMessage), Tells(t[i], c, q, c.remote_id)
    PROVE  Linked(t2, u \o q, d, s)
<1> DEFINE r == c.remote_id
           b == t[i]
           v == u \o q
<1>1. Typed(t, u, d, s) /\ i \in Slots /\ b \in Chan /\ c \in Chan /\ u \in Seq(UpMessage)
  BY TypesOf DEF Linked, Becomes
<1>2. v \in Seq(UpMessage) /\ Joined(v, u, q) /\ Len(u) \in Nat /\ Len(q) \in Nat
  BY <1>1, TypesOf, JoinedCat, LenProperties
<1>3. r = b.remote_id /\ c.state = "OPEN"
  BY DEF SameChannel
<1>4. /\ r \in Rids /\ r # 0 /\ Bound(u, s, i, r) /\ Adds(b, u, d, s[r], r)
      /\ s[r].state \in {"open", "done"} \/ ConfirmsUp(u, Len(u), r)
      /\ s[r].state # "done" \/ s[r].close_in
      /\ ~b.close_sent => s[r].state # "done" /\ ~s[r].close_in /\ Mute(u, "CLOSE", r)
      /\ ~b.eof_sent => ~s[r].eof_in /\ Mute(u, "EOF", r)
  BY <1>1, <1>3, OpenMay
<1>5. \A j \in 1..Len(u) : \A k \in 1..Len(q) : UpFollows(u[j], q[k])
  BY <1>1, <1>3, OpenMay DEF Tells, About
<1>6. ASSUME NEW j \in 1..Len(q), NEW k \in 1..Len(q), j < k PROVE UpFollows(q[j], q[k])
  <2>1. q[j].type = "DATA" /\ q[k].type = "DATA"
    BY <1>2, <1>6 DEF Tells
  <2> QED BY <2>1 DEF UpFollows, Outcomes
<1> HIDE DEF v
<1>7. /\ \A type \in {"DATA", "ADJUST"} :
            /\ UpUnits(v, type, r) = UpUnits(u, type, r) + UpUnits(q, type, r)
            /\ UpUnits(u, type, r) \in Nat /\ UpUnits(q, type, r) \in Nat
            /\ DownUnits(d, type, r) \in Nat
  <2>1. \A type : UpUnits(v, type, r) = UpUnits(u, type, r) + UpUnits(q, type, r)
    BY <1>1, <1>2, UnitsJoined
  <2>2. \A type : UpUnits(u, type, r) \in Nat /\ UpUnits(q, type, r) \in Nat
    BY <1>1, UnitsNat
  <2>3. \A type : DownUnits(d, type, r) \in Nat
    BY <1>1, TypesOf
  <2> QED BY <2>1, <2>2, <2>3
<1>8. s[r] \in SvChan /\ s[r].got \in Nat /\ s[r].grant \in Nat /\ s[r].win \in Nat /\ s[r].sent \in Nat
  BY <1>1, <1>4, TypesOf, SvFields
<1>9. /\ b.out \in Nat /\ b.written \in Nat /\ b.remote_window \in Nat /\ b.local_window \in Nat
      /\ c.out \in Nat /\ c.written \in Nat /\ c.remote_window \in Nat /\ c.local_window \in Nat
      /\ b.surfaced \in Nat /\ b.x11_pending \in Nat /\ c.surfaced \in Nat /\ c.x11_pending \in Nat
      /\ {b.close_sent, b.eof_sent, c.close_sent, c.eof_sent} \subseteq BOOLEAN
  BY <1>1, ChanFields
<1>15. /\ c.local_window = b.local_window + UpUnits(q, "ADJUST", r)
       /\ b.remote_window = c.remote_window + UpUnits(q, "DATA", r)
       /\ b.out = c.out + UpUnits(q, "DATA", r)
       /\ c.written = b.written /\ c.x11_pending + c.surfaced = b.x11_pending + b.surfaced
  BY DEF Tells
<1>10. Adds(c, v, d, s[r], r)
  <2> HIDE DEF b, r, v
  <2>1. Adds(b, u, d, s[r], r)
    BY <1>4
  <2>2. Window \in Nat
    BY ChannelsAssumption
  <2>3. (IF s[r].state = "opening" THEN Window ELSE s[r].win) \in Nat
    BY <2>2, <1>8
  <2> DEFINE w == IF s[r].state = "opening" THEN Window ELSE s[r].win
             ua == UpUnits(u, "ADJUST", r)
             ud == UpUnits(u, "DATA", r)
             qa == UpUnits(q, "ADJUST", r)
             qd == UpUnits(q, "DATA", r)
             da == DownUnits(d, "ADJUST", r)
             dd == DownUnits(d, "DATA", r)
  <2>4. /\ w \in Nat /\ ua \in Nat /\ ud \in Nat /\ qa \in Nat /\ qd \in Nat
        /\ da \in Nat /\ dd \in Nat
        /\ UpUnits(v, "ADJUST", r) = ua + qa /\ UpUnits(v, "DATA", r) = ud + qd
    BY <2>3, <1>7
  <2>5. /\ w + dd + ua = b.local_window /\ b.remote_window + da + ud = s[r].grant
        /\ b.written = b.out + ud + s[r].got /\ s[r].sent = dd + b.x11_pending + b.surfaced
    BY <2>1 DEF Adds
  <2>6. /\ c.local_window = b.local_window + qa /\ b.remote_window = c.remote_window + qd
        /\ b.out = c.out + qd /\ c.written = b.written
        /\ c.x11_pending + c.surfaced = b.x11_pending + b.surfaced
    BY <1>15
  <2> HIDE DEF w, ua, ud, qa, qd, da, dd
  <2>7. /\ w + dd + (ua + qa) = c.local_window /\ c.remote_window + da + (ud + qd) = s[r].grant
        /\ c.written = c.out + (ud + qd) + s[r].got
        /\ s[r].sent = dd + c.x11_pending + c.surfaced
    <3>1. w + dd + (ua + qa) = c.local_window
      BY <2>4, <2>5, <2>6, <1>9
    <3>2. c.remote_window + da + (ud + qd) = s[r].grant
      <4>1. b.remote_window + da + ud = s[r].grant /\ b.remote_window = c.remote_window + qd
        BY <2>5, <2>6
      <4>2. /\ b.remote_window \in Nat /\ c.remote_window \in Nat
            /\ da \in Nat /\ ud \in Nat /\ qd \in Nat
        BY <2>4, <1>9
      <4> QED BY ONLY <4>1, <4>2
    <3>3. c.written = c.out + (ud + qd) + s[r].got
      <4>1. b.written = b.out + ud + s[r].got /\ b.out = c.out + qd /\ c.written = b.written
        BY <2>5, <2>6
      <4>2. b.out \in Nat /\ c.out \in Nat /\ ud \in Nat /\ qd \in Nat /\ s[r].got \in Nat
        BY <2>4, <1>8, <1>9
      <4> QED BY ONLY <4>1, <4>2
    <3>4. s[r].sent = dd + c.x11_pending + c.surfaced
      <4>1. /\ s[r].sent = dd + b.x11_pending + b.surfaced
            /\ c.x11_pending + c.surfaced = b.x11_pending + b.surfaced
        BY <2>5, <2>6
      <4>2. /\ dd \in Nat /\ c.x11_pending \in Nat /\ c.surfaced \in Nat
            /\ b.x11_pending \in Nat /\ b.surfaced \in Nat
        BY <2>4, <1>9
      <4> DEFINE a == s[r].sent
                 p == c.x11_pending
                 e == c.surfaced
                 x == b.x11_pending
                 y == b.surfaced
      <4>3. a = dd + x + y /\ p + e = x + y
        BY <4>1
      <4>4. dd \in Nat /\ p \in Nat /\ e \in Nat /\ x \in Nat /\ y \in Nat
        BY <4>2
      <4> HIDE DEF a, p, e, x, y
      <4>5. a = dd + p + e
        BY ONLY <4>3, <4>4
      <4> QED BY <4>5 DEF a, p, e
    <3> QED BY <3>1, <3>2, <3>3, <3>4
  <2>8. /\ w + dd + UpUnits(v, "ADJUST", r) = c.local_window
        /\ c.remote_window + da + UpUnits(v, "DATA", r) = s[r].grant
        /\ c.written = c.out + UpUnits(v, "DATA", r) + s[r].got
    BY <2>4, <2>7
  <2> QED BY <2>7, <2>8 DEF Adds, w, da, dd
<1>11. ASSUME NEW k \in 1..Len(q) PROVE UpFits(q[k], Len(u) + k, t, v, s)
  <2>1. q[k].ch = r /\ q[k].type \in Talk \cup {"REQUEST", "FAILURE"}
    BY DEF Tells, About
  <2>2. ConfirmsUp(u, Len(u), r) => ConfirmsUp(v, Len(u) + k - 1, r)
    <3>1. \A j \in 1..Len(u) : v[j] = u[j] /\ j \in 1..(Len(u) + k - 1)
      BY <1>2 DEF Joined
    <3> QED BY <3>1 DEF ConfirmsUp
  <2>3. q[k].type \in Talk => s[r].state # "done" /\ ~s[r].close_in
    BY <1>4 DEF Tells
  <2>4. q[k].type \in {"DATA", "EOF"} => ~s[r].eof_in
    BY <1>4 DEF Tells
  <2>5. ASSUME q[k].type = "EOF" \/ (q[k].type = "CLOSE" /\ q[k].x = "asked")
        PROVE  q[k].n = s[r].got + UpUnits(v, "DATA", r)
    <3>1. q[k].n = b.written /\ b.out = 0
      BY <2>5 DEF Tells
    <3>2. UpUnits(q, "DATA", r) = 0
      <4> HIDE DEF r, b
      <4>1. UpUnits(q, "DATA", r) \in Nat /\ b.out = c.out + UpUnits(q, "DATA", r) /\ b.out = 0
        BY <3>1, <1>7, <1>15
      <4> QED BY <4>1, <1>9
    <3> QED BY <3>1, <3>2, <1>4, <1>7, <1>8 DEF Adds
  <2>6. q[k].type = "DATA" => q[k].n <= MaxPacket
    BY DEF Tells
  <2> QED BY <2>1, <2>2, <2>3, <2>4, <2>5, <2>6, <1>4 DEF UpFits, Talk
<1>12. SlotFits(c, i, v, d, s)
  <2>1. Bound(v, s, i, r)
    BY <1>2, <1>4, BoundJoined
  <2>2. ASSUME ~c.close_sent PROVE ~s[r].close_in /\ Mute(v, "CLOSE", r)
    <3>1. ~b.close_sent /\ \A k \in 1..Len(q) : q[k].type # "CLOSE"
      BY <2>2 DEF Tells
    <3>2. Mute(v, "CLOSE", r)
      BY <3>1, <1>2, <1>4, MuteJoined
    <3> QED BY <3>1, <3>2, <1>4
  <2>3. ASSUME ~c.eof_sent PROVE ~s[r].eof_in /\ Mute(v, "EOF", r)
    <3>1. ~b.eof_sent /\ \A k \in 1..Len(q) : q[k].type # "EOF"
      BY <2>3 DEF Tells
    <3>2. Mute(v, "EOF", r)
      BY <3>1, <1>2, <1>4, MuteJoined
    <3> QED BY <3>1, <3>2, <1>4
  <2>4. ~c.close_recv /\ (c.eof_sent => c.out = 0 /\ c.want_eof)
    BY DEF Tells
  <2> QED BY <2>1, <2>2, <2>3, <2>4, <1>3, <1>4, <1>10 DEF SlotFits
<1>13. About(q, r)
  BY DEF Tells
<1>14. Linked(t2, v, d, s)
  BY <1>2, <1>5, <1>6, <1>11, <1>12, <1>13, Say
<1> QED
  BY <1>14 DEF v

-----------------------------------------------------------------------------
(* Flushing a channel *)

\* Division with a rest.
LEMMA Division ==
    \A n \in Nat, p \in Nat \ {0} :
       /\ n \div p \in Nat /\ n % p \in 0..(p - 1) /\ n = (n \div p) * p + (n % p)
       /\ n = 0 => n \div p = 0 /\ n % p = 0
BY SMT

\* A message of the client has its type.
LEMMA OutType ==
    ASSUME NEW type \in OutTypes, NEW r \in Nat, NEW n \in Nat,
           NEW x \in {"none", "want", "nowant", "asked", "answer"}
    PROVE  /\ Out(type, r, n, x) \in UpMessage
           /\ Out(type, r, n, x).type = type /\ Out(type, r, n, x).ch = r
           /\ Out(type, r, n, x).n = n /\ Out(type, r, n, x).x = x
BY DEF Out, UpMessage

\* The packets of a flush carry what is to be sent, each within the server's packet size.
LEMMA Packets ==
    ASSUME NEW c \in Chan, Sendable(c) \in Nat
    PROVE  /\ DataPackets(c) \in Seq(UpMessage)
           /\ \A k \in 1..Len(DataPackets(c)) :
                 /\ DataPackets(c)[k].type = "DATA" /\ DataPackets(c)[k].ch = c.remote_id
                 /\ DataPackets(c)[k].n <= MaxPacket
           /\ UpUnits(DataPackets(c), "DATA", c.remote_id) = Sendable(c)
           /\ Sendable(c) = 0 => DataPackets(c) = <<>>
<1> DEFINE n == Sendable(c)
           r == c.remote_id
           full == n \div MaxPacket
           rest == n % MaxPacket
           M == Out("DATA", r, MaxPacket, "none")
           R == Out("DATA", r, rest, "none")
           p == [k \in 1..full |-> M]
           q == IF rest = 0 THEN <<>> ELSE <<R>>
           v == p \o q
<1>1. MaxPacket \in Nat \ {0} /\ n \in Nat
  BY ChannelsAssumption
<1>2. full \in Nat /\ rest \in 0..(MaxPacket - 1) /\ n = full * MaxPacket + rest
      /\ (n = 0 => full = 0 /\ rest = 0)
  BY <1>1, Division
<1>3. DataPackets(c) = v
  BY DEF DataPackets
<1>4. r \in Nat /\ rest \in Nat /\ rest <= MaxPacket
  <2>1. r \in Rids \cup {0}
    BY ChanFields
  <2> HIDE DEF r, rest
  <2> QED BY <2>1, <1>1, <1>2 DEF Rids
<1> HIDE DEF n, r, full, rest
<1>5. /\ M \in UpMessage /\ M.type = "DATA" /\ M.ch = r /\ M.n = MaxPacket
      /\ R \in UpMessage /\ R.type = "DATA" /\ R.ch = r /\ R.n = rest
  <2>1. "DATA" \in OutTypes
    BY DEF OutTypes
  <2> QED BY <2>1, <1>1, <1>4, OutType
<1> HIDE DEF M, R
<1>6. /\ p \in Seq(UpMessage) /\ Len(p) = full
      /\ \A k \in 1..full : p[k] = M
  BY <1>2, <1>5, IsASeq
<1>7. /\ q \in Seq(UpMessage) /\ Len(q) \in Nat
      /\ \A k \in 1..Len(q) : q[k] = R
  BY <1>5
<1>8. UpUnits(p, "DATA", r) = full * MaxPacket
  <2> DEFINE w == UpWeights(p, "DATA", r)
  <2>1. w \in Seq(Int) /\ Len(w) = full /\ UpUnits(p, "DATA", r) = Total(w)
    BY <1>6, WeightsType, UnitsNat
  <2>2. \A k \in 1..Len(w) : w[k] = MaxPacket
    BY <2>1, <1>5, <1>6 DEF UpWeights
  <2> HIDE DEF w
  <2>3. Total(w) = Len(w) * MaxPacket
    BY <1>1, <2>1, <2>2, TotalSame
  <2> QED BY <2>1, <2>3
<1>9. UpUnits(q, "DATA", r) = rest
  <2>1. CASE rest = 0
    <3>1. q = <<>>
      BY <2>1
    <3>2. \A k \in 1..Len(q) : q[k].type = "DATA" => q[k].ch # r
      BY <3>1
    <3> QED BY <2>1, <3>2, <1>7, UnitsNat
  <2>2. CASE rest # 0
    <3>1. q = <<R>>
      BY <2>2
    <3> QED BY <3>1, <1>5, UnitsOfOne DEF UpCounts
  <2> QED BY <2>1, <2>2
<1> HIDE DEF p, q
<1>10. v \in Seq(UpMessage) /\ Joined(v, p, q)
  BY <1>6, <1>7, JoinedCat
<1>11. n = 0 => v = <<>>
  <2> SUFFICES ASSUME n = 0 PROVE v = <<>>
    OBVIOUS
  <2>1. q = <<>> /\ Len(p) = 0
    BY <1>2, <1>6 DEF q
  <2>2. p = <<>>
    BY <2>1, <1>6, EmptySeq
  <2> QED BY <2>1, <2>2
<1> HIDE DEF v
<1>12. UpUnits(v, "DATA", r) = n
  <2>1. UpUnits(v, "DATA", r) = UpUnits(p, "DATA", r) + UpUnits(q, "DATA", r)
    BY <1>6, <1>7, <1>10, UnitsJoined
  <2> QED BY <2>1, <1>2, <1>8, <1>9
<1>13. ASSUME NEW k \in 1..Len(v) PROVE v[k].type = "DATA" /\ v[k].ch = r /\ v[k].n <= MaxPacket
  <2>1. CASE k \in 1..Len(p)
    BY <2>1, <1>1, <1>5, <1>6, <1>10, Places
  <2>2. CASE k \notin 1..Len(p)
    <3>1. PICK l \in 1..Len(q) : v[k] = q[l]
      BY <2>2, <1>10, Places
    <3> QED BY <3>1, <1>4, <1>5, <1>7
  <2> QED BY <2>1, <2>2
<1> QED
  BY <1>3, <1>10, <1>11, <1>12, <1>13 DEF n, r

\* A channel of which only what is under way and what has been sent differ.
Sent(c, b) ==
    /\ SameChannel(c, b) /\ c.close_recv = b.close_recv /\ c.local_window = b.local_window
    /\ c.want_eof = b.want_eof /\ c.want_close = b.want_close /\ c.written = b.written
    /\ c.x11_pending = b.x11_pending /\ c.surfaced = b.surfaced

\* The three ways chan_flush changes a channel.
LEMMA SentSome ==
    ASSUME NEW b \in Chan, NEW n \in Nat, n <= b.out, n <= b.remote_window,
           NEW c, c = [b EXCEPT !.out = b.out - n, !.remote_window = b.remote_window - n]
    PROVE  /\ c \in Chan /\ Sent(c, b) /\ c.out = b.out - n /\ c.remote_window = b.remote_window - n
           /\ c.eof_sent = b.eof_sent /\ c.close_sent = b.close_sent
<1>1. b.out - n \in 0..Backlog /\ b.remote_window - n \in 0..WindowLimit
  <2>1. b.out \in 0..Backlog /\ b.remote_window \in 0..WindowLimit
    BY ChanFields
  <2>2. Backlog \in Nat /\ WindowLimit \in Nat
    BY ChannelsAssumption
  <2> QED BY <2>1, <2>2
<1> QED
  BY <1>1 DEF Chan, Sent, SameChannel

\* Likewise.
LEMMA SentEof ==
    ASSUME NEW b \in Chan, NEW c, c = [b EXCEPT !.eof_sent = TRUE]
    PROVE  /\ c \in Chan /\ Sent(c, b) /\ c.eof_sent = TRUE /\ c.close_sent = b.close_sent
           /\ c.out = b.out /\ c.remote_window = b.remote_window
BY DEF Chan, Sent, SameChannel

\* Likewise.
LEMMA SentClose ==
    ASSUME NEW b \in Chan, NEW c, c = [b EXCEPT !.close_sent = TRUE]
    PROVE  /\ c \in Chan /\ Sent(c, b) /\ c.close_sent = TRUE /\ c.eof_sent = b.eof_sent
           /\ c.out = b.out /\ c.remote_window = b.remote_window
BY DEF Chan, Sent, SameChannel

\* What is flushed of a channel fits its window and its backlog.
LEMMA SendableFits ==
    ASSUME NEW c \in Chan
    PROVE  /\ Sendable(c) \in Nat /\ Sendable(c) <= c.out /\ Sendable(c) <= c.remote_window
           /\ ~CanFlush(c) => Sendable(c) = 0
           /\ CanFlush(c) => Sendable(c) = c.out \/ Sendable(c) = c.remote_window
<1>1. c.out \in Nat /\ c.remote_window \in Nat
  BY ChanFields
<1>2. \A a, b \in Nat : Min({a, b}) \in {a, b} /\ Min({a, b}) <= a /\ Min({a, b}) <= b
  <2> SUFFICES ASSUME NEW a \in Nat, NEW b \in Nat
               PROVE  Min({a, b}) \in {a, b} /\ Min({a, b}) <= a /\ Min({a, b}) <= b
    OBVIOUS
  <2>1. \E x \in {a, b} : \A y \in {a, b} : x <= y
    <3>1. CASE a <= b
      BY <3>1
    <3>2. CASE b <= a
      BY <3>2
    <3> QED BY <3>1, <3>2
  <2> QED BY <2>1 DEF Min
<1> QED
  BY <1>1, <1>2 DEF Sendable

\* chan_flush keeps the two sides linked.
LEMMA Flush ==
    ASSUME NEW t, NEW u, NEW d, NEW s, Linked(t, u, d, s), NEW i \in Slots
    PROVE  /\ Linked([t EXCEPT ![i] = Flushed(t[i])], u \o FlushMsgs(t[i]), d, s)
           /\ Flushed(t[i]) \in Chan /\ Sent(Flushed(t[i]), t[i]) /\ ~Released(t[i])
           /\ FlushMsgs(t[i]) \in Seq(UpMessage)
<1> DEFINE c == t[i]
           n == Sendable(c)
           r == c.remote_id
           c1 == [c EXCEPT !.out = @ - n, !.remote_window = @ - n]
           c2 == [c1 EXCEPT !.eof_sent = IF SendsEof(c) THEN TRUE ELSE @]
           c3 == [c2 EXCEPT !.close_sent = IF SendsClose(c) THEN TRUE ELSE @]
           q1 == DataPackets(c)
           q2 == IF SendsEof(c) THEN <<Out("EOF", r, c.written, "none")>> ELSE <<>>
           q3 == IF SendsClose(c) THEN <<Out("CLOSE", r, c.written, "asked")>> ELSE <<>>
<1>1. Typed(t, u, d, s) /\ t \in [Slots -> Chan] /\ c \in Chan /\ u \in Seq(UpMessage)
  BY TypesOf DEF Linked
<1>2. SlotFits(c, i, u, d, s)
  BY DEF Linked, SlotsRight
<1>3. ~c.close_recv /\ (c.eof_sent => c.out = 0 /\ c.want_eof)
  BY <1>2 DEF SlotFits
<1>4. ~Released(c)
  BY <1>3 DEF Released
<1>5. Flushed(c) = c3
  BY <1>4, <1>1 DEF Flushed
<1>6. FlushMsgs(c) = (q1 \o q2) \o q3
  BY DEF FlushMsgs
<1>7. /\ n \in Nat /\ n <= c.out /\ n <= c.remote_window
      /\ ~CanFlush(c) => n = 0
      /\ q1 \in Seq(UpMessage) /\ UpUnits(q1, "DATA", r) = n
      /\ \A k \in 1..Len(q1) : q1[k].type = "DATA" /\ q1[k].ch = r /\ q1[k].n <= MaxPacket
      /\ n = 0 => q1 = <<>>
  BY <1>1, SendableFits, Packets
<1>8. r \in Nat /\ c.written \in Nat /\ c.out \in Nat
  <2>1. r \in Rids \cup {0} /\ c.written \in Nat /\ c.out \in 0..Backlog
    BY <1>1, ChanFields
  <2> QED BY <2>1 DEF Rids
<1> HIDE DEF c, n, r, q1
<1>9. /\ c1 \in Chan /\ Sent(c1, c) /\ c1.out = c.out - n /\ c1.remote_window = c.remote_window - n
      /\ c1.eof_sent = c.eof_sent /\ c1.close_sent = c.close_sent
  <2>1. c1 = [c EXCEPT !.out = c.out - n, !.remote_window = c.remote_window - n]
    OBVIOUS
  <2> HIDE DEF c1
  <2> QED BY <2>1, <1>1, <1>7, SentSome
<1> HIDE DEF c1
<1>10. /\ ~SendsEof(c) => c2 = c1
       /\ c2 \in Chan /\ Sent(c2, c1) /\ c2.out = c1.out /\ c2.remote_window = c1.remote_window
       /\ c2.eof_sent = (IF SendsEof(c) THEN TRUE ELSE c1.eof_sent) /\ c2.close_sent = c1.close_sent
  <2>1. CASE SendsEof(c)
    <3>1. c2 = [c1 EXCEPT !.eof_sent = TRUE]
      BY <2>1
    <3> HIDE DEF c2
    <3> QED BY <2>1, <3>1, <1>9, SentEof
  <2>2. CASE ~SendsEof(c)
    <3>1. c2 = [c1 EXCEPT !.eof_sent = c1.eof_sent]
      BY <2>2
    <3>2. c2 = c1
      BY <3>1, <1>9 DEF Chan
    <3> QED BY <2>2, <3>2, <1>9 DEF Sent, SameChannel
  <2> QED BY <2>1, <2>2
<1> HIDE DEF c2
<1>11. /\ ~SendsClose(c) => c3 = c2
       /\ c3 \in Chan /\ Sent(c3, c2) /\ c3.out = c2.out /\ c3.remote_window = c2.remote_window
       /\ c3.close_sent = (IF SendsClose(c) THEN TRUE ELSE c2.close_sent)
       /\ c3.eof_sent = c2.eof_sent
  <2>1. CASE SendsClose(c)
    <3>1. c3 = [c2 EXCEPT !.close_sent = TRUE]
      BY <2>1
    <3> HIDE DEF c3
    <3> QED BY <2>1, <3>1, <1>10, SentClose
  <2>2. CASE ~SendsClose(c)
    <3>1. c3 = [c2 EXCEPT !.close_sent = c2.close_sent]
      BY <2>2
    <3>2. c3 = c2
      BY <3>1, <1>10 DEF Chan
    <3> QED BY <2>2, <3>2, <1>10 DEF Sent, SameChannel
  <2> QED BY <2>1, <2>2
<1> HIDE DEF c3
<1>12. Sent(c3, c)
  BY <1>9, <1>10, <1>11 DEF Sent, SameChannel
<1>13. /\ q2 \in Seq(UpMessage) /\ q3 \in Seq(UpMessage)
       /\ ~SendsEof(c) => q2 = <<>>
       /\ SendsEof(c) => Len(q2) = 1 /\ \A k \in 1..1 : q2[k] = Out("EOF", r, c.written, "none")
       /\ ~SendsClose(c) => q3 = <<>>
       /\ SendsClose(c) => Len(q3) = 1 /\ \A k \in 1..1 : q3[k] = Out("CLOSE", r, c.written, "asked")
  <2>1. "EOF" \in OutTypes /\ "CLOSE" \in OutTypes
    BY DEF OutTypes
  <2>2. /\ Out("EOF", r, c.written, "none") \in UpMessage
        /\ Out("CLOSE", r, c.written, "asked") \in UpMessage
    BY <1>8, <2>1, OutType
  <2> QED BY <2>2
<1>14. /\ Out("EOF", r, c.written, "none").type = "EOF"
       /\ Out("EOF", r, c.written, "none").ch = r
       /\ Out("EOF", r, c.written, "none").n = c.written
       /\ Out("CLOSE", r, c.written, "asked").type = "CLOSE"
       /\ Out("CLOSE", r, c.written, "asked").ch = r
       /\ Out("CLOSE", r, c.written, "asked").n = c.written
       /\ Out("CLOSE", r, c.written, "asked").x = "asked"
  BY DEF Out
<1> HIDE DEF q2, q3
<1>15. (q1 \o q2) \o q3 \in Seq(UpMessage)
  BY <1>7, <1>13, JoinedCat
<1>16. CASE ~CanFlush(c)
  <2>1. n = 0 /\ ~SendsEof(c) /\ ~SendsClose(c)
    BY <1>7, <1>16 DEF SendsEof, SendsClose, Drained
  <2>2. q1 = <<>> /\ q2 = <<>> /\ q3 = <<>>
    BY <2>1, <1>7, <1>13
  <2>3. u \o ((q1 \o q2) \o q3) = u
    BY <2>2, <1>1, ConcatEmptySeq
  <2>4. c3 = c
    <3>1. c.out - n = c.out /\ c.remote_window - n = c.remote_window
      BY <2>1, <1>1, ChanFields
    <3>2. c1 = c
      BY <3>1, <1>1 DEF c1, Chan
    <3>3. c2 = c1
      BY <2>1, <1>9 DEF c2, Chan
    <3>4. c3 = c2
      BY <2>1, <1>10 DEF c3, Chan
    <3> QED BY <3>2, <3>3, <3>4
  <2>5. [t EXCEPT ![i] = c] = t
    BY <1>1 DEF c
  <2> QED BY <2>3, <2>4, <2>5, <1>1, <1>4, <1>5, <1>6, <1>12, <1>15 DEF c
<1>17. CASE CanFlush(c)
  <2> DEFINE t1 == [t EXCEPT ![i] = c1]
             t2 == [t1 EXCEPT ![i] = c2]
             t3 == [t2 EXCEPT ![i] = c3]
  <2>1. c.state = "OPEN" /\ ~c.close_sent
    BY <1>17 DEF CanFlush
  <2>2. Linked(t1, u \o q1, d, s)
    <3>1. Becomes(t1, t, i, c1) /\ SameChannel(c1, c) /\ t[i] = c
      BY <1>9 DEF Becomes, Sent, c
    <3>2. \A k \in 1..Len(q1) : ~c.eof_sent
      <4>1. ASSUME c.eof_sent PROVE q1 = <<>>
        BY <4>1, <1>3, <1>7, <1>8
      <4> QED BY <4>1
    <3>3. c1.remote_id = r /\ c1.out = c.out - n /\ c1.remote_window = c.remote_window - n
      BY <3>1, <1>9 DEF SameChannel, r
    <3>4. UpUnits(q1, "ADJUST", r) = 0
      BY <1>7, UnitsNat
    <3>5. Tells(c, c1, q1, r)
      <4>1. About(q1, r)
        BY <1>7 DEF About, Talk
      <4>2. \A k \in 1..Len(q1) : /\ q1[k].type = "DATA" /\ q1[k].n <= MaxPacket
                                  /\ ~c.eof_sent /\ ~c.close_sent
        BY <1>7, <3>2, <2>1
      <4>3. c1.eof_sent => c1.out = 0 /\ c1.want_eof
        <5>1. ASSUME c1.eof_sent PROVE c1.out = 0 /\ c1.want_eof
          <6>1. c.out = 0 /\ c.want_eof /\ c1.want_eof = c.want_eof
            BY <5>1, <1>3, <1>9 DEF Sent
          <6> QED BY <6>1, <1>7, <1>9
        <5> QED BY <5>1
      <4>4. /\ c1.local_window = c.local_window + UpUnits(q1, "ADJUST", r)
            /\ c.remote_window = c1.remote_window + UpUnits(q1, "DATA", r)
            /\ c.out = c1.out + UpUnits(q1, "DATA", r)
            /\ c1.written = c.written /\ c1.x11_pending + c1.surfaced = c.x11_pending + c.surfaced
        <5>1. /\ c.local_window \in Nat /\ c.remote_window \in Nat /\ c.out \in Nat
          BY <1>1, ChanFields
        <5>2. c1.local_window = c.local_window /\ c1.written = c.written
              /\ c1.x11_pending = c.x11_pending /\ c1.surfaced = c.surfaced
          BY <1>9 DEF Sent
        <5> QED BY <5>1, <5>2, <3>3, <3>4, <1>7
      <4>5. (c.close_sent => c1.close_sent) /\ (c.eof_sent => c1.eof_sent) /\ ~c1.close_recv
        BY <1>3, <1>9 DEF Sent
      <4> QED BY <4>1, <4>2, <4>3, <4>4, <4>5 DEF Tells
    <3> QED BY <3>1, <3>3, <3>5, <2>1, <1>7, Tell
  <2>3. t1 \in [Slots -> Chan] /\ t1[i] = c1 /\ u \o q1 \in Seq(UpMessage)
    BY <1>1, <1>7, <1>9, JoinedCat
  <2>4. c1.state = "OPEN" /\ c1.remote_id = r /\ ~c1.close_sent /\ c1.written = c.written
        /\ c1.want_eof = c.want_eof /\ ~c1.close_recv
    BY <2>1, <1>3, <1>9 DEF Sent, SameChannel, r
  <2>5. n = c.out => c1.out = 0
    BY <1>7, <1>8, <1>9
  <2> HIDE DEF t1
  <2>6. Linked(t2, (u \o q1) \o q2, d, s)
    <3>1. Becomes(t2, t1, i, c2) /\ SameChannel(c2, c1) /\ c2.remote_id = r
      BY <1>10, <2>4 DEF Becomes, Sent, SameChannel
    <3>2. CASE ~SendsEof(c)
      <4>1. t2 = t1
        BY <3>2, <1>10, <2>3 DEF t2
      <4>2. (u \o q1) \o q2 = u \o q1
        BY <3>2, <1>13, <2>3, ConcatEmptySeq
      <4> QED BY <4>1, <4>2, <2>2
    <3>3. CASE SendsEof(c)
      <4>1. ~c.eof_sent /\ c.want_eof /\ n = c.out
        BY <3>3 DEF SendsEof, Drained, n
      <4>2. /\ Len(q2) = 1 /\ \A k \in 1..Len(q2) : /\ q2[k].type = "EOF" /\ q2[k].ch = r
                                                    /\ q2[k].n = c.written
        <5>1. \A k \in 1..Len(q2) : q2[k] = Out("EOF", r, c.written, "none")
          BY <3>3, <1>13
        <5> QED BY <5>1, <3>3, <1>13, <1>14
      <4>3. UpUnits(q2, "DATA", r) = 0 /\ UpUnits(q2, "ADJUST", r) = 0
        BY <4>2, <1>13, UnitsNat
      <4>4. About(q2, r)
        BY <4>2 DEF About, Talk
      <4>5. Tells(c1, c2, q2, r)
        <5>1. /\ c1.eof_sent = FALSE /\ c2.eof_sent = TRUE /\ c1.close_sent = FALSE
              /\ c2.close_sent = FALSE /\ c1.out = 0 /\ c2.out = 0
          BY <4>1, <1>1, <1>9, <1>10, <2>4, <2>5, <3>3, ChanFields
        <5>2. /\ c2.remote_window = c1.remote_window /\ c2.local_window = c1.local_window
              /\ c2.x11_pending = c1.x11_pending /\ c2.surfaced = c1.surfaced
              /\ c2.written = c1.written /\ c2.want_eof /\ ~c2.close_recv
              /\ c1.remote_window \in Nat /\ c1.local_window \in Nat
          BY <4>1, <1>9, <1>10, <2>4, ChanFields DEF Sent
        <5> QED BY <4>2, <4>3, <4>4, <5>1, <5>2, <2>4 DEF Tells
      <4> QED BY <4>5, <3>1, <2>2, <2>3, <2>4, <1>13, Tell
    <3> QED BY <3>2, <3>3
  <2>7. t2 \in [Slots -> Chan] /\ t2[i] = c2 /\ (u \o q1) \o q2 \in Seq(UpMessage)
    BY <2>3, <1>10, <1>13, JoinedCat
  <2>8. c2.state = "OPEN" /\ c2.remote_id = r /\ ~c2.close_sent /\ c2.written = c.written
        /\ c2.want_eof = c.want_eof /\ ~c2.close_recv /\ (n = c.out => c2.out = 0)
    BY <2>4, <2>5, <1>10 DEF Sent, SameChannel
  <2> HIDE DEF t2
  <2>9. Linked(t3, ((u \o q1) \o q2) \o q3, d, s)
    <3>1. Becomes(t3, t2, i, c3) /\ SameChannel(c3, c2) /\ c3.remote_id = r
      BY <1>11, <2>8 DEF Becomes, Sent, SameChannel
    <3>2. CASE ~SendsClose(c)
      <4>1. t3 = t2
        BY <3>2, <1>11, <2>7 DEF t3
      <4>2. ((u \o q1) \o q2) \o q3 = (u \o q1) \o q2
        BY <3>2, <1>13, <2>7, ConcatEmptySeq
      <4> QED BY <4>1, <4>2, <2>6
    <3>3. CASE SendsClose(c)
      <4>1. n = c.out
        BY <3>3 DEF SendsClose, Drained, n
      <4>2. /\ Len(q3) = 1 /\ \A k \in 1..Len(q3) : /\ q3[k].type = "CLOSE" /\ q3[k].ch = r
                                                    /\ q3[k].n = c.written
        <5>1. \A k \in 1..Len(q3) : q3[k] = Out("CLOSE", r, c.written, "asked")
          BY <3>3, <1>13
        <5> QED BY <5>1, <3>3, <1>13, <1>14
      <4>3. UpUnits(q3, "DATA", r) = 0 /\ UpUnits(q3, "ADJUST", r) = 0
        BY <4>2, <1>13, UnitsNat
      <4>4. About(q3, r)
        BY <4>2 DEF About, Talk
      <4>5. Tells(c2, c3, q3, r)
        <5>1. c2.close_sent = FALSE /\ c3.close_sent = TRUE /\ c2.out = 0 /\ c3.out = 0
              /\ c3.eof_sent = c2.eof_sent
          BY <4>1, <1>10, <1>11, <2>8, <3>3, ChanFields
        <5>2. /\ c3.remote_window = c2.remote_window /\ c3.local_window = c2.local_window
              /\ c3.x11_pending = c2.x11_pending /\ c3.surfaced = c2.surfaced
              /\ c3.written = c2.written /\ c3.want_eof = c2.want_eof /\ ~c3.close_recv
              /\ c2.remote_window \in Nat /\ c2.local_window \in Nat
          BY <1>10, <1>11, <2>8, ChanFields DEF Sent
        <5>3. c3.eof_sent => c3.want_eof
          <6>1. ASSUME c3.eof_sent, ~SendsEof(c) PROVE c.want_eof
            BY <6>1, <5>1, <1>3, <1>9, <1>10
          <6>2. ASSUME SendsEof(c) PROVE c.want_eof
            BY <6>2 DEF SendsEof
          <6> QED BY <6>1, <6>2, <5>2, <2>8
        <5> QED BY <4>2, <4>3, <4>4, <5>1, <5>2, <5>3, <2>8 DEF Tells
      <4> QED BY <4>5, <3>1, <2>6, <2>7, <2>8, <1>13, Tell
    <3> QED BY <3>2, <3>3
  <2>10. t3 = [t EXCEPT ![i] = c3]
    BY <1>1 DEF t1, t2
  <2>11. ((u \o q1) \o q2) \o q3 = u \o ((q1 \o q2) \o q3)
    <3> DEFINE S == Seq(UpMessage)
               Cat(x, y) == x \o y
    <3>1. \A x, y, z \in S : Cat(x, y) \in S /\ Cat(Cat(x, y), z) = Cat(x, Cat(y, z))
      BY ConcatAssociative, ConcatProperties
    <3>2. u \in S /\ q1 \in S /\ q2 \in S /\ q3 \in S
      BY <1>1, <1>7, <1>13
    <3> HIDE DEF S, Cat
    <3>3. Cat(Cat(Cat(u, q1), q2), q3) = Cat(u, Cat(Cat(q1, q2), q3))
      BY <3>1, <3>2
    <3> QED BY <3>3 DEF Cat
  <2> QED BY <2>9, <2>10, <2>11, <1>4, <1>5, <1>6, <1>11, <1>12, <1>15 DEF c
<1> QED
  BY <1>16, <1>17

-----------------------------------------------------------------------------
(* Steps of the client on what it hears *)

\* The server's next message is taken: but for a confirmation, all that depends on it is the
\* slot it names.
LEMMA Hear ==
    ASSUME NEW t, NEW u, NEW d, NEW s, Linked(t, u, d, s), NEW e, DownShorter(e, d),
           d[1].type # "OPEN_CONFIRM", NEW t2, NEW i, NEW c,
           Becomes(t2, t, i, c), SameChannel(c, t[i]), SlotFits(c, i, u, e, s),
           d[1].type \in {"DATA", "ADJUST"} => Holds(t, i, d[1].rid)
    PROVE  Linked(t2, u, e, s)
<1>1. Typed(t, u, d, s) /\ t \in [Slots -> Chan] /\ i \in Slots
  BY TypesOf DEF Linked, Becomes
<1>2. /\ t2 \in [Slots -> Chan] /\ t2[i] = c
      /\ \A j \in Slots : t2[j].state = t[j].state
      /\ \A j \in Slots : j # i => t2[j] = t[j]
      /\ \A j \in Slots : \A n : Holds(t2, j, n) <=> Holds(t, j, n)
      /\ \A n : Unheld(t2, n) <=> Unheld(t, n)
  BY <1>1, SameHolds
<1>3. /\ e \in Seq(DownMessage) /\ Len(e) \in Nat /\ Len(d) = Len(e) + 1
      /\ \A k \in 1..Len(e) : k + 1 \in 1..Len(d) /\ e[k] = d[k + 1]
      /\ 1 \in 1..Len(d) /\ d[1] \in DownMessage
  BY DEF DownShorter
<1>4. Typed(t, u, e, s) /\ Typed(t2, u, e, s)
  BY <1>1, <1>2, <1>3 DEF Typed
<1>5. /\ \A type, r : DownUnits(d, type, r) = DownUnits(e, type, r) + DownCounts(d[1], type, r)
      /\ \A type, r : DownUnits(e, type, r) \in Nat
  BY <1>4, TypesOf DEF DownShorter
<1>6. \A type, r : d[1].rid # r \/ d[1].type # type => DownUnits(d, type, r) = DownUnits(e, type, r)
  BY <1>5 DEF DownCounts
<1>7. ASSUME NEW n \in 0..Len(e), NEW r, ConfirmsDown(d, n + 1, r) PROVE ConfirmsDown(e, n, r)
  <2>1. PICK j \in 1..(n + 1) : d[j].type = "OPEN_CONFIRM" /\ d[j].rid = r
    BY <1>7 DEF ConfirmsDown
  <2>2. j - 1 \in 1..n /\ j - 1 \in 1..Len(e) /\ (j - 1) + 1 = j
    BY <2>1, <1>3
  <2>3. e[j - 1] = d[j]
    BY <2>2, <1>3
  <2> QED BY <2>1, <2>2, <2>3 DEF ConfirmsDown
<1>8. DownRight(t, u, e, s)
  <2> SUFFICES ASSUME NEW k \in 1..Len(e) PROVE DownFits(e[k], k, t, u, e, s)
    BY DEF DownRight
  <2> DEFINE m == e[k]
  <2>1. m = d[k + 1] /\ k + 1 \in 1..Len(d) /\ 1 \in 1..Len(d) /\ 1 < k + 1 /\ (k + 1) - 1 = k
        /\ k - 1 \in 0..Len(e) /\ (k - 1) + 1 = k
    BY <1>3
  <2>2. DownFits(m, k + 1, t, u, d, s)
    BY <2>1 DEF Linked, DownRight
  <2>3. DownFollows(d[1], m)
    BY <2>1 DEF Linked, DownOrder
  <2>4. \A r : ConfirmsDown(d, (k + 1) - 1, r) => ConfirmsDown(e, k - 1, r)
    BY <2>1, <1>7
  <2> HIDE DEF m
  <2>5. ASSUME m.type = "OPEN_CONFIRM", m.rid \in Rids
        PROVE  Confirmed(m.ch, m.rid, u, d, s) => Confirmed(m.ch, m.rid, u, e, s)
    <3>1. d[1].rid # m.rid
      BY <2>3, <2>5 DEF DownFollows, Rids
    <3> QED BY <3>1, <1>6 DEF Confirmed
  <2>6. DownFits(m, k, t, u, e, s)
    BY <2>2, <2>4, <2>5 DEF DownFits
  <2> QED BY <2>6 DEF m
<1>9. DownOrder(e)
  <2> SUFFICES ASSUME NEW j \in 1..Len(e), NEW k \in 1..Len(e), j < k PROVE DownFollows(e[j], e[k])
    BY DEF DownOrder
  <2>1. j + 1 \in 1..Len(d) /\ k + 1 \in 1..Len(d) /\ j + 1 < k + 1
    BY <1>3
  <2> QED BY <2>1, <1>3 DEF Linked, DownOrder
<1>10. OneOutcome(u, e)
  <2>1. OneOutcome(u, d)
    BY DEF Linked
  <2>2. ASSUME NEW j \in 1..Len(e), NEW k \in 1..Len(e),
               e[j].type \in Outcomes, e[k].type \in Outcomes, e[j].ch = e[k].ch
        PROVE  j = k
    <3>1. j + 1 = k + 1
      BY <2>1, <2>2, <1>3 DEF OneOutcome
    <3> QED BY <3>1
  <2>3. ASSUME NEW j \in 1..Len(u), NEW k \in 1..Len(e), u[j].type = "OPEN", e[k].type \in Outcomes
        PROVE  u[j].ch # e[k].ch
    BY <2>1, <2>3, <1>3 DEF OneOutcome
  <2> QED BY <2>1, <2>2, <2>3 DEF OneOutcome
<1>11. SvRight(t, u, e, s)
  <2> SUFFICES ASSUME NEW r \in Rids PROVE SvFits(s[r], r, t, u, e)
    BY DEF SvRight
  <2>1. SvFits(s[r], r, t, u, d)
    BY DEF Linked, SvRight
  <2>2. ConfirmsDown(d, Len(d), r) => ConfirmsDown(e, Len(e), r)
    BY <1>3, <1>7
  <2> QED BY <2>1, <2>2 DEF SvFits
<1>12. SlotsRight(t2, u, e, s)
  <2> SUFFICES ASSUME NEW j \in Slots PROVE SlotFits(t2[j], j, u, e, s)
    BY DEF SlotsRight
  <2>1. CASE j = i
    BY <2>1, <1>2
  <2>2. CASE j # i
    <3> DEFINE b == t[j]
               r == b.remote_id
    <3>1. SlotFits(b, j, u, d, s) /\ t2[j] = b
      BY <2>2, <1>2 DEF Linked, SlotsRight
    <3>2. ASSUME b.state = "OPEN", Adds(b, u, d, s[r], r) PROVE Adds(b, u, e, s[r], r)
      <4>1. \A type \in {"DATA", "ADJUST"} : d[1].rid # r \/ d[1].type # type
        BY <2>2, <3>2, <1>1, HeldOnce DEF Holds
      <4>2. /\ DownUnits(d, "DATA", r) = DownUnits(e, "DATA", r)
            /\ DownUnits(d, "ADJUST", r) = DownUnits(e, "ADJUST", r)
        BY <4>1, <1>6
      <4> QED BY <3>2, <4>2 DEF Adds
    <3> HIDE DEF b, r
    <3>3. SlotFits(b, j, u, e, s)
      BY <3>1, <3>2 DEF SlotFits, r
    <3> QED BY <3>1, <3>3
  <2> QED BY <2>1, <2>2
<1>13. UpRight(t, u, s) /\ UpOrder(u)
  BY DEF Linked
<1>14. UpRight(t2, u, s) /\ DownRight(t2, u, e, s) /\ SvRight(t2, u, e, s)
  BY <1>2, <1>4, <1>8, <1>11, <1>13, MessagesKeep
<1> QED
  BY <1>4, <1>9, <1>10, <1>12, <1>13, <1>14 DEF Linked

\* Most messages leave every slot as it is.
LEMMA HearOnly ==
    ASSUME NEW t, NEW u, NEW d, NEW s, Linked(t, u, d, s), NEW e, DownShorter(e, d),
           d[1].type \notin {"OPEN_CONFIRM", "DATA", "ADJUST"}
    PROVE  Linked(t, u, e, s)
<1>1. Typed(t, u, d, s) /\ t \in [Slots -> Chan] /\ SlotsRight(t, u, d, s)
  BY TypesOf DEF Linked
<1>2. 1 \in Slots
  BY ChannelsAssumption DEF Slots
<1> DEFINE c == t[1]
<1>3. Becomes(t, t, 1, c) /\ SameChannel(c, t[1])
  BY <1>1, <1>2 DEF Becomes, SameChannel
<1>4. e \in Seq(DownMessage) /\ \A type \in {"DATA", "ADJUST"} : \A r :
         DownUnits(d, type, r) = DownUnits(e, type, r) + DownCounts(d[1], type, r)
  BY DEF DownShorter
<1>5. \A r : /\ DownUnits(d, "DATA", r) = DownUnits(e, "DATA", r)
             /\ DownUnits(d, "ADJUST", r) = DownUnits(e, "ADJUST", r)
  BY <1>4, UnitsNat DEF DownCounts
<1>6. SlotFits(c, 1, u, d, s)
  BY <1>1, <1>2 DEF SlotsRight
<1> HIDE DEF c
<1>7. SlotFits(c, 1, u, e, s)
  BY <1>5, <1>6 DEF SlotFits, Adds
<1> QED
  BY <1>3, <1>7, Hear

\* A slot is freed once nothing more can be said to it.
LEMMA FreeSlot ==
    ASSUME NEW t, NEW u, NEW d, NEW s, Linked(t, u, d, s), NEW t2, NEW i,
           Becomes(t2, t, i, FreeChan),
           \A k \in 1..Len(u) : u[k].type = "OPEN" => u[k].ch # i,
           \A k \in 1..Len(d) : d[k].type \in Outcomes => d[k].ch # i,
           t[i].state = "OPEN" =>
              /\ s[t[i].remote_id].close_out /\ s[t[i].remote_id].state \in {"open", "done"}
              /\ \A k \in 1..Len(d) : d[k].rid # t[i].remote_id
    PROVE  Linked(t2, u, d, s)
<1>1. Typed(t, u, d, s) /\ t \in [Slots -> Chan] /\ i \in Slots /\ FreeChan \in Chan
  BY TypesOf DEF Linked, Becomes
<1>2. /\ t2 \in [Slots -> Chan] /\ t2[i] = FreeChan
      /\ \A j \in Slots : j # i => t2[j] = t[j]
  BY <1>1 DEF Becomes
<1>3. /\ FreeChan.state = "FREE" /\ FreeChan.close_recv = FALSE /\ FreeChan.eof_sent = FALSE
  BY DEF FreeChan
<1>4. \A j \in Slots : \A r : Holds(t2, j, r) => j # i /\ Holds(t, j, r)
  BY <1>2, <1>3 DEF Holds
<1>5. \A r : Unheld(t, r) => Unheld(t2, r)
  BY <1>4 DEF Unheld
<1>6. ASSUME NEW r, Holds(t, i, r)
      PROVE  /\ s[r].close_out /\ s[r].state \in {"open", "done"}
             /\ \A k \in 1..Len(d) : d[k].rid # r
  BY <1>6 DEF Holds
<1>7. \A j \in Slots : j # i => \A r : Holds(t, j, r) => Holds(t2, j, r)
  BY <1>2 DEF Holds
<1>8. Typed(t2, u, d, s)
  BY <1>1, <1>2 DEF Typed
<1>9. UpRight(t2, u, s)
  <2> SUFFICES ASSUME NEW k \in 1..Len(u) PROVE UpFits(u[k], k, t2, u, s)
    BY DEF UpRight
  <2> DEFINE m == u[k]
  <2>1. UpFits(m, k, t, u, s) /\ (m.type = "OPEN" => m.ch # i)
    BY DEF Linked, UpRight
  <2>2. m.type = "OPEN" => t2[m.ch].state = "OPENING"
    BY <2>1, <1>2 DEF UpFits
  <2>3. m.type = "OPEN_CONFIRM" => Holds(t2, m.n, m.ch)
    BY <2>1, <1>6, <1>7 DEF UpFits
  <2> HIDE DEF m
  <2>4. UpFits(m, k, t2, u, s)
    BY <2>1, <2>2, <2>3, <1>5 DEF UpFits
  <2> QED BY <2>4 DEF m
<1>10. DownRight(t2, u, d, s)
  <2> SUFFICES ASSUME NEW k \in 1..Len(d) PROVE DownFits(d[k], k, t2, u, d, s)
    BY DEF DownRight
  <2> DEFINE m == d[k]
  <2>1. DownFits(m, k, t, u, d, s) /\ (m.type \in Outcomes => m.ch # i)
    BY DEF Linked, DownRight
  <2>2. m.type \in Outcomes => t2[m.ch].state = "OPENING"
    BY <2>1, <1>2 DEF DownFits, Outcomes
  <2>3. Holds(t, m.ch, m.rid) /\ m.ch \in Slots => Holds(t2, m.ch, m.rid)
    BY <1>6, <1>7
  <2> HIDE DEF m
  <2>4. DownFits(m, k, t2, u, d, s)
    BY <2>1, <2>2, <2>3, <1>5 DEF DownFits, Outcomes
  <2> QED BY <2>4 DEF m
<1>11. SlotsRight(t2, u, d, s)
  <2> SUFFICES ASSUME NEW j \in Slots PROVE SlotFits(t2[j], j, u, d, s)
    BY DEF SlotsRight
  <2>1. CASE j = i
    BY <2>1, <1>2, <1>3 DEF SlotFits
  <2>2. CASE j # i
    BY <2>2, <1>2 DEF Linked, SlotsRight
  <2> QED BY <2>1, <2>2
<1>12. SvRight(t2, u, d, s)
  <2> SUFFICES ASSUME NEW r \in Rids PROVE SvFits(s[r], r, t2, u, d)
    BY DEF SvRight
  <2> DEFINE v == s[r]
  <2>1. SvFits(v, r, t, u, d)
    BY DEF Linked, SvRight
  <2>2. v.slot \in Slots /\ Holds(t, v.slot, r) => v.close_out \/ Holds(t2, v.slot, r)
    BY <1>6, <1>7
  <2> HIDE DEF v
  <2>3. SvFits(v, r, t2, u, d)
    BY <2>1, <2>2 DEF SvFits
  <2> QED BY <2>3 DEF v
<1> QED
  BY <1>8, <1>9, <1>10, <1>11, <1>12 DEF Linked

\* A channel that is opening.
LEMMA OpeningFields ==
    ASSUME NEW b \in Chan, NEW i, NEW u, NEW d, NEW s, SlotFits(b, i, u, d, s), b.state = "OPENING"
    PROVE  /\ b.remote_id = 0 /\ b.remote_window = 0 /\ b.local_window = Window
           /\ b.eof_sent = FALSE /\ b.close_recv = FALSE /\ b.close_sent = FALSE
           /\ b.written = b.out /\ b.surfaced = 0 /\ b.x11_pending = 0
           /\ b.is_x11 = FALSE /\ b.x11_setup_done = FALSE /\ b.rejected = FALSE
<1>1. b = [FreeChan EXCEPT !.state = "OPENING", !.local_window = Window, !.out = b.out,
               !.written = b.out, !.want_eof = b.want_eof, !.want_close = b.want_close]
  BY DEF SlotFits
<1> QED
  BY <1>1 DEF FreeChan

\* The confirmation of a channel is taken.
LEMMA HearConfirm ==
    ASSUME NEW t, NEW u, NEW d, NEW s, Linked(t, u, d, s), NEW e, DownShorter(e, d),
           d[1].type = "OPEN_CONFIRM", NEW i, i = d[1].ch, NEW r, r = d[1].rid, NEW t2, NEW c,
           Becomes(t2, t, i, c), c.state = "OPEN", c.remote_id = r, c.remote_window = d[1].n,
           c.local_window = t[i].local_window, c.written = t[i].written, c.out = t[i].out,
           c.surfaced = t[i].surfaced, c.x11_pending = t[i].x11_pending,
           c.eof_sent = t[i].eof_sent, c.close_recv = t[i].close_recv
    PROVE  Linked(t2, u, e, s)
<1>1. Typed(t, u, d, s) /\ t \in [Slots -> Chan] /\ i \in Slots /\ u \in Seq(UpMessage)
  BY TypesOf DEF Linked, Becomes
<1>2. /\ t2 \in [Slots -> Chan] /\ t2[i] = c
      /\ \A j \in Slots : j # i => t2[j] = t[j]
  BY <1>1 DEF Becomes
<1>3. /\ e \in Seq(DownMessage) /\ Len(e) \in Nat /\ Len(d) = Len(e) + 1
      /\ \A k \in 1..Len(e) : k + 1 \in 1..Len(d) /\ e[k] = d[k + 1]
      /\ 1 \in 1..Len(d) /\ d[1] \in DownMessage
  BY DEF DownShorter
<1>4. Typed(t2, u, e, s)
  BY <1>1, <1>2, <1>3 DEF Typed
<1>5. \A n : /\ DownUnits(d, "DATA", n) = DownUnits(e, "DATA", n)
             /\ DownUnits(d, "ADJUST", n) = DownUnits(e, "ADJUST", n)
  <2>1. \A type \in {"DATA", "ADJUST"} : \A n :
           DownUnits(d, type, n) = DownUnits(e, type, n) + DownCounts(d[1], type, n)
    BY DEF DownShorter
  <2> QED BY <2>1, <1>3, UnitsNat DEF DownCounts
<1>6. /\ t[i].state = "OPENING" /\ d[1].n = SvWindow
      /\ r \in Rids /\ Unheld(t, r) /\ Confirmed(i, r, u, d, s)
  <2>1. DownFits(d[1], 1, t, u, d, s)
    BY <1>3 DEF Linked, DownRight
  <2> QED BY <2>1 DEF DownFits
<1>7. Confirmed(i, r, u, e, s)
  BY <1>5, <1>6 DEF Confirmed
<1>8. r # 0 /\ Holds(t2, i, r)
  BY <1>2, <1>6 DEF Holds, Rids
<1>9. /\ \A j \in Slots : \A n : Holds(t, j, n) => j # i /\ Holds(t2, j, n)
      /\ \A n : n # r /\ Unheld(t, n) => Unheld(t2, n)
  BY <1>2, <1>6 DEF Holds, Unheld
<1>10. \A k \in 1..Len(e) : DownFollows(d[1], e[k])
  <2>1. \A k \in 1..Len(e) : 1 < k + 1
    BY <1>3
  <2> QED BY <2>1, <1>3 DEF Linked, DownOrder
<1>11. OneOutcome(u, d)
  BY DEF Linked
<1>12. d[1].type \in Outcomes
  BY DEF Outcomes
<1>13. \A k \in 1..Len(e) : e[k].type \in Outcomes => e[k].ch # i
  <2> SUFFICES ASSUME NEW k \in 1..Len(e), e[k].type \in Outcomes, e[k].ch = i PROVE FALSE
    OBVIOUS
  <2>1. 1 = k + 1
    BY <1>3, <1>11, <1>12 DEF OneOutcome
  <2> QED BY <2>1, <1>3
<1>14. \A k \in 1..Len(u) : u[k].type = "OPEN" => u[k].ch # i
  BY <1>3, <1>11, <1>12 DEF OneOutcome
<1>15. UpRight(t2, u, s)
  <2> SUFFICES ASSUME NEW k \in 1..Len(u) PROVE UpFits(u[k], k, t2, u, s)
    BY DEF UpRight
  <2> DEFINE m == u[k]
  <2>1. UpFits(m, k, t, u, s) /\ (m.type = "OPEN" => m.ch # i)
    BY <1>14 DEF Linked, UpRight
  <2>2. m.type = "OPEN" => t2[m.ch].state = "OPENING"
    BY <2>1, <1>2 DEF UpFits
  <2>3. m.type # "OPEN" => m.ch # r
    BY <1>6 DEF Confirmed, Unnamed
  <2> HIDE DEF m
  <2>4. UpFits(m, k, t2, u, s)
    BY <2>1, <2>2, <2>3, <1>9 DEF UpFits
  <2> QED BY <2>4 DEF m
<1>16. ASSUME NEW n \in 0..Len(e), NEW x, NEW j, ConfirmsDown(d, n + 1, x), x = r => j = i
       PROVE  Holds(t2, j, x) \/ ConfirmsDown(e, n, x)
  <2>1. PICK l \in 1..(n + 1) : d[l].type = "OPEN_CONFIRM" /\ d[l].rid = x
    BY <1>16 DEF ConfirmsDown
  <2>2. CASE l = 1
    BY <2>1, <2>2, <1>8, <1>16
  <2>3. CASE l # 1
    <3>1. l - 1 \in 1..n /\ l - 1 \in 1..Len(e) /\ (l - 1) + 1 = l
      BY <2>1, <2>3, <1>3
    <3>2. e[l - 1] = d[l]
      BY <3>1, <1>3
    <3> QED BY <2>1, <3>1, <3>2 DEF ConfirmsDown
  <2> QED BY <2>2, <2>3
<1>17. DownRight(t2, u, e, s)
  <2> SUFFICES ASSUME NEW k \in 1..Len(e) PROVE DownFits(e[k], k, t2, u, e, s)
    BY DEF DownRight
  <2> DEFINE m == e[k]
  <2>1. m = d[k + 1] /\ k + 1 \in 1..Len(d) /\ (k + 1) - 1 = k
        /\ k - 1 \in 0..Len(e) /\ (k - 1) + 1 = k
    BY <1>3
  <2>2. DownFits(m, k + 1, t, u, d, s)
    BY <2>1 DEF Linked, DownRight
  <2>3. m.type \in {"OPEN", "OPEN_CONFIRM"} => m.rid # r
    BY <1>8, <1>10 DEF DownFollows
  <2>4. m.type \in Outcomes => m.ch # i
    BY <1>13
  <2>5. m.type \in Outcomes => t2[m.ch].state = "OPENING"
    BY <2>2, <2>4, <1>2 DEF DownFits, Outcomes
  <2>6. ASSUME m.type \in ChannelTypes PROVE Holds(t2, m.ch, m.rid) \/ ConfirmsDown(e, k - 1, m.rid)
    <3>1. /\ m.ch \in Slots /\ s[m.rid].slot = m.ch
          /\ Holds(t, m.ch, m.rid) \/ ConfirmsDown(d, k, m.rid)
      BY <2>1, <2>2, <2>6 DEF DownFits
    <3>2. m.rid = r => m.ch = i
      BY <3>1, <1>6 DEF Confirmed
    <3>3. ConfirmsDown(d, k, m.rid) => Holds(t2, m.ch, m.rid) \/ ConfirmsDown(e, k - 1, m.rid)
      BY <2>1, <3>2, <1>16
    <3> QED BY <3>1, <3>3, <1>9
  <2> HIDE DEF m
  <2>7. DownFits(m, k, t2, u, e, s)
    BY <2>2, <2>3, <2>5, <2>6, <1>5, <1>9 DEF DownFits, Confirmed, Outcomes
  <2> QED BY <2>7 DEF m
<1>18. DownOrder(e)
  <2> SUFFICES ASSUME NEW j \in 1..Len(e), NEW k \in 1..Len(e), j < k PROVE DownFollows(e[j], e[k])
    BY DEF DownOrder
  <2>1. j + 1 \in 1..Len(d) /\ k + 1 \in 1..Len(d) /\ j + 1 < k + 1
    BY <1>3
  <2> QED BY <2>1, <1>3 DEF Linked, DownOrder
<1>19. OneOutcome(u, e)
  <2>1. ASSUME NEW j \in 1..Len(e), NEW k \in 1..Len(e),
               e[j].type \in Outcomes, e[k].type \in Outcomes, e[j].ch = e[k].ch
        PROVE  j = k
    <3>1. j + 1 = k + 1
      BY <2>1, <1>3, <1>11 DEF OneOutcome
    <3> QED BY <3>1
  <2>2. ASSUME NEW j \in 1..Len(u), NEW k \in 1..Len(e), u[j].type = "OPEN", e[k].type \in Outcomes
        PROVE  u[j].ch # e[k].ch
    BY <2>2, <1>3, <1>11 DEF OneOutcome
  <2> QED BY <2>1, <2>2, <1>11 DEF OneOutcome
<1>20. SlotFits(c, i, u, e, s)
  <2>1. SlotFits(t[i], i, u, d, s) /\ t[i] \in Chan
    BY <1>1 DEF Linked, SlotsRight
  <2>2. /\ c.local_window = Window /\ c.written = c.out /\ c.surfaced = 0 /\ c.x11_pending = 0
        /\ c.eof_sent = FALSE /\ c.close_recv = FALSE /\ c.remote_window = SvWindow
    BY <2>1, <1>6, OpeningFields
  <2>3. Bound(u, s, i, r)
    BY <1>6 DEF Confirmed, Bound
  <2>4. Adds(c, u, e, s[r], r)
    <3>1. UpUnits(u, "DATA", r) = 0 /\ UpUnits(u, "ADJUST", r) = 0
      BY <1>1, <1>6, UnnamedUnits DEF Confirmed
    <3>2. /\ s[r].win \in Nat /\ DownUnits(e, "DATA", r) \in Nat /\ DownUnits(e, "ADJUST", r) \in Nat
          /\ c.out \in Nat /\ SvWindow \in Nat
      <4>1. s[r].win \in Nat
        BY <1>1, <1>6, TypesOf, SvFields
      <4>2. c.out \in Nat
        BY ChanFields DEF Becomes
      <4>3. SvWindow \in Nat
        BY ChannelsAssumption
      <4> QED BY <4>1, <4>2, <4>3, <1>3, UnitsNat
    <3>3. /\ s[r].state # "opening" /\ s[r].got = 0
          /\ s[r].win + DownUnits(e, "DATA", r) = Window
          /\ SvWindow + DownUnits(e, "ADJUST", r) = s[r].grant /\ s[r].sent = DownUnits(e, "DATA", r)
      BY <1>7 DEF Confirmed
    <3> QED BY <2>2, <3>1, <3>2, <3>3 DEF Adds
  <2>5. Mute(u, "CLOSE", r) /\ Mute(u, "EOF", r) /\ ~s[r].close_in /\ ~s[r].eof_in
    BY <1>6 DEF Confirmed, Unnamed, Mute
  <2> QED BY <2>2, <2>3, <2>4, <2>5, <1>6 DEF SlotFits
<1>21. SlotsRight(t2, u, e, s)
  <2> SUFFICES ASSUME NEW j \in Slots PROVE SlotFits(t2[j], j, u, e, s)
    BY DEF SlotsRight
  <2>1. CASE j = i
    BY <2>1, <1>2, <1>20
  <2>2. CASE j # i
    <3> DEFINE b == t[j]
    <3>1. SlotFits(b, j, u, d, s) /\ t2[j] = b
      BY <2>2, <1>2 DEF Linked, SlotsRight
    <3> HIDE DEF b
    <3>2. SlotFits(b, j, u, e, s)
      BY <3>1, <1>5 DEF SlotFits, Adds
    <3> QED BY <3>1, <3>2
  <2> QED BY <2>1, <2>2
<1>22. SvRight(t2, u, e, s)
  <2> SUFFICES ASSUME NEW x \in Rids PROVE SvFits(s[x], x, t2, u, e)
    BY DEF SvRight
  <2> DEFINE v == s[x]
  <2>1. SvFits(v, x, t, u, d)
    BY DEF Linked, SvRight
  <2>2. x = r => v.slot = i
    BY <1>6 DEF Confirmed
  <2>3. ConfirmsDown(d, Len(d), x) => Holds(t2, v.slot, x) \/ ConfirmsDown(e, Len(e), x)
    BY <2>2, <1>3, <1>16
  <2> HIDE DEF v
  <2>4. SvFits(v, x, t2, u, e)
    BY <2>1, <2>3, <1>9 DEF SvFits
  <2> QED BY <2>4 DEF v
<1>23. UpOrder(u)
  BY DEF Linked
<1> QED
  BY <1>4, <1>15, <1>17, <1>18, <1>19, <1>21, <1>22, <1>23 DEF Linked

\* The client opens a channel, or answers the server's opening of one.
LEMMA Announce ==
    ASSUME NEW t, NEW u, NEW d, NEW s, Linked(t, u, d, s), NEW v, NEW m, UpLonger(v, u, m),
           m.type \in {"OPEN", "OPEN_CONFIRM", "OPEN_FAIL", "REQUEST_FAILURE"},
           NEW t2, NEW i, NEW c, Becomes(t2, t, i, c), c = t[i] \/ t[i].state = "FREE",
           SlotFits(c, i, v, d, s), UpFits(m, Len(u) + 1, t2, v, s),
           m.type \in Outcomes /\ m.ch # 0 => Unnamed(u, m.ch) /\ \A k \in 1..Len(d) : d[k].rid # m.ch,
           \A r : Holds(t2, i, r) => Holds(t, i, r) \/ (m.type = "OPEN_CONFIRM" /\ r = m.ch),
           m.type = "OPEN" => t[i].state = "FREE" /\ m.ch = i
    PROVE  Linked(t2, v, d, s)
<1>1. Typed(t, u, d, s) /\ t \in [Slots -> Chan] /\ i \in Slots /\ UpRight(t, u, s)
  BY TypesOf DEF Linked, Becomes
<1>2. /\ t2 \in [Slots -> Chan] /\ t2[i] = c
      /\ \A j \in Slots : j # i => t2[j] = t[j]
  BY <1>1 DEF Becomes
<1>3. /\ v \in Seq(UpMessage) /\ Len(u) \in Nat /\ Len(v) = Len(u) + 1 /\ v[Len(u) + 1] = m
      /\ \A k \in 1..Len(u) : k \in 1..Len(v) /\ v[k] = u[k]
      /\ \A k \in 1..Len(v) : k \notin 1..Len(u) => k = Len(u) + 1
  BY DEF UpLonger
<1>4. Typed(t2, v, d, s)
  BY <1>1, <1>2, <1>3 DEF Typed
<1>5. \A r : /\ UpUnits(v, "DATA", r) = UpUnits(u, "DATA", r)
             /\ UpUnits(v, "ADJUST", r) = UpUnits(u, "ADJUST", r)
  <2>1. \A type \in {"DATA", "ADJUST"} : \A r :
           UpUnits(v, type, r) = UpUnits(u, type, r) + UpCounts(m, type, r) /\ u \in Seq(UpMessage)
    BY DEF UpLonger
  <2> QED BY <2>1, UnitsNat DEF UpCounts
<1>6. /\ \A j \in Slots : \A r : Holds(t, j, r) => Holds(t2, j, r)
      /\ \A j \in Slots : t[j].state = "OPENING" => t2[j].state = "OPENING"
  BY <1>2 DEF Holds
<1>7. ASSUME NEW r, Unheld(t, r), m.type = "OPEN_CONFIRM" => r # m.ch PROVE Unheld(t2, r)
  <2>1. \A j \in Slots : j # i => ~Holds(t2, j, r)
    BY <1>2, <1>7 DEF Holds, Unheld
  <2>2. ~Holds(t2, i, r)
    BY <1>1, <1>7 DEF Unheld
  <2> QED BY <2>1, <2>2 DEF Unheld
<1>8. UpRight(t2, v, s)
  <2> SUFFICES ASSUME NEW k \in 1..Len(v) PROVE UpFits(v[k], k, t2, v, s)
    BY DEF UpRight
  <2>1. CASE k \notin 1..Len(u)
    BY <2>1, <1>3
  <2>2. CASE k \in 1..Len(u)
    <3> DEFINE n == u[k]
    <3>1. UpFits(n, k, t, u, s) /\ v[k] = n
      BY <2>2, <1>1, <1>3 DEF UpRight
    <3>2. \A r : ConfirmsUp(u, k - 1, r) => ConfirmsUp(v, k - 1, r)
      BY <1>3, <2>2 DEF ConfirmsUp
    <3>3. n.type = "OPEN_FAIL" /\ m.type = "OPEN_CONFIRM" /\ m.ch # 0 => n.ch # m.ch
      BY <2>2 DEF Unnamed, Outcomes
    <3> HIDE DEF n
    <3>4. n.type = "OPEN_FAIL" /\ n.ch # 0 => Unheld(t2, n.ch)
      BY <3>1, <3>3, <1>7 DEF UpFits
    <3>5. UpFits(n, k, t2, v, s)
      BY <3>1, <3>2, <3>4, <1>5, <1>6 DEF UpFits
    <3> QED BY <3>1, <3>5
  <2> QED BY <2>1, <2>2
<1>9. m.type = "REQUEST_FAILURE" => m.ch = 0
  BY DEF UpFits
<1>10. ASSUME NEW r, r # 0, Unnamed(u, r), \E k \in 1..Len(d) : d[k].rid = r
       PROVE  Unnamed(v, r) /\ (m.type = "OPEN_CONFIRM" => r # m.ch)
  <2>1. m.type # "OPEN" => m.ch # r
    BY <1>9, <1>10 DEF Outcomes
  <2>2. ASSUME NEW k \in 1..Len(v), v[k].type # "OPEN" PROVE v[k].ch # r
    <3>1. CASE k \in 1..Len(u)
      BY <2>2, <3>1, <1>3, <1>10 DEF Unnamed
    <3>2. CASE k \notin 1..Len(u)
      BY <2>1, <2>2, <3>2, <1>3
    <3> QED BY <3>1, <3>2
  <2> QED BY <2>1, <2>2 DEF Unnamed
<1>11. DownRight(t2, v, d, s)
  <2> SUFFICES ASSUME NEW k \in 1..Len(d) PROVE DownFits(d[k], k, t2, v, d, s)
    BY DEF DownRight
  <2> DEFINE n == d[k]
  <2>1. DownFits(n, k, t, u, d, s)
    BY DEF Linked, DownRight
  <2>2. n.rid # 0 /\ Unnamed(u, n.rid) => Unnamed(v, n.rid) /\ (Unheld(t, n.rid) => Unheld(t2, n.rid))
    BY <1>7, <1>10
  <2>3. n.type = "OPEN_CONFIRM" => n.rid # 0
    BY <2>1 DEF DownFits, Rids
  <2> HIDE DEF n
  <2>4. DownFits(n, k, t2, v, d, s)
    BY <2>1, <2>2, <2>3, <1>6 DEF DownFits, Confirmed
  <2> QED BY <2>4 DEF n
<1>12. UpOrder(v)
  <2> SUFFICES ASSUME NEW j \in 1..Len(v), NEW k \in 1..Len(v), j < k PROVE UpFollows(v[j], v[k])
    BY DEF UpOrder
  <2>1. j \in 1..Len(u)
    BY <1>3
  <2>2. CASE k \in 1..Len(u)
    BY <2>1, <2>2, <1>3 DEF Linked, UpOrder
  <2>3. CASE k \notin 1..Len(u)
    <3>1. v[k] = m /\ v[j] = u[j]
      BY <2>1, <2>3, <1>3
    <3>2. u[j].type # "OPEN" /\ m.type # "OPEN" /\ m.ch # 0 => u[j].ch # m.ch
      BY <2>1, <1>9 DEF Unnamed, Outcomes
    <3> QED BY <3>1, <3>2 DEF UpFollows
  <2> QED BY <2>2, <2>3
<1>13. OneOutcome(v, d)
  <2>1. OneOutcome(u, d)
    BY DEF Linked
  <2>2. ASSUME m.type = "OPEN"
        PROVE  /\ \A j \in 1..Len(u) : u[j].type = "OPEN" => u[j].ch # m.ch
               /\ \A j \in 1..Len(d) : d[j].type \in Outcomes => d[j].ch # m.ch
    <3>1. ASSUME NEW j \in 1..Len(u), u[j].type = "OPEN" PROVE u[j].ch # m.ch
      BY <2>2, <3>1, <1>1 DEF UpRight, UpFits
    <3>2. ASSUME NEW j \in 1..Len(d), d[j].type \in Outcomes PROVE d[j].ch # m.ch
      BY <2>2, <3>2 DEF Linked, DownRight, DownFits, Outcomes
    <3> QED BY <3>1, <3>2
  <2>3. ASSUME NEW j \in 1..Len(v), NEW k \in 1..Len(v), v[j].type = "OPEN", v[k].type = "OPEN",
               v[j].ch = v[k].ch
        PROVE  j = k
    <3>1. CASE j \in 1..Len(u) /\ k \in 1..Len(u)
      BY <2>1, <2>3, <3>1, <1>3 DEF OneOutcome
    <3>2. CASE j \in 1..Len(u) /\ k \notin 1..Len(u)
      BY <2>2, <2>3, <3>2, <1>3
    <3>3. CASE j \notin 1..Len(u) /\ k \in 1..Len(u)
      BY <2>2, <2>3, <3>3, <1>3
    <3>4. CASE j \notin 1..Len(u) /\ k \notin 1..Len(u)
      BY <3>4, <1>3
    <3> QED BY <3>1, <3>2, <3>3, <3>4
  <2>4. ASSUME NEW j \in 1..Len(v), NEW k \in 1..Len(d), v[j].type = "OPEN", d[k].type \in Outcomes
        PROVE  v[j].ch # d[k].ch
    <3>1. CASE j \in 1..Len(u)
      BY <2>1, <2>4, <3>1, <1>3 DEF OneOutcome
    <3>2. CASE j \notin 1..Len(u)
      BY <2>2, <2>4, <3>2, <1>3
    <3> QED BY <3>1, <3>2
  <2> QED BY <2>1, <2>3, <2>4 DEF OneOutcome
<1>14. SlotsRight(t2, v, d, s)
  <2> SUFFICES ASSUME NEW j \in Slots PROVE SlotFits(t2[j], j, v, d, s)
    BY DEF SlotsRight
  <2>1. CASE j = i
    BY <2>1, <1>2
  <2>2. CASE j # i
    <3> DEFINE b == t[j]
               r == b.remote_id
    <3>1. SlotFits(b, j, u, d, s) /\ t2[j] = b
      BY <2>2, <1>2 DEF Linked, SlotsRight
    <3>2. Bound(u, s, j, r) => Bound(v, s, j, r)
      BY <1>3 DEF Bound
    <3>3. ASSUME NEW type \in {"CLOSE", "EOF"}, Mute(u, type, r) PROVE Mute(v, type, r)
      <4> SUFFICES ASSUME NEW k \in 1..Len(v), v[k].ch = r PROVE v[k].type # type
        BY DEF Mute
      <4>1. CASE k \in 1..Len(u)
        BY <3>3, <4>1, <1>3 DEF Mute
      <4>2. CASE k \notin 1..Len(u)
        BY <4>2, <1>3
      <4> QED BY <4>1, <4>2
    <3> HIDE DEF b, r
    <3>4. SlotFits(b, j, v, d, s)
      BY <3>1, <3>2, <3>3, <1>5 DEF SlotFits, Adds, r
    <3> QED BY <3>1, <3>4
  <2> QED BY <2>1, <2>2
<1>15. SvRight(t2, v, d, s)
  <2> SUFFICES ASSUME NEW r \in Rids PROVE SvFits(s[r], r, t2, v, d)
    BY DEF SvRight
  <2> DEFINE b == s[r]
  <2>1. SvFits(b, r, t, u, d)
    BY DEF Linked, SvRight
  <2> HIDE DEF b
  <2>2. SvFits(b, r, t2, v, d)
    BY <2>1, <1>5, <1>6 DEF SvFits
  <2> QED BY <2>2 DEF b
<1>16. DownOrder(d)
  BY DEF Linked
<1> QED
  BY <1>4, <1>8, <1>11, <1>12, <1>13, <1>14, <1>15, <1>16 DEF Linked

-----------------------------------------------------------------------------
(* Steps of the server *)

\* The server takes the client's next message: but for its own channel, all stays as it is.
LEMMA SvHear ==
    ASSUME NEW t, NEW u, NEW d, NEW s, Linked(t, u, d, s), NEW v, UpShorter(v, u), NEW r,
           u[1].type \in {"OPEN_CONFIRM", "DATA", "ADJUST"} => u[1].ch = r,
           NEW s2 \in [Rids -> SvChan], \A x \in Rids : x # r => s2[x] = s[x],
           \A k \in 1..Len(v) : v[k].type # "OPEN" /\ v[k].ch = r => UpFits(v[k], k, t, v, s2),
           \A k \in 1..Len(d) : d[k].rid = r => DownFits(d[k], k, t, v, d, s2),
           \A j \in Slots : Holds(t, j, r) => SlotFits(t[j], j, v, d, s2),
           r \in Rids => SvFits(s2[r], r, t, v, d)
    PROVE  Linked(t, v, d, s2)
<1>1. Typed(t, u, d, s) /\ t \in [Slots -> Chan] /\ u \in Seq(UpMessage)
  BY TypesOf DEF Linked
<1>2. /\ v \in Seq(UpMessage) /\ Len(v) \in Nat /\ Len(u) = Len(v) + 1
      /\ \A k \in 1..Len(v) : k + 1 \in 1..Len(u) /\ v[k] = u[k + 1]
      /\ 1 \in 1..Len(u) /\ u[1] \in UpMessage
  BY DEF UpShorter
<1>3. Typed(t, v, d, s2)
  BY <1>1, <1>2 DEF Typed
<1>4. \A x : x # r => /\ UpUnits(v, "DATA", x) = UpUnits(u, "DATA", x)
                      /\ UpUnits(v, "ADJUST", x) = UpUnits(u, "ADJUST", x)
  <2>1. \A type \in {"DATA", "ADJUST"} : \A x :
           UpUnits(u, type, x) = UpUnits(v, type, x) + UpCounts(u[1], type, x)
    BY DEF UpShorter
  <2> QED BY <2>1, <1>2, UnitsNat DEF UpCounts
<1>5. ASSUME NEW n \in 0..Len(v), NEW x, x # r, ConfirmsUp(u, n + 1, x) PROVE ConfirmsUp(v, n, x)
  <2>1. PICK j \in 1..(n + 1) : u[j].type = "OPEN_CONFIRM" /\ u[j].ch = x
    BY <1>5 DEF ConfirmsUp
  <2>2. j # 1
    BY <2>1, <1>5
  <2>3. j - 1 \in 1..n /\ j - 1 \in 1..Len(v) /\ (j - 1) + 1 = j
    BY <2>1, <2>2, <1>2
  <2>4. v[j - 1] = u[j]
    BY <2>3, <1>2
  <2> QED BY <2>1, <2>3, <2>4 DEF ConfirmsUp
<1>6. UpRight(t, v, s2)
  <2> SUFFICES ASSUME NEW k \in 1..Len(v) PROVE UpFits(v[k], k, t, v, s2)
    BY DEF UpRight
  <2> DEFINE m == v[k]
  <2>1. m = u[k + 1] /\ k + 1 \in 1..Len(u) /\ (k + 1) - 1 = k
        /\ k - 1 \in 0..Len(v) /\ (k - 1) + 1 = k
    BY <1>2
  <2>2. UpFits(m, k + 1, t, u, s)
    BY <2>1 DEF Linked, UpRight
  <2>3. m.type # "OPEN" /\ m.ch = r => UpFits(m, k, t, v, s2)
    OBVIOUS
  <2>4. \A x : x # r => (ConfirmsUp(u, (k + 1) - 1, x) => ConfirmsUp(v, k - 1, x))
    BY <2>1, <1>5
  <2>5. m.ch # r /\ m.ch \in Rids => s2[m.ch] = s[m.ch]
    OBVIOUS
  <2> HIDE DEF m
  <2>6. ASSUME m.type = "OPEN" PROVE UpFits(m, k, t, v, s2)
    BY <2>2, <2>6 DEF UpFits, Talk
  <2>7. ASSUME m.type # "OPEN", m.ch # r PROVE UpFits(m, k, t, v, s2)
    <3>1. m.type \in Talk \cup {"REQUEST", "FAILURE", "OPEN_CONFIRM"} => m.ch \in Rids
      BY <2>2 DEF UpFits
    <3> QED BY <2>2, <2>4, <2>5, <2>7, <3>1, <1>4 DEF UpFits, Talk
  <2>8. UpFits(m, k, t, v, s2)
    BY <2>3, <2>6, <2>7
  <2> QED BY <2>8 DEF m
<1>7. UpOrder(v)
  <2> SUFFICES ASSUME NEW j \in 1..Len(v), NEW k \in 1..Len(v), j < k PROVE UpFollows(v[j], v[k])
    BY DEF UpOrder
  <2>1. j + 1 \in 1..Len(u) /\ k + 1 \in 1..Len(u) /\ j + 1 < k + 1
    BY <1>2
  <2> QED BY <2>1, <1>2 DEF Linked, UpOrder
<1>8. \A x : Unnamed(u, x) => Unnamed(v, x)
  BY <1>2 DEF Unnamed
<1>9. DownRight(t, v, d, s2)
  <2> SUFFICES ASSUME NEW k \in 1..Len(d) PROVE DownFits(d[k], k, t, v, d, s2)
    BY DEF DownRight
  <2> DEFINE m == d[k]
  <2>1. DownFits(m, k, t, u, d, s)
    BY DEF Linked, DownRight
  <2>2. m.rid = r => DownFits(m, k, t, v, d, s2)
    OBVIOUS
  <2>3. m.rid \in Rids \cup {0}
    BY <1>1, TypesOf, MessageFields
  <2>4. m.rid # r /\ m.rid # 0 => s2[m.rid] = s[m.rid]
    BY <2>3
  <2> HIDE DEF m
  <2>5. ASSUME m.rid # r PROVE DownFits(m, k, t, v, d, s2)
    <3>1. /\ m.type \in {"CLOSE", "OPEN_CONFIRM"} \cup ChannelTypes => m.rid # 0
      BY <2>1 DEF DownFits, ChannelTypes, Rids
    <3> QED BY <2>1, <2>4, <2>5, <3>1, <1>8 DEF DownFits, Confirmed
  <2>6. DownFits(m, k, t, v, d, s2)
    BY <2>2, <2>5
  <2> QED BY <2>6 DEF m
<1>10. OneOutcome(v, d)
  <2>1. OneOutcome(u, d)
    BY DEF Linked
  <2>2. ASSUME NEW j \in 1..Len(v), NEW k \in 1..Len(v), v[j].type = "OPEN", v[k].type = "OPEN",
               v[j].ch = v[k].ch
        PROVE  j = k
    <3>1. /\ j + 1 \in 1..Len(u) /\ u[j + 1].type = "OPEN" /\ v[j].ch = u[j + 1].ch
          /\ k + 1 \in 1..Len(u) /\ u[k + 1].type = "OPEN" /\ v[k].ch = u[k + 1].ch
      BY <2>2, <1>2
    <3>2. j + 1 = k + 1
      BY <2>1, <2>2, <3>1 DEF OneOutcome
    <3> QED BY <3>2
  <2>3. ASSUME NEW j \in 1..Len(v), NEW k \in 1..Len(d), v[j].type = "OPEN", d[k].type \in Outcomes
        PROVE  v[j].ch # d[k].ch
    <3>1. k \in 1..Len(d) /\ j + 1 \in 1..Len(u) /\ u[j + 1].type = "OPEN" /\ v[j].ch = u[j + 1].ch
      BY <2>3, <1>2
    <3> QED BY <2>1, <2>3, <3>1 DEF OneOutcome
  <2> QED BY <2>1, <2>2, <2>3 DEF OneOutcome
<1>11. SlotsRight(t, v, d, s2)
  <2> SUFFICES ASSUME NEW j \in Slots PROVE SlotFits(t[j], j, v, d, s2)
    BY DEF SlotsRight
  <2> DEFINE b == t[j]
             x == b.remote_id
  <2>1. SlotFits(b, j, u, d, s)
    BY DEF Linked, SlotsRight
  <2>2. b.state = "OPEN" /\ x = r => SlotFits(b, j, v, d, s2)
    BY DEF Holds
  <2>3. ASSUME b.state = "OPEN", x # r PROVE SlotFits(b, j, v, d, s2)
    <3>1. x \in Rids /\ s2[x] = s[x]
      BY <2>1, <2>3 DEF SlotFits
    <3>2. Bound(u, s, j, x) => Bound(v, s2, j, x)
      <4>1. ASSUME NEW k \in 1..Len(u), u[k].type = "OPEN_CONFIRM", u[k].ch = x, u[k].n = j
            PROVE  \E l \in 1..Len(v) : v[l].type = "OPEN_CONFIRM" /\ v[l].ch = x /\ v[l].n = j
        <5>1. k # 1
          BY <2>3, <4>1
        <5>2. k - 1 \in 1..Len(v) /\ v[k - 1] = u[k]
          BY <5>1, <1>2
        <5> QED BY <4>1, <5>2
      <4> QED BY <3>1, <4>1 DEF Bound
    <3>3. \A type : Mute(u, type, x) => Mute(v, type, x)
      BY <1>2 DEF Mute
    <3>4. Adds(b, u, d, s[x], x) => Adds(b, v, d, s2[x], x)
      BY <3>1, <1>4, <2>3 DEF Adds
    <3>5. b.remote_id = x
      OBVIOUS
    <3> HIDE DEF b, x
    <3> QED BY <2>1, <2>3, <3>1, <3>2, <3>3, <3>4, <3>5 DEF SlotFits
  <2>4. ASSUME b.state # "OPEN" PROVE SlotFits(b, j, v, d, s2)
    <3> HIDE DEF b
    <3> QED BY <2>1, <2>4 DEF SlotFits
  <2> QED BY <2>2, <2>3, <2>4
<1>12. SvRight(t, v, d, s2)
  <2> SUFFICES ASSUME NEW x \in Rids PROVE SvFits(s2[x], x, t, v, d)
    BY DEF SvRight
  <2>1. CASE x = r
    BY <2>1
  <2>2. CASE x # r
    <3> DEFINE b == s[x]
    <3>1. SvFits(b, x, t, u, d) /\ s2[x] = b
      BY <2>2 DEF Linked, SvRight
    <3> HIDE DEF b
    <3>2. SvFits(b, x, t, v, d)
      BY <3>1, <2>2, <1>4 DEF SvFits
    <3> QED BY <3>1, <3>2
  <2> QED BY <2>1, <2>2
<1>13. DownOrder(d)
  BY DEF Linked
<1> QED
  BY <1>3, <1>6, <1>7, <1>9, <1>10, <1>11, <1>12, <1>13 DEF Linked

\* Most messages leave every channel of the server as it is.
LEMMA SvHearOnly ==
    ASSUME NEW t, NEW u, NEW d, NEW s, Linked(t, u, d, s), NEW v, UpShorter(v, u),
           u[1].type \notin {"OPEN_CONFIRM", "DATA", "ADJUST"}
    PROVE  Linked(t, v, d, s)
<1>1. Typed(t, u, d, s) /\ s \in [Rids -> SvChan]
  BY TypesOf DEF Linked
<1> DEFINE r == -1
<1>2. \A k \in 1..Len(v) : v[k].ch # r
  <2>1. Len(v) \in Nat /\ v \in Seq(UpMessage)
    BY DEF UpShorter
  <2>2. \A k \in 1..Len(v) : v[k].ch \in Nat
    BY <2>1, ElementOfSeq, MessageFields
  <2> QED BY <2>2
<1>3. \A k \in 1..Len(d) : d[k].rid # r
  <2>1. \A k \in 1..Len(d) : d[k].rid \in Rids \cup {0}
    BY <1>1, TypesOf, MessageFields
  <2> QED BY <2>1 DEF Rids
<1>4. \A j \in Slots : ~Holds(t, j, r)
  <2>1. \A j \in Slots : t[j].remote_id \in Rids \cup {0}
    BY <1>1, TypesOf, ChanFields
  <2> QED BY <2>1 DEF Holds, Rids
<1>5. r \notin Rids
  BY DEF Rids
<1> HIDE DEF r
<1> QED
  BY <1>1, <1>2, <1>3, <1>4, <1>5, SvHear

\* A message of an open channel finds that channel open, and gives no cause for complaint.
LEMMA TalkFits ==
    ASSUME NEW t, NEW u, NEW d, NEW s, Linked(t, u, d, s), NEW v, UpShorter(v, u),
           NEW m, m = u[1], m.type \in Talk, NEW r, r = m.ch
    PROVE  /\ r \in Rids /\ r # 0 /\ s[r].state = "open" /\ ~s[r].close_in
           /\ m.type \in {"DATA", "EOF"} => ~s[r].eof_in
           /\ m.type = "DATA" => m.n <= MaxPacket /\ m.n <= s[r].grant
           /\ s[r].owed = -1 \/ s[r].eof_in
           /\ m \in UpMessage /\ m.n \in Nat
           /\ SvComplaint(s[r], m) = "none"
<1>1. Typed(t, u, d, s) /\ m \in UpMessage /\ m.n \in Nat /\ 1 \in 1..Len(u) /\ v \in Seq(UpMessage)
  BY MessageFields DEF Linked, UpShorter
<1>2. UpFits(m, 1, t, u, s)
  BY <1>1 DEF Linked, UpRight
<1>3. ~ConfirmsUp(u, 1 - 1, r)
  BY DEF ConfirmsUp
<1>4. r \in Rids /\ s[r].state \in {"open", "done"}
  BY <1>2, <1>3 DEF UpFits
<1>5. s[r].state # "done" /\ ~s[r].close_in /\ (m.type \in {"DATA", "EOF"} => ~s[r].eof_in)
      /\ (m.type = "DATA" => m.n <= MaxPacket)
  BY <1>2 DEF UpFits
<1>6. SvFits(s[r], r, t, u, d)
  BY <1>4 DEF Linked, SvRight
<1>7. s[r].owed = -1 \/ s[r].eof_in
  BY <1>5, <1>6 DEF SvFits
<1>8. s[r] \in SvChan /\ s[r].grant \in Nat
  <2>1. s[r] \in SvChan /\ s[r].grant \in 0..SvWindow
    BY <1>1, <1>4, TypesOf, SvFields
  <2> QED BY <2>1
<1>9. ASSUME m.type = "DATA" PROVE m.n <= s[r].grant
  <2>1. UpUnits(u, "DATA", r) = UpUnits(v, "DATA", r) + UpCounts(m, "DATA", r)
    BY DEF UpShorter
  <2>2. UpCounts(m, "DATA", r) = m.n
    BY <1>9 DEF UpCounts
  <2>3. UpUnits(v, "DATA", r) \in Nat
    BY <1>1, UnitsNat
  <2>4. UpUnits(u, "DATA", r) <= s[r].grant
    BY <1>6 DEF SvFits
  <2> QED BY <2>1, <2>2, <2>3, <2>4, <1>1, <1>8
<1>10. SvComplaint(s[r], m) = "none"
  <2>1. m.type = "DATA" => ~(m.n > s[r].grant) /\ ~(m.n > MaxPacket)
    <3>1. MaxPacket \in Nat
      BY ChannelsAssumption
    <3> QED BY <3>1, <1>1, <1>5, <1>8, <1>9
  <2> QED BY <2>1, <1>4, <1>5 DEF SvComplaint
<1> QED
  BY <1>1, <1>4, <1>5, <1>7, <1>9, <1>10 DEF Rids

\* The channel c of the server, having taken m, is b.
Takes(b, c, m) ==
    /\ b \in SvChan /\ b.slot = c.slot /\ b.sent = c.sent /\ b.close_out = c.close_out
    /\ b.state = (IF m.type = "CLOSE" /\ c.close_out THEN "done" ELSE c.state)
    /\ b.got = (IF m.type = "DATA" THEN c.got + m.n ELSE c.got)
    /\ b.grant = (IF m.type = "DATA" THEN c.grant - m.n ELSE c.grant)
    /\ b.win = (IF m.type = "ADJUST" THEN c.win + m.n ELSE c.win)
    /\ b.eof_in = (IF m.type = "EOF" THEN TRUE ELSE c.eof_in)
    /\ b.close_in = (IF m.type = "CLOSE" THEN TRUE ELSE c.close_in)
    /\ b.owed = (IF m.type = "EOF" \/ (m.type = "CLOSE" /\ m.x = "asked") THEN m.n ELSE c.owed)

\* What becomes of the channel then.
LEMMA TakenFields ==
    ASSUME NEW c \in SvChan, NEW m \in UpMessage, m.type \in Talk, NEW b, b = SvTaken(c, m),
           m.type = "DATA" => m.n <= c.grant
    PROVE  Takes(b, c, m)
<1> USE DEF Takes
<1>1. /\ m.n \in Nat /\ c.got \in Nat /\ c.grant \in 0..SvWindow /\ c.win \in Nat
      /\ {c.close_in, c.eof_in, c.close_out} \subseteq BOOLEAN /\ SvWindow \in Nat
  BY MessageFields, SvFields, ChannelsAssumption
<1>2. CASE m.type = "DATA"
  <2>1. b = [c EXCEPT !.got = c.got + m.n, !.grant = c.grant - m.n]
    BY <1>2 DEF SvTaken
  <2>2. c.got + m.n \in Nat /\ c.grant - m.n \in 0..SvWindow
    BY <1>1, <1>2
  <2>3. b \in SvChan
    BY <2>1, <2>2 DEF SvChan
  <2> QED BY <2>1, <2>3, <1>2 DEF SvChan
<1>3. CASE m.type = "EOF"
  <2>1. b = [c EXCEPT !.eof_in = TRUE, !.owed = m.n]
    BY <1>3 DEF SvTaken
  <2>2. b \in SvChan
    BY <2>1, <1>1 DEF SvChan
  <2> QED BY <2>1, <2>2, <1>3 DEF SvChan
<1>4. CASE m.type = "ADJUST"
  <2>1. b = [c EXCEPT !.win = c.win + m.n]
    BY <1>4 DEF SvTaken
  <2>2. b \in SvChan
    BY <2>1, <1>1 DEF SvChan
  <2> QED BY <2>1, <2>2, <1>4 DEF SvChan
<1>5. CASE m.type = "CLOSE"
  <2> DEFINE o == IF m.x = "asked" THEN m.n ELSE c.owed
             w == IF c.close_out THEN "done" ELSE c.state
  <2>1. b = [c EXCEPT !.close_in = TRUE, !.owed = o, !.state = w]
    BY <1>5 DEF SvTaken
  <2>2. o \in Nat \cup {-1} /\ w \in {"none", "opening", "open", "done"}
    BY <1>1, SvFields
  <2> HIDE DEF o, w
  <2>3. b \in SvChan
    BY <2>1, <2>2 DEF SvChan
  <2>4. /\ b.slot = c.slot /\ b.sent = c.sent /\ b.close_out = c.close_out /\ b.state = w
        /\ b.got = c.got /\ b.grant = c.grant /\ b.win = c.win /\ b.eof_in = c.eof_in
        /\ b.close_in = TRUE /\ b.owed = o
    BY <2>1 DEF SvChan
  <2> QED BY <2>3, <2>4, <1>5 DEF o, w
<1> QED
  BY <1>2, <1>3, <1>4, <1>5 DEF Talk

\* The server takes DATA, EOF, CLOSE or an adjustment of its window.
LEMMA SvHearTalk ==
    ASSUME NEW t, NEW u, NEW d, NEW s, Linked(t, u, d, s), NEW v, UpShorter(v, u),
           NEW m, m = u[1], m.type \in Talk, NEW r, r = m.ch,
           NEW s2, s2 = [s EXCEPT ![r] = SvTaken(s[r], m)]
    PROVE  Linked(t, v, d, s2)
<1> DEFINE c == s[r]
           b == s2[r]
<1>1. /\ Typed(t, u, d, s) /\ s \in [Rids -> SvChan] /\ u \in Seq(UpMessage) /\ d \in Seq(DownMessage)
      /\ \A i \in Slots : t[i] \in Chan
  BY TypesOf DEF Linked
<1>2. /\ r \in Rids /\ r # 0 /\ c.state = "open" /\ ~c.close_in
      /\ m.type \in {"DATA", "EOF"} => ~c.eof_in
      /\ m.type = "DATA" => m.n <= MaxPacket /\ m.n <= c.grant
      /\ c.owed = -1 \/ c.eof_in
      /\ m \in UpMessage /\ m.n \in Nat
  BY TalkFits
<1>3. c \in SvChan
  BY <1>1, <1>2
<1>4. b = SvTaken(c, m) /\ \A x \in Rids : x # r => s2[x] = s[x]
  BY <1>1, <1>2
<1> HIDE DEF b, c
<1>5. Takes(b, c, m)
  <2>1. m.type = "DATA" => m.n <= c.grant
    BY <1>2
  <2>2. c \in SvChan /\ m \in UpMessage /\ m.type \in Talk /\ b = SvTaken(c, m)
    BY <1>2, <1>3, <1>4
  <2> QED BY <2>1, <2>2, TakenFields
<1> USE DEF Takes
<1>6. s2 \in [Rids -> SvChan]
  <2>1. SvTaken(c, m) \in SvChan
    BY <1>4, <1>5
  <2> QED BY <2>1, <1>1 DEF c
<1>7. /\ v \in Seq(UpMessage) /\ Len(v) \in Nat /\ Len(u) = Len(v) + 1
      /\ \A k \in 1..Len(v) : k + 1 \in 1..Len(u) /\ v[k] = u[k + 1]
      /\ 1 \in 1..Len(u)
  BY DEF UpShorter
<1>8. /\ UpUnits(u, "DATA", r) = UpUnits(v, "DATA", r) + (IF m.type = "DATA" THEN m.n ELSE 0)
      /\ UpUnits(u, "ADJUST", r) = UpUnits(v, "ADJUST", r) + (IF m.type = "ADJUST" THEN m.n ELSE 0)
      /\ UpUnits(v, "DATA", r) \in Nat /\ UpUnits(v, "ADJUST", r) \in Nat
  <2>1. /\ UpUnits(u, "DATA", r) = UpUnits(v, "DATA", r) + UpCounts(m, "DATA", r)
        /\ UpUnits(u, "ADJUST", r) = UpUnits(v, "ADJUST", r) + UpCounts(m, "ADJUST", r)
    BY DEF UpShorter
  <2> QED BY <2>1, <1>7, UnitsNat DEF UpCounts
<1>9. \A k \in 1..Len(v) : UpFollows(m, v[k])
  <2>1. \A k \in 1..Len(v) : 1 < k + 1
    BY <1>7
  <2> QED BY <2>1, <1>7 DEF Linked, UpOrder
<1>10. c.got \in Nat /\ c.grant \in Nat /\ c.win \in Nat /\ c.sent \in Nat
  <2>1. SvWindow \in Nat
    BY ChannelsAssumption
  <2> QED BY <2>1, <1>3, SvFields
<1>11. ASSUME NEW k \in 1..Len(v), v[k].type # "OPEN", v[k].ch = r
       PROVE  UpFits(v[k], k, t, v, s2)
  <2> DEFINE n == v[k]
  <2>1. UpFits(n, k + 1, t, u, s)
    BY <1>7 DEF Linked, UpRight
  <2>2. UpFollows(m, n)
    BY <1>9
  <2>3. n.ch = r /\ n.type # "OPEN"
    BY <1>11
  <2> HIDE DEF n
  <2>4. n.type \notin Outcomes
    BY <2>1, <2>3, <1>2 DEF UpFits, c, Outcomes
  <2>5. n.type = "REQUEST_FAILURE" => n.ch = 0
    BY <2>1 DEF UpFits
  <2>6. n.type \in Talk => /\ ~c.close_in /\ m.type # "CLOSE"
                           /\ n.type \in {"DATA", "EOF"} => ~c.eof_in /\ m.type # "EOF"
                           /\ n.type = "DATA" => n.n <= MaxPacket
    BY <2>1, <2>2, <2>3, <1>2 DEF UpFits, UpFollows, c, Talk
  <2>7. n.type = "EOF" \/ (n.type = "CLOSE" /\ n.x = "asked") => n.n = b.got + UpUnits(v, "DATA", r)
    <3>1. n.type = "EOF" \/ (n.type = "CLOSE" /\ n.x = "asked") => n.n = c.got + UpUnits(u, "DATA", r)
      BY <2>1, <2>3 DEF UpFits, c
    <3> QED BY <3>1, <1>2, <1>5, <1>8, <1>10
  <2>8. b.state = "open" \/ (b.state = "done" /\ m.type = "CLOSE")
    BY <1>2, <1>5
  <2>9. s2[r] = b
    BY DEF b
  <2>10. n.type \in Talk => b.state # "done" /\ ~b.close_in
    BY <2>6, <2>8, <1>5
  <2>11. n.type \in {"DATA", "EOF"} => ~b.eof_in
    BY <2>6, <1>5 DEF Talk
  <2>12. b.state # "done" \/ b.close_in
    BY <2>8, <1>5
  <2>13. UpFits(n, k, t, v, s2)
    BY <2>3, <2>4, <2>5, <2>6, <2>7, <2>8, <2>9, <2>10, <2>11, <2>12, <1>2 DEF UpFits, Outcomes, Talk
  <2> QED BY <2>13 DEF n
<1>12. ASSUME NEW k \in 1..Len(d), d[k].rid = r PROVE DownFits(d[k], k, t, v, d, s2)
  <2> DEFINE n == d[k]
  <2>1. DownFits(n, k, t, u, d, s) /\ n.rid = r
    BY <1>12 DEF Linked, DownRight
  <2>2. ~Unnamed(u, r)
    BY <1>2, <1>7 DEF Unnamed, Talk
  <2>3. s2[r] = b /\ s[r] = c
    BY DEF b, c
  <2> HIDE DEF n
  <2>4. n.type \notin {"OPEN", "OPEN_CONFIRM", "OPEN_FAIL"}
    BY <2>1, <2>2, <1>2 DEF DownFits, Confirmed
  <2>5. n.type \in ChannelTypes => b.state \in {"open", "done"} /\ n.ch \in Slots /\ b.slot = n.ch
    BY <2>1, <2>3, <1>2, <1>5 DEF DownFits
  <2>6. DownFits(n, k, t, v, d, s2)
    BY <2>1, <2>3, <2>4, <2>5, <1>2, <1>5 DEF DownFits
  <2> QED BY <2>6 DEF n
<1>13. ASSUME NEW j \in Slots, Holds(t, j, r) PROVE SlotFits(t[j], j, v, d, s2)
  <2> DEFINE a == t[j]
  <2>1. SlotFits(a, j, u, d, s) /\ a.state = "OPEN" /\ a.remote_id = r /\ a \in Chan
    BY <1>1, <1>13 DEF Linked, SlotsRight, Holds
  <2>2. s2[r] = b /\ s[r] = c
    BY DEF b, c
  <2> HIDE DEF a
  <2>3. /\ a.out \in Nat /\ a.remote_window \in Nat /\ a.local_window \in Nat /\ a.written \in Nat
        /\ a.close_sent \in BOOLEAN /\ a.eof_sent \in BOOLEAN
    BY <2>1, ChanFields
  <2>4. Bound(v, s2, j, r)
    <3>1. c.slot = j
      BY <2>1, <2>2, <1>2 DEF SlotFits, Bound
    <3> QED BY <3>1, <2>2, <1>2, <1>5 DEF Bound
  <2>5. Adds(a, v, d, b, r)
    <3>1. Adds(a, u, d, c, r)
      BY <2>1, <2>2 DEF SlotFits
    <3> DEFINE dd == DownUnits(d, "DATA", r)
               da == DownUnits(d, "ADJUST", r)
               ud == UpUnits(v, "DATA", r)
               ua == UpUnits(v, "ADJUST", r)
               nd == IF m.type = "DATA" THEN m.n ELSE 0
               na == IF m.type = "ADJUST" THEN m.n ELSE 0
    <3>2. dd \in Nat /\ da \in Nat /\ ud \in Nat /\ ua \in Nat /\ nd \in Nat /\ na \in Nat
      BY <1>1, <1>2, <1>8, UnitsNat
    <3>3. /\ c.win + dd + (ua + na) = a.local_window /\ a.remote_window + da + (ud + nd) = c.grant
          /\ a.written = a.out + (ud + nd) + c.got /\ c.sent = dd + a.x11_pending + a.surfaced
      BY <3>1, <1>2, <1>8 DEF Adds
    <3>4. /\ b.win = c.win + na /\ b.got = c.got + nd /\ b.grant = c.grant - nd /\ b.sent = c.sent
      BY <1>5, <1>10
    <3> HIDE DEF dd, da, ud, ua, nd, na
    <3>5. b.win + dd + ua = a.local_window
      BY ONLY <3>2, <3>3, <3>4, <1>10
    <3>6. a.remote_window + da + ud = b.grant
      <4>1. a.remote_window \in Nat /\ a.remote_window + da + (ud + nd) = c.grant /\ b.grant = c.grant - nd
        BY <2>3, <3>3, <3>4
      <4> QED BY ONLY <4>1, <3>2
    <3>7. a.written = a.out + ud + b.got
      <4>1. a.out \in Nat /\ a.written = a.out + (ud + nd) + c.got /\ b.got = c.got + nd
        BY <2>3, <3>3, <3>4
      <4> QED BY ONLY <4>1, <3>2, <1>10
    <3>8. b.state # "opening" /\ b.sent = dd + a.x11_pending + a.surfaced
      BY <3>3, <3>4, <1>2, <1>5
    <3> QED BY <3>5, <3>6, <3>7, <3>8 DEF Adds, dd, da, ud, ua
  <2>6. ASSUME ~a.close_sent PROVE ~b.close_in /\ Mute(v, "CLOSE", r)
    <3>1. ~c.close_in /\ Mute(u, "CLOSE", r)
      BY <2>1, <2>2, <2>6 DEF SlotFits
    <3>2. m.type # "CLOSE"
      BY <3>1, <1>7 DEF Mute
    <3> QED BY <3>1, <3>2, <1>5, <1>7 DEF Mute
  <2>7. ASSUME ~a.eof_sent PROVE ~b.eof_in /\ Mute(v, "EOF", r)
    <3>1. ~c.eof_in /\ Mute(u, "EOF", r)
      BY <2>1, <2>2, <2>7 DEF SlotFits
    <3>2. m.type # "EOF"
      BY <3>1, <1>7 DEF Mute
    <3> QED BY <3>1, <3>2, <1>5, <1>7 DEF Mute
  <2>8. SlotFits(a, j, v, d, s2)
    BY <2>1, <2>2, <2>4, <2>5, <2>6, <2>7, <1>2 DEF SlotFits
  <2> QED BY <2>8 DEF a
<1>14. SvFits(b, r, t, v, d)
  <2>1. SvFits(c, r, t, u, d)
    BY <1>2 DEF Linked, SvRight, c
  <2>2. b.state \in {"open", "done"} /\ (b.state = "done" => b.close_in /\ b.close_out)
    BY <1>2, <1>5
  <2>3. b.slot \in Slots /\ (b.close_out \/ Holds(t, b.slot, r) \/ ConfirmsDown(d, Len(d), r))
    BY <2>1, <1>2, <1>5 DEF SvFits
  <2>4. UpUnits(v, "DATA", r) <= b.grant
    <3>1. UpUnits(u, "DATA", r) <= c.grant
      BY <2>1 DEF SvFits
    <3> QED BY <3>1, <1>2, <1>5, <1>8, <1>10
  <2>5. b.owed # -1 => b.got = b.owed /\ (b.eof_in \/ b.close_in)
    <3>1. CASE m.type = "EOF" \/ (m.type = "CLOSE" /\ m.x = "asked")
      <4>1. UpFits(m, 1, t, u, s)
        BY <1>7 DEF Linked, UpRight
      <4>2. m.n = c.got + UpUnits(u, "DATA", r)
        BY <3>1, <4>1 DEF UpFits, c
      <4>3. ASSUME NEW k \in 1..Len(u), u[k].type = "DATA", u[k].ch = r PROVE FALSE
        <5>1. k # 1
          BY <3>1, <4>3
        <5>2. k - 1 \in 1..Len(v) /\ (k - 1) + 1 = k
          BY <5>1, <1>7
        <5>3. UpFollows(m, u[k])
          BY <5>2, <1>7, <1>9
        <5> QED BY <3>1, <4>3, <5>3, <1>2 DEF UpFollows, Talk
      <4>4. UpUnits(u, "DATA", r) = 0
        BY <4>3, <1>1, UnitsNat
      <4> QED BY <3>1, <4>2, <4>4, <1>5, <1>10
    <3>2. CASE ~(m.type = "EOF" \/ (m.type = "CLOSE" /\ m.x = "asked"))
      <4>1. b.owed = c.owed
        BY <3>2, <1>5
      <4>2. c.owed # -1 => c.got = c.owed /\ c.eof_in
        BY <2>1, <1>2 DEF SvFits
      <4>3. m.type = "DATA" => c.owed = -1
        BY <1>2
      <4> QED BY <4>1, <4>2, <4>3, <1>5
    <3> QED BY <3>1, <3>2
  <2> QED BY <2>2, <2>3, <2>4, <2>5 DEF SvFits
<1>15. SvFits(s2[r], r, t, v, d)
  BY <1>14 DEF b
<1>16. u[1].type \in {"OPEN_CONFIRM", "DATA", "ADJUST"} => u[1].ch = r
  OBVIOUS
<1>17. \A x \in Rids : x # r => s2[x] = s[x]
  BY <1>4
<1>18. \A k \in 1..Len(v) : v[k].type # "OPEN" /\ v[k].ch = r => UpFits(v[k], k, t, v, s2)
  BY <1>11
<1>19. \A k \in 1..Len(d) : d[k].rid = r => DownFits(d[k], k, t, v, d, s2)
  BY <1>12
<1>20. \A j \in Slots : Holds(t, j, r) => SlotFits(t[j], j, v, d, s2)
  BY <1>13
<1> QED
  BY ONLY Linked(t, u, d, s), UpShorter(v, u), <1>6, <1>15, <1>16, <1>17, <1>18, <1>19, <1>20, SvHear

\* A message to the server names an opening channel only to confirm or to refuse it, and then
\* the server has said nothing on it.
LEMMA OpeningQuiet ==
    ASSUME NEW t, NEW u, NEW d, NEW s, Linked(t, u, d, s), NEW r \in Rids, s[r].state = "opening",
           ~Unnamed(u, r)
    PROVE  \A k \in 1..Len(d) : d[k].rid # r
<1> SUFFICES ASSUME NEW k \in 1..Len(d), d[k].rid = r PROVE FALSE
  OBVIOUS
<1>1. d[k].type \in InTypes
  BY TypesOf, MessageFields DEF Linked
<1>2. DownFits(d[k], k, t, u, d, s)
  BY DEF Linked, DownRight
<1>3. r # 0
  BY DEF Rids
<1> QED
  BY <1>1, <1>2, <1>3 DEF DownFits, Confirmed, InTypes, ChannelTypes

\* The x11 channel is confirmed.
LEMMA SvHearConfirm ==
    ASSUME NEW t, NEW u, NEW d, NEW s, Linked(t, u, d, s), NEW v, UpShorter(v, u),
           NEW m, m = u[1], m.type = "OPEN_CONFIRM", NEW r, r = m.ch, NEW b,
           b = [s[r] EXCEPT !.state = "open", !.slot = m.n, !.win = Window],
           NEW s2, s2 = [s EXCEPT ![r] = b]
    PROVE  r \in Rids /\ b \in SvChan /\ Linked(t, v, d, s2)
<1>1. /\ Typed(t, u, d, s) /\ s \in [Rids -> SvChan] /\ u \in Seq(UpMessage) /\ d \in Seq(DownMessage)
      /\ \A i \in Slots : t[i] \in Chan
  BY TypesOf DEF Linked
<1>2. /\ v \in Seq(UpMessage) /\ Len(v) \in Nat /\ Len(u) = Len(v) + 1 /\ 1 \in 1..Len(u)
      /\ \A k \in 1..Len(v) : k + 1 \in 1..Len(u) /\ v[k] = u[k + 1]
  BY DEF UpShorter
<1>3. UpFits(m, 1, t, u, s)
  BY <1>2 DEF Linked, UpRight
<1>4. r \in Rids /\ r # 0 /\ s[r].state = "opening" /\ m.n \in Slots /\ Holds(t, m.n, r)
  BY <1>3 DEF UpFits, Rids
<1>5. SvFits(s[r], r, t, u, d)
  BY <1>4 DEF Linked, SvRight
<1>6. /\ b.state = "open" /\ b.slot = m.n /\ b.win = Window /\ b.grant = SvWindow
      /\ b.got = 0 /\ b.sent = 0 /\ b.owed = -1 /\ s[r].got = 0 /\ s[r].sent = 0
      /\ s[r].grant = SvWindow
      /\ ~b.eof_in /\ ~b.close_in /\ ~s[r].eof_in /\ ~s[r].close_in
  BY <1>4, <1>5 DEF SvFits, SvNone
<1>7. b \in SvChan
  <2>1. Window \in Nat
    BY ChannelsAssumption
  <2> DEFINE c == s[r]
  <2>2. c \in SvChan /\ b = [c EXCEPT !.state = "open", !.slot = m.n, !.win = Window]
    BY <1>1, <1>4
  <2> HIDE DEF c
  <2> QED BY <2>1, <2>2, <1>4 DEF SvChan
<1>8. s2 \in [Rids -> SvChan] /\ s2[r] = b /\ \A x \in Rids : x # r => s2[x] = s[x]
  BY <1>1, <1>4, <1>7
<1>9. \A type \in {"DATA", "ADJUST"} : UpUnits(u, type, r) = UpUnits(v, type, r) /\ UpUnits(v, type, r) \in Nat
  <2>1. \A type \in {"DATA", "ADJUST"} : UpUnits(u, type, r) = UpUnits(v, type, r) + UpCounts(m, type, r)
    BY DEF UpShorter
  <2>2. \A type \in {"DATA", "ADJUST"} : UpCounts(m, type, r) = 0
    BY DEF UpCounts
  <2> QED BY <2>1, <2>2, <1>2, UnitsNat
<1>10. \A k \in 1..Len(v) : UpFollows(m, v[k])
  <2>1. \A k \in 1..Len(v) : 1 < k + 1
    BY <1>2
  <2> QED BY <2>1, <1>2 DEF Linked, UpOrder
<1>11. ASSUME NEW k \in 1..Len(v), v[k].type # "OPEN", v[k].ch = r
       PROVE  UpFits(v[k], k, t, v, s2)
  <2> DEFINE n == v[k]
  <2>1. UpFits(n, k + 1, t, u, s) /\ UpFollows(m, n) /\ n.ch = r /\ n.type # "OPEN"
    BY <1>2, <1>10, <1>11 DEF Linked, UpRight
  <2> HIDE DEF n
  <2>2. n.type \notin Outcomes /\ n.type # "REQUEST_FAILURE"
    BY <2>1, <1>4 DEF UpFits, UpFollows
  <2>3. /\ n.type = "DATA" => n.n <= MaxPacket
        /\ n.type = "EOF" \/ (n.type = "CLOSE" /\ n.x = "asked") => n.n = s[r].got + UpUnits(u, "DATA", r)
    BY <2>1 DEF UpFits
  <2>4. UpFits(n, k, t, v, s2)
    BY <2>1, <2>2, <2>3, <1>4, <1>6, <1>8, <1>9 DEF UpFits, Outcomes
  <2> QED BY <2>4 DEF n
<1>12. \A k \in 1..Len(d) : d[k].rid # r
  <2>1. ~Unnamed(u, r)
    BY <1>2 DEF Unnamed
  <2> QED BY <2>1, <1>4, OpeningQuiet
<1>13. ASSUME NEW j \in Slots, Holds(t, j, r) PROVE SlotFits(t[j], j, v, d, s2)
  <2> DEFINE a == t[j]
  <2>1. SlotFits(a, j, u, d, s) /\ a.state = "OPEN" /\ a.remote_id = r
    BY <1>13 DEF Linked, SlotsRight, Holds
  <2> HIDE DEF a
  <2>2. j = m.n
    BY <1>4, <1>13, HeldOnce
  <2>3. Bound(v, s2, j, r)
    BY <2>2, <1>6, <1>8 DEF Bound
  <2>4. Adds(a, v, d, b, r)
    <3>1. Adds(a, u, d, s[r], r)
      BY <2>1 DEF SlotFits
    <3> QED BY <3>1, <1>4, <1>6, <1>9 DEF Adds
  <2>5. \A type : Mute(u, type, r) => Mute(v, type, r)
    BY <1>2 DEF Mute
  <2>6. SlotFits(a, j, v, d, s2)
    BY <2>1, <2>3, <2>4, <2>5, <1>4, <1>6, <1>8 DEF SlotFits
  <2> QED BY <2>6 DEF a
<1>14. SvFits(s2[r], r, t, v, d)
  <2>1. UpUnits(v, "DATA", r) <= b.grant
    BY <1>5, <1>6, <1>9 DEF SvFits
  <2> QED BY <2>1, <1>4, <1>6, <1>8 DEF SvFits
<1>15. \A k \in 1..Len(v) : v[k].type # "OPEN" /\ v[k].ch = r => UpFits(v[k], k, t, v, s2)
  BY <1>11
<1>16. \A k \in 1..Len(d) : d[k].rid = r => DownFits(d[k], k, t, v, d, s2)
  BY <1>12
<1>17. \A j \in Slots : Holds(t, j, r) => SlotFits(t[j], j, v, d, s2)
  BY <1>13
<1>18. u[1].type \in {"OPEN_CONFIRM", "DATA", "ADJUST"} => u[1].ch = r
  OBVIOUS
<1>19. s2 \in [Rids -> SvChan] /\ \A x \in Rids : x # r => s2[x] = s[x]
  BY <1>8
<1>20. Linked(t, v, d, s2)
  BY ONLY Linked(t, u, d, s), UpShorter(v, u), <1>14, <1>15, <1>16, <1>17, <1>18, <1>19, SvHear
<1> QED
  BY <1>4, <1>7, <1>20

\* The x11 channel is refused.
LEMMA SvHearFail ==
    ASSUME NEW t, NEW u, NEW d, NEW s, Linked(t, u, d, s), NEW v, UpShorter(v, u),
           NEW m, m = u[1], m.type = "OPEN_FAIL", NEW r, r = m.ch, r # 0, NEW b,
           b = [SvNone EXCEPT !.state = "done"], NEW s2, s2 = [s EXCEPT ![r] = b]
    PROVE  r \in Rids /\ b \in SvChan /\ Linked(t, v, d, s2)
<1>1. Typed(t, u, d, s) /\ s \in [Rids -> SvChan]
  BY TypesOf DEF Linked
<1>2. /\ v \in Seq(UpMessage) /\ Len(v) \in Nat /\ Len(u) = Len(v) + 1 /\ 1 \in 1..Len(u)
      /\ \A k \in 1..Len(v) : k + 1 \in 1..Len(u) /\ v[k] = u[k + 1]
  BY DEF UpShorter
<1>3. UpFits(m, 1, t, u, s)
  BY <1>2 DEF Linked, UpRight
<1>4. r \in Rids /\ s[r].state = "opening" /\ Unheld(t, r)
  BY <1>3 DEF UpFits
<1>5. b \in SvChan /\ b.state = "done" /\ b.slot = 0 /\ b.owed = -1 /\ b.grant = 0
  <2>1. 0 \in 0..SvWindow
    BY ChannelsAssumption
  <2> QED BY <2>1 DEF SvChan, SvNone
<1>6. s2 \in [Rids -> SvChan] /\ s2[r] = b /\ \A x \in Rids : x # r => s2[x] = s[x]
  BY <1>1, <1>4, <1>5
<1>7. ASSUME NEW k \in 1..Len(v), v[k].ch = r PROVE v[k].type = "OPEN"
  <2>1. 1 < k + 1 /\ k + 1 \in 1..Len(u) /\ v[k] = u[k + 1]
    BY <1>2
  <2>2. UpFollows(m, v[k])
    BY <2>1, <1>2 DEF Linked, UpOrder
  <2> QED BY <2>2, <1>7 DEF UpFollows
<1>8. \A k \in 1..Len(d) : d[k].rid # r
  <2>1. ~Unnamed(u, r)
    BY <1>2 DEF Unnamed
  <2> QED BY <2>1, <1>4, OpeningQuiet
<1>9. SvFits(s2[r], r, t, v, d)
  <2>1. Unnamed(v, r)
    BY <1>7 DEF Unnamed
  <2>2. UpUnits(v, "DATA", r) <= b.grant
    BY <2>1, <1>2, <1>5, UnnamedUnits
  <2> QED BY <2>2, <1>5, <1>6 DEF SvFits
<1>10. \A k \in 1..Len(v) : v[k].type # "OPEN" /\ v[k].ch = r => UpFits(v[k], k, t, v, s2)
  BY <1>7
<1>11. \A k \in 1..Len(d) : d[k].rid = r => DownFits(d[k], k, t, v, d, s2)
  BY <1>8
<1>12. \A j \in Slots : Holds(t, j, r) => SlotFits(t[j], j, v, d, s2)
  BY <1>4 DEF Unheld
<1>13. u[1].type \in {"OPEN_CONFIRM", "DATA", "ADJUST"} => u[1].ch = r
  OBVIOUS
<1>14. s2 \in [Rids -> SvChan] /\ \A x \in Rids : x # r => s2[x] = s[x]
  BY <1>6
<1>15. Linked(t, v, d, s2)
  BY ONLY Linked(t, u, d, s), UpShorter(v, u), <1>9, <1>10, <1>11, <1>12, <1>13, <1>14, SvHear
<1> QED
  BY <1>4, <1>5, <1>15

\* The server says m: all else stays as it is, but for the channel r it is about.
LEMMA SvSay ==
    ASSUME NEW t, NEW u, NEW d, NEW s, Linked(t, u, d, s), NEW e, NEW m, DownLonger(e, d, m),
           NEW r, m.rid # 0 => m.rid = r,
           NEW s2 \in [Rids -> SvChan], \A x \in Rids : x # r => s2[x] = s[x],
           DownFits(m, Len(e), t, u, e, s2),
           \A k \in 1..Len(u) : u[k].type # "OPEN" /\ u[k].ch = r => UpFits(u[k], k, t, u, s2),
           \A k \in 1..Len(d) : d[k].rid = r => DownFits(d[k], k, t, u, e, s2) /\ DownFollows(d[k], m),
           \A j \in Slots : Holds(t, j, r) => SlotFits(t[j], j, u, e, s2),
           r \in Rids => SvFits(s2[r], r, t, u, e),
           m.type \in Outcomes =>
              /\ \A k \in 1..Len(u) : u[k].type = "OPEN" => u[k].ch # m.ch
              /\ \A k \in 1..Len(d) : d[k].type \in Outcomes => d[k].ch # m.ch
    PROVE  Linked(t, u, e, s2)
<1>1. Typed(t, u, d, s) /\ s \in [Rids -> SvChan]
  BY TypesOf DEF Linked
<1>2. /\ e \in Seq(DownMessage) /\ Len(d) \in Nat /\ Len(e) = Len(d) + 1 /\ e[Len(d) + 1] = m
      /\ \A k \in 1..Len(d) : k \in 1..Len(e) /\ e[k] = d[k]
      /\ \A k \in 1..Len(e) : k \notin 1..Len(d) => k = Len(e) /\ e[k] = m
  BY DEF DownLonger
<1>3. Typed(t, u, e, s2)
  BY <1>1, <1>2 DEF Typed
<1>4. \A x \in Rids : x # r => /\ DownUnits(e, "DATA", x) = DownUnits(d, "DATA", x)
                               /\ DownUnits(e, "ADJUST", x) = DownUnits(d, "ADJUST", x)
  <2> SUFFICES ASSUME NEW x \in Rids, x # r, NEW type
               PROVE  DownUnits(e, type, x) = DownUnits(d, type, x)
    OBVIOUS
  <2>1. x # 0 /\ m.rid # x
    BY DEF Rids
  <2>2. DownCounts(m, type, x) = 0
    BY <2>1 DEF DownCounts
  <2>3. DownUnits(e, type, x) = DownUnits(d, type, x) + DownCounts(m, type, x)
    BY DEF DownLonger
  <2>4. DownUnits(d, type, x) \in Nat
    BY <1>1, TypesOf
  <2> QED BY <2>2, <2>3, <2>4
<1>5. \A x, n : ConfirmsDown(d, n, x) /\ n \in 0..Len(d) => ConfirmsDown(e, n, x)
  BY <1>2 DEF ConfirmsDown
<1>6. UpRight(t, u, s2)
  <2> SUFFICES ASSUME NEW k \in 1..Len(u) PROVE UpFits(u[k], k, t, u, s2)
    BY DEF UpRight
  <2> DEFINE n == u[k]
  <2>1. UpFits(n, k, t, u, s)
    BY DEF Linked, UpRight
  <2>2. n.type # "OPEN" /\ n.ch = r => UpFits(n, k, t, u, s2)
    OBVIOUS
  <2> HIDE DEF n
  <2>3. ASSUME n.ch # r PROVE UpFits(n, k, t, u, s2)
    BY <2>1, <2>3 DEF UpFits, Talk
  <2>4. ASSUME n.type = "OPEN" PROVE UpFits(n, k, t, u, s2)
    BY <2>1, <2>4 DEF UpFits, Talk
  <2>5. UpFits(n, k, t, u, s2)
    BY <2>2, <2>3, <2>4
  <2> QED BY <2>5 DEF n
<1>7. DownRight(t, u, e, s2)
  <2> SUFFICES ASSUME NEW k \in 1..Len(e) PROVE DownFits(e[k], k, t, u, e, s2)
    BY DEF DownRight
  <2>1. ASSUME k \notin 1..Len(d) PROVE DownFits(e[k], k, t, u, e, s2)
    <3>1. k = Len(e) /\ e[k] = m
      BY <2>1, <1>2
    <3> QED BY <3>1
  <2>2. ASSUME k \in 1..Len(d) PROVE DownFits(e[k], k, t, u, e, s2)
    <3> DEFINE n == d[k]
    <3>1. DownFits(n, k, t, u, d, s) /\ e[k] = n
      BY <2>2, <1>2 DEF Linked, DownRight
    <3>2. n.rid = r => DownFits(n, k, t, u, e, s2)
      BY <2>2
    <3>3. k - 1 \in 0..Len(d)
      BY <2>2
    <3> HIDE DEF n
    <3>4. ASSUME n.rid # r PROVE DownFits(n, k, t, u, e, s2)
      <4>1. n.type = "OPEN_CONFIRM" => n.rid \in Rids /\ Confirmed(n.ch, n.rid, u, e, s2)
        BY <3>1, <3>4, <1>4 DEF DownFits, Confirmed
      <4>2. n.type = "OPEN" /\ n.rid # 0 => n.rid \in Rids
        <5>1. d[k] \in DownMessage
          BY <2>2, TypesOf DEF Linked
        <5> QED BY <5>1, MessageFields DEF n
      <4>3. ConfirmsDown(d, k - 1, n.rid) => ConfirmsDown(e, k - 1, n.rid)
        BY <3>3, <1>5
      <4>4. n.type = "CLOSE" => n.type \in ChannelTypes
        BY DEF ChannelTypes
      <4> QED BY <3>1, <3>4, <4>1, <4>2, <4>3, <4>4 DEF DownFits
    <3>5. DownFits(n, k, t, u, e, s2)
      BY <3>2, <3>4
    <3> QED BY <3>1, <3>5
  <2> QED BY <2>1, <2>2
<1>8. DownOrder(e)
  <2> SUFFICES ASSUME NEW j \in 1..Len(e), NEW k \in 1..Len(e), j < k PROVE DownFollows(e[j], e[k])
    BY DEF DownOrder
  <2>1. j \in 1..Len(d) /\ e[j] = d[j]
    BY <1>2
  <2>2. CASE k \in 1..Len(d)
    BY <2>1, <2>2, <1>2 DEF Linked, DownOrder
  <2>3. CASE k \notin 1..Len(d)
    <3>1. e[k] = m
      BY <2>3, <1>2
    <3>2. d[j].rid = m.rid /\ m.rid # 0 => DownFollows(d[j], m)
      BY <2>1
    <3> QED BY <2>1, <3>1, <3>2 DEF DownFollows
  <2> QED BY <2>2, <2>3
<1>9. OneOutcome(u, e)
  <2>1. OneOutcome(u, d)
    BY DEF Linked
  <2>2. ASSUME NEW j \in 1..Len(e), NEW k \in 1..Len(e), e[j].type \in Outcomes, e[k].type \in Outcomes,
               e[j].ch = e[k].ch
        PROVE  j = k
    <3>1. CASE j \in 1..Len(d) /\ k \in 1..Len(d)
      BY <2>1, <2>2, <3>1, <1>2 DEF OneOutcome
    <3>2. CASE j \in 1..Len(d) /\ k \notin 1..Len(d)
      BY <2>2, <3>2, <1>2
    <3>3. CASE j \notin 1..Len(d) /\ k \in 1..Len(d)
      BY <2>2, <3>3, <1>2
    <3>4. CASE j \notin 1..Len(d) /\ k \notin 1..Len(d)
      BY <3>4, <1>2
    <3> QED BY <3>1, <3>2, <3>3, <3>4
  <2>3. ASSUME NEW j \in 1..Len(u), NEW k \in 1..Len(e), u[j].type = "OPEN", e[k].type \in Outcomes
        PROVE  u[j].ch # e[k].ch
    <3>1. CASE k \in 1..Len(d)
      BY <2>1, <2>3, <3>1, <1>2 DEF OneOutcome
    <3>2. CASE k \notin 1..Len(d)
      BY <2>3, <3>2, <1>2
    <3> QED BY <3>1, <3>2
  <2> QED BY <2>1, <2>2, <2>3 DEF OneOutcome
<1>10. SlotsRight(t, u, e, s2)
  <2> SUFFICES ASSUME NEW j \in Slots PROVE SlotFits(t[j], j, u, e, s2)
    BY DEF SlotsRight
  <2> DEFINE b == t[j]
             x == b.remote_id
  <2>1. SlotFits(b, j, u, d, s)
    BY DEF Linked, SlotsRight
  <2>2. b.state = "OPEN" /\ x = r => SlotFits(b, j, u, e, s2)
    BY DEF Holds
  <2>3. ASSUME b.state = "OPEN", x # r PROVE SlotFits(b, j, u, e, s2)
    <3>1. x \in Rids /\ s2[x] = s[x]
      BY <2>1, <2>3 DEF SlotFits
    <3>2. Bound(u, s, j, x) => Bound(u, s2, j, x)
      BY <3>1 DEF Bound
    <3>3. Adds(b, u, d, s[x], x) => Adds(b, u, e, s2[x], x)
      BY <3>1, <1>4, <2>3 DEF Adds
    <3>4. b.remote_id = x
      OBVIOUS
    <3> HIDE DEF b, x
    <3> QED BY <2>1, <2>3, <3>1, <3>2, <3>3, <3>4 DEF SlotFits
  <2>4. ASSUME b.state # "OPEN" PROVE SlotFits(b, j, u, e, s2)
    <3> HIDE DEF b
    <3> QED BY <2>1, <2>4 DEF SlotFits
  <2> QED BY <2>2, <2>3, <2>4
<1>11. SvRight(t, u, e, s2)
  <2> SUFFICES ASSUME NEW x \in Rids PROVE SvFits(s2[x], x, t, u, e)
    BY DEF SvRight
  <2>1. CASE x = r
    BY <2>1
  <2>2. CASE x # r
    <3> DEFINE b == s[x]
    <3>1. SvFits(b, x, t, u, d) /\ s2[x] = b
      BY <2>2 DEF Linked, SvRight
    <3>2. ConfirmsDown(d, Len(d), x) => ConfirmsDown(e, Len(e), x)
      BY <1>2 DEF ConfirmsDown
    <3> HIDE DEF b
    <3>3. SvFits(b, x, t, u, e)
      BY <3>1, <3>2 DEF SvFits
    <3> QED BY <3>1, <3>3
  <2> QED BY <2>1, <2>2
<1>12. UpOrder(u)
  BY DEF Linked
<1> QED
  BY <1>3, <1>6, <1>7, <1>8, <1>9, <1>10, <1>11, <1>12 DEF Linked

\* The channel c of the server, having said m, is b.
Speaks(b, c, m) ==
    /\ c.state = "open" /\ ~c.close_out
    /\ b.state = (IF m.type = "CLOSE" /\ c.close_in THEN "done" ELSE "open")
    /\ b.slot = c.slot /\ b.got = c.got /\ b.owed = c.owed
    /\ b.eof_in = c.eof_in /\ b.close_in = c.close_in
    /\ m.type = "CLOSE" => b.close_out
    /\ c.win = b.win + (IF m.type = "DATA" THEN m.n ELSE 0)
    /\ b.sent = c.sent + (IF m.type = "DATA" THEN m.n ELSE 0)
    /\ b.grant = c.grant + (IF m.type = "ADJUST" THEN m.n ELSE 0)

\* On a channel that is open the server says what the protocol allows.
LEMMA SvTalk ==
    ASSUME NEW t, NEW u, NEW d, NEW s, Linked(t, u, d, s), NEW e, NEW m, DownLonger(e, d, m),
           NEW r \in Rids, m.rid = r, m.type \in ChannelTypes, m.ch = s[r].slot,
           NEW c, c = s[r], NEW b \in SvChan, Speaks(b, c, m), NEW s2, s2 = [s EXCEPT ![r] = b]
    PROVE  Linked(t, u, e, s2)
<1> USE DEF Speaks
<1>1. /\ Typed(t, u, d, s) /\ s \in [Rids -> SvChan] /\ u \in Seq(UpMessage) /\ d \in Seq(DownMessage)
      /\ c \in SvChan /\ r # 0 /\ m.n \in Nat
  <2>1. m \in DownMessage
    BY DEF DownLonger
  <2> QED BY <2>1, TypesOf, MessageFields DEF Linked, Rids
<1>2. s2 \in [Rids -> SvChan] /\ s2[r] = b /\ \A x \in Rids : x # r => s2[x] = s[x]
  BY <1>1
<1>3. /\ Len(d) \in Nat /\ Len(e) = Len(d) + 1 /\ e[Len(d) + 1] = m
      /\ \A k \in 1..Len(d) : k \in 1..Len(e) /\ e[k] = d[k]
  BY DEF DownLonger
<1>4. SvFits(c, r, t, u, d)
  BY DEF Linked, SvRight
<1>5. c.slot \in Slots /\ (Holds(t, c.slot, r) \/ ConfirmsDown(d, Len(d), r))
  BY <1>4 DEF SvFits
<1>6. /\ c.win \in Nat /\ c.grant \in Nat /\ c.sent \in Nat /\ c.got \in Nat /\ c.owed \in Nat \cup {-1}
      /\ b.win \in Nat /\ b.grant \in Nat /\ b.sent \in Nat /\ b.got \in Nat
      /\ {c.eof_in, c.close_in, b.eof_in, b.close_in} \subseteq BOOLEAN
  <2>1. SvWindow \in Nat
    BY ChannelsAssumption
  <2> QED BY <2>1, <1>1, SvFields
<1>7. /\ DownUnits(e, "DATA", r) = DownUnits(d, "DATA", r) + (IF m.type = "DATA" THEN m.n ELSE 0)
      /\ DownUnits(e, "ADJUST", r) = DownUnits(d, "ADJUST", r) + (IF m.type = "ADJUST" THEN m.n ELSE 0)
      /\ DownUnits(d, "DATA", r) \in Nat /\ DownUnits(d, "ADJUST", r) \in Nat
  <2>1. /\ DownUnits(e, "DATA", r) = DownUnits(d, "DATA", r) + DownCounts(m, "DATA", r)
        /\ DownUnits(e, "ADJUST", r) = DownUnits(d, "ADJUST", r) + DownCounts(m, "ADJUST", r)
    BY DEF DownLonger
  <2> QED BY <2>1, <1>1, UnitsNat DEF DownCounts
<1>8. ASSUME NEW k \in 1..Len(u), u[k].type # "OPEN", u[k].ch = r PROVE UpFits(u[k], k, t, u, s2)
  <2> DEFINE n == u[k]
  <2>1. UpFits(n, k, t, u, s) /\ n.ch = r /\ n.type # "OPEN"
    BY <1>8 DEF Linked, UpRight
  <2> HIDE DEF n
  <2>2. n.type \notin Outcomes /\ n.type # "REQUEST_FAILURE"
    BY <2>1, <1>1 DEF UpFits, Outcomes
  <2>3. n.type \in Talk => b.state # "done"
    BY <2>1 DEF UpFits
  <2>4. b.state \in {"open", "done"}
    OBVIOUS
  <2>5. UpFits(n, k, t, u, s2)
    BY <2>1, <2>2, <2>3, <2>4, <1>2 DEF UpFits, Outcomes
  <2> QED BY <2>5 DEF n
<1>9. ASSUME NEW k \in 1..Len(d), d[k].rid = r
      PROVE  DownFits(d[k], k, t, u, e, s2) /\ DownFollows(d[k], m)
  <2> DEFINE n == d[k]
  <2>1. DownFits(n, k, t, u, d, s) /\ n.rid = r
    BY <1>9 DEF Linked, DownRight
  <2> HIDE DEF n
  <2>2. n.type \notin {"OPEN", "OPEN_FAIL", "CLOSE"}
    BY <2>1, <1>1 DEF DownFits
  <2>3. ConfirmsDown(d, k - 1, r) => ConfirmsDown(e, k - 1, r)
    BY <1>3 DEF ConfirmsDown
  <2>4. ASSUME Confirmed(n.ch, r, u, d, s) PROVE Confirmed(n.ch, r, u, e, s2)
    <3>1. /\ c.slot = n.ch /\ Unnamed(u, r) /\ c.win + DownUnits(d, "DATA", r) = Window
          /\ SvWindow + DownUnits(d, "ADJUST", r) = c.grant
          /\ c.sent = DownUnits(d, "DATA", r) /\ c.got = 0 /\ ~c.eof_in /\ ~c.close_in
      BY <2>4 DEF Confirmed
    <3>2. b.win + DownUnits(e, "DATA", r) = Window /\ b.sent = DownUnits(e, "DATA", r)
      BY <3>1, <1>1, <1>6, <1>7
    <3>3. SvWindow + DownUnits(e, "ADJUST", r) = b.grant
      <4>1. SvWindow \in Nat
        BY ChannelsAssumption
      <4> QED BY <4>1, <3>1, <1>1, <1>6, <1>7
    <3>4. b.state = "open"
      BY <3>1
    <3> QED BY <3>1, <3>2, <3>3, <3>4, <1>2 DEF Confirmed
  <2>5. n.type = "OPEN_CONFIRM" => Confirmed(n.ch, r, u, e, s2)
    BY <2>1, <2>4 DEF DownFits
  <2>6. n.type \in ChannelTypes => b.slot = n.ch /\ b.state \in {"open", "done"}
    BY <2>1 DEF DownFits
  <2>7. DownFits(n, k, t, u, e, s2)
    BY <2>1, <2>2, <2>3, <2>5, <2>6, <1>1, <1>2 DEF DownFits
  <2>8. DownFollows(n, m)
    BY <2>2 DEF DownFollows, ChannelTypes
  <2> QED BY <2>7, <2>8 DEF n
<1>10. DownFits(m, Len(e), t, u, e, s2)
  <2>1. ConfirmsDown(d, Len(d), r) => ConfirmsDown(e, Len(e) - 1, r)
    BY <1>3 DEF ConfirmsDown
  <2>2. b.state \in {"open", "done"}
    OBVIOUS
  <2> QED BY <2>1, <2>2, <1>2, <1>5 DEF DownFits, ChannelTypes
<1>11. ASSUME NEW j \in Slots, Holds(t, j, r) PROVE SlotFits(t[j], j, u, e, s2)
  <2> DEFINE a == t[j]
  <2>1. SlotFits(a, j, u, d, s) /\ a.state = "OPEN" /\ a.remote_id = r /\ a \in Chan
    BY <1>1, <1>11 DEF Linked, SlotsRight, Holds, Typed
  <2> HIDE DEF a
  <2>2. a.remote_window \in Nat /\ a.local_window \in Nat /\ a.x11_pending \in Nat /\ a.surfaced \in Nat
    BY <2>1, ChanFields
  <2>3. Bound(u, s2, j, r)
    <3>1. c.slot = j
      BY <2>1 DEF SlotFits, Bound
    <3> QED BY <3>1, <1>2 DEF Bound
  <2>4. Adds(a, u, e, b, r)
    <3>1. Adds(a, u, d, c, r)
      BY <2>1 DEF SlotFits
    <3> DEFINE dd == DownUnits(d, "DATA", r)
               da == DownUnits(d, "ADJUST", r)
               ud == UpUnits(u, "DATA", r)
               ua == UpUnits(u, "ADJUST", r)
               nd == IF m.type = "DATA" THEN m.n ELSE 0
               na == IF m.type = "ADJUST" THEN m.n ELSE 0
    <3>2. dd \in Nat /\ da \in Nat /\ ud \in Nat /\ ua \in Nat /\ nd \in Nat /\ na \in Nat
      BY <1>1, UnitsNat
    <3>3. /\ c.win + dd + ua = a.local_window /\ a.remote_window + da + ud = c.grant
          /\ a.written = a.out + ud + c.got /\ c.sent = dd + a.x11_pending + a.surfaced
      BY <3>1 DEF Adds
    <3>4. /\ c.win = b.win + nd /\ b.got = c.got /\ b.grant = c.grant + na /\ b.sent = c.sent + nd
          /\ DownUnits(e, "DATA", r) = dd + nd /\ DownUnits(e, "ADJUST", r) = da + na
      BY <1>7
    <3> HIDE DEF dd, da, ud, ua, nd, na
    <3>5. b.win + (dd + nd) + ua = a.local_window
      BY ONLY <3>2, <3>3, <3>4, <1>6
    <3>6. a.remote_window + (da + na) + ud = b.grant
      <4>1. a.remote_window \in Nat /\ a.remote_window + da + ud = c.grant /\ b.grant = c.grant + na
        BY <2>2, <3>3, <3>4
      <4> QED BY ONLY <4>1, <3>2
    <3>7. b.sent = (dd + nd) + a.x11_pending + a.surfaced
      <4>1. /\ a.x11_pending \in Nat /\ a.surfaced \in Nat /\ c.sent = dd + a.x11_pending + a.surfaced
            /\ b.sent = c.sent + nd
        BY <2>2, <3>3, <3>4
      <4> QED BY ONLY <4>1, <3>2
    <3>8. b.state # "opening" /\ a.written = a.out + ud + b.got
      BY <3>3, <3>4
    <3> QED BY <3>4, <3>5, <3>6, <3>7, <3>8 DEF Adds, ud, ua
  <2>5. SlotFits(a, j, u, e, s2)
    BY <2>1, <2>3, <2>4, <1>2 DEF SlotFits
  <2> QED BY <2>5 DEF a
<1>12. SvFits(s2[r], r, t, u, e)
  <2>1. b.state = "open" \/ (b.state = "done" /\ b.close_in /\ b.close_out)
    BY <1>6
  <2>2. ConfirmsDown(d, Len(d), r) => ConfirmsDown(e, Len(e), r)
    BY <1>3 DEF ConfirmsDown
  <2>3. UpUnits(u, "DATA", r) <= b.grant
    <3>1. UpUnits(u, "DATA", r) <= c.grant /\ UpUnits(u, "DATA", r) \in Nat
      BY <1>1, <1>4, UnitsNat DEF SvFits
    <3>2. c.grant <= b.grant
      BY <1>1, <1>6
    <3> QED BY <3>1, <3>2, <1>6
  <2>4. b.owed # -1 => b.got = b.owed /\ (b.eof_in \/ b.close_in)
    BY <1>4 DEF SvFits
  <2> QED BY <2>1, <2>2, <2>3, <2>4, <1>2, <1>5 DEF SvFits
<1>13. \A k \in 1..Len(u) : u[k].type # "OPEN" /\ u[k].ch = r => UpFits(u[k], k, t, u, s2)
  BY <1>8
<1>14. \A k \in 1..Len(d) : d[k].rid = r => DownFits(d[k], k, t, u, e, s2) /\ DownFollows(d[k], m)
  BY <1>9
<1>15. \A j \in Slots : Holds(t, j, r) => SlotFits(t[j], j, u, e, s2)
  BY <1>11
<1>16. m.rid # 0 => m.rid = r
  OBVIOUS
<1>17. m.type \in Outcomes =>
          /\ \A k \in 1..Len(u) : u[k].type = "OPEN" => u[k].ch # m.ch
          /\ \A k \in 1..Len(d) : d[k].type \in Outcomes => d[k].ch # m.ch
  BY DEF Outcomes, ChannelTypes
<1>18. s2 \in [Rids -> SvChan] /\ \A x \in Rids : x # r => s2[x] = s[x]
  BY <1>2
<1> QED
  BY ONLY Linked(t, u, d, s), DownLonger(e, d, m),
          <1>10, <1>12, <1>13, <1>14, <1>15, <1>16, <1>17, <1>18, SvSay

\* Nothing is said, and no slot used, of a channel that has yet to be.
LEMMA NoneQuiet ==
    ASSUME NEW t, NEW u, NEW d, NEW s, Linked(t, u, d, s), NEW r \in Rids, s[r].state = "none"
    PROVE  Unnamed(u, r) /\ Unheld(t, r) /\ \A k \in 1..Len(d) : d[k].rid # r
<1>1. r # 0
  BY DEF Rids
<1>2. ASSUME NEW k \in 1..Len(u), u[k].type # "OPEN", u[k].ch = r PROVE FALSE
  <2>1. u[k].type \in OutTypes /\ Len(u) \in Nat
    BY TypesOf, MessageFields DEF Linked
  <2>2. UpFits(u[k], k, t, u, s)
    BY DEF Linked, UpRight
  <2>3. ConfirmsUp(u, k - 1, r)
    BY <1>1, <1>2, <2>1, <2>2 DEF UpFits, OutTypes, Talk
  <2>4. PICK j \in 1..(k - 1) : u[j].type = "OPEN_CONFIRM" /\ u[j].ch = r
    BY <2>3 DEF ConfirmsUp
  <2>5. j \in 1..Len(u)
    BY <2>1
  <2>6. UpFits(u[j], j, t, u, s)
    BY <2>5 DEF Linked, UpRight
  <2> QED BY <2>4, <2>6 DEF UpFits
<1>3. ASSUME NEW i \in Slots, Holds(t, i, r) PROVE FALSE
  <2>1. SlotFits(t[i], i, u, d, s)
    BY DEF Linked, SlotsRight
  <2>2. Bound(u, s, i, r)
    BY <2>1, <1>3 DEF SlotFits, Holds
  <2> QED BY <2>2 DEF Bound
<1>4. ASSUME NEW k \in 1..Len(d), d[k].rid = r PROVE FALSE
  <2>1. d[k].type \in InTypes
    BY TypesOf, MessageFields DEF Linked
  <2>2. DownFits(d[k], k, t, u, d, s)
    BY DEF Linked, DownRight
  <2> QED BY <2>1, <2>2, <1>1, <1>4 DEF DownFits, Confirmed, InTypes, ChannelTypes
<1> QED
  BY <1>2, <1>3, <1>4 DEF Unnamed, Unheld

\* The server begins a channel, with the message m.
LEMMA SvFounds ==
    ASSUME NEW t, NEW u, NEW d, NEW s, Linked(t, u, d, s), NEW e, NEW m, DownLonger(e, d, m),
           NEW r \in Rids, m.rid = r, s[r].state = "none", NEW b \in SvChan,
           NEW s2, s2 = [s EXCEPT ![r] = b],
           DownFits(m, Len(e), t, u, e, s2), SvFits(b, r, t, u, e),
           m.type \in Outcomes =>
              /\ \A k \in 1..Len(u) : u[k].type = "OPEN" => u[k].ch # m.ch
              /\ \A k \in 1..Len(d) : d[k].type \in Outcomes => d[k].ch # m.ch
    PROVE  Linked(t, u, e, s2)
<1>1. s \in [Rids -> SvChan]
  BY TypesOf DEF Linked
<1>2. s2 \in [Rids -> SvChan] /\ \A x \in Rids : x # r => s2[x] = s[x]
  BY <1>1
<1>3. SvFits(s2[r], r, t, u, e)
  BY <1>1
<1>4. Unnamed(u, r) /\ Unheld(t, r) /\ \A k \in 1..Len(d) : d[k].rid # r
  BY NoneQuiet
<1>5. \A k \in 1..Len(u) : u[k].type # "OPEN" /\ u[k].ch = r => UpFits(u[k], k, t, u, s2)
  BY <1>4 DEF Unnamed
<1>6. \A k \in 1..Len(d) : d[k].rid = r => DownFits(d[k], k, t, u, e, s2) /\ DownFollows(d[k], m)
  BY <1>4
<1>7. \A j \in Slots : Holds(t, j, r) => SlotFits(t[j], j, u, e, s2)
  BY <1>4 DEF Unheld
<1>8. m.rid # 0 => m.rid = r
  OBVIOUS
<1>9. DownFits(m, Len(e), t, u, e, s2)
  OBVIOUS
<1>10. m.type \in Outcomes =>
          /\ \A k \in 1..Len(u) : u[k].type = "OPEN" => u[k].ch # m.ch
          /\ \A k \in 1..Len(d) : d[k].type \in Outcomes => d[k].ch # m.ch
  OBVIOUS
<1> QED
  BY ONLY Linked(t, u, d, s), DownLonger(e, d, m),
          <1>2, <1>3, <1>5, <1>6, <1>7, <1>8, <1>9, <1>10, SvSay

\* It opens an x11 channel.
LEMMA SvOpens ==
    ASSUME NEW t, NEW u, NEW d, NEW s, Linked(t, u, d, s), NEW e, NEW m, DownLonger(e, d, m),
           NEW r \in Rids, m.rid = r, s[r].state = "none", m.type = "OPEN", m.n = SvWindow,
           NEW cookie \in {"none", "right", "wrong"}, NEW b,
           b = [SvNone EXCEPT !.state = "opening", !.cookie = cookie, !.grant = SvWindow],
           NEW s2, s2 = [s EXCEPT ![r] = b]
    PROVE  b \in SvChan /\ Linked(t, u, e, s2)
<1>1. s \in [Rids -> SvChan] /\ u \in Seq(UpMessage) /\ SvWindow \in Nat /\ r # 0
  BY TypesOf, ChannelsAssumption DEF Linked, Rids
<1>2. /\ b \in SvChan /\ b.state = "opening" /\ b.cookie = cookie /\ b.grant = SvWindow /\ b.owed = -1
      /\ b = [SvNone EXCEPT !.state = "opening", !.cookie = b.cookie, !.grant = SvWindow]
  <2>1. SvWindow \in 0..SvWindow /\ 0 \in Nat /\ 0 \in Slots \cup {0} /\ -1 \in Nat \cup {-1}
    BY <1>1
  <2>2. b \in SvChan
    BY <2>1 DEF SvChan, SvNone
  <2>3. b.state = "opening" /\ b.cookie = cookie /\ b.grant = SvWindow /\ b.owed = -1
    BY DEF SvNone
  <2> QED BY <2>2, <2>3
<1>3. s2[r] = b
  BY <1>1
<1>4. Unnamed(u, r) /\ Unheld(t, r)
  BY NoneQuiet
<1>5. DownFits(m, Len(e), t, u, e, s2)
  BY <1>1, <1>2, <1>3, <1>4 DEF DownFits, ChannelTypes
<1>6. UpUnits(u, "DATA", r) <= b.grant
  BY <1>1, <1>2, <1>4, UnnamedUnits
<1>7. SvFits(b, r, t, u, e)
  BY <1>2, <1>6 DEF SvFits
<1>8. m.type \notin Outcomes
  BY DEF Outcomes
<1> QED
  BY <1>2, <1>5, <1>7, <1>8, SvFounds

\* It confirms a channel of the client's.
LEMMA SvConfirms ==
    ASSUME NEW t, NEW u, NEW d, NEW s, Linked(t, u, d, s), NEW e, NEW m, DownLonger(e, d, m),
           NEW r \in Rids, m.rid = r, s[r].state = "none", m.type = "OPEN_CONFIRM", m.n = SvWindow,
           NEW i \in Slots, m.ch = i, t[i].state = "OPENING",
           \A k \in 1..Len(u) : u[k].type = "OPEN" => u[k].ch # i,
           \A k \in 1..Len(d) : d[k].type \in Outcomes => d[k].ch # i, NEW b,
           b = [SvNone EXCEPT !.state = "open", !.slot = i, !.win = Window, !.grant = SvWindow],
           NEW s2, s2 = [s EXCEPT ![r] = b]
    PROVE  b \in SvChan /\ Linked(t, u, e, s2)
<1>1. /\ s \in [Rids -> SvChan] /\ u \in Seq(UpMessage) /\ d \in Seq(DownMessage)
      /\ SvWindow \in Nat /\ Window \in Nat
  BY TypesOf, ChannelsAssumption DEF Linked
<1>2. /\ b \in SvChan /\ b.state = "open" /\ b.slot = i /\ b.win = Window /\ b.grant = SvWindow
      /\ b.owed = -1 /\ b.sent = 0 /\ b.got = 0 /\ ~b.eof_in /\ ~b.close_in
  <2>1. SvWindow \in 0..SvWindow /\ 0 \in Nat /\ i \in Slots \cup {0} /\ -1 \in Nat \cup {-1}
    BY <1>1
  <2>2. b \in SvChan
    BY <2>1, <1>1 DEF SvChan, SvNone
  <2>3. /\ b.state = "open" /\ b.slot = i /\ b.win = Window /\ b.grant = SvWindow
        /\ b.owed = -1 /\ b.sent = 0 /\ b.got = 0 /\ ~b.eof_in /\ ~b.close_in
    BY DEF SvNone
  <2> QED BY <2>2, <2>3
<1>3. s2[r] = b
  BY <1>1
<1>4. Unnamed(u, r) /\ Unheld(t, r) /\ \A k \in 1..Len(d) : d[k].rid # r
  BY NoneQuiet
<1>5. DownUnits(e, "DATA", r) = 0 /\ DownUnits(e, "ADJUST", r) = 0
  <2>1. DownUnits(d, "DATA", r) = 0 /\ DownUnits(d, "ADJUST", r) = 0
    BY <1>1, <1>4, UnitsNat
  <2>2. DownCounts(m, "DATA", r) = 0 /\ DownCounts(m, "ADJUST", r) = 0
    BY DEF DownCounts
  <2>3. \A type : DownUnits(e, type, r) = DownUnits(d, type, r) + DownCounts(m, type, r)
    BY DEF DownLonger
  <2> QED BY <2>1, <2>2, <2>3
<1>6. Confirmed(i, r, u, e, s2)
  BY <1>1, <1>2, <1>3, <1>4, <1>5 DEF Confirmed
<1>7. DownFits(m, Len(e), t, u, e, s2)
  BY <1>4, <1>6 DEF DownFits, ChannelTypes
<1>8. UpUnits(u, "DATA", r) <= b.grant
  BY <1>1, <1>2, <1>4, UnnamedUnits
<1>9. ConfirmsDown(e, Len(e), r)
  BY DEF ConfirmsDown, DownLonger
<1>10. SvFits(b, r, t, u, e)
  BY <1>2, <1>8, <1>9 DEF SvFits
<1>11. m.type \in Outcomes =>
          /\ \A k \in 1..Len(u) : u[k].type = "OPEN" => u[k].ch # m.ch
          /\ \A k \in 1..Len(d) : d[k].type \in Outcomes => d[k].ch # m.ch
  OBVIOUS
<1>12. b \in SvChan
  BY <1>2
<1>13. m.rid = r /\ s[r].state = "none" /\ s2 = [s EXCEPT ![r] = b]
  OBVIOUS
<1>14. Linked(t, u, e, s2)
  BY ONLY Linked(t, u, d, s), DownLonger(e, d, m), r \in Rids, <1>7, <1>10, <1>11, <1>12, <1>13, SvFounds
<1> QED
  BY <1>12, <1>14

\* It says something about none of its channels.
LEMMA SvSayOnly ==
    ASSUME NEW t, NEW u, NEW d, NEW s, Linked(t, u, d, s), NEW e, NEW m, DownLonger(e, d, m),
           m.rid = 0,
           \/ m.type \in {"KEXINIT", "KEX_REPLY", "GLOBAL_REQUEST"}
           \/ m.type = "OPEN" /\ m.n = SvWindow /\ m.x # "x11"
           \/ /\ m.type = "OPEN_FAIL" /\ m.ch \in Slots /\ t[m.ch].state = "OPENING"
              /\ \A k \in 1..Len(u) : u[k].type = "OPEN" => u[k].ch # m.ch
              /\ \A k \in 1..Len(d) : d[k].type \in Outcomes => d[k].ch # m.ch
    PROVE  Linked(t, u, e, s)
<1>1. Typed(t, u, d, s) /\ s \in [Rids -> SvChan]
  BY TypesOf DEF Linked
<1> DEFINE r == -1
<1>2. \A k \in 1..Len(u) : u[k].ch # r
  <2>1. \A k \in 1..Len(u) : u[k].ch \in Nat
    BY <1>1, TypesOf, MessageFields
  <2> QED BY <2>1
<1>3. \A k \in 1..Len(d) : d[k].rid # r
  <2>1. \A k \in 1..Len(d) : d[k].rid \in Rids \cup {0}
    BY <1>1, TypesOf, MessageFields
  <2> QED BY <2>1 DEF Rids
<1>4. \A j \in Slots : ~Holds(t, j, r)
  <2>1. \A j \in Slots : t[j].remote_id \in Rids \cup {0}
    BY <1>1, TypesOf, ChanFields
  <2> QED BY <2>1 DEF Holds, Rids
<1>5. r \notin Rids
  BY DEF Rids
<1>6. DownFits(m, Len(e), t, u, e, s)
  BY DEF DownFits, ChannelTypes
<1>7. m.type \in Outcomes =>
          /\ \A k \in 1..Len(u) : u[k].type = "OPEN" => u[k].ch # m.ch
          /\ \A k \in 1..Len(d) : d[k].type \in Outcomes => d[k].ch # m.ch
  BY DEF Outcomes
<1>8. m.rid # 0 => m.rid = r
  OBVIOUS
<1> HIDE DEF r
<1> QED
  BY <1>1, <1>2, <1>3, <1>4, <1>5, <1>6, <1>7, <1>8, SvSay

-----------------------------------------------------------------------------
(* The steps of the system *)

EventType == [type : {"OPEN", "OPEN_FAILED", "X11_OPEN", "CLOSE"}, ch : Slots]
\* What ChannelsInv says of the rest of the state.
Plain ==
    /\ x11_active \in BOOLEAN /\ closed \in BOOLEAN /\ locked \in BOOLEAN /\ busy \in BOOLEAN
    /\ ~closed /\ err = "none"
    /\ c2s \in Seq(UpMessage) /\ deferred \in Seq(UpMessage) /\ events \in Seq(EventType)
    /\ ~locked => deferred = <<>>
    /\ sv \in [kex : BOOLEAN, accused : {"none", Late}, ch : [Rids -> SvChan]]
    /\ left \in Load /\ left.slots \in Slots
Links == Linked(chan, c2s \o deferred, s2c, sv.ch)
\* Between two chunks, outside a key exchange, nothing is held back.
Rested == ~busy /\ ~locked => \A i \in Slots : Emptied(chan[i])

\* The parts of the invariant.
LEMMA Parts == ChannelsInv <=> Plain /\ Links /\ Rested
<1>1. ASSUME ChannelsInv PROVE Plain /\ Links /\ Rested
  <2>1. /\ x11_active \in BOOLEAN /\ closed \in BOOLEAN /\ locked \in BOOLEAN /\ busy \in BOOLEAN
        /\ c2s \in Seq(UpMessage) /\ deferred \in Seq(UpMessage) /\ events \in Seq(EventType)
        /\ ~locked => deferred = <<>>
    BY <1>1 DEF ChannelsInv, TypeOK, EventType
  <2>2. Plain
    BY <1>1, <2>1 DEF ChannelsInv, Plain
  <2> QED BY <1>1, <2>2 DEF ChannelsInv, Links, Rested
<1>2. ASSUME Plain, Links, Rested PROVE ChannelsInv
  <2>1. chan \in [Slots -> Chan] /\ s2c \in Seq(DownMessage)
    BY <1>2, TypesOf DEF Links, Linked
  <2>2. TypeOK
    BY <1>2, <2>1 DEF Plain, TypeOK, EventType
  <2> QED BY <1>2, <2>2 DEF Plain, Links, Rested, ChannelsInv
<1> QED
  BY <1>1, <1>2

\* A slot not in use has its type.
LEMMA FreeType ==
    /\ FreeChan \in Chan /\ FreeChan.state = "FREE" /\ FreeChan.out = 0 /\ FreeChan.written = 0
    /\ FreeChan.remote_id = 0 /\ FreeChan.surfaced = 0 /\ FreeChan.x11_pending = 0
    /\ FreeChan.eof_sent = FALSE /\ FreeChan.close_sent = FALSE /\ FreeChan.close_recv = FALSE
    /\ FreeChan.want_eof = FALSE /\ FreeChan.want_close = FALSE
<1>1. Window \in Nat /\ Backlog \in Nat /\ WindowLimit \in Nat
  BY ChannelsAssumption
<1>2. FreeChan \in Chan
  BY <1>1 DEF FreeChan, Chan
<1> QED
  BY <1>2 DEF FreeChan

\* In an initial state nothing is under way and no channel is in use.
LEMMA InitLinks == Init => ChannelsInv
<1> SUFFICES ASSUME Init PROVE ChannelsInv
  OBVIOUS
<1>1. /\ NumSlots \in Nat \ {0} /\ Window \in Nat /\ Backlog \in Nat /\ WindowLimit \in Nat
      /\ SvWindow \in Nat /\ Loads \subseteq Load /\ \A load \in Loads : load.slots \in 1..NumSlots
  BY ChannelsAssumption
<1>2. FreeChan \in Chan
  BY FreeType
<1>3. SvNone \in SvChan
  BY <1>1 DEF SvNone, SvChan
<1> DEFINE u == c2s \o deferred
           s == sv.ch
<1>4. /\ u = <<>> /\ s2c = <<>> /\ chan = [i \in Slots |-> FreeChan] /\ s = [r \in Rids |-> SvNone]
  BY DEF Init
<1>5. sv \in [kex : BOOLEAN, accused : {"none", Late}, ch : [Rids -> SvChan]]
  BY <1>3 DEF Init
<1>6. Plain
  <2>1. left \in Load /\ left.slots \in Slots
    BY <1>1 DEF Init, Slots
  <2>2. /\ c2s = <<>> /\ deferred = <<>> /\ events = <<>> /\ err = "none"
        /\ x11_active = FALSE /\ closed = FALSE /\ locked = FALSE /\ busy = FALSE
    BY DEF Init
  <2>3. <<>> \in Seq(UpMessage) /\ <<>> \in Seq(EventType)
    OBVIOUS
  <2> QED BY <2>1, <2>2, <2>3, <1>5 DEF Plain
<1> HIDE DEF u, s
<1>7. Len(u) = 0 /\ Len(s2c) = 0 /\ u \in Seq(UpMessage) /\ s2c \in Seq(DownMessage)
  BY <1>4
<1>8. Typed(chan, u, s2c, s)
  BY <1>2, <1>3, <1>4, <1>7 DEF Typed
<1>9. UpRight(chan, u, s) /\ UpOrder(u) /\ DownRight(chan, u, s2c, s) /\ DownOrder(s2c) /\ OneOutcome(u, s2c)
  BY <1>7 DEF UpRight, UpOrder, DownRight, DownOrder, OneOutcome
<1>10. SlotsRight(chan, u, s2c, s)
  <2>1. /\ FreeChan.state = "FREE" /\ FreeChan.close_recv = FALSE /\ FreeChan.eof_sent = FALSE
    BY DEF FreeChan
  <2> QED BY <2>1, <1>4 DEF SlotsRight, SlotFits
<1>11. SvRight(chan, u, s2c, s)
  <2> SUFFICES ASSUME NEW r \in Rids PROVE SvFits(SvNone, r, chan, u, s2c)
    BY <1>4 DEF SvRight
  <2>1. UpUnits(u, "DATA", r) = 0
    <3>1. \A k \in 1..Len(u) : u[k].type = "DATA" => u[k].ch # r
      BY <1>7
    <3> QED BY <3>1, <1>7, UnitsNat
  <2>2. SvNone.state = "none" /\ SvNone.grant = 0 /\ SvNone.owed = -1
    BY DEF SvNone
  <2> QED BY <2>1, <2>2 DEF SvFits
<1>12. Links
  BY <1>8, <1>9, <1>10, <1>11 DEF Links, Linked, u, s
<1>13. Rested
  BY DEF Init, Rested, Emptied, FreeChan
<1> QED
  BY <1>6, <1>12, <1>13, Parts

\* A message sent joins what the server has yet to hear, key exchange or not.
LEMMA Sending ==
    ASSUME Plain, NEW ms \in Seq(UpMessage), Send(ms)
    PROVE  /\ c2s' \in Seq(UpMessage) /\ deferred' \in Seq(UpMessage)
           /\ c2s' \o deferred' = (c2s \o deferred) \o ms
           /\ ~locked => deferred' = <<>>
<1>1. c2s \in Seq(UpMessage) /\ deferred \in Seq(UpMessage) /\ ~closed /\ (~locked => deferred = <<>>)
  BY DEF Plain
<1>2. CASE locked
  <2>1. c2s' = c2s /\ deferred' = deferred \o ms
    BY <1>1, <1>2 DEF Send
  <2> QED BY <2>1, <1>1, <1>2, ConcatProperties, ConcatAssociative
<1>3. CASE ~locked
  <2>1. c2s' = c2s \o ms /\ deferred' = <<>> /\ deferred = <<>>
    BY <1>1, <1>3 DEF Send
  <2>2. c2s \o ms \in Seq(UpMessage)
    BY <1>1, ConcatProperties
  <2> QED BY <2>1, <2>2, <1>1, ConcatEmptySeq
<1> QED
  BY <1>2, <1>3

\* What remains to be shown of a step of the client.
LEMMA ClientStep ==
    ASSUME Plain, NEW ms \in Seq(UpMessage), Send(ms),
           Linked(chan', (c2s \o deferred) \o ms, s2c', sv.ch),
           x11_active' \in BOOLEAN, busy' \in BOOLEAN, events' \in Seq(EventType),
           left' \in Load, left'.slots = left.slots, UNCHANGED <<closed, err, locked, sv>>
    PROVE  Plain' /\ Links'
<1>1. /\ c2s' \in Seq(UpMessage) /\ deferred' \in Seq(UpMessage)
      /\ c2s' \o deferred' = (c2s \o deferred) \o ms
      /\ ~locked => deferred' = <<>>
  BY Sending
<1>2. closed' = closed /\ err' = err /\ locked' = locked /\ sv' = sv
  OBVIOUS
<1>3. Plain'
  BY <1>1, <1>2 DEF Plain
<1>4. Links'
  BY <1>1, <1>2 DEF Links
<1> QED
  BY <1>3, <1>4

\* Some of the work is done.
LEMMA Worked ==
    ASSUME Plain, NEW kind \in {"opens", "x11", "write", "svdata", "req", "svreq", "misc", "rekey"},
           NEW n \in Nat, n <= left[kind], left' = [left EXCEPT ![kind] = @ - n]
    PROVE  left' \in Load /\ left'.slots = left.slots
<1>1. left \in Load /\ left[kind] - n \in Nat
  <2>1. left \in Load /\ left[kind] \in Nat
    BY DEF Plain, Load
  <2> QED BY <2>1
<1> QED
  BY <1>1 DEF Load

\* A flush leaves nothing that could leave, unless a key exchange holds it back.
LEMMA FlushEmpties ==
    ASSUME NEW c \in Chan, ~locked, ~closed, ~Released(c)
    PROVE  Emptied(Flushed(c))
<1> DEFINE b == Flushed(c)
           n == Sendable(c)
<1>1. b = [c EXCEPT !.out = c.out - n, !.remote_window = c.remote_window - n,
                    !.eof_sent = IF SendsEof(c) THEN TRUE ELSE c.eof_sent,
                    !.close_sent = IF SendsClose(c) THEN TRUE ELSE c.close_sent]
  BY DEF Flushed
<1>2. /\ b.state = c.state /\ b.want_close = c.want_close /\ b.want_eof = c.want_eof
      /\ b.out = c.out - n /\ b.remote_window = c.remote_window - n
      /\ b.eof_sent = (IF SendsEof(c) THEN TRUE ELSE c.eof_sent)
      /\ b.close_sent = (IF SendsClose(c) THEN TRUE ELSE c.close_sent)
  BY <1>1 DEF Chan
<1>3. n \in Nat /\ (CanFlush(c) => n = c.out \/ n = c.remote_window)
  BY SendableFits
<1>4. c.out \in Nat /\ c.remote_window \in Nat
  BY ChanFields, ChannelsAssumption
<1> SUFFICES ASSUME b.state = "OPEN", ~b.close_sent
             PROVE  IF b.out = 0 THEN ~b.want_close /\ (b.want_eof => b.eof_sent)
                    ELSE b.remote_window = 0
  BY DEF Emptied
<1> HIDE DEF b, n
<1>5. CanFlush(c) /\ ~SendsClose(c)
  BY <1>2 DEF CanFlush, SendsClose, Drained
<1>6. CASE b.out = 0
  <2>1. n = c.out
    BY <1>2, <1>3, <1>4, <1>6
  <2>2. Drained(c)
    BY <2>1, <1>5 DEF Drained, n
  <2> QED BY <2>2, <1>2, <1>5, <1>6 DEF SendsClose, SendsEof
<1>7. CASE b.out # 0
  <2>1. n # c.out
    BY <1>2, <1>3, <1>4, <1>7
  <2> QED BY <2>1, <1>2, <1>3, <1>4, <1>5, <1>7
<1> QED
  BY <1>6, <1>7

\* chan_flush(), once slot i has become c.
LEMMA Flushing ==
    ASSUME Plain, NEW u, NEW d, NEW s, NEW i \in Slots, NEW c, chan \in [Slots -> Chan],
           Linked([chan EXCEPT ![i] = c], u, d, s), NEW es \in Seq(EventType), chan_flush(i, c, es)
    PROVE  /\ FlushMsgs(c) \in Seq(UpMessage) /\ Send(FlushMsgs(c)) /\ events' \in Seq(EventType)
           /\ Linked(chan', u \o FlushMsgs(c), d, s)
           /\ chan'[i] = Flushed(c) /\ \A j \in Slots : j # i => chan'[j] = chan[j]
           /\ ~locked => Emptied(Flushed(c))
<1> DEFINE t == [chan EXCEPT ![i] = c]
<1>1. t[i] = c
  OBVIOUS
<1>2. t \in [Slots -> Chan]
  BY TypesOf DEF Linked
<1>3. [t EXCEPT ![i] = Flushed(c)] = [chan EXCEPT ![i] = Flushed(c)]
  OBVIOUS
<1>4. Linked(t, u, d, s)
  OBVIOUS
<1> HIDE DEF t
<1>5. /\ Linked([t EXCEPT ![i] = Flushed(t[i])], u \o FlushMsgs(t[i]), d, s)
      /\ ~Released(t[i]) /\ FlushMsgs(t[i]) \in Seq(UpMessage)
  BY <1>4, Flush
<1>6. chan' = [chan EXCEPT ![i] = Flushed(c)] /\ Send(FlushMsgs(c)) /\ events' = events \o es \o <<>>
  BY <1>1, <1>5 DEF chan_flush, FlushEvents
<1>7. events' \in Seq(EventType)
  <2>1. events \in Seq(EventType) /\ <<>> \in Seq(EventType)
    BY DEF Plain
  <2>2. events \o es \in Seq(EventType)
    BY <2>1, ConcatProperties
  <2> QED BY <2>1, <2>2, <1>6, ConcatProperties
<1>8. Linked(chan', u \o FlushMsgs(c), d, s)
  BY <1>1, <1>3, <1>5, <1>6
<1>9. chan'[i] = Flushed(c) /\ \A j \in Slots : j # i => chan'[j] = chan[j]
  BY <1>6
<1>10. ~locked => Emptied(Flushed(c))
  <2>1. ~closed /\ c \in Chan
    BY <1>1, <1>2 DEF Plain
  <2> QED BY <2>1, <1>1, <1>5, FlushEmpties
<1> QED
  BY <1>1, <1>5, <1>6, <1>7, <1>8, <1>9, <1>10

\* The three calls of the application that touch a slot and flush it.
LEMMA AppFlush ==
    ASSUME Plain, Links, Rested, AppMay, NEW i \in Slots, NEW c \in Chan, SameChannel(c, chan[i]),
           SlotFits(c, i, c2s \o deferred, s2c, sv.ch), chan_flush(i, c, <<>>),
           left' \in Load, left'.slots = left.slots,
           UNCHANGED <<x11_active, closed, err, locked, busy, s2c, sv>>
    PROVE  Plain' /\ Links' /\ Rested'
<1> DEFINE u == c2s \o deferred
           t == [chan EXCEPT ![i] = c]
<1>1. Linked(chan, u, s2c, sv.ch) /\ chan \in [Slots -> Chan]
  BY TypesOf DEF Links, Linked
<1>2. Becomes(t, chan, i, c)
  BY DEF Becomes
<1>3. SlotFits(c, i, u, s2c, sv.ch)
  OBVIOUS
<1> HIDE DEF u
<1>4. Linked(t, u, s2c, sv.ch)
  <2> HIDE DEF t
  <2> QED BY <1>1, <1>2, <1>3, Touch
<1>5. <<>> \in Seq(EventType)
  OBVIOUS
<1>6. /\ FlushMsgs(c) \in Seq(UpMessage) /\ Send(FlushMsgs(c)) /\ events' \in Seq(EventType)
      /\ Linked(chan', u \o FlushMsgs(c), s2c, sv.ch)
      /\ chan'[i] = Flushed(c) /\ \A j \in Slots : j # i => chan'[j] = chan[j]
      /\ ~locked => Emptied(Flushed(c))
  BY <1>1, <1>4, <1>5, Flushing
<1>7. Linked(chan', (c2s \o deferred) \o FlushMsgs(c), s2c', sv.ch)
  BY <1>6 DEF u
<1>8. /\ x11_active' \in BOOLEAN /\ busy' \in BOOLEAN /\ events' \in Seq(EventType)
      /\ UNCHANGED <<closed, err, locked, sv>>
  BY <1>6 DEF Plain
<1>9. Plain' /\ Links'
  BY <1>6, <1>7, <1>8, ClientStep
<1>10. Rested'
  BY <1>6 DEF Rested, AppMay
<1> QED
  BY <1>9, <1>10

\* The application writes, ends its output, closes.
LEMMA WriteStep ==
    ASSUME Plain, Links, Rested, NEW i \in Slots, NEW len \in 1..left.write, ssh_channel_write(i, len)
    PROVE  Plain' /\ Links' /\ Rested'
<1> DEFINE b == chan[i]
           n == Min({len, Room(b)})
           c == [b EXCEPT !.out = @ + n, !.written = @ + n]
           u == c2s \o deferred
           s == sv.ch
<1>1. b \in Chan /\ SlotFits(b, i, u, s2c, s) /\ Linked(chan, u, s2c, s)
  BY TypesOf DEF Links, Linked, SlotsRight
<1>2. /\ AppMay /\ b.state # "FREE" /\ ~b.want_eof /\ len <= left.write
      /\ left' = [left EXCEPT !.write = @ - len] /\ chan_flush(i, c, <<>>)
      /\ UNCHANGED <<x11_active, closed, err, locked, busy, s2c, sv>>
  BY DEF ssh_channel_write
<1>3. left.write \in Nat
  BY DEF Plain, Load
<1>4. left' \in Load /\ left'.slots = left.slots
  BY <1>2, <1>3, Worked
<1>5. n \in Nat /\ b.out + n \in 0..Backlog /\ b.out \in Nat /\ b.written \in Nat
  <2>1. b.out \in 0..Backlog /\ b.written \in Nat /\ Backlog \in Nat
    BY <1>1, ChanFields, ChannelsAssumption
  <2>2. Room(b) \in Nat /\ Room(b) = Backlog - b.out /\ len \in Nat
    BY <2>1, <1>3 DEF Room
  <2>3. n \in {len, Room(b)} /\ n <= Room(b)
    <3> DEFINE x == Room(b)
    <3>1. x \in Nat /\ len \in Nat
      BY <2>2
    <3> HIDE DEF x
    <3>2. Min({len, x}) \in {len, x} /\ Min({len, x}) <= x
      <4>1. \E z \in {len, x} : \A y \in {len, x} : z <= y
        BY <3>1
      <4> QED BY <4>1, <3>1 DEF Min
    <3> QED BY <3>2 DEF x
  <2> HIDE DEF n
  <2> QED BY <2>1, <2>2, <2>3
<1> HIDE DEF b, n
<1>6. c = [b EXCEPT !.out = b.out + n, !.written = b.written + n]
  OBVIOUS
<1>7. c \in Chan
  <2> DEFINE x == b.out + n
             y == b.written + n
  <2>1. x \in 0..Backlog /\ y \in Nat
    BY <1>5
  <2>2. c = [b EXCEPT !.out = x, !.written = y]
    BY <1>6
  <2> HIDE DEF c, x, y
  <2> QED BY <2>1, <2>2, <1>1 DEF Chan
<1>8. /\ c.state = b.state /\ c.remote_id = b.remote_id /\ c.remote_window = b.remote_window
      /\ c.local_window = b.local_window /\ c.close_sent = b.close_sent /\ c.eof_sent = b.eof_sent
      /\ c.close_recv = b.close_recv /\ c.x11_pending = b.x11_pending /\ c.surfaced = b.surfaced
      /\ c.out = b.out + n /\ c.written = b.written + n
      /\ c.want_eof = b.want_eof /\ c.want_close = b.want_close
  BY <1>1 DEF Chan
<1>9. SlotFits(c, i, u, s2c, s)
  <2>1. ~b.eof_sent
    BY <1>1, <1>2 DEF SlotFits
  <2>2. ASSUME b.state = "OPENING"
        PROVE  c = [FreeChan EXCEPT !.state = "OPENING", !.local_window = Window, !.out = c.out,
                    !.written = c.out, !.want_eof = c.want_eof, !.want_close = c.want_close]
    <3>1. b = [FreeChan EXCEPT !.state = "OPENING", !.local_window = Window, !.out = b.out,
               !.written = b.out, !.want_eof = b.want_eof, !.want_close = b.want_close]
      BY <1>1, <2>2 DEF SlotFits
    <3>2. b.written = b.out
      BY <1>1, <2>2, OpeningFields
    <3>3. c.out = b.out + n /\ c.want_eof = b.want_eof /\ c.want_close = b.want_close
      BY <1>8
    <3>4. c = [b EXCEPT !.out = c.out, !.written = c.out]
      BY <3>2, <1>6, <1>8
    <3> HIDE DEF c
    <3> QED BY ONLY <3>1, <3>3, <3>4 DEF FreeChan
  <2>3. ASSUME b.state = "OPEN" PROVE Adds(c, u, s2c, s[b.remote_id], b.remote_id)
    <3> DEFINE r == b.remote_id
    <3>1. Adds(b, u, s2c, s[r], r)
      BY <1>1, <2>3 DEF SlotFits
    <3>2. UpUnits(u, "DATA", r) \in Nat /\ r \in Rids
      BY <1>1, <2>3, TypesOf DEF Linked, SlotFits
    <3>3. s[r].got \in Nat
      BY <1>1, <3>2, TypesOf, SvFields DEF Linked
    <3>4. b.written = b.out + UpUnits(u, "DATA", r) + s[r].got
      BY <3>1 DEF Adds
    <3>5. b.written + n = (b.out + n) + UpUnits(u, "DATA", r) + s[r].got
      <4> HIDE DEF u, s, r
      <4> QED BY ONLY <3>2, <3>3, <3>4, <1>5
    <3> HIDE DEF c
    <3> QED BY <3>1, <3>5, <1>8 DEF Adds
  <2> HIDE DEF c, u, s
  <2> QED BY <2>1, <2>2, <2>3, <1>1, <1>2, <1>8 DEF SlotFits
<1>10. SameChannel(c, chan[i])
  BY <1>8 DEF SameChannel, b
<1> HIDE DEF c
<1> QED
  BY <1>2, <1>4, <1>7, <1>9, <1>10, AppFlush

\* Likewise.
LEMMA EofStep ==
    ASSUME Plain, Links, Rested, NEW i \in Slots, ssh_channel_eof(i) \/ ssh_channel_close(i)
    PROVE  Plain' /\ Links' /\ Rested'
<1> DEFINE b == chan[i]
           e == [b EXCEPT !.want_eof = TRUE]
           k == [b EXCEPT !.want_close = TRUE]
           u == c2s \o deferred
           s == sv.ch
<1>1. b \in Chan /\ SlotFits(b, i, u, s2c, s)
  BY TypesOf DEF Links, Linked, SlotsRight
<1>2. /\ AppMay /\ b.state # "FREE" /\ (chan_flush(i, e, <<>>) \/ chan_flush(i, k, <<>>))
      /\ UNCHANGED <<x11_active, closed, err, locked, busy, s2c, sv, left>>
  BY DEF ssh_channel_eof, ssh_channel_close
<1>3. left' \in Load /\ left'.slots = left.slots
  BY <1>2 DEF Plain
<1> HIDE DEF b, u, s
<1>4. PICK c : c \in {e, k} /\ chan_flush(i, c, <<>>)
  BY <1>2
<1>5. c \in Chan
  <2>1. e \in Chan
    BY <1>1 DEF Chan
  <2>2. k \in Chan
    BY <1>1 DEF Chan
  <2> QED BY <2>1, <2>2, <1>4
<1>6. /\ c.state = b.state /\ c.remote_id = b.remote_id /\ c.remote_window = b.remote_window
      /\ c.local_window = b.local_window /\ c.close_sent = b.close_sent /\ c.eof_sent = b.eof_sent
      /\ c.close_recv = b.close_recv /\ c.x11_pending = b.x11_pending /\ c.surfaced = b.surfaced
      /\ c.out = b.out /\ c.written = b.written /\ (b.want_eof => c.want_eof)
      /\ c = [b EXCEPT !.want_eof = c.want_eof, !.want_close = c.want_close]
  <2>1. CASE c = e
    BY <2>1, <1>1 DEF Chan
  <2>2. CASE c = k
    BY <2>2, <1>1 DEF Chan
  <2> QED BY <2>1, <2>2, <1>4
<1>7. SlotFits(c, i, u, s2c, s)
  <2>1. ASSUME b.state = "OPENING"
        PROVE  c = [FreeChan EXCEPT !.state = "OPENING", !.local_window = Window, !.out = c.out,
                    !.written = c.out, !.want_eof = c.want_eof, !.want_close = c.want_close]
    <3>1. b = [FreeChan EXCEPT !.state = "OPENING", !.local_window = Window, !.out = b.out,
               !.written = b.out, !.want_eof = b.want_eof, !.want_close = b.want_close]
      BY <1>1, <2>1 DEF SlotFits
    <3>2. c.out = b.out /\ c = [b EXCEPT !.want_eof = c.want_eof, !.want_close = c.want_close]
      BY <1>6
    <3> QED BY ONLY <3>1, <3>2 DEF FreeChan
  <2>2. Adds(b, u, s2c, s[b.remote_id], b.remote_id) => Adds(c, u, s2c, s[b.remote_id], b.remote_id)
    BY <1>6 DEF Adds
  <2> QED BY <2>1, <2>2, <1>1, <1>2, <1>6 DEF SlotFits
<1>8. SameChannel(c, chan[i])
  BY <1>6 DEF SameChannel, b
<1> QED
  BY <1>2, <1>3, <1>4, <1>5, <1>7, <1>8, AppFlush DEF u, s

\* One message said is the queue with one more.
LEMMA OneMore ==
    /\ \A u \in Seq(UpMessage), m \in UpMessage :
          <<m>> \in Seq(UpMessage) /\ UpLonger(u \o <<m>>, u, m)
    /\ \A d \in Seq(DownMessage), m \in DownMessage : DownLonger(Append(d, m), d, m)
<1>1. ASSUME NEW u \in Seq(UpMessage), NEW m \in UpMessage
      PROVE  <<m>> \in Seq(UpMessage) /\ UpLonger(u \o <<m>>, u, m)
  <2>1. Append(u, m) = u \o <<m>>
    BY AppendIsConcat
  <2>2. UpLonger(Append(u, m), u, m)
    BY Lengthen
  <2>3. UpLonger(u \o <<m>>, u, m)
    <3> DEFINE v == Append(u, m)
               w == u \o <<m>>
    <3>1. v = w /\ UpLonger(v, u, m)
      BY <2>1, <2>2
    <3> HIDE DEF v, w
    <3>2. UpLonger(w, u, m)
      BY <3>1
    <3> QED BY <3>2 DEF w
  <2>4. <<m>> \in Seq(UpMessage)
    OBVIOUS
  <2> QED BY <2>3, <2>4
<1> QED
  BY <1>1, Lengthen

\* A request on an open channel, or its answer.
LEMMA Mention ==
    ASSUME NEW t, NEW u, NEW d, NEW s, Linked(t, u, d, s), NEW i \in Slots, t[i].state = "OPEN",
           NEW type \in {"REQUEST", "FAILURE"}, NEW x \in {"none", "want", "nowant"}, NEW m,
           m = Out(type, t[i].remote_id, 0, x)
    PROVE  <<m>> \in Seq(UpMessage) /\ Linked(t, u \o <<m>>, d, s)
<1> DEFINE b == t[i]
           r == b.remote_id
           q == <<m>>
<1>1. t \in [Slots -> Chan] /\ b \in Chan /\ SlotFits(b, i, u, d, s)
  BY TypesOf DEF Linked, SlotsRight
<1>2. r \in Nat
  BY <1>1, ChanFields DEF Rids
<1>3. m \in UpMessage /\ m.type = type /\ m.ch = r
  <2>1. type \in OutTypes /\ 0 \in Nat /\ x \in {"none", "want", "nowant", "asked", "answer"}
    BY DEF OutTypes
  <2> HIDE DEF r
  <2>2. m = Out(type, r, 0, x)
    BY DEF r
  <2> QED BY <1>2, <2>1, <2>2, OutType
<1>4. q \in Seq(UpMessage) /\ Len(q) = 1 /\ \A k \in 1..1 : q[k] = m
  BY <1>3
<1>5. UpUnits(q, "DATA", r) = 0 /\ UpUnits(q, "ADJUST", r) = 0
  BY <1>3, UnitsOfOne DEF UpCounts
<1> HIDE DEF q, b, r
<1>6. b.remote_window \in Nat /\ b.local_window \in Nat /\ b.out \in Nat
  BY <1>1, ChanFields, ChannelsAssumption
<1>7. ~b.close_recv /\ (b.eof_sent => b.out = 0 /\ b.want_eof)
  BY <1>1 DEF SlotFits
<1>8. \A k \in 1..Len(q) : q[k].ch = r /\ q[k].type \in {"REQUEST", "FAILURE"}
  BY <1>3, <1>4
<1>9. Tells(b, b, q, r)
  BY <1>4, <1>5, <1>6, <1>7, <1>8 DEF Tells, About, Talk
<1>10. Becomes(t, t, i, b) /\ SameChannel(b, t[i]) /\ Tells(t[i], b, q, b.remote_id)
  BY <1>1, <1>9 DEF Becomes, SameChannel, b, r
<1>11. Linked(t, u \o q, d, s)
  BY <1>4, <1>10, Tell
<1> QED
  BY <1>4, <1>11 DEF q

\* The first of the slots not in use.
LEMMA FirstFree ==
    ASSUME Plain, FreeSlots # {}
    PROVE  find_free_chan \in Slots /\ chan[find_free_chan].state = "FREE"
<1>1. left.slots \in Nat /\ left.slots <= NumSlots /\ NumSlots \in Nat
  BY ChannelsAssumption DEF Plain, Slots
<1>2. FreeSlots \in SUBSET Nat /\ FreeSlots \subseteq Slots
  BY <1>1 DEF FreeSlots, Slots
<1>3. \E x \in FreeSlots : \A y \in FreeSlots : x <= y
  <2>1. PICK e : e \in FreeSlots
    OBVIOUS
  <2> QED BY <2>1, <1>2, Least
<1>4. find_free_chan \in FreeSlots
  BY <1>3 DEF find_free_chan, Min
<1> QED
  BY <1>2, <1>4 DEF FreeSlots

\* The application opens a channel.
LEMMA OpenStep ==
    ASSUME Plain, Links, Rested, ssh_channel_open
    PROVE  Plain' /\ Links' /\ Rested'
<1> DEFINE i == find_free_chan
           c == [FreeChan EXCEPT !.state = "OPENING", !.local_window = Window]
           m == Out("OPEN", i, 0, "none")
           u == c2s \o deferred
           s == sv.ch
<1>1. /\ FreeSlots # {} /\ left.opens > 0 /\ left' = [left EXCEPT !.opens = @ - 1]
      /\ chan' = [chan EXCEPT ![i] = c] /\ Send(<<m>>)
      /\ UNCHANGED <<x11_active, closed, err, locked, busy, events, s2c, sv>>
  BY DEF ssh_channel_open
<1>2. i \in Slots /\ chan[i].state = "FREE"
  BY <1>1, FirstFree
<1>3. /\ Linked(chan, u, s2c, s) /\ chan \in [Slots -> Chan] /\ u \in Seq(UpMessage) /\ Len(u) \in Nat
      /\ i \in Nat
  <2>1. Linked(chan, u, s2c, s)
    BY DEF Links
  <2>2. i \in Nat
    BY <1>2 DEF Slots
  <2> QED BY <2>1, <2>2, TypesOf DEF Linked
<1>4. left' \in Load /\ left'.slots = left.slots
  <2>1. left.opens \in Nat
    BY DEF Plain, Load
  <2>2. 1 <= left.opens
    BY <2>1, <1>1
  <2> QED BY <2>2, <1>1, Worked
<1> HIDE DEF i, u, s
<1>5. FreeChan \in Chan /\ c \in Chan /\ c.state = "OPENING" /\ ~c.close_recv /\ c.eof_sent = FALSE
  <2>1. Window \in 0..Window
    BY ChannelsAssumption
  <2>2. c \in Chan /\ c.state = "OPENING"
    BY <2>1, FreeType DEF Chan
  <2>3. c.close_recv = FALSE /\ c.eof_sent = FALSE
    BY FreeType DEF Chan
  <2> QED BY <2>2, <2>3, FreeType
<1>6. c = [FreeChan EXCEPT !.state = "OPENING", !.local_window = Window, !.out = c.out,
           !.written = c.out, !.want_eof = c.want_eof, !.want_close = c.want_close]
  <2>1. c.out = 0 /\ c.want_eof = FALSE /\ c.want_close = FALSE
    BY FreeType DEF Chan
  <2>2. c = [FreeChan EXCEPT !.state = "OPENING", !.local_window = Window, !.out = 0,
             !.written = 0, !.want_eof = FALSE, !.want_close = FALSE]
    BY FreeType DEF Chan
  <2> HIDE DEF c
  <2> QED BY <2>1, <2>2
<1>7. m \in UpMessage /\ m.type = "OPEN" /\ m.ch = i
  <2>1. "OPEN" \in OutTypes /\ 0 \in Nat /\ "none" \in {"none", "want", "nowant", "asked", "answer"}
    BY DEF OutTypes
  <2> QED BY <2>1, <1>3, OutType
<1> HIDE DEF c, m
<1> DEFINE v == u \o <<m>>
<1>8. <<m>> \in Seq(UpMessage) /\ UpLonger(v, u, m)
  BY <1>3, <1>7, OneMore
<1>9. SlotFits(c, i, v, s2c, s)
  BY <1>5, <1>6 DEF SlotFits
<1>10. chan'[i] = c
  BY <1>1, <1>2, <1>3
<1>11. UpFits(m, Len(u) + 1, chan', v, s)
  BY <1>2, <1>5, <1>7, <1>10 DEF UpFits, Talk
<1>12. \A r : ~Holds(chan', i, r)
  BY <1>5, <1>10 DEF Holds
<1>13. Becomes(chan', chan, i, c)
  BY <1>1, <1>2, <1>5 DEF Becomes
<1>14. m.type \notin Outcomes
  BY <1>7 DEF Outcomes
<1> HIDE DEF v
<1>15. Linked(chan', v, s2c, s)
  BY <1>2, <1>3, <1>7, <1>8, <1>9, <1>11, <1>12, <1>13, <1>14, Announce
<1>16. Linked(chan', (c2s \o deferred) \o <<m>>, s2c', sv.ch)
  BY <1>1, <1>15 DEF v, u, s
<1>17. x11_active' \in BOOLEAN /\ busy' \in BOOLEAN /\ events' \in Seq(EventType)
  BY <1>1 DEF Plain
<1>18. Plain' /\ Links'
  BY <1>1, <1>4, <1>8, <1>16, <1>17, ClientStep
<1>19. Rested'
  <2>1. ~busy /\ busy' = busy /\ locked' = locked
    BY <1>1 DEF ssh_channel_open, AppMay
  <2>2. \A j \in Slots : Emptied(chan[j]) => Emptied(chan'[j])
    BY <1>1, <1>3, <1>5, <1>10 DEF Emptied
  <2> QED BY <2>1, <2>2 DEF Rested
<1> QED
  BY <1>18, <1>19

\* A channel request, and the one for x11.
LEMMA RequestStep ==
    ASSUME Plain, Links, Rested, NEW i \in Slots,
           \/ \E want \in {"want", "nowant"} : ssh_channel_request(i, want)
           \/ ssh_channel_request_x11(i)
    PROVE  Plain' /\ Links' /\ Rested'
<1> DEFINE u == c2s \o deferred
<1>1. /\ chan[i].state = "OPEN" /\ x11_active' \in BOOLEAN
      /\ \E want \in {"want", "nowant"} : Send(<<Out("REQUEST", chan[i].remote_id, 0, want)>>)
      /\ left' \in Load /\ left'.slots = left.slots
      /\ UNCHANGED <<chan, closed, err, locked, busy, events, s2c, sv>>
  <2>1. ASSUME NEW want \in {"want", "nowant"}, ssh_channel_request(i, want)
        PROVE  left' \in Load /\ left'.slots = left.slots
    <3>1. left.req \in Nat /\ left.req > 0 /\ left' = [left EXCEPT !.req = @ - 1]
      BY <2>1 DEF Plain, Load, ssh_channel_request
    <3>2. 1 <= left.req
      BY <3>1
    <3> QED BY <3>1, <3>2, Worked
  <2>2. ASSUME ssh_channel_request_x11(i) PROVE left' \in Load /\ left'.slots = left.slots
    BY <2>2 DEF Plain, ssh_channel_request_x11
  <2> QED BY <2>1, <2>2 DEF ssh_channel_request, ssh_channel_request_x11, Plain
<1>2. PICK want \in {"want", "nowant"} : Send(<<Out("REQUEST", chan[i].remote_id, 0, want)>>)
  BY <1>1
<1> DEFINE q == <<Out("REQUEST", chan[i].remote_id, 0, want)>>
<1>3. Linked(chan, u, s2c, sv.ch) /\ want \in {"none", "want", "nowant"}
  BY DEF Links
<1> HIDE DEF u
<1>4. q \in Seq(UpMessage) /\ Linked(chan, u \o q, s2c, sv.ch)
  BY <1>1, <1>3, Mention
<1> HIDE DEF q
<1>5. Linked(chan', (c2s \o deferred) \o q, s2c', sv.ch)
  BY <1>1, <1>4 DEF u
<1>6. Send(q)
  BY <1>2 DEF q
<1>7. busy' \in BOOLEAN /\ events' \in Seq(EventType)
  BY <1>1 DEF Plain
<1>8. Plain' /\ Links'
  BY <1>1, <1>4, <1>5, <1>6, <1>7, ClientStep
<1>9. Rested'
  BY <1>1 DEF Rested, Emptied
<1> QED
  BY <1>8, <1>9

\* An event is taken.
LEMMA EventStep ==
    ASSUME Plain, Links, Rested, ssh_next_event
    PROVE  Plain' /\ Links' /\ Rested'
<1>1. /\ events # <<>> /\ events' = Tail(events)
      /\ UNCHANGED <<chan, x11_active, closed, err, locked, deferred, busy, c2s, s2c, sv, left>>
  BY DEF ssh_next_event
<1>2. events' \in Seq(EventType)
  <2>1. events \in Seq(EventType)
    BY DEF Plain
  <2> QED BY <2>1, <1>1, HeadTailProperties
<1>3. Plain'
  BY <1>1, <1>2 DEF Plain
<1>4. Links' /\ Rested'
  BY <1>1 DEF Links, Rested, Emptied
<1> QED
  BY <1>3, <1>4

\* The next packet of the server: it fits, and one of an open channel finds it open.
LEMMA NextPacket ==
    ASSUME Plain, Links, NEW type, Incoming(type), Taken, NEW m, m = Head(s2c), NEW i, i = m.ch
    PROVE  /\ DownShorter(s2c', s2c) /\ s2c[1] = m /\ m.type = type /\ m \in DownMessage
           /\ DownFits(m, 1, chan, c2s \o deferred, s2c, sv.ch)
           /\ \A k \in 1..Len(s2c') : DownFollows(m, s2c'[k])
           /\ type \in ChannelTypes => /\ m.rid \in Rids /\ i \in Slots /\ Holds(chan, i, m.rid)
                                       /\ chan[i].state = "OPEN" /\ chan[i].remote_id = m.rid
           /\ type \in Outcomes => i \in Slots /\ chan[i].state = "OPENING"
           /\ busy' = TRUE /\ sv' = sv /\ left' = left
<1> DEFINE u == c2s \o deferred
<1>1. Linked(chan, u, s2c, sv.ch)
  BY DEF Links
<1> HIDE DEF u
<1>2. s2c # <<>> /\ m.type = type /\ s2c' = Tail(s2c) /\ busy' = TRUE /\ sv' = sv /\ left' = left
  BY DEF Incoming, Taken
<1>3. s2c \in Seq(DownMessage)
  BY <1>1, TypesOf DEF Linked
<1>4. DownShorter(s2c', s2c) /\ s2c[1] = m
  BY <1>2, <1>3, Shorten
<1>5. m \in DownMessage /\ 1 \in 1..Len(s2c)
  BY <1>4 DEF DownShorter
<1>6. DownFits(m, 1, chan, u, s2c, sv.ch)
  BY <1>1, <1>4, <1>5 DEF Linked, DownRight
<1>7. ASSUME NEW k \in 1..Len(s2c') PROVE DownFollows(m, s2c'[k])
  <2>1. k + 1 \in 1..Len(s2c) /\ 1 < k + 1 /\ s2c'[k] = s2c[k + 1]
    BY <1>4 DEF DownShorter
  <2> QED BY <2>1, <1>1, <1>4, <1>5 DEF Linked, DownOrder
<1>8. type \in ChannelTypes => m.rid \in Rids /\ i \in Slots /\ Holds(chan, i, m.rid)
  <2>1. ~ConfirmsDown(s2c, 1 - 1, m.rid)
    BY DEF ConfirmsDown
  <2> QED BY <2>1, <1>2, <1>6 DEF DownFits
<1>9. type \in Outcomes => i \in Slots /\ chan[i].state = "OPENING"
  BY <1>2, <1>6 DEF DownFits, Outcomes
<1> QED
  BY <1>2, <1>4, <1>5, <1>6, <1>7, <1>8, <1>9 DEF u, Holds

\* What remains to be shown of a packet taken.
LEMMA Heard ==
    ASSUME Plain, NEW ms \in Seq(UpMessage), Send(ms),
           Linked(chan', (c2s \o deferred) \o ms, s2c', sv.ch),
           x11_active' = x11_active, busy' = TRUE, events' \in Seq(EventType),
           UNCHANGED <<closed, err, locked, sv, left>>
    PROVE  Plain' /\ Links' /\ Rested'
<1>1. /\ x11_active' \in BOOLEAN /\ busy' \in BOOLEAN
      /\ left' \in Load /\ left'.slots = left.slots
  BY DEF Plain
<1>2. Plain' /\ Links'
  BY <1>1, ClientStep
<1>3. Rested'
  BY DEF Rested
<1> QED
  BY <1>2, <1>3

\* The same, where nothing is said and no slot changes.
LEMMA Ignores ==
    ASSUME Plain, Linked(chan, c2s \o deferred, s2c', sv.ch), busy' = TRUE,
           UNCHANGED <<chan, x11_active, closed, err, locked, deferred, events, c2s, sv, left>>
    PROVE  Plain' /\ Links' /\ Rested'
<1>1. Plain'
  BY DEF Plain
<1>2. Links' /\ Rested'
  BY DEF Links, Rested
<1> QED
  BY <1>1, <1>2

\* Nothing said changes nothing.
LEMMA Silence == <<>> \in Seq(UpMessage) /\ \A u \in Seq(UpMessage) : u \o <<>> = u
<1>1. <<>> \in Seq(UpMessage)
  OBVIOUS
<1>2. \A u \in Seq(UpMessage) : u \o <<>> = u
  BY ConcatEmptySeq
<1> QED
  BY <1>1, <1>2

\* A key exchange begins, and ends: what it held back goes out.
LEMMA KexStep ==
    ASSUME Plain, Links, RecvKexInit \/ RecvKexReply
    PROVE  Plain' /\ Links' /\ Rested'
<1> DEFINE u == c2s \o deferred
           m == Head(s2c)
           type == m.type
<1>1. /\ Incoming(type) /\ Taken /\ type \in {"KEXINIT", "KEX_REPLY"}
      /\ UNCHANGED <<chan, x11_active, closed, err, events, sv, left>>
  BY DEF RecvKexInit, RecvKexReply, Incoming, Taken
<1>2. DownShorter(s2c', s2c) /\ s2c[1] = m /\ busy' = TRUE
  BY <1>1, NextPacket
<1>3. Linked(chan, u, s2c, sv.ch)
  BY DEF Links
<1>4. Linked(chan, u, s2c', sv.ch)
  <2> HIDE DEF u
  <2> QED BY <1>1, <1>2, <1>3, HearOnly
<1>5. /\ c2s' \in Seq(UpMessage) /\ deferred' \in Seq(UpMessage) /\ locked' \in BOOLEAN
      /\ c2s' \o deferred' = u /\ (~locked' => deferred' = <<>>)
  <2>1. c2s \in Seq(UpMessage) /\ deferred \in Seq(UpMessage)
    BY DEF Plain
  <2>2. CASE RecvKexInit
    BY <2>1, <2>2 DEF RecvKexInit
  <2>3. CASE RecvKexReply
    <3>1. c2s' = u /\ deferred' = <<>> /\ locked' = FALSE
      BY <2>3 DEF RecvKexReply
    <3>2. u \in Seq(UpMessage)
      BY <2>1, ConcatProperties
    <3> HIDE DEF u
    <3>3. c2s' \o deferred' = u
      BY <3>1, <3>2, Silence
    <3> QED BY <3>1, <3>2, <3>3, Silence
  <2> QED BY <2>2, <2>3
<1>6. Plain'
  BY <1>1, <1>2, <1>5 DEF Plain
<1>7. Links'
  BY <1>1, <1>4, <1>5 DEF Links
<1>8. Rested'
  BY <1>2 DEF Rested
<1> QED
  BY <1>6, <1>7, <1>8

\* EOF and the replies to requests are but events of the application.
LEMMA EventOnlyStep ==
    ASSUME Plain, Links, RecvEof \/ RecvReply
    PROVE  Plain' /\ Links' /\ Rested'
<1> DEFINE u == c2s \o deferred
           m == Head(s2c)
           type == m.type
<1>1. /\ Incoming(type) /\ Taken /\ type \in {"EOF", "REPLY"}
      /\ UNCHANGED <<chan, x11_active, closed, err, locked, deferred, events, c2s, sv, left>>
  BY DEF RecvEof, RecvReply, Dispatch, Ignored, Incoming, Taken
<1>2. DownShorter(s2c', s2c) /\ s2c[1] = m /\ busy' = TRUE
  BY <1>1, NextPacket
<1>3. Linked(chan, u, s2c, sv.ch)
  BY DEF Links
<1>4. Linked(chan, u, s2c', sv.ch)
  <2> HIDE DEF u
  <2> QED BY <1>1, <1>2, <1>3, HearOnly
<1> QED
  BY <1>1, <1>2, <1>4, Ignores

\* A request of the server is answered with a failure.
LEMMA RequestHeard ==
    ASSUME Plain, Links, RecvRequest
    PROVE  Plain' /\ Links' /\ Rested'
<1> DEFINE u == c2s \o deferred
           m == Head(s2c)
           i == m.ch
           q == IF m.x = "want" THEN <<Out("FAILURE", chan[i].remote_id, 0, "none")>> ELSE <<>>
<1>1. Incoming("REQUEST") /\ Taken /\ UNCHANGED <<x11_active, locked>>
  BY DEF RecvRequest, Dispatch
<1>2. /\ DownShorter(s2c', s2c) /\ s2c[1] = m /\ m.type = "REQUEST" /\ i \in Slots
      /\ chan[i].state = "OPEN" /\ busy' = TRUE /\ sv' = sv /\ left' = left
  BY <1>1, NextPacket DEF ChannelTypes
<1>3. Send(q) /\ UNCHANGED <<chan, events, closed, err>>
  BY <1>2 DEF RecvRequest, Stale, Slot, NoFailure
<1>4. Linked(chan, u, s2c, sv.ch)
  BY DEF Links
<1>5. u \in Seq(UpMessage)
  BY <1>4, TypesOf DEF Linked
<1> HIDE DEF u
<1>6. Linked(chan, u, s2c', sv.ch)
  BY <1>2, <1>4, HearOnly
<1>7. q \in Seq(UpMessage) /\ Linked(chan, u \o q, s2c', sv.ch)
  <2>1. CASE m.x = "want"
    <3> DEFINE f == Out("FAILURE", chan[i].remote_id, 0, "none")
    <3>1. <<f>> \in Seq(UpMessage) /\ Linked(chan, u \o <<f>>, s2c', sv.ch)
      BY <1>2, <1>6, Mention
    <3> QED BY <2>1, <3>1
  <2>2. CASE m.x # "want"
    <3>1. q = <<>>
      BY <2>2
    <3> QED BY <3>1, <1>5, <1>6, Silence
  <2> QED BY <2>1, <2>2
<1> HIDE DEF q
<1>8. Linked(chan', (c2s \o deferred) \o q, s2c', sv.ch)
  BY <1>3, <1>7 DEF u
<1>9. events' \in Seq(EventType)
  BY <1>3 DEF Plain
<1> QED
  BY <1>1, <1>2, <1>3, <1>7, <1>8, <1>9, Heard

\* A refusal is said, and no slot changes.
LEMMA Refuses ==
    ASSUME NEW t, NEW u, NEW d, NEW s, Linked(t, u, d, s), NEW v, NEW m, UpLonger(v, u, m),
           m.type \in {"OPEN_FAIL", "REQUEST_FAILURE"}, UpFits(m, Len(u) + 1, t, v, s),
           m.ch # 0 => Unnamed(u, m.ch) /\ \A k \in 1..Len(d) : d[k].rid # m.ch
    PROVE  Linked(t, v, d, s)
<1> DEFINE i == 1
           c == t[i]
<1>1. u \in Seq(UpMessage) /\ t \in [Slots -> Chan]
  BY TypesOf DEF Linked
<1>2. i \in Slots
  BY ChannelsAssumption DEF Slots
<1>3. c \in Chan /\ Becomes(t, t, i, c)
  BY <1>1, <1>2 DEF Becomes
<1>4. SlotFits(c, i, u, d, s)
  BY <1>2 DEF Linked, SlotsRight
<1>5. \A type \in {"DATA", "ADJUST"} : \A r : UpUnits(v, type, r) = UpUnits(u, type, r)
  <2>1. \A type, r : UpUnits(v, type, r) = UpUnits(u, type, r) + UpCounts(m, type, r)
    BY DEF UpLonger
  <2>2. \A type \in {"DATA", "ADJUST"} : \A r : UpCounts(m, type, r) = 0
    BY DEF UpCounts
  <2>3. \A type, r : UpUnits(u, type, r) \in Nat
    BY <1>1, UnitsNat
  <2> QED BY <2>1, <2>2, <2>3
<1>6. /\ Len(u) \in Nat /\ Len(v) = Len(u) + 1 /\ v[Len(u) + 1] = m
      /\ \A k \in 1..Len(u) : k \in 1..Len(v) /\ v[k] = u[k]
      /\ \A k \in 1..Len(v) : k \notin 1..Len(u) => v[k] = m
  BY DEF UpLonger
<1> HIDE DEF i, c
<1>7. \A type \in {"CLOSE", "EOF"} : \A r : Mute(u, type, r) => Mute(v, type, r)
  <2> SUFFICES ASSUME NEW type \in {"CLOSE", "EOF"}, NEW r, Mute(u, type, r), NEW k \in 1..Len(v)
               PROVE  v[k].type # type \/ v[k].ch # r
    BY DEF Mute
  <2>1. CASE k \in 1..Len(u)
    BY <2>1, <1>6 DEF Mute
  <2>2. CASE k \notin 1..Len(u)
    BY <2>2, <1>6
  <2> QED BY <2>1, <2>2
<1>8. \A r : Bound(u, s, i, r) => Bound(v, s, i, r)
  BY <1>6 DEF Bound
<1>9. SlotFits(c, i, v, d, s)
  BY <1>4, <1>5, <1>7, <1>8 DEF SlotFits, Adds
<1>10. \A r : Holds(t, i, r) => Holds(t, i, r) \/ (m.type = "OPEN_CONFIRM" /\ r = m.ch)
  OBVIOUS
<1>11. c = t[i]
  BY DEF c
<1>12. m.type \in Outcomes /\ m.ch # 0 => Unnamed(u, m.ch) /\ \A k \in 1..Len(d) : d[k].rid # m.ch
  OBVIOUS
<1>13. m.type \in {"OPEN", "OPEN_CONFIRM", "OPEN_FAIL", "REQUEST_FAILURE"} /\ m.type # "OPEN"
  OBVIOUS
<1> QED
  BY <1>3, <1>9, <1>10, <1>11, <1>12, <1>13, Announce

\* A global request is refused, if it asks for an answer.
LEMMA GlobalHeard ==
    ASSUME Plain, Links, RecvGlobalRequest
    PROVE  Plain' /\ Links' /\ Rested'
<1> DEFINE u == c2s \o deferred
           f == Out("REQUEST_FAILURE", 0, 0, "none")
           q == IF Head(s2c).x = "want" THEN <<f>> ELSE <<>>
<1>1. Incoming("GLOBAL_REQUEST") /\ Taken /\ Send(q)
      /\ UNCHANGED <<chan, x11_active, closed, err, locked, events>>
  BY DEF RecvGlobalRequest
<1>2. /\ DownShorter(s2c', s2c) /\ s2c[1] = Head(s2c) /\ Head(s2c).type = "GLOBAL_REQUEST"
      /\ busy' = TRUE /\ sv' = sv /\ left' = left
  BY <1>1, NextPacket
<1>3. Linked(chan, u, s2c, sv.ch)
  BY DEF Links
<1>4. u \in Seq(UpMessage) /\ chan \in [Slots -> Chan]
  BY <1>3, TypesOf DEF Linked
<1> HIDE DEF u
<1>5. Linked(chan, u, s2c', sv.ch)
  BY <1>2, <1>3, HearOnly
<1>6. f \in UpMessage /\ f.type = "REQUEST_FAILURE" /\ f.ch = 0
  <2>1. "REQUEST_FAILURE" \in OutTypes /\ 0 \in Nat /\ "none" \in {"none", "want", "nowant", "asked", "answer"}
    BY DEF OutTypes
  <2> QED BY <2>1, OutType
<1> HIDE DEF f
<1>7. ASSUME Head(s2c).x = "want" PROVE <<f>> \in Seq(UpMessage) /\ Linked(chan, u \o <<f>>, s2c', sv.ch)
  <2> DEFINE v == u \o <<f>>
  <2>1. <<f>> \in Seq(UpMessage) /\ UpLonger(v, u, f)
    BY <1>4, <1>6, OneMore
  <2> HIDE DEF v
  <2>2. UpFits(f, Len(u) + 1, chan, v, sv.ch)
    BY <1>6 DEF UpFits, Talk
  <2>3. Linked(chan, v, s2c', sv.ch)
    BY <2>1, <2>2, <1>5, <1>6, Refuses
  <2> QED BY <2>1, <2>3 DEF v
<1>8. q \in Seq(UpMessage) /\ Linked(chan, u \o q, s2c', sv.ch)
  <2>1. CASE Head(s2c).x = "want"
    BY <2>1, <1>7
  <2>2. CASE Head(s2c).x # "want"
    <3>1. q = <<>>
      BY <2>2
    <3> QED BY <3>1, <1>4, <1>5, Silence
  <2> QED BY <2>1, <2>2
<1> HIDE DEF q
<1>9. Linked(chan', (c2s \o deferred) \o q, s2c', sv.ch)
  BY <1>1, <1>8 DEF u
<1>10. events' \in Seq(EventType)
  BY <1>1 DEF Plain
<1> QED
  BY <1>1, <1>2, <1>8, <1>9, <1>10, Heard

\* The server opens a channel: an x11 one takes a slot, any other is refused.
LEMMA OpenHeard ==
    ASSUME Plain, Links, RecvOpen
    PROVE  Plain' /\ Links' /\ Rested'
<1> DEFINE u == c2s \o deferred
           d == s2c'
           s == sv.ch
           m == Head(s2c)
           r == m.rid
           i == find_free_chan
           accepts == x11_active /\ m.x = "x11" /\ FreeSlots # {}
<1>1. Incoming("OPEN") /\ Taken /\ UNCHANGED <<x11_active, closed, err, locked>>
  BY DEF RecvOpen
<1>2. /\ DownShorter(d, s2c) /\ s2c[1] = m /\ m.type = "OPEN" /\ m \in DownMessage
      /\ busy' = TRUE /\ sv' = sv /\ left' = left
      /\ DownFits(m, 1, chan, u, s2c, s)
      /\ \A k \in 1..Len(d) : DownFollows(m, d[k])
  BY <1>1, NextPacket
<1>3. Linked(chan, u, s2c, s)
  BY DEF Links
<1>4. /\ u \in Seq(UpMessage) /\ chan \in [Slots -> Chan] /\ Len(u) \in Nat /\ s \in [Rids -> SvChan]
      /\ s2c \in Seq(DownMessage)
  BY <1>3, TypesOf DEF Linked
<1>5. /\ m.n = SvWindow /\ (m.x = "x11" => r # 0)
      /\ r # 0 => s[r].state = "opening" /\ Unheld(chan, r) /\ Unnamed(u, r)
  BY <1>2 DEF DownFits
<1>6. r \in Rids \cup {0} /\ r \in Nat
  BY <1>2, MessageFields DEF Rids
<1>7. d \in Seq(DownMessage)
  BY <1>2 DEF DownShorter
<1> HIDE DEF u, d, s
<1>8. Linked(chan, u, d, s)
  BY <1>2, <1>3, HearOnly
<1>9. r # 0 => \A k \in 1..Len(d) : d[k].rid # r
  BY <1>2 DEF DownFollows
<1> HIDE DEF m, r, i
<1>10. ASSUME accepts PROVE Plain' /\ Links' /\ Rested'
  <2> DEFINE c == [FreeChan EXCEPT !.state = "OPEN", !.remote_id = r, !.remote_window = m.n,
                                   !.local_window = Window, !.is_x11 = TRUE]
             f == Out("OPEN_CONFIRM", r, i, "none")
             v == u \o <<f>>
  <2>1. /\ chan' = [chan EXCEPT ![i] = c] /\ Send(<<f>>)
        /\ events' = Append(events, Event("X11_OPEN", i))
    BY <1>10 DEF RecvOpen, m, r, i
  <2>2. i \in Slots /\ chan[i].state = "FREE"
    BY <1>10, FirstFree DEF i
  <2>3. r \in Rids /\ r # 0 /\ s[r].state = "opening" /\ Unheld(chan, r) /\ Unnamed(u, r)
    BY <1>5, <1>6, <1>10
  <2>4. /\ c \in Chan /\ c.state = "OPEN" /\ c.remote_id = r /\ c.remote_window = SvWindow
        /\ c.local_window = Window /\ c.written = 0 /\ c.out = 0 /\ c.surfaced = 0 /\ c.x11_pending = 0
        /\ c.eof_sent = FALSE /\ c.close_recv = FALSE
    <3>1. m.n \in 0..WindowLimit /\ Window \in 0..Window
      BY <1>5, ChannelsAssumption
    <3>2. c \in Chan
      BY <3>1, <2>3, FreeType DEF Chan
    <3> QED BY <3>2, <1>5, FreeType DEF Chan
  <2>5. f \in UpMessage /\ f.type = "OPEN_CONFIRM" /\ f.ch = r /\ f.n = i
    <3>1. "OPEN_CONFIRM" \in OutTypes /\ i \in Nat /\ "none" \in {"none", "want", "nowant", "asked", "answer"}
      BY <2>2 DEF OutTypes, Slots
    <3> QED BY <3>1, <1>6, OutType
  <2> HIDE DEF c, f
  <2>6. <<f>> \in Seq(UpMessage) /\ UpLonger(v, u, f)
    BY <1>4, <2>5, OneMore
  <2> HIDE DEF v
  <2>7. chan'[i] = c /\ Becomes(chan', chan, i, c)
    BY <1>4, <2>1, <2>2, <2>4 DEF Becomes
  <2>8. Holds(chan', i, r)
    BY <2>4, <2>7 DEF Holds
  <2>9. UpFits(f, Len(u) + 1, chan', v, s)
    BY <2>2, <2>3, <2>5, <2>8 DEF UpFits, Talk
  <2>10. /\ Len(v) = Len(u) + 1 /\ v[Len(u) + 1] = f
         /\ \A k \in 1..Len(u) : v[k] = u[k]
         /\ \A k \in 1..Len(v) : k \notin 1..Len(u) => v[k] = f
    BY <1>4, <2>6 DEF UpLonger
  <2>11. \A k \in 1..Len(v) : v[k].ch = r => v[k].type \in {"OPEN", "OPEN_CONFIRM"}
    <3> SUFFICES ASSUME NEW k \in 1..Len(v), v[k].ch = r
                 PROVE  v[k].type \in {"OPEN", "OPEN_CONFIRM"}
      OBVIOUS
    <3>1. CASE k \in 1..Len(u)
      BY <3>1, <2>3, <2>10 DEF Unnamed
    <3>2. CASE k \notin 1..Len(u)
      BY <3>2, <2>5, <2>10
    <3> QED BY <3>1, <3>2
  <2>12. Mute(v, "CLOSE", r) /\ Mute(v, "EOF", r)
    BY <2>11 DEF Mute
  <2>13. /\ UpUnits(v, "DATA", r) = 0 /\ UpUnits(v, "ADJUST", r) = 0
         /\ DownUnits(d, "DATA", r) = 0 /\ DownUnits(d, "ADJUST", r) = 0
    <3>1. v \in Seq(UpMessage)
      BY <2>6 DEF UpLonger
    <3>2. /\ \A k \in 1..Len(v) : v[k].type = "DATA" => v[k].ch # r
          /\ \A k \in 1..Len(v) : v[k].type = "ADJUST" => v[k].ch # r
      BY <2>11
    <3> QED BY <3>1, <3>2, <1>7, <1>9, <2>3, UnitsNat
  <2>14. /\ s[r].grant = SvWindow /\ s[r].got = 0 /\ s[r].sent = 0
         /\ ~s[r].close_in /\ ~s[r].eof_in
    <3>1. SvFits(s[r], r, chan, u, d)
      BY <1>8, <2>3 DEF Linked, SvRight
    <3>2. s[r] = [SvNone EXCEPT !.state = "opening", !.cookie = s[r].cookie, !.grant = SvWindow]
      BY <3>1, <2>3 DEF SvFits
    <3> QED BY <3>2 DEF SvNone
  <2>15. Bound(v, s, i, r)
    <3>1. Len(u) + 1 \in 1..Len(v)
      BY <1>4, <2>10
    <3> QED BY <3>1, <2>3, <2>5, <2>10 DEF Bound
  <2>16. Adds(c, v, d, s[r], r)
    <3>1. SvWindow \in Nat /\ Window \in Nat
      BY ChannelsAssumption
    <3> QED BY <3>1, <2>3, <2>4, <2>13, <2>14 DEF Adds
  <2>17. SlotFits(c, i, v, d, s)
    BY <2>3, <2>4, <2>12, <2>14, <2>15, <2>16 DEF SlotFits
  <2>18. \A x : Holds(chan', i, x) => Holds(chan, i, x) \/ (f.type = "OPEN_CONFIRM" /\ x = f.ch)
    BY <2>4, <2>5, <2>7 DEF Holds
  <2>19. f.type \in Outcomes /\ f.ch # 0 => Unnamed(u, f.ch) /\ \A k \in 1..Len(d) : d[k].rid # f.ch
    BY <1>9, <2>3, <2>5
  <2>20. f.type \in {"OPEN", "OPEN_CONFIRM", "OPEN_FAIL", "REQUEST_FAILURE"} /\ f.type # "OPEN"
    BY <2>5
  <2>21. Linked(chan', v, d, s)
    BY <1>8, <2>2, <2>6, <2>7, <2>9, <2>17, <2>18, <2>19, <2>20, Announce
  <2>22. Linked(chan', (c2s \o deferred) \o <<f>>, s2c', sv.ch)
    BY <2>21 DEF v, u, d, s
  <2>23. events' \in Seq(EventType)
    <3>1. events \in Seq(EventType) /\ Event("X11_OPEN", i) \in EventType
      BY <2>2 DEF Plain, EventType, Event
    <3> QED BY <3>1, <2>1, AppendProperties
  <2> QED BY <1>1, <1>2, <2>1, <2>6, <2>22, <2>23, Heard
<1>11. ASSUME ~accepts PROVE Plain' /\ Links' /\ Rested'
  <2> DEFINE f == Out("OPEN_FAIL", r, 0, "none")
             v == u \o <<f>>
  <2>1. Send(<<f>>) /\ UNCHANGED <<chan, events>>
    BY <1>11 DEF RecvOpen, m, r
  <2>2. f \in UpMessage /\ f.type = "OPEN_FAIL" /\ f.ch = r
    <3>1. "OPEN_FAIL" \in OutTypes /\ 0 \in Nat /\ "none" \in {"none", "want", "nowant", "asked", "answer"}
      BY DEF OutTypes
    <3> QED BY <3>1, <1>6, OutType
  <2> HIDE DEF f
  <2>3. <<f>> \in Seq(UpMessage) /\ UpLonger(v, u, f)
    BY <1>4, <2>2, OneMore
  <2> HIDE DEF v
  <2>4. UpFits(f, Len(u) + 1, chan, v, s)
    BY <1>5, <1>6, <2>2 DEF UpFits, Talk
  <2>5. f.ch # 0 => Unnamed(u, f.ch) /\ \A k \in 1..Len(d) : d[k].rid # f.ch
    BY <1>5, <1>9, <2>2
  <2>6. Linked(chan, v, d, s)
    BY <1>8, <2>2, <2>3, <2>4, <2>5, Refuses
  <2>7. Linked(chan', (c2s \o deferred) \o <<f>>, s2c', sv.ch)
    BY <2>1, <2>6 DEF v, u, d, s
  <2>8. events' \in Seq(EventType)
    BY <2>1 DEF Plain
  <2> QED BY <1>1, <1>2, <2>1, <2>3, <2>7, <2>8, Heard
<1> QED
  BY <1>10, <1>11

\* A channel of the client's is confirmed; one closed meanwhile is flushed at once.
LEMMA ConfirmHeard ==
    ASSUME Plain, Links, RecvConfirm
    PROVE  Plain' /\ Links' /\ Rested'
<1> DEFINE u == c2s \o deferred
           d == s2c'
           s == sv.ch
           m == Head(s2c)
           r == m.rid
           i == m.ch
           b == chan[i]
           c == [b EXCEPT !.state = "OPEN", !.remote_id = r, !.remote_window = m.n]
           t == [chan EXCEPT ![i] = c]
           opened == <<Event("OPEN", i)>>
<1>1. Incoming("OPEN_CONFIRM") /\ Taken /\ UNCHANGED <<x11_active, locked>>
  BY DEF RecvConfirm, Dispatch
<1>2. /\ DownShorter(d, s2c) /\ s2c[1] = m /\ m.type = "OPEN_CONFIRM"
      /\ busy' = TRUE /\ sv' = sv /\ left' = left
      /\ DownFits(m, 1, chan, u, s2c, s) /\ i \in Slots /\ b.state = "OPENING"
  BY <1>1, NextPacket DEF Outcomes
<1>3. r \in Rids /\ m.n = SvWindow
  BY <1>2 DEF DownFits
<1>4. /\ UNCHANGED <<closed, err>>
      /\ IF c.want_close THEN chan_flush(i, c, opened)
         ELSE chan' = t /\ events' = events \o opened /\ Send(<<>>)
  BY <1>2 DEF RecvConfirm, Stale, Slot, NoFailure
<1>5. Linked(chan, u, s2c, s)
  BY DEF Links
<1>6. u \in Seq(UpMessage) /\ chan \in [Slots -> Chan] /\ b \in Chan
  BY <1>2, <1>5, TypesOf DEF Linked
<1>7. /\ c \in Chan /\ c.state = "OPEN" /\ c.remote_id = r /\ c.remote_window = m.n
      /\ c.local_window = b.local_window /\ c.written = b.written /\ c.out = b.out
      /\ c.surfaced = b.surfaced /\ c.x11_pending = b.x11_pending
      /\ c.eof_sent = b.eof_sent /\ c.close_recv = b.close_recv
  <2>1. m.n \in 0..WindowLimit
    BY <1>3, ChannelsAssumption
  <2> HIDE DEF b
  <2> QED BY <2>1, <1>3, <1>6 DEF Chan
<1> HIDE DEF u, d, s
<1>8. opened \in Seq(EventType) /\ events \in Seq(EventType)
  <2>1. Event("OPEN", i) \in EventType
    BY <1>2 DEF EventType, Event
  <2>2. events \in Seq(EventType)
    BY DEF Plain
  <2> QED BY <2>1, <2>2
<1> HIDE DEF c, opened
<1>9. Linked(t, u, d, s)
  <2>1. Becomes(t, chan, i, c)
    BY <1>2, <1>7 DEF Becomes
  <2> HIDE DEF t
  <2> QED BY <1>2, <1>5, <1>7, <2>1, HearConfirm
<1>10. CASE c.want_close
  <2>1. chan_flush(i, c, opened)
    BY <1>4, <1>10
  <2>2. /\ FlushMsgs(c) \in Seq(UpMessage) /\ Send(FlushMsgs(c)) /\ events' \in Seq(EventType)
        /\ Linked(chan', u \o FlushMsgs(c), d, s)
    BY <1>2, <1>6, <1>8, <1>9, <2>1, Flushing
  <2>3. Linked(chan', (c2s \o deferred) \o FlushMsgs(c), s2c', sv.ch)
    BY <2>2 DEF u, d, s
  <2> QED BY <1>1, <1>2, <1>4, <2>2, <2>3, Heard
<1>11. CASE ~c.want_close
  <2>1. chan' = t /\ events' = events \o opened /\ Send(<<>>)
    BY <1>4, <1>11
  <2>2. events' \in Seq(EventType)
    BY <2>1, <1>8, ConcatProperties
  <2>3. Linked(chan', u \o <<>>, d, s)
    BY <2>1, <1>6, <1>9, Silence
  <2>4. Linked(chan', (c2s \o deferred) \o <<>>, s2c', sv.ch)
    BY <2>3 DEF u, d, s
  <2>5. <<>> \in Seq(UpMessage)
    BY Silence
  <2> QED BY <1>1, <1>2, <1>4, <2>1, <2>2, <2>4, <2>5, Heard
<1> QED
  BY <1>10, <1>11

\* It is refused: its slot is free again.
LEMMA OpenFailHeard ==
    ASSUME Plain, Links, RecvOpenFail
    PROVE  Plain' /\ Links' /\ Rested'
<1> DEFINE u == c2s \o deferred
           d == s2c'
           s == sv.ch
           m == Head(s2c)
           i == m.ch
<1>1. Incoming("OPEN_FAIL") /\ Taken /\ UNCHANGED <<x11_active, locked>>
  BY DEF RecvOpenFail, Dispatch
<1>2. /\ DownShorter(d, s2c) /\ s2c[1] = m /\ m.type = "OPEN_FAIL"
      /\ busy' = TRUE /\ sv' = sv /\ left' = left
      /\ i \in Slots /\ chan[i].state = "OPENING"
  BY <1>1, NextPacket DEF Outcomes
<1>3. /\ UNCHANGED <<closed, err>> /\ chan' = [chan EXCEPT ![i] = FreeChan]
      /\ events' = Append(events, Event("OPEN_FAILED", i)) /\ Send(<<>>)
  BY <1>2 DEF RecvOpenFail, Stale, Slot, NoFailure
<1>4. Linked(chan, u, s2c, s)
  BY DEF Links
<1>5. u \in Seq(UpMessage)
  BY <1>4, TypesOf DEF Linked
<1> HIDE DEF u, d, s
<1>6. Linked(chan, u, d, s)
  BY <1>2, <1>4, HearOnly
<1>7. /\ Len(d) \in Nat /\ Len(s2c) = Len(d) + 1 /\ 1 \in 1..Len(s2c)
      /\ \A k \in 1..Len(d) : k + 1 \in 1..Len(s2c) /\ k + 1 # 1 /\ d[k] = s2c[k + 1]
  BY <1>2 DEF DownShorter
<1>8. OneOutcome(u, s2c)
  BY <1>4 DEF Linked
<1>9. \A k \in 1..Len(u) : u[k].type = "OPEN" => u[k].ch # i
  BY <1>2, <1>7, <1>8 DEF OneOutcome, Outcomes
<1>10. ASSUME NEW k \in 1..Len(d), d[k].type \in Outcomes PROVE d[k].ch # i
  <2>1. k + 1 \in 1..Len(s2c) /\ k + 1 # 1 /\ d[k] = s2c[k + 1]
    BY <1>7
  <2>2. s2c[k + 1].type \in Outcomes /\ s2c[1].type \in Outcomes /\ s2c[1].ch = i
    BY <2>1, <1>2, <1>10 DEF Outcomes
  <2> QED BY <2>1, <2>2, <1>7, <1>8 DEF OneOutcome
<1>11. Becomes(chan', chan, i, FreeChan)
  BY <1>2, <1>3, FreeType DEF Becomes
<1>12. Linked(chan', u, d, s)
  BY <1>2, <1>6, <1>9, <1>10, <1>11, FreeSlot
<1>13. Linked(chan', (c2s \o deferred) \o <<>>, s2c', sv.ch) /\ <<>> \in Seq(UpMessage)
  <2>1. Linked(chan', u \o <<>>, d, s)
    BY <1>5, <1>12, Silence
  <2> QED BY <2>1, Silence DEF u, d, s
<1>14. events' \in Seq(EventType)
  <2>1. events \in Seq(EventType) /\ Event("OPEN_FAILED", i) \in EventType
    BY <1>2 DEF Plain, EventType, Event
  <2> QED BY <2>1, <1>3, AppendProperties
<1> QED
  BY <1>1, <1>2, <1>3, <1>13, <1>14, Heard

\* The window of a channel grows, no further than the server granted, and it is flushed.
LEMMA AdjustHeard ==
    ASSUME Plain, Links, RecvAdjust
    PROVE  Plain' /\ Links' /\ Rested'
<1> DEFINE u == c2s \o deferred
           d == s2c'
           s == sv.ch
           m == Head(s2c)
           r == m.rid
           i == m.ch
           b == chan[i]
           n == Min({b.remote_window + m.n, WindowLimit})
           c == [b EXCEPT !.remote_window = Min({@ + m.n, WindowLimit})]
           t == [chan EXCEPT ![i] = c]
<1>1. Incoming("ADJUST") /\ Taken /\ UNCHANGED <<x11_active, locked>>
  BY DEF RecvAdjust, Dispatch
<1>2. /\ DownShorter(d, s2c) /\ s2c[1] = m /\ m.type = "ADJUST" /\ m \in DownMessage
      /\ busy' = TRUE /\ sv' = sv /\ left' = left
      /\ r \in Rids /\ i \in Slots /\ Holds(chan, i, r) /\ b.state = "OPEN" /\ b.remote_id = r
  <2>1. "ADJUST" \in ChannelTypes
    BY DEF ChannelTypes
  <2>2. /\ DownShorter(d, s2c) /\ s2c[1] = m /\ m.type = "ADJUST" /\ m \in DownMessage
        /\ busy' = TRUE /\ sv' = sv /\ left' = left
    BY <1>1, NextPacket
  <2>3. r \in Rids /\ i \in Slots /\ Holds(chan, i, r)
    BY <2>1, <1>1, NextPacket
  <2> QED BY <2>2, <2>3 DEF Holds
<1>3. UNCHANGED <<closed, err>> /\ chan_flush(i, c, <<>>)
  BY <1>2 DEF RecvAdjust, Stale, Slot, NoFailure
<1>4. Linked(chan, u, s2c, s)
  BY DEF Links
<1>5. /\ u \in Seq(UpMessage) /\ chan \in [Slots -> Chan] /\ b \in Chan /\ s[r] \in SvChan
      /\ s2c \in Seq(DownMessage) /\ d \in Seq(DownMessage)
  BY <1>2, <1>4, TypesOf DEF Linked, DownShorter
<1>6. SlotFits(b, i, u, s2c, s)
  BY <1>2, <1>4 DEF Linked, SlotsRight
<1> HIDE DEF u, d, s, m, r, b
<1>7. /\ DownUnits(s2c, "ADJUST", r) = DownUnits(d, "ADJUST", r) + m.n
      /\ DownUnits(s2c, "DATA", r) = DownUnits(d, "DATA", r)
      /\ DownUnits(d, "ADJUST", r) \in Nat /\ m.n \in Nat
  <2>1. /\ DownUnits(s2c, "ADJUST", r) = DownUnits(d, "ADJUST", r) + DownCounts(m, "ADJUST", r)
        /\ DownUnits(s2c, "DATA", r) = DownUnits(d, "DATA", r) + DownCounts(m, "DATA", r)
    BY <1>2 DEF DownShorter
  <2>2. DownCounts(m, "ADJUST", r) = m.n /\ DownCounts(m, "DATA", r) = 0
    BY <1>2 DEF DownCounts, r
  <2>3. DownUnits(d, "ADJUST", r) \in Nat /\ DownUnits(d, "DATA", r) \in Nat
    BY <1>5, UnitsNat
  <2> QED BY <2>1, <2>2, <2>3, <1>2, MessageFields
<1>8. n = b.remote_window + m.n /\ n \in 0..WindowLimit
  <2>1. b.remote_window + DownUnits(s2c, "ADJUST", r) + UpUnits(u, "DATA", r) = s[r].grant
    BY <1>2, <1>6 DEF SlotFits, Adds
  <2>2. /\ s[r].grant \in Nat /\ s[r].grant <= WindowLimit /\ b.remote_window \in Nat
        /\ UpUnits(u, "DATA", r) \in Nat /\ WindowLimit \in Nat
    <3>1. s[r].grant \in 0..SvWindow /\ SvWindow \in Nat /\ SvWindow <= WindowLimit /\ WindowLimit \in Nat
      BY <1>5, SvFields, ChannelsAssumption
    <3>2. b.remote_window \in 0..WindowLimit
      BY <1>5, ChanFields
    <3> QED BY <3>1, <3>2, <1>5, UnitsNat
  <2> DEFINE x == b.remote_window + m.n
  <2>3. x \in Nat /\ x <= WindowLimit
    BY <2>1, <2>2, <1>7
  <2> HIDE DEF x
  <2>4. Min({x, WindowLimit}) = x
    <3>1. \E z \in {x, WindowLimit} : \A y \in {x, WindowLimit} : z <= y
      BY <2>2, <2>3
    <3>2. Min({x, WindowLimit}) \in {x, WindowLimit} /\ Min({x, WindowLimit}) <= x
      BY <3>1 DEF Min
    <3> QED BY <3>2, <2>2, <2>3
  <2>5. n = x
    BY <2>4 DEF x
  <2> HIDE DEF n
  <2> QED BY <2>2, <2>3, <2>5 DEF x
<1>9. c = [b EXCEPT !.remote_window = n]
  OBVIOUS
<1> HIDE DEF n, c
<1>10. /\ c \in Chan /\ c.state = b.state /\ c.remote_id = b.remote_id /\ c.remote_window = n
       /\ c.local_window = b.local_window /\ c.close_sent = b.close_sent /\ c.eof_sent = b.eof_sent
       /\ c.close_recv = b.close_recv /\ c.x11_pending = b.x11_pending /\ c.surfaced = b.surfaced
       /\ c.out = b.out /\ c.written = b.written /\ c.want_eof = b.want_eof
  BY <1>5, <1>8, <1>9 DEF Chan
<1>11. Adds(c, u, d, s[r], r)
  <2>1. Adds(b, u, s2c, s[r], r)
    BY <1>2, <1>6 DEF SlotFits
  <2>2. b.remote_window \in Nat /\ UpUnits(u, "DATA", r) \in Nat
    <3>1. WindowLimit \in Nat /\ b.remote_window \in 0..WindowLimit
      BY <1>5, ChanFields, ChannelsAssumption
    <3> QED BY <3>1, <1>5, UnitsNat
  <2>3. b.remote_window + DownUnits(s2c, "ADJUST", r) + UpUnits(u, "DATA", r) = s[r].grant
    BY <2>1 DEF Adds
  <2>4. n + DownUnits(d, "ADJUST", r) + UpUnits(u, "DATA", r) = s[r].grant
    BY <2>2, <2>3, <1>7, <1>8
  <2> QED BY <2>1, <2>4, <1>7, <1>10 DEF Adds
<1>12. SlotFits(c, i, u, d, s)
  BY <1>2, <1>6, <1>10, <1>11 DEF SlotFits
<1>13. Linked(t, u, d, s)
  <2>1. Becomes(t, chan, i, c) /\ SameChannel(c, chan[i])
    BY <1>2, <1>10 DEF Becomes, SameChannel, b
  <2>2. s2c[1].type # "OPEN_CONFIRM" /\ (s2c[1].type \in {"DATA", "ADJUST"} => Holds(chan, i, s2c[1].rid))
    BY <1>2 DEF r
  <2> HIDE DEF t
  <2> QED BY <1>2, <1>4, <1>12, <2>1, <2>2, Hear
<1>14. <<>> \in Seq(EventType)
  OBVIOUS
<1>15. /\ FlushMsgs(c) \in Seq(UpMessage) /\ Send(FlushMsgs(c)) /\ events' \in Seq(EventType)
       /\ Linked(chan', u \o FlushMsgs(c), d, s)
  BY <1>2, <1>3, <1>5, <1>13, <1>14, Flushing
<1>16. Linked(chan', (c2s \o deferred) \o FlushMsgs(c), s2c', sv.ch)
  BY <1>15 DEF u, d, s
<1> QED
  BY <1>1, <1>2, <1>3, <1>15, <1>16, Heard

\* The server's CLOSE: answered if ours has not gone out, and the slot is free again.
LEMMA CloseHeard ==
    ASSUME Plain, Links, RecvClose
    PROVE  Plain' /\ Links' /\ Rested'
<1> DEFINE u == c2s \o deferred
           d == s2c'
           s == sv.ch
           m == Head(s2c)
           r == m.rid
           i == m.ch
           b == chan[i]
           c == [b EXCEPT !.close_sent = TRUE]
           q == Answer(b)
           t == [chan EXCEPT ![i] = c]
           v == u \o q
<1>1. Incoming("CLOSE") /\ Taken /\ UNCHANGED <<x11_active, locked>>
  BY DEF RecvClose, Dispatch
<1>2. /\ DownShorter(d, s2c) /\ s2c[1] = m /\ m.type = "CLOSE"
      /\ busy' = TRUE /\ sv' = sv /\ left' = left
      /\ DownFits(m, 1, chan, u, s2c, s) /\ \A k \in 1..Len(d) : DownFollows(m, d[k])
  BY <1>1, NextPacket
<1>3. r \in Rids /\ i \in Slots /\ Holds(chan, i, r) /\ b.state = "OPEN" /\ b.remote_id = r
  <2>1. "CLOSE" \in ChannelTypes
    BY DEF ChannelTypes
  <2>2. r \in Rids /\ i \in Slots /\ Holds(chan, i, r)
    BY <2>1, <1>1, NextPacket
  <2> QED BY <2>2 DEF Holds
<1>4. /\ UNCHANGED <<closed, err>> /\ chan' = [chan EXCEPT ![i] = FreeChan]
      /\ events' = Append(events, Event("CLOSE", i)) /\ Send(q)
  BY <1>3 DEF RecvClose, Stale, Slot, NoFailure
<1>5. Linked(chan, u, s2c, s)
  BY DEF Links
<1>6. u \in Seq(UpMessage) /\ chan \in [Slots -> Chan] /\ b \in Chan
  BY <1>3, <1>5, TypesOf DEF Linked
<1>7. SlotFits(b, i, u, s2c, s)
  BY <1>3, <1>5 DEF Linked, SlotsRight
<1>8. s[r].close_out /\ s[r].state \in {"open", "done"} /\ \A k \in 1..Len(d) : d[k].rid # r
  <2>1. r # 0
    BY <1>3 DEF Rids
  <2> QED BY <2>1, <1>2 DEF DownFits, DownFollows, ChannelTypes
<1> HIDE DEF u, d, s, m, b
<1>9. /\ c \in Chan /\ c.state = b.state /\ c.remote_id = b.remote_id /\ c.remote_window = b.remote_window
      /\ c.local_window = b.local_window /\ c.close_sent = TRUE /\ c.eof_sent = b.eof_sent
      /\ c.close_recv = b.close_recv /\ c.x11_pending = b.x11_pending /\ c.surfaced = b.surfaced
      /\ c.out = b.out /\ c.written = b.written /\ c.want_eof = b.want_eof
  BY <1>6 DEF Chan
<1> HIDE DEF c
<1>10. PICK t1 : /\ q \in Seq(UpMessage) /\ Linked(t1, v, s2c, s) /\ t1[i].state = "OPEN"
                 /\ t1[i].remote_id = r /\ [t1 EXCEPT ![i] = FreeChan] = [chan EXCEPT ![i] = FreeChan]
  <2>1. CASE b.close_sent
    <3>1. q = <<>>
      BY <2>1 DEF Answer
    <3>2. v = u /\ q \in Seq(UpMessage)
      BY <3>1, <1>6, Silence
    <3>3. /\ q \in Seq(UpMessage) /\ Linked(chan, v, s2c, s) /\ chan[i].state = "OPEN"
          /\ chan[i].remote_id = r /\ [chan EXCEPT ![i] = FreeChan] = [chan EXCEPT ![i] = FreeChan]
      BY <3>2, <1>3, <1>5 DEF b
    <3> QED BY <3>3
  <2>2. CASE ~b.close_sent
    <3> DEFINE f == Out("CLOSE", r, b.written, "answer")
    <3>1. f \in UpMessage /\ f.type = "CLOSE" /\ f.ch = r /\ f.x = "answer"
      <4>1. /\ "CLOSE" \in OutTypes /\ r \in Nat /\ b.written \in Nat
            /\ "answer" \in {"none", "want", "nowant", "asked", "answer"}
        BY <1>3, <1>6, ChanFields DEF OutTypes, Rids
      <4> QED BY <4>1, OutType
    <3>2. q = <<f>>
      BY <2>2, <1>3 DEF Answer
    <3> HIDE DEF f
    <3>3. q \in Seq(UpMessage) /\ Len(q) = 1 /\ \A k \in 1..1 : q[k] = f
      BY <3>1, <3>2
    <3>4. UpUnits(q, "DATA", r) = 0 /\ UpUnits(q, "ADJUST", r) = 0
      BY <3>1, <3>2, UnitsOfOne DEF UpCounts
    <3> HIDE DEF q
    <3>5. b.remote_window \in Nat /\ b.local_window \in Nat /\ b.out \in Nat
      BY <1>6, ChanFields, ChannelsAssumption
    <3>6. ~b.close_recv /\ (b.eof_sent => b.out = 0 /\ b.want_eof)
      BY <1>7 DEF SlotFits
    <3>7. \A k \in 1..Len(q) : q[k].ch = r /\ q[k].type = "CLOSE" /\ q[k].x = "answer"
      BY <3>1, <3>3
    <3>8. Tells(b, c, q, r)
      BY <2>2, <3>3, <3>4, <3>5, <3>6, <3>7, <1>9 DEF Tells, About, Talk
    <3>9. Becomes(t, chan, i, c) /\ SameChannel(c, chan[i]) /\ Tells(chan[i], c, q, c.remote_id)
      BY <3>8, <1>3, <1>9 DEF Becomes, SameChannel, b
    <3>10. chan[i].state = "OPEN"
      BY <1>3 DEF b
    <3>11. Linked(t, u \o q, s2c, s)
      <4> HIDE DEF t
      <4> QED BY <3>3, <3>9, <3>10, <1>5, Tell
    <3>12. t[i] = c /\ [t EXCEPT ![i] = FreeChan] = [chan EXCEPT ![i] = FreeChan]
      BY <1>3, <1>6
    <3>13. /\ q \in Seq(UpMessage) /\ Linked(t, v, s2c, s) /\ t[i].state = "OPEN"
           /\ t[i].remote_id = r /\ [t EXCEPT ![i] = FreeChan] = [chan EXCEPT ![i] = FreeChan]
      BY <3>3, <3>11, <3>12, <1>3, <1>9
    <3> QED BY <3>13
  <2> QED BY <2>1, <2>2
<1> HIDE DEF q, v, t
<1>11. Linked(t1, v, d, s)
  BY <1>2, <1>10, HearOnly
<1>12. \A k \in 1..Len(v) : v[k].type = "OPEN" => v[k].ch # i
  <2>1. \A k \in 1..Len(v) : UpFits(v[k], k, t1, v, s)
    BY <1>11 DEF Linked, UpRight
  <2> QED BY <2>1, <1>10 DEF UpFits
<1>13. \A k \in 1..Len(d) : d[k].type \in Outcomes => d[k].ch # i
  <2>1. \A k \in 1..Len(d) : DownFits(d[k], k, t1, v, d, s)
    BY <1>11 DEF Linked, DownRight
  <2> QED BY <2>1, <1>10 DEF DownFits, Outcomes
<1>14. Becomes(chan', t1, i, FreeChan)
  BY <1>3, <1>4, <1>10, FreeType DEF Becomes
<1>15. Linked(chan', v, d, s)
  BY <1>8, <1>10, <1>11, <1>12, <1>13, <1>14, FreeSlot
<1>16. Linked(chan', (c2s \o deferred) \o q, s2c', sv.ch)
  BY <1>15 DEF u, v, d, s
<1>17. events' \in Seq(EventType)
  <2>1. events \in Seq(EventType) /\ Event("CLOSE", i) \in EventType
    BY <1>3 DEF Plain, EventType, Event
  <2> QED BY <2>1, <1>4, AppendProperties
<1> QED
  BY <1>1, <1>2, <1>4, <1>10, <1>16, <1>17, Heard

\* What x11_rewrite_setup() makes of a channel: every unit is held back, or has been surfaced.
LEMMA Inspected ==
    ASSUME NEW b \in Chan, NEW m, m.n \in Nat, NEW c \in Inspect(b, m)
    PROVE  /\ c \in Chan /\ SameChannel(c, b) /\ c.remote_window = b.remote_window
           /\ c.local_window = b.local_window /\ c.close_sent = b.close_sent
           /\ c.eof_sent = b.eof_sent /\ c.close_recv = b.close_recv /\ c.out = b.out
           /\ c.written = b.written /\ c.want_eof = b.want_eof
           /\ c.x11_pending + c.surfaced = b.x11_pending + b.surfaced + m.n
<1>1. b.x11_pending \in Nat /\ b.surfaced \in Nat
  BY ChanFields
<1>2. CASE b.is_x11 /\ ~b.x11_setup_done
  <2> DEFINE n == b.x11_pending + m.n
             k == b.surfaced + n
  <2>1. n \in Nat /\ k \in Nat
    BY <1>1
  <2>2. \/ c = [b EXCEPT !.x11_pending = n]
        \/ c = [b EXCEPT !.x11_setup_done = TRUE, !.x11_pending = 0, !.surfaced = k]
        \/ c = [b EXCEPT !.x11_setup_done = TRUE, !.x11_pending = n, !.rejected = TRUE]
    <3>1. PICK rc \in x11_rewrite_setup(n, m.x) :
             c = CASE rc = "NEED_MORE" -> [b EXCEPT !.x11_pending = n]
                   [] rc = "OK"  -> Rewritten(b, n)
                   [] rc = "BAD" -> [b EXCEPT !.x11_setup_done = TRUE, !.x11_pending = n,
                                              !.rejected = TRUE]
      BY <1>2 DEF Inspect
    <3>2. rc \in {"NEED_MORE", "OK", "BAD"}
      BY DEF x11_rewrite_setup
    <3> QED BY <3>1, <3>2 DEF Rewritten
  <2> HIDE DEF n, k
  <2>3. CASE c = [b EXCEPT !.x11_pending = n]
    <3>1. c \in Chan /\ c.x11_pending = n /\ c.surfaced = b.surfaced
      BY <2>1, <2>3 DEF Chan
    <3> QED BY <2>3, <3>1, <1>1 DEF Chan, SameChannel, n
  <2>4. CASE c = [b EXCEPT !.x11_setup_done = TRUE, !.x11_pending = 0, !.surfaced = k]
    <3>1. c \in Chan /\ c.x11_pending = 0 /\ c.surfaced = k
      BY <2>1, <2>4 DEF Chan
    <3> QED BY <2>4, <3>1, <1>1 DEF Chan, SameChannel, n, k
  <2>5. CASE c = [b EXCEPT !.x11_setup_done = TRUE, !.x11_pending = n, !.rejected = TRUE]
    <3>1. c \in Chan /\ c.x11_pending = n /\ c.surfaced = b.surfaced
      BY <2>1, <2>5 DEF Chan
    <3> QED BY <2>5, <3>1, <1>1 DEF Chan, SameChannel, n
  <2> QED BY <2>2, <2>3, <2>4, <2>5
<1>3. CASE ~(b.is_x11 /\ ~b.x11_setup_done)
  <2> DEFINE k == b.surfaced + m.n
  <2>1. c = [b EXCEPT !.surfaced = k] /\ k \in Nat
    BY <1>1, <1>3 DEF Inspect
  <2> HIDE DEF k
  <2>2. c \in Chan /\ c.surfaced = k /\ c.x11_pending = b.x11_pending
    BY <2>1 DEF Chan
  <2> QED BY <2>1, <2>2, <1>1 DEF Chan, SameChannel, k
<1> QED
  BY <1>2, <1>3

\* The window of an open channel is opened again.
LEMMA Reopens ==
    ASSUME NEW t, NEW u, NEW d, NEW s, Linked(t, u, d, s), NEW i \in Slots, NEW b, b = t[i],
           b.state = "OPEN", ~b.close_sent, NEW c, c = Reopened(b), NEW q,
           q = <<Out("ADJUST", b.remote_id, Window - b.local_window, "none")>>
    PROVE  q \in Seq(UpMessage) /\ Linked([t EXCEPT ![i] = c], u \o q, d, s)
<1> DEFINE n == Window - b.local_window
           m == Out("ADJUST", b.remote_id, n, "none")
           r == b.remote_id
           t2 == [t EXCEPT ![i] = c]
<1>1. t \in [Slots -> Chan] /\ b \in Chan /\ u \in Seq(UpMessage)
  BY TypesOf DEF Linked
<1>2. SlotFits(b, i, u, d, s)
  BY DEF Linked, SlotsRight
<1>3. r \in Rids /\ ~b.close_recv /\ (b.eof_sent => b.out = 0 /\ b.want_eof)
  BY <1>2 DEF SlotFits
<1>4. n \in Nat /\ b.local_window + n = Window /\ Window \in Nat
  <2>1. b.local_window \in 0..Window /\ Window \in Nat
    BY <1>1, ChanFields, ChannelsAssumption
  <2> QED BY <2>1
<1>5. /\ c \in Chan /\ c.state = b.state /\ c.remote_id = b.remote_id /\ c.local_window = Window
      /\ c.remote_window = b.remote_window /\ c.close_sent = b.close_sent /\ c.eof_sent = b.eof_sent
      /\ c.close_recv = b.close_recv /\ c.x11_pending = b.x11_pending /\ c.surfaced = b.surfaced
      /\ c.out = b.out /\ c.written = b.written /\ c.want_eof = b.want_eof
  <2>1. Window \in 0..Window
    BY <1>4
  <2>2. c = [b EXCEPT !.local_window = Window]
    BY DEF Reopened
  <2>3. c \in Chan
    BY <2>1, <2>2, <1>1 DEF Chan
  <2> QED BY <2>2, <2>3, <1>1 DEF Chan
<1> HIDE DEF n
<1>6. m \in UpMessage /\ m.type = "ADJUST" /\ m.ch = r /\ m.n = n
  <2>1. "ADJUST" \in OutTypes /\ r \in Nat /\ "none" \in {"none", "want", "nowant", "asked", "answer"}
    BY <1>3 DEF OutTypes, Rids
  <2> QED BY <2>1, <1>4, OutType
<1>7. q = <<m>>
  BY DEF n
<1> HIDE DEF m
<1>8. q \in Seq(UpMessage) /\ Len(q) = 1 /\ \A k \in 1..Len(q) : q[k] = m
  BY <1>6, <1>7
<1>9. UpUnits(q, "DATA", r) = 0 /\ UpUnits(q, "ADJUST", r) = n
  BY <1>6, <1>7, UnitsOfOne DEF UpCounts
<1>10. \A k \in 1..Len(q) : q[k].ch = r /\ q[k].type = "ADJUST"
  BY <1>6, <1>8
<1>11. b.remote_window \in Nat /\ b.out \in Nat /\ b.local_window \in Nat
  BY <1>1, ChanFields, ChannelsAssumption
<1>12. Tells(b, c, q, r)
  BY <1>3, <1>4, <1>5, <1>8, <1>9, <1>10, <1>11 DEF Tells, About, Talk
<1>13. /\ Becomes(t2, t, i, c) /\ SameChannel(c, t[i]) /\ Tells(t[i], c, q, c.remote_id)
       /\ t[i].state = "OPEN"
  BY <1>5, <1>12 DEF Becomes, SameChannel
<1>14. Linked(t2, u \o q, d, s)
  <2> HIDE DEF t2
  <2> QED BY ONLY Linked(t, u, d, s), <1>8, <1>13, Tell
<1> QED
  BY <1>8, <1>14

\* Data the server had the window for, held back or surfaced.
LEMMA DataTaken ==
    ASSUME Plain, Links, RecvData, NEW m, m = Head(s2c), NEW i, i = m.ch
    PROVE  /\ i \in Slots /\ chan[i].state = "OPEN" /\ ~(m.n > chan[i].local_window)
           /\ \A c \in Inspect([chan[i] EXCEPT !.local_window = @ - m.n], m) :
                 /\ c.state = "OPEN" /\ c \in Chan
                 /\ Linked([chan EXCEPT ![i] = c], c2s \o deferred, s2c', sv.ch)
<1> DEFINE u == c2s \o deferred
           d == s2c'
           s == sv.ch
           r == m.rid
           b == chan[i]
           n == b.local_window - m.n
           counted == [b EXCEPT !.local_window = n]
<1>1. Incoming("DATA") /\ Taken
  BY DEF RecvData, Dispatch
<1>2. /\ DownShorter(d, s2c) /\ s2c[1] = m /\ m.type = "DATA" /\ m \in DownMessage
      /\ r \in Rids /\ i \in Slots /\ Holds(chan, i, r) /\ b.state = "OPEN" /\ b.remote_id = r
  <2>1. "DATA" \in ChannelTypes
    BY DEF ChannelTypes
  <2>2. DownShorter(d, s2c) /\ s2c[1] = m /\ m.type = "DATA" /\ m \in DownMessage
    BY <1>1, NextPacket
  <2>3. r \in Rids /\ i \in Slots /\ Holds(chan, i, r)
    BY <2>1, <1>1, NextPacket
  <2> QED BY <2>2, <2>3 DEF Holds
<1>3. Linked(chan, u, s2c, s)
  BY DEF Links
<1>4. /\ u \in Seq(UpMessage) /\ chan \in [Slots -> Chan] /\ b \in Chan /\ s[r] \in SvChan
      /\ s2c \in Seq(DownMessage) /\ d \in Seq(DownMessage)
  BY <1>2, <1>3, TypesOf DEF Linked, DownShorter
<1>5. SlotFits(b, i, u, s2c, s)
  BY <1>2, <1>3 DEF Linked, SlotsRight
<1>6. [chan[i] EXCEPT !.local_window = @ - m.n] = counted
  OBVIOUS
<1> HIDE DEF u, d, s, r, b
<1>7. /\ DownUnits(s2c, "DATA", r) = DownUnits(d, "DATA", r) + m.n
      /\ DownUnits(s2c, "ADJUST", r) = DownUnits(d, "ADJUST", r)
      /\ DownUnits(d, "DATA", r) \in Nat /\ m.n \in Nat
  <2>1. /\ DownUnits(s2c, "ADJUST", r) = DownUnits(d, "ADJUST", r) + DownCounts(m, "ADJUST", r)
        /\ DownUnits(s2c, "DATA", r) = DownUnits(d, "DATA", r) + DownCounts(m, "DATA", r)
    BY <1>2 DEF DownShorter
  <2>2. DownCounts(m, "DATA", r) = m.n /\ DownCounts(m, "ADJUST", r) = 0
    BY <1>2 DEF DownCounts, r
  <2>3. DownUnits(d, "ADJUST", r) \in Nat /\ DownUnits(d, "DATA", r) \in Nat
    BY <1>4, UnitsNat
  <2> QED BY <2>1, <2>2, <2>3, <1>2, MessageFields
<1>8. Adds(b, u, s2c, s[r], r)
  BY <1>2, <1>5 DEF SlotFits
<1> DEFINE w == IF s[r].state = "opening" THEN Window ELSE s[r].win
           a == UpUnits(u, "ADJUST", r)
<1>9. w \in Nat /\ a \in Nat /\ b.local_window \in Nat /\ b.local_window \in 0..Window
      /\ b.x11_pending \in Nat /\ b.surfaced \in Nat /\ Window \in Nat
  <2>1. s[r].win \in Nat /\ b.local_window \in 0..Window /\ Window \in Nat
        /\ b.x11_pending \in Nat /\ b.surfaced \in Nat
    BY <1>4, ChanFields, SvFields, ChannelsAssumption
  <2>2. a \in Nat
    BY <1>4, UnitsNat
  <2> QED BY <2>1, <2>2
<1>10. w + DownUnits(s2c, "DATA", r) + a = b.local_window
  BY <1>8 DEF Adds
<1> HIDE DEF w, a
<1>11. /\ m.n <= b.local_window /\ n \in Nat /\ n \in 0..Window
       /\ w + DownUnits(d, "DATA", r) + a = n
  BY <1>7, <1>9, <1>10
<1> HIDE DEF n
<1>12. /\ counted \in Chan /\ counted.state = b.state /\ counted.remote_id = b.remote_id
       /\ counted.local_window = n
       /\ counted.remote_window = b.remote_window /\ counted.close_sent = b.close_sent
       /\ counted.eof_sent = b.eof_sent /\ counted.close_recv = b.close_recv
       /\ counted.x11_pending = b.x11_pending /\ counted.surfaced = b.surfaced
       /\ counted.out = b.out /\ counted.written = b.written /\ counted.want_eof = b.want_eof
  <2>1. counted \in Chan
    BY <1>4, <1>11 DEF Chan
  <2> QED BY <2>1, <1>4 DEF Chan
<1> HIDE DEF counted
<1>13. ASSUME NEW c \in Inspect(counted, m)
       PROVE  c.state = "OPEN" /\ c \in Chan /\ Linked([chan EXCEPT ![i] = c], u, d, s)
  <2> DEFINE t == [chan EXCEPT ![i] = c]
  <2>1. /\ c \in Chan /\ SameChannel(c, counted) /\ c.remote_window = counted.remote_window
        /\ c.local_window = counted.local_window /\ c.close_sent = counted.close_sent
        /\ c.eof_sent = counted.eof_sent /\ c.close_recv = counted.close_recv /\ c.out = counted.out
        /\ c.written = counted.written /\ c.want_eof = counted.want_eof
        /\ c.x11_pending + c.surfaced = counted.x11_pending + counted.surfaced + m.n
    BY <1>7, <1>12, Inspected
  <2>2. /\ c.state = "OPEN" /\ c.remote_id = r /\ c.local_window = n
        /\ c.remote_window = b.remote_window /\ c.close_sent = b.close_sent
        /\ c.eof_sent = b.eof_sent /\ c.close_recv = b.close_recv /\ c.out = b.out
        /\ c.written = b.written /\ c.want_eof = b.want_eof
        /\ c.x11_pending + c.surfaced = b.x11_pending + b.surfaced + m.n
    BY <2>1, <1>2, <1>12 DEF SameChannel
  <2>3. Adds(c, u, d, s[r], r)
    <3>1. w + DownUnits(d, "DATA", r) + a = c.local_window
      BY <2>2, <1>11
    <3>2. c.remote_window + DownUnits(d, "ADJUST", r) + UpUnits(u, "DATA", r) = s[r].grant
          /\ c.written = c.out + UpUnits(u, "DATA", r) + s[r].got
      BY <2>2, <1>7, <1>8 DEF Adds
    <3>3. s[r].sent = DownUnits(d, "DATA", r) + c.x11_pending + c.surfaced
      <4>1. s[r].sent = DownUnits(s2c, "DATA", r) + b.x11_pending + b.surfaced
        BY <1>8 DEF Adds
      <4>2. c.x11_pending \in Nat /\ c.surfaced \in Nat
        BY <2>1, ChanFields
      <4> QED BY ONLY <4>1, <4>2, <2>2, <1>7, <1>9
    <3> QED BY <3>1, <3>2, <3>3 DEF Adds, w, a
  <2>4. SlotFits(c, i, u, d, s)
    BY <2>2, <2>3, <1>2, <1>5 DEF SlotFits
  <2>5. Becomes(t, chan, i, c) /\ SameChannel(c, chan[i])
    BY <2>1, <2>2, <1>2 DEF Becomes, SameChannel, b
  <2>6. s2c[1].type # "OPEN_CONFIRM" /\ (s2c[1].type \in {"DATA", "ADJUST"} => Holds(chan, i, s2c[1].rid))
    BY <1>2 DEF r
  <2>7. Linked(t, u, d, s)
    <3> HIDE DEF t
    <3> QED BY ONLY Linked(chan, u, s2c, s), <1>2, <1>3, <2>4, <2>5, <2>6, Hear
  <2> QED BY <2>1, <2>2, <2>7
<1>14. ~(m.n > b.local_window)
  BY <1>7, <1>9, <1>11
<1>15. \A c \in Inspect([chan[i] EXCEPT !.local_window = @ - m.n], m) :
          c.state = "OPEN" /\ c \in Chan /\ Linked([chan EXCEPT ![i] = c], c2s \o deferred, s2c', sv.ch)
  BY <1>6, <1>13 DEF u, d, s
<1> QED
  BY <1>2, <1>14, <1>15 DEF b

\* A channel whose X11 setup is rejected is closed, and flushed for it.
LEMMA Rejects ==
    ASSUME NEW t, NEW u, NEW d, NEW s, Linked(t, u, d, s), NEW i \in Slots, NEW c, c = t[i],
           c.state = "OPEN", NEW b, b = [c EXCEPT !.want_close = TRUE]
    PROVE  /\ FlushMsgs(b) \in Seq(UpMessage) /\ Flushed(b).state = "OPEN"
           /\ Linked([t EXCEPT ![i] = Flushed(b)], u \o FlushMsgs(b), d, s)
<1> DEFINE t2 == [t EXCEPT ![i] = b]
<1>1. t \in [Slots -> Chan] /\ c \in Chan
  BY TypesOf DEF Linked
<1>2. SlotFits(c, i, u, d, s)
  BY DEF Linked, SlotsRight
<1>3. /\ b \in Chan /\ b.state = c.state /\ b.remote_id = c.remote_id /\ b.local_window = c.local_window
      /\ b.remote_window = c.remote_window /\ b.close_sent = c.close_sent /\ b.eof_sent = c.eof_sent
      /\ b.close_recv = c.close_recv /\ b.x11_pending = c.x11_pending /\ b.surfaced = c.surfaced
      /\ b.out = c.out /\ b.written = c.written /\ b.want_eof = c.want_eof
  <2>1. b \in Chan
    BY <1>1 DEF Chan
  <2> QED BY <2>1, <1>1 DEF Chan
<1>4. SlotFits(b, i, u, d, s)
  BY <1>2, <1>3 DEF SlotFits, Adds
<1>5. Becomes(t2, t, i, b) /\ SameChannel(b, t[i]) /\ t2[i] = b
  BY <1>1, <1>3 DEF Becomes, SameChannel
<1>6. [t2 EXCEPT ![i] = Flushed(b)] = [t EXCEPT ![i] = Flushed(b)]
  OBVIOUS
<1> HIDE DEF t2
<1>7. Linked(t2, u, d, s)
  BY ONLY Linked(t, u, d, s), <1>4, <1>5, Touch
<1>8. /\ Linked([t2 EXCEPT ![i] = Flushed(t2[i])], u \o FlushMsgs(t2[i]), d, s)
      /\ Sent(Flushed(t2[i]), t2[i]) /\ FlushMsgs(t2[i]) \in Seq(UpMessage)
  BY ONLY <1>7, i \in Slots, Flush
<1>9. Flushed(b).state = "OPEN"
  BY <1>3, <1>5, <1>8 DEF Sent, SameChannel
<1> QED
  BY <1>5, <1>6, <1>8, <1>9

\* DATA: its units are counted, a rejected x11 channel is closed, the window opened again.
LEMMA DataHeard ==
    ASSUME Plain, Links, RecvData
    PROVE  Plain' /\ Links' /\ Rested'
<1> DEFINE u == c2s \o deferred
           d == s2c'
           s == sv.ch
           m == Head(s2c)
           i == m.ch
           counted == [chan[i] EXCEPT !.local_window = @ - m.n]
           Adjusts(c) == 2 * c.local_window < Window /\ ~c.close_sent
           Bad(c) == c.rejected /\ ~counted.rejected
           Asked(c) == [c EXCEPT !.want_close = TRUE]
           After(c) == IF Bad(c) THEN Flushed(Asked(c)) ELSE c
           First(c) == IF Bad(c) THEN FlushMsgs(Asked(c)) ELSE <<>>
           Grant(c) == <<Out("ADJUST", c.remote_id, Window - c.local_window, "none")>>
           Then(c) == IF Adjusts(c) THEN Grant(c) ELSE <<>>
<1>1. Incoming("DATA") /\ Taken /\ UNCHANGED <<x11_active, locked>>
  BY DEF RecvData, Dispatch
<1>2. /\ i \in Slots /\ chan[i].state = "OPEN" /\ ~(m.n > chan[i].local_window)
      /\ \A c \in Inspect(counted, m) :
            c.state = "OPEN" /\ c \in Chan /\ Linked([chan EXCEPT ![i] = c], u, d, s)
  BY DataTaken
<1>3. PICK c \in Inspect(counted, m) :
        /\ chan' = [chan EXCEPT ![i] = IF Adjusts(After(c)) THEN Reopened(After(c)) ELSE After(c)]
        /\ Send(First(c) \o Then(After(c)))
  BY <1>2 DEF RecvData, Stale, Slot
<1>4. UNCHANGED <<closed, err, events>> /\ busy' = TRUE /\ UNCHANGED <<sv, left>>
  BY <1>1, <1>2 DEF RecvData, Stale, Slot, NoFailure, Taken
<1>5. chan \in [Slots -> Chan] /\ u \in Seq(UpMessage)
  BY TypesOf DEF Links, Linked
<1> DEFINE t1 == [chan EXCEPT ![i] = c]
           a == Asked(c)
           b == After(c)
           q == First(c)
           p == Then(b)
<1>6. Linked(t1, u, d, s) /\ t1[i] = c /\ c.state = "OPEN"
  BY <1>2, <1>5
<1>7. [t1 EXCEPT ![i] = Flushed(a)] = [chan EXCEPT ![i] = Flushed(a)]
  OBVIOUS
<1>8. chan' = [chan EXCEPT ![i] = IF Adjusts(b) THEN Reopened(b) ELSE b] /\ Send(q \o p)
  BY <1>3
<1>9. /\ Bad(c) => b = Flushed(a) /\ q = FlushMsgs(a)
      /\ ~Bad(c) => b = c /\ q = <<>>
      /\ Adjusts(b) => p = Grant(b)
      /\ ~Adjusts(b) => p = <<>>
  OBVIOUS
<1>10. a = [c EXCEPT !.want_close = TRUE]
  OBVIOUS
<1>11. Adjusts(b) => ~b.close_sent
  OBVIOUS
<1> DEFINE t2 == [chan EXCEPT ![i] = b]
           e == Reopened(b)
           Bc == Bad(c)
           Ab == Adjusts(b)
<1>12. /\ (Bc => b = Flushed(a) /\ q = FlushMsgs(a)) /\ (~Bc => b = c /\ q = <<>>)
       /\ (Ab => p = Grant(b) /\ ~b.close_sent) /\ (~Ab => p = <<>>)
       /\ chan' = [chan EXCEPT ![i] = IF Ab THEN e ELSE b]
  BY <1>8, <1>9, <1>11
<1>13. [t2 EXCEPT ![i] = e] = [chan EXCEPT ![i] = e]
  OBVIOUS
<1> HIDE DEF u, d, s, Bc, Ab, a, b, q, p, First, Then, After, Adjusts, Bad, Asked, counted
<1>14. t2[i] = b
  BY <1>2, <1>5
<1>15. q \in Seq(UpMessage) /\ Linked(t2, u \o q, d, s) /\ b.state = "OPEN"
  <2>1. CASE Bc
    <3>1. /\ FlushMsgs(a) \in Seq(UpMessage) /\ Flushed(a).state = "OPEN"
          /\ Linked([t1 EXCEPT ![i] = Flushed(a)], u \o FlushMsgs(a), d, s)
      <4>1. Linked(t1, u, d, s) /\ i \in Slots /\ c = t1[i] /\ c.state = "OPEN"
            /\ a = [c EXCEPT !.want_close = TRUE]
        BY <1>2, <1>6, <1>10 DEF a
      <4> HIDE DEF t1, i
      <4> QED BY ONLY <4>1, Rejects
    <3> QED BY <3>1, <2>1, <1>7, <1>12
  <2>2. CASE ~Bc
    <3>1. b = c /\ q = <<>>
      BY <2>2, <1>12
    <3>2. u \o <<>> = u /\ <<>> \in Seq(UpMessage)
      BY <1>5, Silence
    <3> QED BY <3>1, <3>2, <1>6
  <2> QED BY <2>1, <2>2
<1> DEFINE v == u \o q
<1>16. v \in Seq(UpMessage)
  BY <1>5, <1>15, ConcatProperties
<1>17. p \in Seq(UpMessage) /\ Linked(chan', v \o p, d, s)
  <2>1. CASE Ab
    <3>1. p = <<Out("ADJUST", b.remote_id, Window - b.local_window, "none")>> /\ ~b.close_sent
      BY <2>1, <1>12
    <3>2. Linked(t2, v, d, s) /\ i \in Slots /\ b = t2[i] /\ b.state = "OPEN" /\ e = Reopened(b)
      BY <1>2, <1>14, <1>15
    <3> HIDE DEF t2, i, e, v
    <3>3. p \in Seq(UpMessage) /\ Linked([t2 EXCEPT ![i] = e], v \o p, d, s)
      BY ONLY <3>1, <3>2, Reopens
    <3> QED BY <3>3, <2>1, <1>12, <1>13
  <2>2. CASE ~Ab
    <3>1. p = <<>> /\ chan' = t2
      BY <2>2, <1>12
    <3>2. v \o <<>> = v /\ <<>> \in Seq(UpMessage)
      BY <1>16, Silence
    <3> QED BY <3>1, <3>2, <1>15
  <2> QED BY <2>1, <2>2
<1>18. q \o p \in Seq(UpMessage) /\ v \o p = u \o (q \o p)
  BY <1>5, <1>15, <1>17, ConcatProperties, ConcatAssociative
<1> DEFINE ms == q \o p
<1>19. ms \in Seq(UpMessage) /\ Send(ms)
  BY <1>8, <1>18
<1>20. Linked(chan', (c2s \o deferred) \o ms, s2c', sv.ch)
  BY <1>17, <1>18 DEF u, d, s
<1>21. events' \in Seq(EventType)
  BY <1>4 DEF Plain
<1> HIDE DEF ms
<1> QED
  BY <1>1, <1>4, <1>19, <1>20, <1>21, Heard

\* The end of a chunk flushes one channel after another.
LEMMA EndsStep ==
    ASSUME Plain, Links, InputEnds
    PROVE  Plain' /\ Links' /\ Rested'
<1> DEFINE u == c2s \o deferred
           d == s2c
           s == sv.ch
           N == NumSlots
           q == [i \in Slots |-> FlushMsgs(chan[i])]
           g == [i \in Slots |-> FlushEvents(i, chan[i])]
           F(i) == Flushed(chan[i])
           T(k) == [i \in Slots |-> IF i <= k THEN F(i) ELSE chan[i]]
<1>1. Linked(chan, u, d, s) /\ chan \in [Slots -> Chan] /\ u \in Seq(UpMessage)
  BY TypesOf DEF Links, Linked
<1>2. N \in Nat \ {0} /\ Slots = 1..N
  BY ChannelsAssumption DEF Slots
<1>3. \A i \in Slots : /\ FlushMsgs(chan[i]) \in Seq(UpMessage) /\ ~Released(chan[i]) /\ chan[i] \in Chan
  <2> HIDE DEF u
  <2> QED BY <1>1, Flush
<1>4. q \in [1..N -> Seq(UpMessage)] /\ g \in [1..N -> Seq(EventType)]
  <2>1. <<>> \in Seq(EventType)
    OBVIOUS
  <2> QED BY <2>1, <1>2, <1>3 DEF FlushEvents
<1>5. /\ chan' = [i \in Slots |-> F(i)] /\ Send(FlattenSeq(q))
      /\ events' = events \o FlattenSeq(g) /\ busy' = FALSE
      /\ UNCHANGED <<x11_active, closed, err, locked, s2c, sv, left>>
  BY DEF InputEnds
<1>6. \A i \in Slots : q[i] = FlushMsgs(chan[i])
  OBVIOUS
<1>7. /\ T(0) = chan /\ T(N) = [i \in Slots |-> F(i)]
      /\ \A k \in 0..(N - 1) : /\ k + 1 \in Slots /\ T(k)[k + 1] = chan[k + 1]
                               /\ T(k + 1) = [T(k) EXCEPT ![k + 1] = F(k + 1)]
  <2> HIDE DEF F
  <2>1. T(0) = chan
    <3>1. \A i \in Slots : ~(i <= 0)
      BY <1>2
    <3> QED BY <3>1, <1>1
  <2>2. T(N) = [i \in Slots |-> F(i)]
    BY <1>2
  <2>3. ASSUME NEW k \in 0..(N - 1)
        PROVE  /\ k + 1 \in Slots /\ T(k)[k + 1] = chan[k + 1]
               /\ T(k + 1) = [T(k) EXCEPT ![k + 1] = F(k + 1)]
    <3>1. k + 1 \in Slots /\ ~(k + 1 <= k) /\ k \in Nat
      BY <1>2
    <3>2. \A i \in Slots : i <= k + 1 <=> i <= k \/ i = k + 1
      BY <1>2, <3>1
    <3>3. \A i \in Slots : T(k + 1)[i] = [T(k) EXCEPT ![k + 1] = F(k + 1)][i]
      <4> SUFFICES ASSUME NEW i \in Slots PROVE T(k + 1)[i] = [T(k) EXCEPT ![k + 1] = F(k + 1)][i]
        OBVIOUS
      <4>1. CASE i = k + 1
        BY <4>1, <3>1, <3>2
      <4>2. CASE i # k + 1
        BY <4>2, <3>1, <3>2
      <4> QED BY <4>1, <4>2
    <3> QED BY <3>1, <3>3
  <2> QED BY <2>1, <2>2, <2>3
<1>a. \A i \in Slots : F(i) = Flushed(chan[i])
  OBVIOUS
<1> HIDE DEF u, d, s, N, q, g, T, F
<1>b. PICK f : Gathers(f, q, N, UpMessage)
  <2>1. N \in Nat \ {0} /\ q \in [1..N -> Seq(UpMessage)]
    BY <1>2, <1>4
  <2> QED BY ONLY <2>1, Flattened
<1>8. /\ f \in [0..N -> Seq(UpMessage)] /\ f[0] = <<>> /\ FlattenSeq(q) = f[N]
      /\ \A k \in 1..N : f[k] = f[k - 1] \o q[k]
  BY <1>b DEF Gathers
<1> DEFINE S == {k \in 0..N : Linked(T(k), u \o f[k], d, s)}
<1>9. 0 \in S
  <2>1. u \o <<>> = u
    BY <1>1, Silence
  <2>2. Linked(T(0), u \o f[0], d, s)
    BY <2>1, <1>1, <1>7, <1>8
  <2>3. 0 \in 0..N
    BY <1>2
  <2> QED BY <2>2, <2>3
<1>10. ASSUME NEW k \in 0..(N - 1), k \in S PROVE k + 1 \in S
  <2> DEFINE j == k + 1
             v == u \o f[k]
  <2>1. k \in 0..N /\ j \in 1..N /\ j - 1 = k /\ j \in 0..N /\ j \in Slots
    BY <1>2
  <2>2. Linked(T(k), v, d, s)
    BY <1>10
  <2>3. T(k)[j] = chan[j] /\ T(j) = [T(k) EXCEPT ![j] = F(j)]
    BY <1>7
  <2>4. f[j] = f[k] \o q[j]
    BY <2>1, <1>8
  <2>5. q[j] = FlushMsgs(chan[j]) /\ q[j] \in Seq(UpMessage) /\ f[k] \in Seq(UpMessage)
    BY <2>1, <1>4, <1>6, <1>8
  <2>6. v \o q[j] = u \o f[j]
    <3>1. (u \o f[k]) \o q[j] = u \o (f[k] \o q[j])
      <4> DEFINE a == f[k]
                 b == q[j]
      <4>1. u \in Seq(UpMessage) /\ a \in Seq(UpMessage) /\ b \in Seq(UpMessage)
        BY <1>1, <2>5
      <4> HIDE DEF j, a, b
      <4>2. (u \o a) \o b = u \o (a \o b)
        BY ONLY <4>1, ConcatAssociative
      <4> QED BY <4>2 DEF a, b
    <3> QED BY <3>1, <2>4
  <2> HIDE DEF j, v
  <2>7. Linked([T(k) EXCEPT ![j] = Flushed(T(k)[j])], v \o FlushMsgs(T(k)[j]), d, s)
    BY ONLY <2>1, <2>2, Flush
  <2>8. Linked(T(j), u \o f[j], d, s)
    BY <2>1, <2>3, <2>5, <2>6, <2>7, <1>a
  <2>9. j \in S
    BY <2>1, <2>8
  <2> QED BY <2>9 DEF j
<1>11. N \in S
  <2> HIDE DEF S
  <2>1. 0..N \subseteq S
    BY <1>2, <1>9, <1>10, InductTo
  <2> QED BY <2>1, <1>2
<1> DEFINE ms == f[N]
<1>12. ms \in Seq(UpMessage) /\ Send(ms) /\ Linked(chan', u \o ms, d, s)
  <2>1. N \in 0..N
    BY <1>2
  <2> QED BY <2>1, <1>5, <1>7, <1>8, <1>11
<1> HIDE DEF ms
<1>13. events' \in Seq(EventType)
  <2>1. PICK h : Gathers(h, g, N, EventType)
    <3>1. N \in Nat \ {0} /\ g \in [1..N -> Seq(EventType)]
      BY <1>2, <1>4
    <3> QED BY ONLY <3>1, Flattened
  <2>2. h[N] \in Seq(EventType) /\ FlattenSeq(g) = h[N] /\ events \in Seq(EventType)
    BY <2>1, <1>2 DEF Plain, Gathers
  <2> QED BY <2>1, <2>2, <1>5, ConcatProperties
<1>14. Linked(chan', (c2s \o deferred) \o ms, s2c', sv.ch)
  BY <1>5, <1>12 DEF u, d, s
<1>15. /\ x11_active' \in BOOLEAN /\ busy' \in BOOLEAN /\ left' \in Load /\ left'.slots = left.slots
       /\ UNCHANGED <<closed, err, locked, sv>>
  BY <1>5 DEF Plain
<1>16. Plain' /\ Links'
  BY <1>12, <1>13, <1>14, <1>15, ClientStep
<1>17. Rested'
  <2> SUFFICES ASSUME ~locked', NEW i \in Slots PROVE Emptied(chan'[i])
    BY DEF Rested, Emptied
  <2>1. ~locked /\ ~closed
    BY <1>5 DEF Plain
  <2> QED BY <2>1, <1>3, <1>5, <1>a, FlushEmpties
<1> QED
  BY <1>16, <1>17

\* What remains to be shown of a step of the server.
LEMMA ServerStep ==
    ASSUME Plain, Rested, UNCHANGED client, c2s' \in Seq(UpMessage),
           Linked(chan, c2s' \o deferred, s2c', sv'.ch),
           sv' \in [kex : BOOLEAN, accused : {"none", Late}, ch : [Rids -> SvChan]],
           left' \in Load, left'.slots = left.slots
    PROVE  Plain' /\ Links' /\ Rested'
<1>1. UNCHANGED <<chan, x11_active, closed, err, locked, deferred, busy, events>>
  BY DEF client
<1>2. Plain'
  BY <1>1 DEF Plain
<1>3. Links'
  BY <1>1 DEF Links
<1>4. Rested'
  BY <1>1 DEF Rested, Emptied
<1> QED
  BY <1>2, <1>3, <1>4

\* One channel of the server becomes b.
LEMMA SvSetType ==
    ASSUME Plain, NEW r \in Rids, NEW b \in SvChan, SvSet(r, b)
    PROVE  /\ sv' \in [kex : BOOLEAN, accused : {"none", Late}, ch : [Rids -> SvChan]]
           /\ sv'.ch = [sv.ch EXCEPT ![r] = b]
<1> DEFINE R == [kex : BOOLEAN, accused : {"none", Late}, ch : [Rids -> SvChan]]
           s == [sv.ch EXCEPT ![r] = b]
<1>1. sv \in R /\ sv.ch \in [Rids -> SvChan] /\ s \in [Rids -> SvChan]
  BY DEF Plain
<1>2. sv' = [sv EXCEPT !.ch = s]
  BY DEF SvSet
<1> HIDE DEF s
<1>3. sv' \in R /\ sv'.ch = s
  BY <1>1, <1>2
<1> QED
  BY <1>3 DEF s

\* A message of the server has its type.
LEMMA InType ==
    ASSUME NEW type \in InTypes, NEW ch \in Slots \cup {0}, NEW rid \in Rids \cup {0}, NEW n \in Nat,
           NEW x \in {"none", "want", "nowant", "x11", "other", "right", "wrong"},
           NEW m, m = In(type, ch, rid, n, x)
    PROVE  m \in DownMessage /\ m.type = type /\ m.ch = ch /\ m.rid = rid /\ m.n = n /\ m.x = x
BY DEF In, DownMessage

\* The server says m.
LEMMA Says ==
    ASSUME Links, NEW m \in DownMessage, SvSend(m)
    PROVE  DownLonger(s2c', s2c, m)
<1>1. s2c \in Seq(DownMessage) /\ s2c' = Append(s2c, m)
  BY TypesOf DEF Links, Linked, SvSend
<1> QED
  BY <1>1, Lengthen

\* The server says something on a channel that is open.
LEMMA TalkStep ==
    ASSUME Plain, Links, Rested, NEW r \in Rids, SvTalks(r), NEW c, c = sv.ch[r],
           NEW type \in ChannelTypes, NEW n \in Nat,
           NEW x \in {"none", "want", "nowant", "x11", "other", "right", "wrong"},
           SvSend(SvIn(type, r, n, x)), NEW b \in SvChan, Speaks(b, c, SvIn(type, r, n, x)),
           sv' \in [kex : BOOLEAN, accused : {"none", Late}, ch : [Rids -> SvChan]],
           sv'.ch = [sv.ch EXCEPT ![r] = b], left' \in Load, left'.slots = left.slots,
           UNCHANGED <<client, c2s>>
    PROVE  Plain' /\ Links' /\ Rested'
<1> DEFINE u == c2s \o deferred
           d == s2c
           s == sv.ch
           m == SvIn(type, r, n, x)
           e == s2c'
           s2 == sv'.ch
<1>1. Linked(chan, u, d, s) /\ c \in SvChan
  BY TypesOf DEF Links, Linked
<1>2. m \in DownMessage /\ m.type = type /\ m.ch = c.slot /\ m.rid = r /\ m.n = n
  <2>1. /\ type \in InTypes /\ c.slot \in Slots \cup {0} /\ r \in Rids \cup {0} /\ n \in Nat
        /\ x \in {"none", "want", "nowant", "x11", "other", "right", "wrong"}
    BY <1>1, SvFields DEF InTypes, ChannelTypes
  <2>2. m = In(type, c.slot, r, n, x)
    BY DEF SvIn
  <2> HIDE DEF m
  <2> QED BY ONLY <2>1, <2>2 DEF In, DownMessage
<1>3. DownLonger(e, d, m)
  BY <1>2, Says
<1>4. c = s[r] /\ Speaks(b, c, m)
  BY DEF SvTalks
<1> HIDE DEF m, u, d, s, e, s2
<1>5. m.rid = r /\ m.type \in ChannelTypes /\ m.ch = s[r].slot
  BY <1>2, <1>4
<1>6. s2 = [s EXCEPT ![r] = b] /\ b \in SvChan /\ r \in Rids
  BY DEF s, s2
<1>7. Linked(chan, u, e, s2)
  BY ONLY <1>1, <1>3, <1>4, <1>5, <1>6, SvTalk
<1>8. c2s' \in Seq(UpMessage) /\ Linked(chan, c2s' \o deferred, s2c', sv'.ch)
  BY <1>7 DEF u, e, s2, Plain
<1>9. UNCHANGED client
  OBVIOUS
<1> QED
  BY <1>8, <1>9, ServerStep

\* Data within the window, on an open channel.
LEMMA SvDataStep ==
    ASSUME Plain, Links, Rested, NEW r \in Rids, NEW n \in 1..left.svdata, SvData(r, n)
    PROVE  Plain' /\ Links' /\ Rested'
<1> DEFINE c == sv.ch[r]
           w == c.win - n
           k == c.sent + n
           b == [c EXCEPT !.win = w, !.sent = k]
           x == c.cookie
           m == SvIn("DATA", r, n, x)
<1>1. /\ SvTalks(r) /\ n <= c.win /\ n <= left.svdata
      /\ left' = [left EXCEPT !.svdata = @ - n] /\ SvSend(m) /\ SvSet(r, b)
      /\ UNCHANGED <<client, c2s>>
  BY DEF SvData
<1>2. c \in SvChan /\ left \in Load
  BY DEF Plain
<1>3. n \in Nat /\ w \in Nat /\ k \in Nat /\ c.win = w + n
  <2>1. left.svdata \in Nat /\ c.win \in Nat /\ c.sent \in Nat
    BY <1>2, SvFields DEF Load
  <2>2. n \in Nat
    BY <2>1
  <2> QED BY ONLY <2>1, <2>2, <1>1
<1> HIDE DEF w, k
<1>4. /\ b \in SvChan /\ b.state = c.state /\ b.slot = c.slot /\ b.got = c.got /\ b.owed = c.owed
      /\ b.eof_in = c.eof_in /\ b.close_in = c.close_in /\ b.win = w /\ b.sent = k
      /\ b.grant = c.grant
  <2>1. b \in SvChan
    BY <1>2, <1>3 DEF SvChan
  <2> QED BY <2>1, <1>2 DEF SvChan
<1>5. m.type = "DATA" /\ m.n = n /\ x \in {"none", "want", "nowant", "x11", "other", "right", "wrong"}
  BY <1>2 DEF SvIn, In, SvChan
<1>6. c.state = "open" /\ ~c.close_out
  BY <1>1 DEF SvTalks
<1>7. left' \in Load /\ left'.slots = left.slots
  BY <1>1, <1>3, Worked
<1> HIDE DEF b, m
<1>8. sv' \in [kex : BOOLEAN, accused : {"none", Late}, ch : [Rids -> SvChan]] /\ sv'.ch = [sv.ch EXCEPT ![r] = b]
  BY <1>1, <1>4, SvSetType
<1>9. Speaks(b, c, m)
  <2>1. c.grant + 0 = c.grant
    BY <1>2, SvFields, ChannelsAssumption
  <2> QED BY <2>1, <1>3, <1>4, <1>5, <1>6 DEF Speaks, k
<1>10. c = sv.ch[r] /\ m = SvIn("DATA", r, n, x) /\ "DATA" \in ChannelTypes
  BY DEF m, ChannelTypes
<1> HIDE DEF c, x
<1> QED
  BY <1>1, <1>3, <1>4, <1>5, <1>7, <1>8, <1>9, <1>10, TalkStep

\* The server tops the window up.
LEMMA SvGrantStep ==
    ASSUME Plain, Links, Rested, NEW r \in Rids, SvGrant(r)
    PROVE  Plain' /\ Links' /\ Rested'
<1> DEFINE c == sv.ch[r]
<1>1. /\ SvTalks(r) /\ UNCHANGED <<client, c2s, left>>
      /\ \E n \in 1..(SvWindow - c.grant) :
            SvSend(SvIn("ADJUST", r, n, "none")) /\ SvSet(r, [c EXCEPT !.grant = @ + n])
  BY DEF SvGrant
<1>2. PICK n \in 1..(SvWindow - c.grant) :
         SvSend(SvIn("ADJUST", r, n, "none")) /\ SvSet(r, [c EXCEPT !.grant = @ + n])
  BY <1>1
<1> DEFINE w == c.grant + n
           b == [c EXCEPT !.grant = w]
           m == SvIn("ADJUST", r, n, "none")
<1>3. c \in SvChan
  BY DEF Plain
<1>4. n \in Nat /\ w \in 0..SvWindow
  <2>1. c.grant \in 0..SvWindow /\ SvWindow \in Nat
    BY <1>3, SvFields, ChannelsAssumption
  <2> QED BY <2>1
<1>5. SvSend(m) /\ SvSet(r, b)
  BY <1>2
<1> HIDE DEF w
<1>6. /\ b \in SvChan /\ b.state = c.state /\ b.slot = c.slot /\ b.got = c.got /\ b.owed = c.owed
      /\ b.eof_in = c.eof_in /\ b.close_in = c.close_in /\ b.win = c.win /\ b.sent = c.sent
      /\ b.grant = w
  <2>1. b \in SvChan
    BY <1>3, <1>4 DEF SvChan
  <2> QED BY <2>1, <1>3 DEF SvChan
<1>7. m.type = "ADJUST" /\ m.n = n
  BY DEF SvIn, In
<1>8. c.state = "open" /\ ~c.close_out
  BY <1>1 DEF SvTalks
<1>9. left' \in Load /\ left'.slots = left.slots
  BY <1>1 DEF Plain
<1> HIDE DEF b, m
<1>10. sv' \in [kex : BOOLEAN, accused : {"none", Late}, ch : [Rids -> SvChan]] /\ sv'.ch = [sv.ch EXCEPT ![r] = b]
  BY <1>5, <1>6, SvSetType
<1>11. Speaks(b, c, m)
  <2>1. c.win + 0 = c.win /\ c.sent + 0 = c.sent
    BY <1>3, SvFields
  <2> QED BY <2>1, <1>6, <1>7, <1>8 DEF Speaks, w
<1>12. c = sv.ch[r] /\ m = SvIn("ADJUST", r, n, "none") /\ "ADJUST" \in ChannelTypes
       /\ "none" \in {"none", "want", "nowant", "x11", "other", "right", "wrong"}
  BY DEF m, ChannelTypes
<1>13. UNCHANGED <<client, c2s>>
  BY <1>1
<1> HIDE DEF c
<1> QED
  BY <1>1, <1>4, <1>5, <1>6, <1>9, <1>10, <1>11, <1>12, <1>13, TalkStep

\* It ends its data, or closes the channel.
LEMMA SvEndStep ==
    ASSUME Plain, Links, Rested, NEW r \in Rids, SvEof(r) \/ SvClose(r)
    PROVE  Plain' /\ Links' /\ Rested'
<1> DEFINE c == sv.ch[r]
<1>1. c \in SvChan
  BY DEF Plain
<1>2. PICK type \in {"EOF", "CLOSE"}, b \in SvChan :
         /\ SvTalks(r) /\ UNCHANGED <<client, c2s, left>>
         /\ SvSend(SvIn(type, r, 0, "none")) /\ SvSet(r, b)
         /\ b.state = (IF type = "CLOSE" /\ c.close_in THEN "done" ELSE c.state)
         /\ b.slot = c.slot /\ b.got = c.got /\ b.owed = c.owed
         /\ b.eof_in = c.eof_in /\ b.close_in = c.close_in
         /\ type = "CLOSE" => b.close_out
         /\ b.win = c.win /\ b.sent = c.sent /\ b.grant = c.grant
  <2>1. CASE SvEof(r)
    <3> DEFINE b == [c EXCEPT !.eof_out = TRUE]
    <3>1. b \in SvChan
      BY <1>1 DEF SvChan
    <3>2. /\ b.state = c.state /\ b.slot = c.slot /\ b.got = c.got /\ b.owed = c.owed
          /\ b.eof_in = c.eof_in /\ b.close_in = c.close_in
          /\ b.win = c.win /\ b.sent = c.sent /\ b.grant = c.grant
      BY <1>1 DEF SvChan
    <3>3. SvTalks(r) /\ UNCHANGED <<client, c2s, left>> /\ SvSend(SvIn("EOF", r, 0, "none")) /\ SvSet(r, b)
      BY <2>1 DEF SvEof
    <3> HIDE DEF b, c
    <3> QED BY <3>1, <3>2, <3>3
  <2>2. CASE SvClose(r)
    <3> DEFINE b == [c EXCEPT !.close_out = TRUE, !.state = IF c.close_in THEN "done" ELSE @]
    <3>1. b \in SvChan
      BY <1>1 DEF SvChan
    <3>2. /\ b.state = (IF c.close_in THEN "done" ELSE c.state)
          /\ b.slot = c.slot /\ b.got = c.got /\ b.owed = c.owed
          /\ b.eof_in = c.eof_in /\ b.close_in = c.close_in /\ b.close_out = TRUE
          /\ b.win = c.win /\ b.sent = c.sent /\ b.grant = c.grant
      BY <1>1 DEF SvChan
    <3>3. SvTalks(r) /\ UNCHANGED <<client, c2s, left>> /\ SvSend(SvIn("CLOSE", r, 0, "none")) /\ SvSet(r, b)
      BY <2>2 DEF SvClose
    <3> HIDE DEF b, c
    <3> QED BY <3>1, <3>2, <3>3
  <2> QED BY <2>1, <2>2
<1> DEFINE m == SvIn(type, r, 0, "none")
<1>3. m.type = type /\ m.n = 0
  BY DEF SvIn, In
<1>4. c.state = "open" /\ ~c.close_out
  BY <1>2 DEF SvTalks
<1>5. left' \in Load /\ left'.slots = left.slots
  BY <1>2 DEF Plain
<1>6. c = sv.ch[r] /\ m = SvIn(type, r, 0, "none") /\ type \in ChannelTypes /\ 0 \in Nat
      /\ "none" \in {"none", "want", "nowant", "x11", "other", "right", "wrong"}
  BY DEF ChannelTypes
<1> HIDE DEF m
<1>7. sv' \in [kex : BOOLEAN, accused : {"none", Late}, ch : [Rids -> SvChan]] /\ sv'.ch = [sv.ch EXCEPT ![r] = b]
  BY <1>2, SvSetType
<1>8. Speaks(b, c, m)
  <2>1. c.win + 0 = c.win /\ c.sent + 0 = c.sent /\ c.grant + 0 = c.grant
    BY <1>1, SvFields, ChannelsAssumption
  <2> QED BY <2>1, <1>2, <1>3, <1>4 DEF Speaks
<1>9. SvTalks(r) /\ SvSend(m) /\ UNCHANGED <<client, c2s>>
  BY <1>2, <1>6
<1> HIDE DEF c
<1> QED
  BY <1>5, <1>6, <1>7, <1>8, <1>9, TalkStep

\* It makes a request on a channel.
LEMMA SvRequestStep ==
    ASSUME Plain, Links, Rested, NEW r \in Rids, NEW want \in {"want", "nowant"}, SvRequest(r, want)
    PROVE  Plain' /\ Links' /\ Rested'
<1> DEFINE c == sv.ch[r]
           m == SvIn("REQUEST", r, 0, want)
<1>1. /\ SvTalks(r) /\ left.svreq > 0 /\ left' = [left EXCEPT !.svreq = @ - 1]
      /\ SvSend(m) /\ sv' = sv /\ UNCHANGED <<client, c2s>>
  BY DEF SvRequest
<1>2. c \in SvChan /\ sv.ch \in [Rids -> SvChan] /\ left \in Load
  BY DEF Plain
<1>3. left' \in Load /\ left'.slots = left.slots
  <2>1. 1 <= left.svreq
    BY <1>1, <1>2 DEF Load
  <2> QED BY <1>1, <2>1, Worked
<1>4. sv' \in [kex : BOOLEAN, accused : {"none", Late}, ch : [Rids -> SvChan]] /\ sv'.ch = [sv.ch EXCEPT ![r] = c]
  BY <1>1, <1>2 DEF Plain
<1>5. m.type = "REQUEST" /\ m.n = 0
  BY DEF SvIn, In
<1>6. c.state = "open" /\ ~c.close_out
  BY <1>1 DEF SvTalks
<1>7. c = sv.ch[r] /\ m = SvIn("REQUEST", r, 0, want) /\ "REQUEST" \in ChannelTypes /\ 0 \in Nat
      /\ want \in {"none", "want", "nowant", "x11", "other", "right", "wrong"}
  BY DEF ChannelTypes
<1> HIDE DEF m
<1>8. Speaks(c, c, m)
  <2>1. c.win + 0 = c.win /\ c.sent + 0 = c.sent /\ c.grant + 0 = c.grant
    BY <1>2, SvFields, ChannelsAssumption
  <2> QED BY <2>1, <1>5, <1>6 DEF Speaks
<1> HIDE DEF c
<1> QED
  BY <1>1, <1>2, <1>3, <1>4, <1>7, <1>8, TalkStep

\* The number the server gives to its next channel is not in use.
LEMMA FirstFresh ==
    ASSUME SvFresh # {}
    PROVE  Min(SvFresh) \in Rids /\ sv.ch[Min(SvFresh)].state = "none"
<1>1. PICK e \in SvFresh : TRUE
  OBVIOUS
<1>2. SvFresh \in SUBSET Nat
  BY DEF SvFresh, Rids
<1>3. \E x \in SvFresh : \A y \in SvFresh : x <= y
  BY <1>1, <1>2, Least
<1>4. Min(SvFresh) \in SvFresh
  BY <1>3 DEF Min
<1> QED
  BY <1>4 DEF SvFresh

\* It opens an x11 channel.
LEMMA SvOpenStep ==
    ASSUME Plain, Links, Rested, NEW cookie \in {"right", "wrong"}, SvOpenX11(cookie)
    PROVE  Plain' /\ Links' /\ Rested'
<1> DEFINE r == Min(SvFresh)
           u == c2s \o deferred
           d == s2c
           s == sv.ch
           m == In("OPEN", 0, r, SvWindow, "x11")
           b == [SvNone EXCEPT !.state = "opening", !.cookie = cookie, !.grant = SvWindow]
           e == s2c'
           s2 == [s EXCEPT ![r] = b]
<1>1. /\ SvFresh # {} /\ left.x11 > 0 /\ left' = [left EXCEPT !.x11 = @ - 1]
      /\ SvSend(m) /\ SvSet(r, b) /\ UNCHANGED <<client, c2s>>
  BY DEF SvOpenX11
<1>2. r \in Rids /\ s[r].state = "none"
  BY <1>1, FirstFresh
<1>3. Linked(chan, u, d, s)
  BY DEF Links
<1>4. m \in DownMessage /\ m.rid = r /\ m.type = "OPEN" /\ m.n = SvWindow
  <2>1. /\ "OPEN" \in InTypes /\ 0 \in Slots \cup {0} /\ r \in Rids \cup {0} /\ SvWindow \in Nat
        /\ "x11" \in {"none", "want", "nowant", "x11", "other", "right", "wrong"}
    BY <1>2, ChannelsAssumption DEF InTypes
  <2> HIDE DEF r
  <2> QED BY <2>1 DEF In, DownMessage
<1>5. DownLonger(e, d, m)
  BY <1>1, <1>4, Says
<1>6. left' \in Load /\ left'.slots = left.slots
  <2>1. 1 <= left.x11
    BY <1>1 DEF Plain, Load
  <2> QED BY <1>1, <2>1, Worked
<1>7. /\ b = [SvNone EXCEPT !.state = "opening", !.cookie = cookie, !.grant = SvWindow]
      /\ s2 = [s EXCEPT ![r] = b] /\ cookie \in {"none", "right", "wrong"}
  OBVIOUS
<1> HIDE DEF r, u, d, s, m, b, e, s2
<1>8. b \in SvChan /\ Linked(chan, u, e, s2)
  BY ONLY <1>2, <1>3, <1>4, <1>5, <1>7, SvOpens
<1>9. sv' \in [kex : BOOLEAN, accused : {"none", Late}, ch : [Rids -> SvChan]] /\ sv'.ch = [sv.ch EXCEPT ![r] = b]
  BY <1>1, <1>2, <1>8, SvSetType
<1>10. c2s' \in Seq(UpMessage) /\ Linked(chan, c2s' \o deferred, s2c', sv'.ch)
  BY <1>1, <1>8, <1>9 DEF u, e, s2, s, Plain
<1> QED
  BY <1>1, <1>6, <1>9, <1>10, ServerStep

\* What it says of none of its channels leaves both sides linked.
LEMMA SaysOnly ==
    ASSUME Plain, Links, Rested, NEW m \in DownMessage, SvSend(m), m.rid = 0,
           \/ m.type \in {"KEXINIT", "KEX_REPLY", "GLOBAL_REQUEST"}
           \/ m.type = "OPEN" /\ m.n = SvWindow /\ m.x # "x11",
           UNCHANGED <<client, c2s>>, sv'.ch = sv.ch,
           sv' \in [kex : BOOLEAN, accused : {"none", Late}, ch : [Rids -> SvChan]],
           left' \in Load, left'.slots = left.slots
    PROVE  Plain' /\ Links' /\ Rested'
<1> DEFINE u == c2s \o deferred
           s == sv.ch
<1>1. Linked(chan, u, s2c, s)
  BY DEF Links
<1>2. DownLonger(s2c', s2c, m)
  BY Says
<1> HIDE DEF u, s
<1>3. Linked(chan, u, s2c', s)
  BY <1>1, <1>2, SvSayOnly
<1>4. c2s' \in Seq(UpMessage) /\ Linked(chan, c2s' \o deferred, s2c', sv'.ch)
  BY <1>3 DEF u, s, Plain
<1> QED
  BY <1>4, ServerStep

\* A global request or a channel to refuse; a key exchange begins, and ends.
LEMMA SvOtherStep ==
    ASSUME Plain, Links, Rested, SvMisc \/ SvKexInit \/ SvKexReply
    PROVE  Plain' /\ Links' /\ Rested'
<1> DEFINE R == [kex : BOOLEAN, accused : {"none", Late}, ch : [Rids -> SvChan]]
<1>1. /\ UNCHANGED <<client, c2s>> /\ sv' \in R /\ sv'.ch = sv.ch
      /\ left' \in Load /\ left'.slots = left.slots
  <2>1. sv \in R /\ left \in Load
    BY DEF Plain
  <2>2. CASE SvMisc
    <3>1. 1 <= left.misc /\ left' = [left EXCEPT !.misc = @ - 1]
      BY <2>1, <2>2 DEF SvMisc, Load
    <3>2. left' \in Load /\ left'.slots = left.slots
      BY <3>1, Worked
    <3> QED BY <2>1, <2>2, <3>2 DEF SvMisc
  <2>3. CASE SvKexInit
    <3>1. 1 <= left.rekey /\ left' = [left EXCEPT !.rekey = @ - 1]
      BY <2>1, <2>3 DEF SvKexInit, Load
    <3>2. left' \in Load /\ left'.slots = left.slots
      BY <3>1, Worked
    <3> QED BY <2>1, <2>3, <3>2 DEF SvKexInit
  <2>4. CASE SvKexReply
    BY <2>1, <2>4 DEF SvKexReply
  <2> QED BY <2>2, <2>3, <2>4
<1>2. PICK type \in {"KEXINIT", "KEX_REPLY", "GLOBAL_REQUEST", "OPEN"}, n \in {0, SvWindow},
           x \in {"none", "want", "nowant", "other"} :
        /\ SvSend(In(type, 0, 0, n, x))
        /\ type = "OPEN" => n = SvWindow
  <2>1. CASE SvMisc
    BY <2>1 DEF SvMisc
  <2>2. CASE SvKexInit
    BY <2>2 DEF SvKexInit
  <2>3. CASE SvKexReply
    BY <2>3 DEF SvKexReply
  <2> QED BY <2>1, <2>2, <2>3
<1> DEFINE m == In(type, 0, 0, n, x)
<1>3. m \in DownMessage /\ m.type = type /\ m.rid = 0 /\ m.n = n /\ m.x = x
  <2>1. /\ type \in InTypes /\ 0 \in Slots \cup {0} /\ 0 \in Rids \cup {0} /\ n \in Nat
        /\ x \in {"none", "want", "nowant", "x11", "other", "right", "wrong"}
    BY ChannelsAssumption DEF InTypes
  <2>2. m = In(type, 0, 0, n, x)
    OBVIOUS
  <2> HIDE DEF m
  <2> QED BY <2>1, <2>2, InType
<1>4. SvSend(m) /\ m.rid = 0
  BY <1>2, <1>3
<1>5. \/ m.type \in {"KEXINIT", "KEX_REPLY", "GLOBAL_REQUEST"}
      \/ m.type = "OPEN" /\ m.n = SvWindow /\ m.x # "x11"
  BY <1>2, <1>3
<1> HIDE DEF m
<1> QED
  BY <1>1, <1>3, <1>4, <1>5, SaysOnly

\* Nothing under way asks for a channel of slot i, confirms or refuses one.
Undecided(i, u, d) ==
    /\ \A k \in 1..Len(u) : u[k].type = "OPEN" => u[k].ch # i
    /\ \A k \in 1..Len(d) : d[k].type \in Outcomes => d[k].ch # i

\* A queue loses its first message when the front of its two parts does.
LEMMA ShorterJoined ==
    ASSUME NEW u, NEW v, NEW x, NEW y, NEW q,
           Joined(u, x, q), Joined(v, y, q), UpShorter(y, x), NEW k \in 1..Len(v)
    PROVE  u[k + 1] = v[k]
<1>1. /\ Len(x) = Len(y) + 1 /\ Len(y) \in Nat /\ Len(q) \in Nat /\ Len(v) = Len(y) + Len(q)
      /\ Len(u) = Len(x) + Len(q)
  BY DEF Joined, UpShorter
<1>2. CASE k \in 1..Len(y)
  <2>1. k + 1 \in 1..Len(x)
    BY <1>1, <1>2
  <2> QED BY <2>1, <1>2 DEF Joined, UpShorter
<1>3. CASE k \notin 1..Len(y)
  <2> DEFINE l == k - Len(y)
  <2>1. l \in 1..Len(q) /\ k = Len(y) + l /\ k + 1 = Len(x) + l
    BY <1>1, <1>3
  <2> HIDE DEF l
  <2>2. v[Len(y) + l] = q[l] /\ u[Len(x) + l] = q[l]
    BY <2>1 DEF Joined
  <2> QED BY <2>1, <2>2
<1> QED BY <1>2, <1>3

\* The next message of the client, which fits.
LEMMA SvNext ==
    ASSUME Plain, Links, NEW type, SvReads(type), NEW m, m = Head(c2s),
           NEW u, u = c2s \o deferred, NEW v, v = c2s' \o deferred
    PROVE  /\ UpShorter(v, u) /\ u[1] = m /\ m.type = type /\ m \in UpMessage
           /\ c2s' \in Seq(UpMessage) /\ UNCHANGED client /\ left' \in Load /\ left'.slots = left.slots
           /\ UpFits(m, 1, chan, u, sv.ch)
           /\ type = "OPEN" =>
                 m.ch \in Slots /\ chan[m.ch].state = "OPENING" /\ Undecided(m.ch, v, s2c)
<1>1. /\ c2s # <<>> /\ m.type = type /\ c2s' = Tail(c2s) /\ UNCHANGED <<client, left>>
      /\ c2s \in Seq(UpMessage) /\ deferred \in Seq(UpMessage)
  BY DEF SvReads, Plain
<1>2. Linked(chan, u, s2c, sv.ch)
  BY DEF Links
<1>3. UpShorter(c2s', c2s) /\ m = c2s[1]
  BY <1>1, Shorten
<1>4. c2s' \in Seq(UpMessage) /\ Len(c2s') \in Nat /\ Len(c2s) = Len(c2s') + 1
      /\ m \in UpMessage /\ \A k \in 1..Len(c2s') : c2s'[k] = c2s[k + 1]
  BY <1>3 DEF UpShorter
<1>5. /\ u \in Seq(UpMessage) /\ Joined(u, c2s, deferred)
      /\ v \in Seq(UpMessage) /\ Joined(v, c2s', deferred)
  BY <1>1, <1>4, JoinedCat, ConcatProperties, u = c2s \o deferred, v = c2s' \o deferred
<1>6. u[1] = m /\ u # <<>> /\ Len(u) = Len(v) + 1 /\ Len(v) \in Nat
  <2>1. Len(deferred) \in Nat /\ Len(u) = Len(c2s) + Len(deferred) /\ Len(v) = Len(c2s') + Len(deferred)
    BY <1>1, <1>5, LenProperties DEF Joined
  <2>2. 1 \in 1..Len(c2s)
    BY <1>4
  <2>3. u[1] = c2s[1]
    BY <1>5, <2>2 DEF Joined
  <2> QED BY <2>1, <2>3, <1>3, <1>4
<1>7. UpShorter(Tail(u), u) /\ Len(Tail(u)) = Len(v)
  <2>1. UpShorter(Tail(u), u)
    BY <1>5, <1>6, Shorten
  <2>2. Len(Tail(u)) \in Nat /\ Len(u) = Len(Tail(u)) + 1
    BY <2>1 DEF UpShorter
  <2> QED BY <2>1, <2>2, <1>6
<1>8. ASSUME NEW k \in 1..Len(v) PROVE Tail(u)[k] = v[k]
  <2> DEFINE x == c2s
             y == c2s'
             q == deferred
  <2>1. Joined(u, x, q) /\ Joined(v, y, q) /\ UpShorter(y, x)
    BY <1>3, <1>5
  <2> HIDE DEF x, y, q
  <2>2. u[k + 1] = v[k]
    BY ONLY <2>1, k \in 1..Len(v), ShorterJoined
  <2>3. Tail(u)[k] = u[k + 1]
    BY <1>7 DEF UpShorter
  <2> QED BY <2>2, <2>3
<1>9. UpShorter(v, u)
  <2> DEFINE w == Tail(u)
  <2>1. w \in Seq(UpMessage) /\ UpShorter(w, u)
    BY <1>7 DEF UpShorter
  <2> HIDE DEF w
  <2>2. w = v
    BY <1>5, <1>7, <1>8, <2>1, SeqEqual DEF w
  <2> QED BY <2>1, <2>2
<1>10. 1 \in 1..Len(u) /\ \A k \in 1..Len(v) : k + 1 \in 1..Len(u) /\ v[k] = u[k + 1] /\ k + 1 # 1
  BY <1>6, <1>9 DEF UpShorter
<1>11. UpFits(m, 1, chan, u, sv.ch)
  BY <1>2, <1>6, <1>10 DEF Linked, UpRight
<1>12. ASSUME type = "OPEN"
       PROVE  m.ch \in Slots /\ chan[m.ch].state = "OPENING" /\ Undecided(m.ch, v, s2c)
  <2>1. m.ch \in Slots /\ chan[m.ch].state = "OPENING"
    BY <1>1, <1>11, <1>12 DEF UpFits
  <2>2. \A k \in 1..Len(v) : v[k].type = "OPEN" => v[k].ch # m.ch
    BY <1>1, <1>2, <1>6, <1>10, <1>12 DEF Linked, OneOutcome
  <2>3. \A k \in 1..Len(s2c) : s2c[k].type \in Outcomes => s2c[k].ch # m.ch
    BY <1>1, <1>2, <1>6, <1>10, <1>12 DEF Linked, OneOutcome
  <2> QED BY <2>1, <2>2, <2>3 DEF Undecided
<1>13. left' \in Load /\ left'.slots = left.slots /\ UNCHANGED client
  BY <1>1 DEF Plain
<1> QED
  BY <1>1, <1>4, <1>6, <1>9, <1>11, <1>12, <1>13

\* The server confirms a channel of the client's, or refuses it.
LEMMA SvOpenHeard ==
    ASSUME Plain, Links, Rested, SvRecvOpen
    PROVE  Plain' /\ Links' /\ Rested'
<1> DEFINE m == Head(c2s)
           i == m.ch
           r == Min(SvFresh)
           u == c2s \o deferred
           v == c2s' \o deferred
           d == s2c
           s == sv.ch
           e == s2c'
           b == [SvNone EXCEPT !.state = "open", !.slot = i, !.win = Window, !.grant = SvWindow]
           p == In("OPEN_CONFIRM", i, r, SvWindow, "none")
           n == In("OPEN_FAIL", i, 0, 0, "none")
           s2 == [s EXCEPT ![r] = b]
<1>1. SvReads("OPEN") /\ SvFresh # {} /\ ((SvSend(p) /\ SvSet(r, b)) \/ (SvSend(n) /\ sv' = sv))
  BY DEF SvRecvOpen
<1>2. /\ UpShorter(v, u) /\ u[1] = m /\ m.type = "OPEN"
      /\ c2s' \in Seq(UpMessage) /\ UNCHANGED client /\ left' \in Load /\ left'.slots = left.slots
      /\ i \in Slots /\ chan[i].state = "OPENING"
      /\ \A k \in 1..Len(v) : v[k].type = "OPEN" => v[k].ch # i
      /\ \A k \in 1..Len(d) : d[k].type \in Outcomes => d[k].ch # i
  <2>1. m = Head(c2s) /\ u = c2s \o deferred /\ v = c2s' \o deferred /\ d = s2c /\ i = m.ch
    OBVIOUS
  <2> HIDE DEF m, i, u, v, d
  <2>2. /\ UpShorter(v, u) /\ u[1] = m /\ m.type = "OPEN"
        /\ c2s' \in Seq(UpMessage) /\ UNCHANGED client /\ left' \in Load /\ left'.slots = left.slots
    BY <1>1, <2>1, SvNext
  <2>3. m.ch \in Slots /\ chan[m.ch].state = "OPENING"
    BY <1>1, <2>1, SvNext
  <2>4. Undecided(m.ch, v, s2c)
    BY <1>1, <2>1, SvNext
  <2> QED BY <2>1, <2>2, <2>3, <2>4 DEF Undecided
<1>3. Linked(chan, u, d, s) /\ r \in Rids /\ s[r].state = "none"
  BY <1>1, FirstFresh DEF Links
<1>4. Linked(chan, v, d, s)
  <2> HIDE DEF m, i, r, u, v, d, s
  <2> QED BY <1>2, <1>3, SvHearOnly
<1>5. ASSUME SvSend(p), SvSet(r, b) PROVE Plain' /\ Links' /\ Rested'
  <2>1. p \in DownMessage /\ p.type = "OPEN_CONFIRM" /\ p.ch = i /\ p.rid = r /\ p.n = SvWindow
    <3>1. /\ "OPEN_CONFIRM" \in InTypes /\ i \in Slots \cup {0} /\ r \in Rids \cup {0} /\ SvWindow \in Nat
          /\ "none" \in {"none", "want", "nowant", "x11", "other", "right", "wrong"}
      BY <1>2, <1>3, ChannelsAssumption DEF InTypes
    <3> HIDE DEF r, i
    <3> QED BY <3>1 DEF In, DownMessage
  <2>2. DownLonger(e, d, p)
    BY <1>5, <2>1, Says
  <2>3. /\ b = [SvNone EXCEPT !.state = "open", !.slot = i, !.win = Window, !.grant = SvWindow]
        /\ s2 = [s EXCEPT ![r] = b]
    OBVIOUS
  <2> HIDE DEF m, i, r, u, v, d, s, e, b, p, n, s2
  <2>4. b \in SvChan /\ Linked(chan, v, e, s2)
    <3>1. /\ Linked(chan, v, d, s) /\ DownLonger(e, d, p) /\ r \in Rids /\ p.rid = r
          /\ s[r].state = "none" /\ p.type = "OPEN_CONFIRM" /\ p.n = SvWindow /\ i \in Slots
          /\ p.ch = i /\ chan[i].state = "OPENING"
          /\ \A k \in 1..Len(v) : v[k].type = "OPEN" => v[k].ch # i
          /\ \A k \in 1..Len(d) : d[k].type \in Outcomes => d[k].ch # i
      BY <1>2, <1>3, <1>4, <2>1, <2>2
    <3>2. Linked(chan, v, e, s2)
      BY ONLY <3>1, <2>3, SvConfirms
    <3>3. s \in [Rids -> SvChan] /\ s2 \in [Rids -> SvChan]
      BY <3>1, <3>2, TypesOf DEF Linked
    <3> QED BY <3>1, <3>2, <3>3, <2>3
  <2>5. sv' \in [kex : BOOLEAN, accused : {"none", Late}, ch : [Rids -> SvChan]] /\ sv'.ch = [sv.ch EXCEPT ![r] = b]
    BY <1>3, <1>5, <2>4, SvSetType
  <2>6. Linked(chan, c2s' \o deferred, s2c', sv'.ch)
    BY <2>3, <2>4, <2>5 DEF v, e, s
  <2> QED BY <1>2, <2>5, <2>6, ServerStep
<1>6. ASSUME SvSend(n), sv' = sv PROVE Plain' /\ Links' /\ Rested'
  <2>1. n \in DownMessage /\ n.type = "OPEN_FAIL" /\ n.ch = i /\ n.rid = 0
    <3>1. /\ "OPEN_FAIL" \in InTypes /\ i \in Slots \cup {0} /\ 0 \in Rids \cup {0} /\ 0 \in Nat
          /\ "none" \in {"none", "want", "nowant", "x11", "other", "right", "wrong"}
      BY <1>2 DEF InTypes
    <3> HIDE DEF i
    <3> QED BY <3>1 DEF In, DownMessage
  <2>2. DownLonger(e, d, n)
    BY <1>6, <2>1, Says
  <2> HIDE DEF m, i, r, u, v, d, s, e, b, p, n, s2
  <2>3. /\ n.type = "OPEN_FAIL" /\ n.ch \in Slots /\ chan[n.ch].state = "OPENING"
        /\ \A k \in 1..Len(v) : v[k].type = "OPEN" => v[k].ch # n.ch
        /\ \A k \in 1..Len(d) : d[k].type \in Outcomes => d[k].ch # n.ch
    BY <1>2, <2>1
  <2>4. Linked(chan, v, e, s)
    BY ONLY <1>4, <2>1, <2>2, <2>3, SvSayOnly
  <2>5. sv' \in [kex : BOOLEAN, accused : {"none", Late}, ch : [Rids -> SvChan]] /\ sv'.ch = s
    BY <1>6 DEF Plain, s
  <2>6. Linked(chan, c2s' \o deferred, s2c', sv'.ch)
    BY <2>4, <2>5 DEF v, e
  <2> QED BY <1>2, <2>5, <2>6, ServerStep
<1> QED
  BY <1>1, <1>5, <1>6

\* The client has confirmed an x11 channel, or refused one.
LEMMA SvOutcomeHeard ==
    ASSUME Plain, Links, Rested, SvRecvConfirm \/ SvRecvFail
    PROVE  Plain' /\ Links' /\ Rested'
<1> DEFINE m == Head(c2s)
           r == m.ch
           u == c2s \o deferred
           v == c2s' \o deferred
           d == s2c
           s == sv.ch
<1>1. Linked(chan, u, d, s)
  BY DEF Links
<1>2. PICK type \in {"OPEN_CONFIRM", "OPEN_FAIL"} : SvReads(type) /\ UNCHANGED s2c
  BY DEF SvRecvConfirm, SvRecvFail
<1>3. /\ UpShorter(v, u) /\ u[1] = m /\ m.type = type
      /\ c2s' \in Seq(UpMessage) /\ UNCHANGED client /\ left' \in Load /\ left'.slots = left.slots
  BY <1>2, SvNext
<1>7. UpFits(m, 1, chan, u, s)
  BY <1>2, SvNext
<1>4. ASSUME NEW b, r \in Rids, b \in SvChan, Linked(chan, v, d, [s EXCEPT ![r] = b]), SvSet(r, b)
      PROVE  Plain' /\ Links' /\ Rested'
  <2> HIDE DEF m, r, u, v, d, s
  <2>1. sv' \in [kex : BOOLEAN, accused : {"none", Late}, ch : [Rids -> SvChan]] /\ sv'.ch = [sv.ch EXCEPT ![r] = b]
    BY <1>4, SvSetType
  <2>2. Linked(chan, c2s' \o deferred, s2c', sv'.ch)
    BY <1>2, <1>4, <2>1 DEF v, d, s
  <2> QED BY <1>3, <2>1, <2>2, ServerStep
<1>5. CASE SvRecvConfirm
  <2> DEFINE b == [s[r] EXCEPT !.state = "open", !.slot = m.n, !.win = Window]
             s2 == [s EXCEPT ![r] = b]
  <2>1. m.type = "OPEN_CONFIRM" /\ SvSet(r, b)
    BY <1>5 DEF SvRecvConfirm, SvReads
  <2>2. m = u[1] /\ r = m.ch /\ b = [s[r] EXCEPT !.state = "open", !.slot = m.n, !.win = Window]
        /\ s2 = [s EXCEPT ![r] = b]
    BY <1>3
  <2> HIDE DEF m, r, u, v, d, s, b, s2
  <2>3. r \in Rids /\ b \in SvChan /\ Linked(chan, v, d, s2)
    <3>1. Linked(chan, u, d, s) /\ UpShorter(v, u) /\ m.type = "OPEN_CONFIRM"
      BY <1>1, <1>3, <2>1
    <3>2. Linked(chan, v, d, s2)
      BY ONLY <3>1, <2>2, SvHearConfirm
    <3>3. s \in [Rids -> SvChan] /\ s2 \in [Rids -> SvChan]
      BY <3>1, <3>2, TypesOf DEF Linked
    <3>4. r \in Rids
      BY <1>7, <2>1, <2>2 DEF UpFits
    <3> QED BY <3>2, <3>3, <3>4, <2>2
  <2> QED BY <2>1, <2>2, <2>3, <1>4
<1>6. CASE SvRecvFail
  <2>1. m.type = "OPEN_FAIL"
    BY <1>6 DEF SvRecvFail, SvReads
  <2>2. CASE r = 0
    <3>1. sv' = sv
      BY <1>6, <2>2 DEF SvRecvFail
    <3> HIDE DEF m, r, u, v, d, s
    <3>2. Linked(chan, v, d, s)
      BY <1>1, <1>3, <2>1, SvHearOnly
    <3>3. sv' \in [kex : BOOLEAN, accused : {"none", Late}, ch : [Rids -> SvChan]]
      BY <3>1 DEF Plain
    <3>4. Linked(chan, c2s' \o deferred, s2c', sv'.ch)
      BY <1>2, <3>1, <3>2 DEF v, d, s
    <3> QED BY <1>3, <3>3, <3>4, ServerStep
  <2>3. CASE r # 0
    <3> DEFINE b == [SvNone EXCEPT !.state = "done"]
               s2 == [s EXCEPT ![r] = b]
    <3>1. SvSet(r, b)
      BY <1>6, <2>3 DEF SvRecvFail
    <3>2. m = u[1] /\ r = m.ch /\ r # 0 /\ b = [SvNone EXCEPT !.state = "done"] /\ s2 = [s EXCEPT ![r] = b]
      BY <1>3, <2>3
    <3> HIDE DEF m, r, u, v, d, s, b, s2
    <3>3. r \in Rids /\ b \in SvChan /\ Linked(chan, v, d, s2)
      <4>1. Linked(chan, u, d, s) /\ UpShorter(v, u) /\ m.type = "OPEN_FAIL"
        BY <1>1, <1>3, <2>1
      <4>2. r \in Rids
        BY ONLY <4>1, <3>2, SvHearFail
      <4>3. b \in SvChan
        BY ONLY <4>1, <3>2, SvHearFail
      <4>4. Linked(chan, v, d, s2)
        BY ONLY <4>1, <3>2, SvHearFail
      <4> QED BY <4>2, <4>3, <4>4
    <3> QED BY <3>1, <3>2, <3>3, <1>4
  <2> QED BY <2>2, <2>3
<1> QED
  BY <1>5, <1>6

\* The client's DATA, EOF, CLOSE and adjustments give no cause for complaint.
LEMMA SvTalkHeard ==
    ASSUME Plain, Links, Rested, NEW type \in Talk, SvRecvChannel(type)
    PROVE  Plain' /\ Links' /\ Rested'
<1> DEFINE m == Head(c2s)
           r == m.ch
           u == c2s \o deferred
           v == c2s' \o deferred
           d == s2c
           s == sv.ch
           c == s[r]
           b == SvTaken(c, m)
           s2 == [s EXCEPT ![r] = b]
<1>1. Linked(chan, u, d, s)
  BY DEF Links
<1>2. SvReads(type) /\ UNCHANGED s2c
  BY DEF SvRecvChannel
<1>3. /\ UpShorter(v, u) /\ u[1] = m /\ m.type = type /\ m \in UpMessage
      /\ c2s' \in Seq(UpMessage) /\ UNCHANGED client /\ left' \in Load /\ left'.slots = left.slots
  BY <1>2, SvNext
<1>4. m = u[1] /\ r = m.ch /\ m.type \in Talk /\ b = SvTaken(c, m) /\ s2 = [s EXCEPT ![r] = SvTaken(s[r], m)]
      /\ s2 = [s EXCEPT ![r] = b]
  BY <1>3
<1>5. (SvComplaint(c, m) = "none" => SvSet(r, b)) /\ c = s[r]
  BY DEF SvRecvChannel
<1> HIDE DEF m, r, u, v, d, s, c, b, s2
<1>6. r \in Rids /\ SvComplaint(s[r], m) = "none" /\ (m.type = "DATA" => m.n <= s[r].grant)
  BY ONLY <1>1, <1>3, <1>4, TalkFits
<1>7. Linked(chan, v, d, s2)
  <2>1. Linked(chan, u, d, s) /\ UpShorter(v, u) /\ m = u[1] /\ m.type \in Talk /\ r = m.ch
    BY <1>1, <1>3, <1>4
  <2>2. s2 = [s EXCEPT ![r] = SvTaken(s[r], m)]
    BY <1>4
  <2> QED BY ONLY <2>1, <2>2, SvHearTalk
<1>8. b \in SvChan
  <2>1. c \in SvChan
    BY <1>1, <1>5, <1>6, TypesOf DEF Linked
  <2>2. Takes(b, c, m)
    BY <1>3, <1>4, <1>5, <1>6, <2>1, TakenFields
  <2> QED BY <2>2 DEF Takes
<1>9. sv' \in [kex : BOOLEAN, accused : {"none", Late}, ch : [Rids -> SvChan]] /\ sv'.ch = [sv.ch EXCEPT ![r] = b]
  BY <1>5, <1>6, <1>8, SvSetType
<1>10. Linked(chan, c2s' \o deferred, s2c', sv'.ch)
  BY <1>2, <1>4, <1>7, <1>9 DEF v, d, s
<1> QED
  BY <1>3, <1>9, <1>10, ServerStep

\* The client's requests, answered while the channel is open, and its answers.
LEMMA SvRequestHeard ==
    ASSUME Plain, Links, Rested, SvRecvRequest \/ SvRecvAnswer
    PROVE  Plain' /\ Links' /\ Rested'
<1> DEFINE m == Head(c2s)
           r == m.ch
           u == c2s \o deferred
           v == c2s' \o deferred
           d == s2c
           s == sv.ch
           e == s2c'
           p == SvIn("REPLY", r, 0, "none")
<1>1. Linked(chan, u, d, s)
  BY DEF Links
<1>2. PICK type \in {"REQUEST", "FAILURE", "REQUEST_FAILURE"} :
         /\ SvReads(type)
         /\ IF type = "REQUEST_FAILURE" THEN sv' = sv ELSE SvBlames(SvComplaint(s[r], m))
         /\ \/ s2c' = s2c
            \/ type = "REQUEST" /\ SvTalks(r) /\ SvSend(p)
  BY DEF SvRecvRequest, SvRecvAnswer, SvSend
<1>3. /\ UpShorter(v, u) /\ u[1] = m /\ m.type = type
      /\ c2s' \in Seq(UpMessage) /\ UNCHANGED client /\ left' \in Load /\ left'.slots = left.slots
  BY <1>2, SvNext
<1>4. UpFits(m, 1, chan, u, s)
  BY <1>2, SvNext
<1>5. Linked(chan, v, d, s)
  <2>1. u[1].type \notin {"OPEN_CONFIRM", "DATA", "ADJUST"}
    BY <1>2, <1>3
  <2> HIDE DEF m, r, u, v, d, s
  <2> QED BY <1>1, <1>3, <2>1, SvHearOnly
<1>6. Linked(chan, v, e, s)
  <2>1. CASE s2c' = s2c
    BY <1>5, <2>1
  <2>2. ASSUME type = "REQUEST", SvTalks(r), SvSend(p) PROVE Linked(chan, v, e, s)
    <3> DEFINE c == s[r]
    <3>1. r \in Rids
      BY <1>3, <1>4, <2>2 DEF UpFits
    <3>2. s \in [Rids -> SvChan] /\ c \in SvChan /\ c.slot \in Slots \cup {0}
      BY <1>1, <3>1, TypesOf, SvFields DEF Linked
    <3>3. p \in DownMessage /\ p.type = "REPLY" /\ p.ch = c.slot /\ p.rid = r /\ p.n = 0
      <4>1. /\ "REPLY" \in InTypes /\ r \in Rids \cup {0} /\ 0 \in Nat
            /\ "none" \in {"none", "want", "nowant", "x11", "other", "right", "wrong"}
        BY <3>1 DEF InTypes
      <4>2. p = In("REPLY", c.slot, r, 0, "none")
        BY DEF SvIn
      <4> HIDE DEF p, c, r, s
      <4> QED BY <3>2, <4>1, <4>2 DEF In, DownMessage
    <3>4. DownLonger(e, d, p)
      BY <2>2, <3>3, Says
    <3>5. Speaks(c, c, p)
      <4>1. c.win + 0 = c.win /\ c.sent + 0 = c.sent /\ c.grant + 0 = c.grant
        BY <3>2, SvFields, ChannelsAssumption
      <4>2. c.state = "open" /\ ~c.close_out
        BY <2>2 DEF SvTalks
      <4> HIDE DEF c, p
      <4> QED BY <3>3, <4>1, <4>2 DEF Speaks
    <3>6. s = [s EXCEPT ![r] = c] /\ c = s[r]
      BY <3>2
    <3>7. p.type \in ChannelTypes /\ p.ch = s[r].slot
      BY <3>3 DEF ChannelTypes
    <3> HIDE DEF m, r, u, v, d, s, e, p, c
    <3> QED BY ONLY <1>5, <3>1, <3>2, <3>3, <3>4, <3>5, <3>6, <3>7, SvTalk
  <2> QED BY <1>2, <2>1, <2>2
<1>7. sv' \in [kex : BOOLEAN, accused : {"none", Late}, ch : [Rids -> SvChan]] /\ sv'.ch = s
  <2>1. sv \in [kex : BOOLEAN, accused : {"none", Late}, ch : [Rids -> SvChan]]
    BY DEF Plain
  <2>2. CASE type = "REQUEST_FAILURE"
    BY <1>2, <2>1, <2>2
  <2>3. ASSUME type # "REQUEST_FAILURE"
        PROVE  SvComplaint(s[r], m) \in {"none", Late} /\ SvBlames(SvComplaint(s[r], m))
    <3>1. m.type \in {"REQUEST", "FAILURE"} /\ SvBlames(SvComplaint(s[r], m))
      BY <1>2, <1>3, <2>3
    <3>2. s[r].state \in {"open", "done"} /\ (s[r].state # "done" \/ s[r].close_in)
      BY <1>4, <3>1 DEF UpFits, ConfirmsUp
    <3> HIDE DEF m, r, s
    <3> QED BY <3>1, <3>2 DEF SvComplaint
  <2>4. CASE type # "REQUEST_FAILURE"
    <3> HIDE DEF m, r
    <3> QED BY <2>1, <2>3, <2>4 DEF SvBlames
  <2> QED BY <2>2, <2>4
<1>8. Linked(chan, c2s' \o deferred, s2c', sv'.ch)
  BY <1>6, <1>7
<1> QED
  BY <1>3, <1>7, <1>8, ServerStep

-----------------------------------------------------------------------------
(* The invariant, and what follows from it *)

\* Every step keeps the parts of the invariant.
LEMMA NextKeeps ==
    ASSUME Plain, Links, Rested, Next
    PROVE  Plain' /\ Links' /\ Rested'
<1>1. CASE App
  <2>1. CASE ssh_channel_open
    BY <2>1, OpenStep
  <2>2. CASE ssh_next_event
    BY <2>2, EventStep
  <2>3. ASSUME NEW i \in Slots, NEW want \in {"want", "nowant"}, ssh_channel_request(i, want)
        PROVE  Plain' /\ Links' /\ Rested'
    BY <2>3, RequestStep
  <2>4. ASSUME NEW i \in Slots, ssh_channel_request_x11(i) PROVE Plain' /\ Links' /\ Rested'
    BY <2>4, RequestStep
  <2>5. ASSUME NEW i \in Slots, NEW len \in 1..left.write, ssh_channel_write(i, len)
        PROVE  Plain' /\ Links' /\ Rested'
    BY <2>5, WriteStep
  <2>6. ASSUME NEW i \in Slots, ssh_channel_eof(i) \/ ssh_channel_close(i)
        PROVE  Plain' /\ Links' /\ Rested'
    BY <2>6, EofStep
  <2> QED BY <1>1, <2>1, <2>2, <2>3, <2>4, <2>5, <2>6 DEF App
<1>2. CASE ssh_input
  <2>1. CASE RecvKexInit \/ RecvKexReply
    BY <2>1, KexStep
  <2>2. CASE RecvGlobalRequest
    BY <2>2, GlobalHeard
  <2>3. CASE RecvOpen
    BY <2>3, OpenHeard
  <2>4. CASE RecvConfirm
    BY <2>4, ConfirmHeard
  <2>5. CASE RecvOpenFail
    BY <2>5, OpenFailHeard
  <2>6. CASE RecvAdjust
    BY <2>6, AdjustHeard
  <2>7. CASE RecvData
    BY <2>7, DataHeard
  <2>8. CASE RecvEof \/ RecvReply
    BY <2>8, EventOnlyStep
  <2>9. CASE RecvClose
    BY <2>9, CloseHeard
  <2>10. CASE RecvRequest
    BY <2>10, RequestHeard
  <2> QED BY <1>2, <2>1, <2>2, <2>3, <2>4, <2>5, <2>6, <2>7, <2>8, <2>9, <2>10 DEF ssh_input
<1>3. CASE InputEnds
  BY <1>3, EndsStep
<1>4. CASE Server
  <2>1. CASE SvRecv
    <3>1. CASE SvRecvOpen
      BY <3>1, SvOpenHeard
    <3>2. CASE SvRecvConfirm \/ SvRecvFail
      BY <3>2, SvOutcomeHeard
    <3>3. CASE SvRecvRequest \/ SvRecvAnswer
      BY <3>3, SvRequestHeard
    <3>4. ASSUME NEW type \in {"DATA", "EOF", "CLOSE", "ADJUST"}, SvRecvChannel(type)
          PROVE  Plain' /\ Links' /\ Rested'
      BY <3>4, SvTalkHeard DEF Talk
    <3> QED BY <2>1, <3>1, <3>2, <3>3, <3>4 DEF SvRecv
  <2>2. CASE SvMisc \/ SvKexInit \/ SvKexReply
    BY <2>2, SvOtherStep
  <2>3. ASSUME NEW cookie \in {"right", "wrong"}, SvOpenX11(cookie) PROVE Plain' /\ Links' /\ Rested'
    BY <2>3, SvOpenStep
  <2>4. ASSUME NEW r \in Rids, NEW n \in 1..left.svdata, SvData(r, n) PROVE Plain' /\ Links' /\ Rested'
    BY <2>4, SvDataStep
  <2>5. ASSUME NEW r \in Rids, SvGrant(r) PROVE Plain' /\ Links' /\ Rested'
    BY <2>5, SvGrantStep
  <2>6. ASSUME NEW r \in Rids, SvEof(r) \/ SvClose(r) PROVE Plain' /\ Links' /\ Rested'
    BY <2>6, SvEndStep
  <2>7. ASSUME NEW r \in Rids, NEW want \in {"want", "nowant"}, SvRequest(r, want)
        PROVE  Plain' /\ Links' /\ Rested'
    BY <2>7, SvRequestStep
  <2> QED BY <1>4, <2>1, <2>2, <2>3, <2>4, <2>5, <2>6, <2>7 DEF Server
<1> QED
  BY <1>1, <1>2, <1>3, <1>4 DEF Next

\* Whatever the application and the server do, and in whatever order, the two tables and the
\* two queues agree (the handlers of ssh_chan.c, the calls of the application between them).
THEOREM LinksKept == Spec => []ChannelsInv
<1>1. Init => ChannelsInv
  BY InitLinks
<1>2. Plain' /\ Links' /\ Rested' => ChannelsInv'
  BY Parts, PTL
<1>3. ChannelsInv /\ [Next]_vars => ChannelsInv'
  <2> SUFFICES ASSUME ChannelsInv, [Next]_vars PROVE ChannelsInv'
    OBVIOUS
  <2>1. Plain /\ Links /\ Rested
    BY Parts
  <2>2. CASE Next
    <3>1. Plain' /\ Links' /\ Rested'
      BY <2>1, <2>2, NextKeeps
    <3> QED BY <3>1, <1>2
  <2>3. CASE UNCHANGED vars
    <3>1. UNCHANGED <<client, c2s, s2c, sv, left>>
      BY <2>3 DEF vars
    <3>2. UNCHANGED <<chan, x11_active, closed, err, locked, deferred, busy, events>>
      BY <3>1 DEF client
    <3>3. Plain'
      BY <2>1, <3>1, <3>2 DEF Plain
    <3>4. Links'
      BY <2>1, <3>1, <3>2 DEF Links
    <3>5. Rested'
      BY <2>1, <3>2 DEF Rested, Emptied
    <3> QED BY <3>3, <3>4, <3>5, <1>2
  <2> QED BY <2>2, <2>3
<1> QED
  BY <1>1, <1>3, PTL DEF Spec

\* The table, the messages and what is counted always have the types TypeOK gives them: no
\* window, backlog or amount leaves its range, and nothing is deferred outside a key exchange.
THEOREM TableTypeCorrect == Spec => []TypeOK
<1>1. ChannelsInv => TypeOK
  BY DEF ChannelsInv
<1> QED
  BY <1>1, LinksKept, PTL

\* A message of the server always finds the channel it was sent on in the slot it names,
\* however often slots are released and used again (the release in RecvClose, chan_flush and
\* RecvOpenFail against what is still under way).
THEOREM AlwaysReachesItsChannel == Spec => []ReachesItsChannel
<1>1. ChannelsInv => ReachesItsChannel
  <2> SUFFICES ASSUME ChannelsInv, NEW k \in 1..Len(s2c), s2c[k].type \in ChannelTypes,
                      ~\E j \in 1..k : s2c[j].type = "OPEN_CONFIRM" /\ s2c[j].rid = s2c[k].rid
               PROVE  chan[s2c[k].ch].state = "OPEN" /\ chan[s2c[k].ch].remote_id = s2c[k].rid
    BY DEF ReachesItsChannel
  <2> DEFINE m == s2c[k]
  <2>1. DownFits(m, k, chan, c2s \o deferred, s2c, sv.ch)
    BY DEF ChannelsInv, Linked, DownRight
  <2>2. ~ConfirmsDown(s2c, k - 1, m.rid)
    <3> SUFFICES ASSUME NEW j \in 1..(k - 1), s2c[j].type = "OPEN_CONFIRM", s2c[j].rid = m.rid
                 PROVE  FALSE
      BY DEF ConfirmsDown
    <3>1. k \in Nat
      OBVIOUS
    <3>2. j \in 1..k
      BY <3>1
    <3> QED BY <3>2
  <2>3. Holds(chan, m.ch, m.rid)
    BY <2>1, <2>2 DEF DownFits
  <2> QED BY <2>3 DEF Holds
<1> QED
  BY <1>1, LinksKept, PTL

\* Neither side ever has cause to complain, a request or an answer to one after the client's
\* CLOSE apart (Late), and the windows each believes in add up to what
\* was granted, with all that is under way (chan_flush, RecvAdjust, RecvData).
THEOREM NobodyEverAccused == Spec => []NeverAccused
<1>1. ChannelsInv => NeverAccused
  <2> SUFFICES ASSUME ChannelsInv PROVE NeverAccused
    OBVIOUS
  <2> DEFINE u == c2s \o deferred
  <2>1. sv.accused \in {"none", Late} /\ err = "none" /\ Linked(chan, u, s2c, sv.ch)
    BY DEF ChannelsInv
  <2>2. ASSUME NEW i \in Slots, chan[i].state = "OPEN"
        PROVE  Adds(chan[i], u, s2c, sv.ch[chan[i].remote_id], chan[i].remote_id)
    <3>1. SlotFits(chan[i], i, u, s2c, sv.ch)
      BY <2>1 DEF Linked, SlotsRight
    <3> QED BY <3>1, <2>2 DEF SlotFits
  <2>3. ASSUME NEW i \in Slots, NEW c, c = chan[i], NEW r, r = c.remote_id,
               c.state = "OPEN", sv.ch[r].state = "open"
        PROVE  /\ sv.ch[r].win + ToClient("DATA", r) + ToServer("ADJUST", r) = c.local_window
               /\ c.remote_window + ToClient("ADJUST", r) + ToServer("DATA", r) = sv.ch[r].grant
    BY <2>2, <2>3 DEF Adds, ToClient, ToServer
  <2> QED BY <2>1, <2>3 DEF NeverAccused
<1> QED
  BY <1>1, LinksKept, PTL

\* No unit is lost or made up between the application and the server, in either direction, an
\* EOF or a CLOSE never overtakes what was written before it, and nothing is held back once it
\* could leave (ssh_channel_write, chan_flush, ssh_chan_flush_all, x11_rewrite_setup).
THEOREM NothingEverLost == Spec => []NothingLost
<1>1. ChannelsInv => NothingLost
  <2> SUFFICES ASSUME ChannelsInv PROVE NothingLost
    OBVIOUS
  <2> DEFINE u == c2s \o deferred
  <2>1. Linked(chan, u, s2c, sv.ch) /\ (~busy /\ ~locked => \A i \in Slots : Emptied(chan[i]))
    BY DEF ChannelsInv
  <2>2. ASSUME NEW i \in Slots, NEW c, c = chan[i], NEW r, r = c.remote_id, c.state = "OPEN"
        PROVE  /\ c.written = c.out + ToServer("DATA", r) + sv.ch[r].got
               /\ sv.ch[r].sent = ToClient("DATA", r) + c.x11_pending + c.surfaced
    <3>1. SlotFits(c, i, u, s2c, sv.ch)
      BY <2>1, <2>2 DEF Linked, SlotsRight
    <3>2. Adds(c, u, s2c, sv.ch[r], r)
      BY <3>1, <2>2 DEF SlotFits
    <3> QED BY <3>2 DEF Adds, ToClient, ToServer
  <2>3. ASSUME NEW r \in Rids, sv.ch[r].owed # -1 PROVE sv.ch[r].got = sv.ch[r].owed
    <3>1. SvFits(sv.ch[r], r, chan, u, s2c)
      BY <2>1 DEF Linked, SvRight
    <3> QED BY <3>1, <2>3 DEF SvFits
  <2> QED BY <2>1, <2>2, <2>3 DEF NothingLost
<1> QED
  BY <1>1, LinksKept, PTL
=============================================================================
