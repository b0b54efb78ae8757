--------------------- MODULE TransportHandshakeProofs ---------------------
(***************************************************************************)
(* Proof that a server that follows the protocol is never accused, and     *)
(* never sent what it cannot take.  In every state the two ends of a key   *)
(* exchange are at one of the places Handshakes lists, which tells the     *)
(* exchange messages under way in each direction; each action moves them   *)
(* from one of these places to another or leaves them where they are.      *)
(*                                                                         *)
(* From the same places it follows that Transport implements OrderedPipe:  *)
(* the messages of the upper layers come out in the order they went in,    *)
(* each once, across every re-exchange (the last part).                    *)
(***************************************************************************)
EXTENDS TransportProofs

-----------------------------------------------------------------------------
(* The key exchange messages of a wire *)

\* A list without exchange messages, and the lists of one and of two messages.
LEMMA KexNone ==
    ASSUME NEW w, Len(w) \in Nat, \A i \in 1..Len(w) : w[i].type \notin KexTypes
    PROVE  KexOn(w, <<>>)
<1>1. Len(<<>>) = 0
  OBVIOUS
<1> DEFINE at == [k \in 1..Len(<<>>) |-> 1]
<1>2. at \in [1..Len(<<>>) -> 1..Len(w)]
  BY <1>1
<1> HIDE DEF at
<1>3. 1..Len(<<>>) = {}
  BY <1>1
<1> QED
  BY <1>2, <1>3 DEF KexOn

\* A list whose first message alone belongs to an exchange.
LEMMA KexFirst ==
    ASSUME NEW w, Len(w) \in Nat \ {0}, w[1].type \in KexTypes,
           \A i \in 1..Len(w) : i # 1 => w[i].type \notin KexTypes
    PROVE  KexOn(w, <<w[1].type>>)
<1> DEFINE ts == <<w[1].type>>
           at == [k \in 1..Len(ts) |-> 1]
<1>1. Len(ts) = 1 /\ ts[1] = w[1].type
  OBVIOUS
<1>2. at \in [1..Len(ts) -> 1..Len(w)] /\ at[1] = 1
  BY <1>1
<1> HIDE DEF at, ts
<1>3. /\ \A k \in 1..Len(ts) : w[at[k]].type = ts[k]
      /\ \A k, l \in 1..Len(ts) : k < l => at[k] < at[l]
      /\ \A i \in 1..Len(w) : w[i].type \in KexTypes => \E k \in 1..Len(ts) : at[k] = i
  BY <1>1, <1>2
<1>4. KexOn(w, ts)
  BY <1>2, <1>3 DEF KexOn
<1> QED
  BY <1>4 DEF ts

\* Lists one after the other hold the messages of both.
LEMMA KexConcat ==
    ASSUME NEW w, NEW u, NEW v, NEW ts \in Seq(KexTypes), NEW us \in Seq(KexTypes),
           Len(w) \in Nat, Len(u) \in Nat, Len(v) = Len(w) + Len(u),
           \A i \in 1..Len(w) : v[i].type = w[i].type,
           \A i \in 1..Len(u) : v[Len(w) + i].type = u[i].type,
           KexOn(w, ts), KexOn(u, us)
    PROVE  KexOn(v, ts \o us)
<1> DEFINE n == Len(ts)
           m == Len(us)
           a == Len(w)
           vs == ts \o us
<1>0. n \in Nat /\ m \in Nat
  OBVIOUS
<1>1. /\ Len(vs) = n + m
      /\ \A k \in 1..n : vs[k] = ts[k]
      /\ \A k \in 1..m : vs[n + k] = us[k]
  OBVIOUS
<1>2. PICK f \in [1..n -> 1..a] :
        /\ \A k \in 1..n : w[f[k]].type = ts[k]
        /\ \A k, l \in 1..n : k < l => f[k] < f[l]
        /\ \A i \in 1..a : w[i].type \in KexTypes => \E k \in 1..n : f[k] = i
  BY DEF KexOn
<1>3. PICK g \in [1..m -> 1..Len(u)] :
        /\ \A k \in 1..m : u[g[k]].type = us[k]
        /\ \A k, l \in 1..m : k < l => g[k] < g[l]
        /\ \A i \in 1..Len(u) : u[i].type \in KexTypes => \E k \in 1..m : g[k] = i
  BY DEF KexOn
<1> DEFINE at == [k \in 1..Len(vs) |-> IF k <= n THEN f[k] ELSE a + g[k - n]]
<1>4. /\ \A k \in 1..n : at[k] = f[k] /\ f[k] \in 1..a /\ k \in 1..Len(vs)
      /\ \A k \in 1..m : /\ at[n + k] = a + g[k] /\ g[k] \in 1..Len(u)
                         /\ n + k \in 1..Len(vs)
      /\ \A k \in 1..Len(vs) : k \in 1..n \/ (k - n \in 1..m /\ n + (k - n) = k)
  <2>1. \A k \in 1..n : f[k] \in 1..a /\ k \in 1..Len(vs)
    BY <1>0, <1>1, <1>2
  <2>2. \A k \in 1..m : g[k] \in 1..Len(u) /\ n + k \in 1..Len(vs) /\ ~(n + k <= n)
                        /\ (n + k) - n = k
    BY <1>0, <1>1, <1>3
  <2>3. \A k \in 1..Len(vs) : k \in 1..n \/ (k - n \in 1..m /\ n + (k - n) = k)
    BY <1>0, <1>1
  <2> HIDE DEF n, m, a, vs
  <2>4. \A k \in 1..n : k <= n
    BY <1>0
  <2> QED
    BY <2>1, <2>2, <2>3, <2>4
<1>5. at \in [1..Len(vs) -> 1..Len(v)]
  <2>1. \A k \in 1..Len(vs) : at[k] \in 1..Len(v)
    <3> TAKE k \in 1..Len(vs)
    <3> HIDE DEF at, vs, n, m, a
    <3>0. a \in Nat /\ Len(v) = a + Len(u)
      BY DEF a
    <3>1. CASE k \in 1..n
      BY <3>0, <3>1, <1>4
    <3>2. CASE k - n \in 1..m /\ n + (k - n) = k
      <4>1. PICK x \in 1..Len(u) : at[k] = a + x
        BY <3>2, <1>4
      <4> QED
        BY <4>1, <3>0
    <3> QED
      BY <3>1, <3>2, <1>4
  <2>2. at = [k \in 1..Len(vs) |-> at[k]]
    OBVIOUS
  <2> HIDE DEF at
  <2> QED
    BY <2>1, <2>2
<1> HIDE DEF at, vs, n, m, a
<1>w. a \in Nat /\ Len(v) = a + Len(u) /\ \A i \in 1..a : v[i].type = w[i].type
  BY DEF a
<1>u. \A i \in 1..Len(u) : v[a + i].type = u[i].type
  BY DEF a
<1>6. \A k \in 1..Len(vs) : v[at[k]].type = vs[k]
  <2> TAKE k \in 1..Len(vs)
  <2>1. CASE k \in 1..n
    <3>1. PICK x \in 1..a : x = f[k]
      BY <2>1, <1>4
    <3>2. at[k] = x /\ vs[k] = ts[k] /\ w[x].type = ts[k]
      BY <2>1, <3>1, <1>1, <1>2, <1>4
    <3> QED
      BY <3>1, <3>2, <1>w
  <2>2. CASE k - n \in 1..m /\ n + (k - n) = k
    <3>1. PICK j \in 1..m : j = k - n /\ n + j = k
      BY <2>2
    <3>2. PICK x \in 1..Len(u) : x = g[j]
      BY <3>1, <1>4
    <3>3. at[k] = a + x /\ vs[k] = us[j] /\ u[x].type = us[j]
      BY <3>1, <3>2, <1>1, <1>3, <1>4
    <3>4. v[a + x].type = u[x].type
      BY <1>u
    <3> QED
      BY <3>3, <3>4
  <2> QED
    BY <2>1, <2>2, <1>4
<1>7. \A k, l \in 1..Len(vs) : k < l => at[k] < at[l]
  <2> SUFFICES ASSUME NEW k \in 1..Len(vs), NEW l \in 1..Len(vs), k < l PROVE at[k] < at[l]
    OBVIOUS
  <2>1. CASE k \in 1..n /\ l \in 1..n
    BY <2>1, <1>2, <1>4
  <2>2. CASE k - n \in 1..m /\ n + (k - n) = k
    <3>1. l - n \in 1..m /\ n + (l - n) = l /\ k - n < l - n
      BY <2>2, <1>0, <1>4
    <3>2. at[k] = a + g[k - n] /\ at[l] = a + g[l - n] /\ g[k - n] < g[l - n]
      BY <2>2, <3>1, <1>3, <1>4
    <3>3. g[k - n] \in Nat /\ g[l - n] \in Nat
      BY <2>2, <3>1, <1>4
    <3> QED
      BY <3>2, <3>3, <1>w
  <2>3. CASE k \in 1..n /\ l - n \in 1..m /\ n + (l - n) = l
    <3>1. at[l] = a + g[l - n] /\ g[l - n] \in 1..Len(u) /\ at[k] \in 1..a
      BY <2>3, <1>4
    <3> QED
      BY <3>1, <1>w
  <2> QED
    BY <2>1, <2>2, <2>3, <1>4
<1>8. \A i \in 1..Len(v) : v[i].type \in KexTypes => \E k \in 1..Len(vs) : at[k] = i
  <2> SUFFICES ASSUME NEW i \in 1..Len(v), v[i].type \in KexTypes
               PROVE  \E k \in 1..Len(vs) : at[k] = i
    OBVIOUS
  <2>1. CASE i \in 1..a
    BY <2>1, <1>2, <1>4, <1>w
  <2>2. CASE i \notin 1..a
    <3>1. i - a \in 1..Len(u) /\ a + (i - a) = i
      BY <2>2, <1>w
    <3>2. u[i - a].type \in KexTypes
      BY <3>1, <1>u
    <3>3. PICK k \in 1..m : g[k] = i - a
      BY <3>1, <3>2, <1>3
    <3> QED
      BY <3>1, <3>3, <1>4
  <2> QED
    BY <2>1, <2>2
<1>9. KexOn(v, vs)
  BY <1>5, <1>6, <1>7, <1>8 DEF KexOn
<1> QED
  BY <1>9 DEF vs

\* Taking the first packet takes the first exchange message, if it is one.
LEMMA KexTail ==
    ASSUME NEW w \in Seq(Packet), w # <<>>, NEW ts \in Seq(KexTypes), KexOn(w, ts)
    PROVE  /\ w[1].type \notin KexTypes => KexOn(Tail(w), ts)
           /\ w[1].type \in KexTypes =>
                 ts # <<>> /\ ts[1] = w[1].type /\ KexOn(Tail(w), Tail(ts))
<1> DEFINE v == Tail(w)
           n == Len(ts)
<1>1. /\ Len(w) \in Nat \ {0} /\ n \in Nat /\ Len(v) = Len(w) - 1
      /\ \A i \in 1..Len(v) : v[i] = w[i + 1]
  BY HeadTailProperties, EmptySeq
<1> HIDE DEF v
<1>2. PICK f \in [1..n -> 1..Len(w)] :
        /\ \A k \in 1..n : w[f[k]].type = ts[k]
        /\ \A k, l \in 1..n : k < l => f[k] < f[l]
        /\ \A i \in 1..Len(w) : w[i].type \in KexTypes => \E k \in 1..n : f[k] = i
  BY DEF KexOn
<1>t. \A k \in 1..n : ts[k] \in KexTypes
  BY ElementOfSeq
<1>3. ASSUME w[1].type \notin KexTypes PROVE KexOn(v, ts)
  <2> DEFINE at == [k \in 1..n |-> f[k] - 1]
  <2>1. \A k \in 1..n : f[k] \in 2..Len(w)
    <3> TAKE k \in 1..n
    <3>1. f[k] \in 1..Len(w) /\ f[k] # 1
      BY <1>2, <1>3, <1>t
    <3> QED
      BY <3>1, <1>1
  <2>2. \A k \in 1..n : at[k] = f[k] - 1 /\ at[k] \in 1..Len(v) /\ at[k] + 1 = f[k]
    BY <2>1, <1>1
  <2>3. at \in [1..n -> 1..Len(v)]
    BY <2>2
  <2> HIDE DEF at, n
  <2>4. \A k \in 1..n : v[at[k]].type = ts[k]
    <3> TAKE k \in 1..n
    <3>1. PICK x \in 1..Len(v) : x = at[k] /\ x + 1 = f[k]
      BY <2>2
    <3>2. v[x] = w[x + 1] /\ w[f[k]].type = ts[k]
      BY <1>1, <1>2
    <3> QED
      BY <3>1, <3>2
  <2>5. \A k, l \in 1..n : k < l => at[k] < at[l]
    BY <2>1, <2>2, <1>2, <1>1
  <2>6. \A i \in 1..Len(v) : v[i].type \in KexTypes => \E k \in 1..n : at[k] = i
    <3> SUFFICES ASSUME NEW i \in 1..Len(v), v[i].type \in KexTypes
                 PROVE  \E k \in 1..n : at[k] = i
      OBVIOUS
    <3>1. i + 1 \in 1..Len(w) /\ w[i + 1].type \in KexTypes
      BY <1>1
    <3>2. PICK k \in 1..n : f[k] = i + 1
      BY <3>1, <1>2
    <3> QED
      BY <3>2, <2>2
  <2> QED
    BY <2>3, <2>4, <2>5, <2>6 DEF KexOn, n
<1>4. ASSUME w[1].type \in KexTypes
      PROVE  ts # <<>> /\ ts[1] = w[1].type /\ KexOn(v, Tail(ts))
  <2>1. PICK z \in 1..n : f[z] = 1
    BY <1>1, <1>2, <1>4
  <2>2. z = 1
    <3> SUFFICES ASSUME 1 < z PROVE FALSE
      BY <1>1, <2>1
    <3>1. 1 \in 1..n /\ f[1] < f[z] /\ f[1] \in 1..Len(w)
      BY <1>1, <1>2
    <3> QED
      BY <3>1, <2>1
  <2>3. n >= 1 /\ ts # <<>>
    BY <2>1, <1>1, EmptySeq
  <2>4. ts[1] = w[1].type
    BY <2>1, <2>2, <1>2
  <2> DEFINE us == Tail(ts)
             m == Len(us)
             at == [k \in 1..m |-> f[k + 1] - 1]
  <2>5. m = n - 1 /\ \A k \in 1..m : us[k] = ts[k + 1]
    BY <2>3, HeadTailProperties
  <2> HIDE DEF us
  <2>6. \A k \in 1..m : k + 1 \in 1..n /\ f[k + 1] \in 2..Len(w)
    <3> TAKE k \in 1..m
    <3>1. k + 1 \in 1..n /\ 1 \in 1..n /\ 1 < k + 1
      BY <2>5, <1>1
    <3>2. f[1] < f[k + 1] /\ f[k + 1] \in 1..Len(w)
      BY <3>1, <1>2
    <3> QED
      BY <3>1, <3>2, <2>1, <2>2, <1>1
  <2>7. \A k \in 1..m : at[k] = f[k + 1] - 1 /\ at[k] \in 1..Len(v) /\ at[k] + 1 = f[k + 1]
    BY <2>6, <1>1
  <2>8. at \in [1..m -> 1..Len(v)]
    BY <2>7
  <2> HIDE DEF at, m, n
  <2>9. \A k \in 1..m : v[at[k]].type = us[k]
    <3> TAKE k \in 1..m
    <3>1. PICK x \in 1..Len(v) : x = at[k] /\ x + 1 = f[k + 1]
      BY <2>7
    <3>2. v[x] = w[x + 1] /\ w[f[k + 1]].type = ts[k + 1]
      BY <2>6, <1>1, <1>2
    <3> QED
      BY <3>1, <3>2, <2>5
  <2>10. \A k, l \in 1..m : k < l => at[k] < at[l]
    <3> SUFFICES ASSUME NEW k \in 1..m, NEW l \in 1..m, k < l PROVE at[k] < at[l]
      OBVIOUS
    <3>1. f[k + 1] < f[l + 1]
      BY <2>6, <1>2, <2>5, <1>1
    <3> QED
      BY <3>1, <2>6, <2>7, <1>1
  <2>11. \A i \in 1..Len(v) : v[i].type \in KexTypes => \E k \in 1..m : at[k] = i
    <3> SUFFICES ASSUME NEW i \in 1..Len(v), v[i].type \in KexTypes
                 PROVE  \E k \in 1..m : at[k] = i
      OBVIOUS
    <3>1. i + 1 \in 1..Len(w) /\ w[i + 1].type \in KexTypes /\ i + 1 # 1
      BY <1>1
    <3>2. PICK k \in 1..n : f[k] = i + 1
      BY <3>1, <1>2
    <3>3. k # 1
      BY <3>1, <3>2, <2>1, <2>2
    <3>4. k - 1 \in 1..m /\ (k - 1) + 1 = k
      BY <3>3, <2>5, <1>1
    <3>5. at[k - 1] = f[k] - 1
      BY <3>4, <2>7
    <3>6. at[k - 1] = i
      BY <3>5, <3>2, <1>1
    <3> QED
      BY <3>4, <3>6
  <2>12. KexOn(v, us)
    BY <2>8, <2>9, <2>10, <2>11 DEF KexOn, m
  <2> QED
    BY <2>3, <2>4, <2>12 DEF us
<1> QED
  BY <1>3, <1>4 DEF v

-----------------------------------------------------------------------------
(* The places of a handshake *)

\* Two lists of one element make a list of two.
LEMMA Pairs == \A a, b : <<a>> \o <<b>> = <<a, b>>
<1> TAKE a, b
<1>1. <<a>> \in Seq({a, b}) /\ <<b>> \in Seq({a, b}) /\ <<a, b>> \in Seq({a, b})
  OBVIOUS
<1>2. /\ Len(<<a>> \o <<b>>) = 2 /\ (<<a>> \o <<b>>)[1] = a /\ (<<a>> \o <<b>>)[2] = b
      /\ <<a>> \o <<b>> \in Seq({a, b})
  BY <1>1, ConcatProperties
<1>3. Len(<<a, b>>) = 2 /\ <<a, b>>[1] = a /\ <<a, b>>[2] = b
  OBVIOUS
<1>4. \A i \in 1..2 : i = 1 \/ i = 2
  OBVIOUS
<1>5. \A i \in 1..Len(<<a>> \o <<b>>) : (<<a>> \o <<b>>)[i] = <<a, b>>[i]
  BY <1>2, <1>3, <1>4
<1> QED
  BY <1>1, <1>2, <1>3, <1>5, SeqEqual

\* The lists of up to two messages, put together and taken apart.
LEMMA ShortLists ==
    /\ \A a : <<>> \o <<a>> = <<a>>
    /\ \A a : Tail(<<a>>) = <<>>
    /\ \A a, b : <<a>> \o <<b>> = <<a, b>>
    /\ \A a, b : <<>> \o <<a, b>> = <<a, b>>
    /\ \A a, b : Tail(<<a, b>>) = <<b>>
<1>1. \A a : <<>> \o <<a>> = <<a>>
  OBVIOUS
<1>2. \A a : Tail(<<a>>) = <<>>
  OBVIOUS
<1>3. \A a, b : <<>> \o <<a, b>> = <<a, b>>
  OBVIOUS
<1>4. \A a, b : Tail(<<a, b>>) = <<b>>
  OBVIOUS
<1> QED
  BY <1>1, <1>2, <1>3, <1>4, Pairs

\* The lists of a place, and its four parts.
LEMMA PlaceTypes ==
    ASSUME NEW m, NEW h \in Handshakes(m)
    PROVE  h[2] \in Seq(KexTypes) /\ h[3] \in Seq(KexTypes) /\ h = <<h[1], h[2], h[3], h[4]>>
<1> DEFINE Sent == {<<"GEX_INIT">>,
                   <<"GEX_REQUEST">>,
                   <<"KEXINIT", "GEX_REQUEST">>,
                   <<"KEXINIT", "KEX_INIT">>,
                   <<"KEXINIT">>,
                   <<"KEX_INIT">>,
                   <<"NEWKEYS">>,
                   <<>>}
           Down == {<<"GEX_GROUP">>,
                   <<"GEX_REPLY", "NEWKEYS">>,
                   <<"GEX_REPLY">>,
                   <<"KEXINIT">>,
                   <<"KEX_REPLY", "NEWKEYS">>,
                   <<"KEX_REPLY">>,
                   <<"NEWKEYS", "KEXINIT">>,
                   <<"NEWKEYS">>,
                   <<>>}
<1>1. h[2] \in Sent /\ h[3] \in Down /\ h = <<h[1], h[2], h[3], h[4]>>
  BY DEF Handshakes
<1>2. Sent \subseteq Seq(KexTypes) /\ Down \subseteq Seq(KexTypes)
  BY DEF KexTypes
<1> QED
  BY <1>1, <1>2

\* Reading a KEXINIT: the client answers it, with its own first if it was at rest.
LEMMA ReadsKexInit ==
    ASSUME NEW m \in {"DH", "GEX"}, NEW h \in Handshakes(m), h[3] # <<>>, h[3][1] = "KEXINIT"
    PROVE  /\ h[1] \in {"IDLE", "SENT_INIT"}
           /\ h[1] = "IDLE" =>
                 /\ <<IF m = "GEX" THEN "WAIT_GROUP" ELSE "WAIT_REPLY",
                      h[2] \o <<"KEXINIT", kex_send_init(m).type>>, Tail(h[3]), h[4]>> \in Handshakes(m)
                 /\ <<"SENT_INIT", h[2] \o <<"KEXINIT">>, h[3], h[4]>> \in Handshakes(m)
           /\ h[1] = "SENT_INIT" =>
                 <<IF m = "GEX" THEN "WAIT_GROUP" ELSE "WAIT_REPLY",
                   h[2] \o <<kex_send_init(m).type>>, Tail(h[3]), h[4]>> \in Handshakes(m)
<1>0. \/ h = <<"IDLE", <<>>, <<"KEXINIT">>, "sent">>
      \/ h = <<"SENT_INIT", <<"KEXINIT">>, <<"KEXINIT">>, "sent">>
      \/ h = <<"SENT_INIT", <<>>, <<"KEXINIT">>, "answered">>
  BY DEF Handshakes
<1>1. CASE h = <<"IDLE", <<>>, <<"KEXINIT">>, "sent">>
  BY <1>1, ShortLists DEF Handshakes, kex_send_init, Msg
<1>2. CASE h = <<"SENT_INIT", <<"KEXINIT">>, <<"KEXINIT">>, "sent">>
  BY <1>2, ShortLists DEF Handshakes, kex_send_init, Msg
<1>3. CASE h = <<"SENT_INIT", <<>>, <<"KEXINIT">>, "answered">>
  BY <1>3, ShortLists DEF Handshakes, kex_send_init, Msg
<1> QED
  BY <1>0, <1>1, <1>2, <1>3

\* Reading a group: the client waited for it, and answers with its public value.
LEMMA ReadsGroup ==
    ASSUME NEW m \in {"DH", "GEX"}, NEW h \in Handshakes(m), h[3] # <<>>, h[3][1] = "GEX_GROUP"
    PROVE  /\ h[1] = "WAIT_GROUP"
           /\ <<"WAIT_REPLY", h[2] \o <<"GEX_INIT">>, Tail(h[3]), h[4]>> \in Handshakes(m)
<1>0. \/ h = <<"WAIT_GROUP", <<>>, <<"GEX_GROUP">>, "group">> /\ m = "GEX"
  BY DEF Handshakes
<1>1. CASE h = <<"WAIT_GROUP", <<>>, <<"GEX_GROUP">>, "group">> /\ m = "GEX"
  BY <1>1, ShortLists DEF Handshakes
<1> QED
  BY <1>0, <1>1

\* Reading the reply: the client waited for one of this kind, and answers with NEWKEYS.
LEMMA ReadsReply ==
    ASSUME NEW m \in {"DH", "GEX"}, NEW h \in Handshakes(m), h[3] # <<>>,
           h[3][1] \in {"KEX_REPLY", "GEX_REPLY"}
    PROVE  /\ h[1] = "WAIT_REPLY" /\ (h[3][1] = "GEX_REPLY" <=> m = "GEX")
           /\ <<"WAIT_NEWKEYS", h[2] \o <<"NEWKEYS">>, Tail(h[3]), h[4]>> \in Handshakes(m)
<1>0. \/ h = <<"WAIT_REPLY", <<>>, <<"KEX_REPLY">>, "replied">> /\ m = "DH"
      \/ h = <<"WAIT_REPLY", <<>>, <<"KEX_REPLY", "NEWKEYS">>, "newkeys">> /\ m = "DH"
      \/ h = <<"WAIT_REPLY", <<>>, <<"GEX_REPLY">>, "replied">> /\ m = "GEX"
      \/ h = <<"WAIT_REPLY", <<>>, <<"GEX_REPLY", "NEWKEYS">>, "newkeys">> /\ m = "GEX"
  BY DEF Handshakes
<1>1. CASE h = <<"WAIT_REPLY", <<>>, <<"KEX_REPLY">>, "replied">> /\ m = "DH"
  BY <1>1, ShortLists DEF Handshakes
<1>2. CASE h = <<"WAIT_REPLY", <<>>, <<"KEX_REPLY", "NEWKEYS">>, "newkeys">> /\ m = "DH"
  BY <1>2, ShortLists DEF Handshakes
<1>3. CASE h = <<"WAIT_REPLY", <<>>, <<"GEX_REPLY">>, "replied">> /\ m = "GEX"
  BY <1>3, ShortLists DEF Handshakes
<1>4. CASE h = <<"WAIT_REPLY", <<>>, <<"GEX_REPLY", "NEWKEYS">>, "newkeys">> /\ m = "GEX"
  BY <1>4, ShortLists DEF Handshakes
<1> QED
  BY <1>0, <1>1, <1>2, <1>3, <1>4

\* Reading NEWKEYS: the client waited for it, and is at rest.
LEMMA ReadsNewKeys ==
    ASSUME NEW m \in {"DH", "GEX"}, NEW h \in Handshakes(m), h[3] # <<>>, h[3][1] = "NEWKEYS"
    PROVE  /\ h[1] = "WAIT_NEWKEYS"
           /\ <<"IDLE", h[2], Tail(h[3]), h[4]>> \in Handshakes(m)
<1>0. \/ h = <<"WAIT_NEWKEYS", <<"NEWKEYS">>, <<"NEWKEYS">>, "newkeys">>
      \/ h = <<"WAIT_NEWKEYS", <<>>, <<"NEWKEYS">>, "idle">>
      \/ h = <<"WAIT_NEWKEYS", <<>>, <<"NEWKEYS", "KEXINIT">>, "sent">>
  BY DEF Handshakes
<1>1. CASE h = <<"WAIT_NEWKEYS", <<"NEWKEYS">>, <<"NEWKEYS">>, "newkeys">>
  BY <1>1, ShortLists DEF Handshakes
<1>2. CASE h = <<"WAIT_NEWKEYS", <<>>, <<"NEWKEYS">>, "idle">>
  BY <1>2, ShortLists DEF Handshakes
<1>3. CASE h = <<"WAIT_NEWKEYS", <<>>, <<"NEWKEYS", "KEXINIT">>, "sent">>
  BY <1>3, ShortLists DEF Handshakes
<1> QED
  BY <1>0, <1>1, <1>2, <1>3

\* The server opens an exchange, of either method, when it is at rest.
LEMMA ServerOpens ==
    ASSUME NEW m \in {"DH", "GEX"}, NEW h \in Handshakes(m), NEW k \in {"DH", "GEX"},
           h[4] \in {"new", "idle"}
    PROVE  <<h[1], h[2], h[3] \o <<"KEXINIT">>, "sent">> \in Handshakes(k)
<1>0. \/ h = <<"IDLE", <<>>, <<>>, "new">>
      \/ h = <<"IDLE", <<>>, <<>>, "idle">>
      \/ h = <<"SENT_INIT", <<"KEXINIT">>, <<>>, "new">>
      \/ h = <<"WAIT_NEWKEYS", <<>>, <<"NEWKEYS">>, "idle">>
  BY DEF Handshakes
<1>1. CASE h = <<"IDLE", <<>>, <<>>, "new">>
  BY <1>1, ShortLists DEF Handshakes
<1>2. CASE h = <<"IDLE", <<>>, <<>>, "idle">>
  BY <1>2, ShortLists DEF Handshakes
<1>3. CASE h = <<"SENT_INIT", <<"KEXINIT">>, <<>>, "new">>
  BY <1>3, ShortLists DEF Handshakes
<1>4. CASE h = <<"WAIT_NEWKEYS", <<>>, <<"NEWKEYS">>, "idle">>
  BY <1>4, ShortLists DEF Handshakes
<1> QED
  BY <1>0, <1>1, <1>2, <1>3, <1>4

\* The server's NEWKEYS follows its reply.
LEMMA ServerCloses ==
    ASSUME NEW m \in {"DH", "GEX"}, NEW h \in Handshakes(m), h[4] = "replied"
    PROVE  <<h[1], h[2], h[3] \o <<"NEWKEYS">>, "newkeys">> \in Handshakes(m)
<1>0. \/ h = <<"WAIT_NEWKEYS", <<"NEWKEYS">>, <<>>, "replied">>
      \/ h = <<"WAIT_REPLY", <<>>, <<"GEX_REPLY">>, "replied">> /\ m = "GEX"
      \/ h = <<"WAIT_REPLY", <<>>, <<"KEX_REPLY">>, "replied">> /\ m = "DH"
  BY DEF Handshakes
<1>1. CASE h = <<"WAIT_NEWKEYS", <<"NEWKEYS">>, <<>>, "replied">>
  BY <1>1, ShortLists DEF Handshakes
<1>2. CASE h = <<"WAIT_REPLY", <<>>, <<"GEX_REPLY">>, "replied">> /\ m = "GEX"
  BY <1>2, ShortLists DEF Handshakes
<1>3. CASE h = <<"WAIT_REPLY", <<>>, <<"KEX_REPLY">>, "replied">> /\ m = "DH"
  BY <1>3, ShortLists DEF Handshakes
<1> QED
  BY <1>0, <1>1, <1>2, <1>3

\* What the server's state is when an exchange message comes first, and where
\* reading it leads to.
LEMMA ServerReads ==
    ASSUME NEW m \in {"DH", "GEX"}, NEW h \in Handshakes(m), h[2] # <<>>
    PROVE  /\ h[2][1] = "KEXINIT" =>
                 /\ h[4] \in {"new", "sent"}
                 /\ h[4] = "sent" => <<h[1], Tail(h[2]), h[3], "answered">> \in Handshakes(m)
           /\ h[2][1] = "GEX_REQUEST" =>
                 /\ m = "GEX" /\ h[4] = "answered"
                 /\ <<h[1], Tail(h[2]), h[3] \o <<"GEX_GROUP">>, "group">> \in Handshakes(m)
           /\ h[2][1] = "KEX_INIT" =>
                 /\ m = "DH" /\ h[4] = "answered"
                 /\ <<h[1], Tail(h[2]), h[3] \o <<"KEX_REPLY">>, "replied">> \in Handshakes(m)
           /\ h[2][1] = "GEX_INIT" =>
                 /\ h[4] = "group"
                 /\ <<h[1], Tail(h[2]), h[3] \o <<"GEX_REPLY">>, "replied">> \in Handshakes(m)
           /\ h[2][1] = "NEWKEYS" =>
                 /\ h[4] \in {"replied", "newkeys"}
                 /\ h[4] = "newkeys" => <<h[1], Tail(h[2]), h[3], "idle">> \in Handshakes(m)
           /\ h[2][1] \in {"KEXINIT", "GEX_REQUEST", "KEX_INIT", "GEX_INIT", "NEWKEYS"}
<1>0. \/ h = <<"SENT_INIT", <<"KEXINIT">>, <<>>, "new">>
      \/ h = <<"SENT_INIT", <<"KEXINIT">>, <<"KEXINIT">>, "sent">>
      \/ h = <<"WAIT_NEWKEYS", <<"NEWKEYS">>, <<>>, "replied">>
      \/ h = <<"WAIT_NEWKEYS", <<"NEWKEYS">>, <<"NEWKEYS">>, "newkeys">>
      \/ h = <<"IDLE", <<"NEWKEYS">>, <<>>, "newkeys">>
      \/ h = <<"WAIT_GROUP", <<"KEXINIT", "GEX_REQUEST">>, <<>>, "sent">> /\ m = "GEX"
      \/ h = <<"WAIT_GROUP", <<"GEX_REQUEST">>, <<>>, "answered">> /\ m = "GEX"
      \/ h = <<"WAIT_REPLY", <<"GEX_INIT">>, <<>>, "group">> /\ m = "GEX"
      \/ h = <<"WAIT_REPLY", <<"KEXINIT", "KEX_INIT">>, <<>>, "sent">> /\ m = "DH"
      \/ h = <<"WAIT_REPLY", <<"KEX_INIT">>, <<>>, "answered">> /\ m = "DH"
  BY DEF Handshakes
<1>1. CASE h = <<"SENT_INIT", <<"KEXINIT">>, <<>>, "new">>
  BY <1>1, ShortLists DEF Handshakes
<1>2. CASE h = <<"SENT_INIT", <<"KEXINIT">>, <<"KEXINIT">>, "sent">>
  BY <1>2, ShortLists DEF Handshakes
<1>3. CASE h = <<"WAIT_NEWKEYS", <<"NEWKEYS">>, <<>>, "replied">>
  BY <1>3, ShortLists DEF Handshakes
<1>4. CASE h = <<"WAIT_NEWKEYS", <<"NEWKEYS">>, <<"NEWKEYS">>, "newkeys">>
  BY <1>4, ShortLists DEF Handshakes
<1>5. CASE h = <<"IDLE", <<"NEWKEYS">>, <<>>, "newkeys">>
  BY <1>5, ShortLists DEF Handshakes
<1>6. CASE h = <<"WAIT_GROUP", <<"KEXINIT", "GEX_REQUEST">>, <<>>, "sent">> /\ m = "GEX"
  BY <1>6, ShortLists DEF Handshakes
<1>7. CASE h = <<"WAIT_GROUP", <<"GEX_REQUEST">>, <<>>, "answered">> /\ m = "GEX"
  BY <1>7, ShortLists DEF Handshakes
<1>8. CASE h = <<"WAIT_REPLY", <<"GEX_INIT">>, <<>>, "group">> /\ m = "GEX"
  BY <1>8, ShortLists DEF Handshakes
<1>9. CASE h = <<"WAIT_REPLY", <<"KEXINIT", "KEX_INIT">>, <<>>, "sent">> /\ m = "DH"
  BY <1>9, ShortLists DEF Handshakes
<1>10. CASE h = <<"WAIT_REPLY", <<"KEX_INIT">>, <<>>, "answered">> /\ m = "DH"
  BY <1>10, ShortLists DEF Handshakes
<1> QED
  BY <1>0, <1>1, <1>2, <1>3, <1>4, <1>5, <1>6, <1>7, <1>8, <1>9, <1>10

-----------------------------------------------------------------------------
(* What a step leaves under way *)

\* The lists of none and of one of the exchange's types.
LEMMA NoKexSeq == <<>> \in Seq(KexTypes) /\ \A t \in KexTypes : <<t>> \in Seq(KexTypes)
OBVIOUS

\* The exchange messages among those the client sends come last.
LEMMA SendKex ==
    ASSUME TypeOK, NEW ms \in Seq(Message), SendNow(ms),
           NEW ts \in Seq(KexTypes), NEW us \in Seq(KexTypes), KexOn(c2s, ts), KexOn(ms, us)
    PROVE  KexOn(c2s', ts \o us)
<1>1. /\ Len(c2s) \in Nat /\ Len(ms) \in Nat /\ Len(c2s') = Len(c2s) + Len(ms)
      /\ \A i \in 1..Len(c2s) : c2s'[i] = c2s[i]
      /\ \A i \in 1..Len(ms) : c2s'[Len(c2s) + i] = Seal(ms[i], tx, tx_seq + i - 1)
  BY SendNowEffect, EarlyTypes
<1>2. \A i \in 1..Len(ms) : c2s'[Len(c2s) + i].type = ms[i].type
  <2> TAKE i \in 1..Len(ms)
  <2>1. c2s'[Len(c2s) + i] = Seal(ms[i], tx, tx_seq + i - 1)
    BY <1>1
  <2> QED
    BY <2>1 DEF Seal
<1> QED
  BY <1>1, <1>2, KexConcat

\* The server adds the messages ms to what the client has not read.
Adds(ms) ==
    /\ ms \in Seq(Message) /\ Len(s2c') = Len(s2c) + Len(ms)
    /\ \A i \in 1..Len(s2c) : s2c'[i] = s2c[i]
    /\ \A i \in 1..Len(ms) : s2c'[Len(s2c) + i] = Seal(ms[i], sv.tx, sv.tx_seq + i - 1)

\* The exchange messages among them come last, too.
LEMMA AddsKex ==
    ASSUME TypeOK, NEW ms, Adds(ms),
           NEW ts \in Seq(KexTypes), NEW us \in Seq(KexTypes), KexOn(s2c, ts), KexOn(ms, us)
    PROVE  KexOn(s2c', ts \o us)
<1>1. /\ Len(ms) \in Nat /\ Len(s2c') = Len(s2c) + Len(ms)
      /\ \A i \in 1..Len(s2c) : s2c'[i] = s2c[i]
      /\ \A i \in 1..Len(ms) : s2c'[Len(s2c) + i] = Seal(ms[i], sv.tx, sv.tx_seq + i - 1)
  BY DEF Adds
<1>2. \A i \in 1..Len(ms) : s2c'[Len(s2c) + i].type = ms[i].type
  <2> TAKE i \in 1..Len(ms)
  <2>1. s2c'[Len(s2c) + i] = Seal(ms[i], sv.tx, sv.tx_seq + i - 1)
    BY <1>1
  <2> QED
    BY <2>1 DEF Seal
<1>3. Len(s2c) \in Nat
  BY DEF TypeOK, QueuesOK
<1> QED
  BY <1>1, <1>2, <1>3, KexConcat

\* Lists of one message and of two, seen as exchange messages.
LEMMA KexOfMsgs ==
    /\ \A ms \in Seq(Message) : (\A i \in 1..Len(ms) : ms[i].type \notin KexTypes) => KexOn(ms, <<>>)
    /\ \A m \in Message : m.type \in KexTypes => KexOn(<<m>>, <<m.type>>)
    /\ \A m, n \in Message : m.type \in KexTypes /\ n.type \in KexTypes =>
          KexOn(Append(<<m>>, n), <<m.type, n.type>>)
    /\ \A m, n \in Message : m.type \in KexTypes /\ n.type \notin KexTypes =>
          KexOn(Append(<<m>>, n), <<m.type>>)
<1>1. \A ms \in Seq(Message) : Len(ms) \in Nat
  OBVIOUS
<1>2. \A m : Len(<<m>>) = 1 /\ <<m>>[1] = m
  OBVIOUS
<1>3. \A m, n : /\ Len(Append(<<m>>, n)) = Len(<<m>>) + Len(<<n>>)
                /\ \A i \in 1..Len(<<m>>) : Append(<<m>>, n)[i] = <<m>>[i]
                /\ \A i \in 1..Len(<<n>>) : Append(<<m>>, n)[Len(<<m>>) + i] = <<n>>[i]
  <2> TAKE m, n
  <2>1. Len(Append(<<m>>, n)) = 2 /\ Append(<<m>>, n)[1] = m /\ Append(<<m>>, n)[2] = n
    OBVIOUS
  <2> DEFINE w == Append(<<m>>, n)
             u == <<m>>
             v == <<n>>
  <2>2. Len(w) = 2 /\ w[1] = m /\ w[2] = n /\ Len(u) = 1 /\ u[1] = m /\ Len(v) = 1 /\ v[1] = n
    BY <2>1, <1>2
  <2> HIDE DEF w, u, v
  <2>3. /\ Len(w) = Len(u) + Len(v)
        /\ \A i \in 1..Len(u) : w[i] = u[i]
        /\ \A i \in 1..Len(v) : w[Len(u) + i] = v[i]
    BY <2>2
  <2> QED
    BY <2>3 DEF w, u, v
<1>4. \A m : m.type \in KexTypes => KexOn(<<m>>, <<m.type>>)
  <2> SUFFICES ASSUME NEW m, m.type \in KexTypes PROVE KexOn(<<m>>, <<m.type>>)
    OBVIOUS
  <2> DEFINE w == <<m>>
  <2>1. Len(w) = 1 /\ w[1] = m
    BY <1>2
  <2> HIDE DEF w
  <2>2. KexOn(w, <<w[1].type>>)
    BY <2>1, KexFirst
  <2> QED
    BY <2>1, <2>2 DEF w
<1>5. \A m : m.type \notin KexTypes => KexOn(<<m>>, <<>>)
  <2> SUFFICES ASSUME NEW m, m.type \notin KexTypes PROVE KexOn(<<m>>, <<>>)
    OBVIOUS
  <2> DEFINE w == <<m>>
  <2>1. Len(w) = 1 /\ w[1] = m
    BY <1>2
  <2> HIDE DEF w
  <2>2. \A i \in 1..Len(w) : w[i].type \notin KexTypes
    BY <2>1
  <2>3. KexOn(w, <<>>)
    BY <2>1, <2>2, KexNone
  <2> QED
    BY <2>3 DEF w
<1>6. ASSUME NEW m, NEW n, NEW ts \in Seq(KexTypes), NEW us \in Seq(KexTypes),
             KexOn(<<m>>, ts), KexOn(<<n>>, us)
      PROVE  KexOn(Append(<<m>>, n), ts \o us)
  <2> DEFINE w == Append(<<m>>, n)
             u == <<m>>
             v == <<n>>
  <2>1. /\ Len(w) = Len(u) + Len(v) /\ Len(u) = 1 /\ Len(v) = 1
        /\ \A i \in 1..Len(u) : w[i] = u[i]
        /\ \A i \in 1..Len(v) : w[Len(u) + i] = v[i]
    BY <1>2, <1>3
  <2>2. KexOn(u, ts) /\ KexOn(v, us)
    BY <1>6
  <2> HIDE DEF w, u, v
  <2>3. /\ Len(u) \in Nat /\ Len(v) \in Nat /\ Len(w) = Len(u) + Len(v)
        /\ \A i \in 1..Len(u) : w[i].type = u[i].type
        /\ \A i \in 1..Len(v) : w[Len(u) + i].type = v[i].type
    BY <2>1
  <2>4. KexOn(w, ts \o us)
    BY <2>2, <2>3, KexConcat
  <2> QED
    BY <2>4 DEF w
<1>7. \A m, n \in Message : m.type \in KexTypes /\ n.type \in KexTypes =>
          KexOn(Append(<<m>>, n), <<m.type, n.type>>)
  <2> SUFFICES ASSUME NEW m \in Message, NEW n \in Message,
                      m.type \in KexTypes, n.type \in KexTypes
               PROVE  KexOn(Append(<<m>>, n), <<m.type, n.type>>)
    OBVIOUS
  <2>1. KexOn(Append(<<m>>, n), <<m.type>> \o <<n.type>>)
    BY <1>4, <1>6, NoKexSeq
  <2> QED
    BY <2>1, Pairs
<1>8. \A m, n \in Message : m.type \in KexTypes /\ n.type \notin KexTypes =>
          KexOn(Append(<<m>>, n), <<m.type>>)
  <2> SUFFICES ASSUME NEW m \in Message, NEW n \in Message,
                      m.type \in KexTypes, n.type \notin KexTypes
               PROVE  KexOn(Append(<<m>>, n), <<m.type>>)
    OBVIOUS
  <2>1. KexOn(Append(<<m>>, n), <<m.type>> \o <<>>)
    BY <1>4, <1>5, <1>6, NoKexSeq
  <2>2. <<m.type>> \o <<>> = <<m.type>>
    OBVIOUS
  <2> QED
    BY <2>1, <2>2
<1> QED
  BY <1>1, <1>4, <1>7, <1>8, KexNone

\* The client sends no exchange message: those under way stay.
LEMMA TalkKex ==
    ASSUME TypeOK, NEW T, Sends(T), T \cap KexTypes = {},
           NEW ts \in Seq(KexTypes), KexOn(c2s, ts)
    PROVE  KexOn(c2s', ts)
<1>1. CASE UNCHANGED c2s
  BY <1>1
<1>2. ASSUME NEW ms \in Seq(Message), SendNow(ms), \A k \in 1..Len(ms) : ms[k].type \in T
      PROVE  KexOn(c2s', ts)
  <2>1. KexOn(ms, <<>>)
    BY <1>2, KexOfMsgs
  <2>2. KexOn(c2s', ts \o <<>>)
    BY <1>2, <2>1, SendKex, NoKexSeq
  <2>3. ts \o <<>> = ts
    OBVIOUS
  <2> QED
    BY <2>2, <2>3
<1> QED
  BY <1>1, <1>2 DEF Sends

-----------------------------------------------------------------------------
(* Steps that leave the exchange where it is *)

\* The types of what the steps below look at.
LEMMA HsTypes ==
    ASSUME TypeOK
    PROVE  /\ sv \in SvState /\ sv.method \in {"DH", "GEX"} /\ s2c \in Seq(Packet)
           /\ Len(s2c) \in Nat /\ first_kex_done \in BOOLEAN /\ rx \in Nat /\ tx \in Nat
<1>1. /\ sv \in SvState /\ s2c \in Seq(Packet) /\ first_kex_done \in BOOLEAN
      /\ rx \in Nat /\ tx \in Nat
  BY DEF TypeOK, SvOK, QueuesOK, FlagsOK, CountsOK
<1> QED
  BY <1>1 DEF SvState

\* The packets the client has not read, one fewer.
LEMMA FirstPacketsStay ==
    ASSUME TypeOK, FirstPackets, UNCHANGED sv, strict_kex' => sv.strict,
           UNCHANGED s2c \/ \E types : Incoming(types)
    PROVE  FirstPackets'
<1>1. CASE UNCHANGED s2c
  BY <1>1 DEF FirstPackets
<1>2. CASE \E types : Incoming(types)
  <2>1. /\ Len(s2c') = Len(s2c) - 1 /\ Len(s2c) \in Nat \ {0}
        /\ \A i \in 1..Len(s2c') : s2c'[i] = s2c[i + 1]
    BY <1>2, TailKeeps
  <2>2. \A i \in 1..Len(s2c') : i + 1 \in 1..Len(s2c)
    BY <2>1
  <2> QED
    BY <2>1, <2>2 DEF FirstPackets
<1> QED
  BY <1>1, <1>2

\* The exchange the client takes part in is of the server's kind.
LEMMA MethodTail ==
    ASSUME TypeOK, MethodAgrees, UNCHANGED sv, closed => closed',
           closed' \/ (kex_state' \in {"WAIT_GROUP", "WAIT_REPLY"} => kex_method' = sv.method),
           UNCHANGED s2c \/ \E types : Incoming(types)
    PROVE  MethodAgrees'
<1> SUFFICES ASSUME ~closed'
             PROVE  \A i \in 1..Len(s2c') :
                       s2c'[i].type = "KEXINIT" => MethodOf(s2c'[i].opt) = sv.method
  BY DEF MethodAgrees
<1>1. \A i \in 1..Len(s2c) : s2c[i].type = "KEXINIT" => MethodOf(s2c[i].opt) = sv.method
  BY DEF MethodAgrees
<1>2. CASE UNCHANGED s2c
  BY <1>1, <1>2
<1>3. CASE \E types : Incoming(types)
  <2>1. /\ Len(s2c') = Len(s2c) - 1 /\ Len(s2c) \in Nat \ {0}
        /\ \A i \in 1..Len(s2c') : s2c'[i] = s2c[i + 1]
    BY <1>3, TailKeeps
  <2>2. \A i \in 1..Len(s2c') : i + 1 \in 1..Len(s2c)
    BY <2>1
  <2> QED
    BY <1>1, <2>1, <2>2
<1> QED
  BY <1>2, <1>3

\* The same where the client's part in the exchange does not change, or ends.
LEMMA MethodStays ==
    ASSUME TypeOK, MethodAgrees, UNCHANGED <<sv, kex_method>>, closed => closed',
           closed' \/ UNCHANGED kex_state \/ kex_state' \notin {"WAIT_GROUP", "WAIT_REPLY"},
           UNCHANGED s2c \/ \E types : Incoming(types)
    PROVE  MethodAgrees'
BY MethodTail DEF MethodAgrees

\* What the client sends of authentication, it sends under the keys of an exchange.
LEMMA UpperTalk ==
    ASSUME TypeOK, FirstThingsFirst, NEW T, Sends(T), T \cap Upper = {} \/ tx > 0
    PROVE  \A i \in 1..Len(c2s') : c2s'[i].type \in Upper => c2s'[i].key > 0
<1>1. CASE UNCHANGED c2s
  BY <1>1 DEF FirstThingsFirst, Upper
<1>2. ASSUME NEW ms \in Seq(Message), SendNow(ms), \A k \in 1..Len(ms) : ms[k].type \in T,
             NEW i \in 1..Len(c2s'), c2s'[i].type \in Upper
      PROVE  c2s'[i].key > 0
  <2>1. /\ Len(c2s') = Len(c2s) + Len(ms) /\ Len(c2s) \in Nat /\ Len(ms) \in Nat
        /\ \A k \in 1..Len(c2s) : c2s'[k] = c2s[k]
        /\ \A k \in 1..Len(ms) : c2s'[Len(c2s) + k] = Seal(ms[k], tx, tx_seq + k - 1)
    BY <1>2, SendNowEffect, EarlyTypes
  <2>2. CASE i \in 1..Len(c2s)
    BY <2>1, <2>2, <1>2 DEF FirstThingsFirst, Upper
  <2>3. CASE i \notin 1..Len(c2s)
    <3>1. PICK k \in 1..Len(ms) : i = Len(c2s) + k
      <4>1. i - Len(c2s) \in 1..Len(ms) /\ Len(c2s) + (i - Len(c2s)) = i
        BY <2>1, <2>3
      <4> QED
        BY <4>1
    <3>2. c2s'[i] = Seal(ms[k], tx, tx_seq + k - 1)
      BY <2>1, <3>1
    <3>3. c2s'[i].type \in T /\ c2s'[i].key = tx
      BY <3>2, <1>2 DEF Seal
    <3> QED
      BY <3>3, <1>2
  <2> QED
    BY <2>2, <2>3
<1> QED
  BY <1>1, <1>2 DEF Sends

\* The same between two exchanges: nothing of authentication before the first one's end.
LEMMA FirstThingsTalk ==
    ASSUME TypeOK, SealInv, FirstThingsFirst, started, UNCHANGED <<started, first_kex_done, rx>>,
           NEW T, Sends(T), T \cap Upper = {} \/ first_kex_done,
           auth_state' \in {"SERVICE_SENT", "IN_PROGRESS"} => first_kex_done
    PROVE  FirstThingsFirst'
<1>1. first_kex_done => tx > 0
  BY HsTypes DEF FirstThingsFirst, SealInv, ClientKeys
<1>2. \A i \in 1..Len(c2s') : c2s'[i].type \in Upper => c2s'[i].key > 0
  BY <1>1, UpperTalk
<1> QED
  BY <1>2 DEF FirstThingsFirst, Upper

\* The client sends nothing of the exchange, and reads nothing of it or closes.
LEMMA HandshakeTalk ==
    ASSUME TypeOK, SealInv, HandshakeInv, UNCHANGED <<sv, kex_method, strict_kex, rx>>,
           started, UNCHANGED <<started, first_kex_done>>,
           NEW T, Sends(T), T \cap KexTypes = {}, T \cap Upper = {} \/ first_kex_done,
           auth_state' \in {"SERVICE_SENT", "IN_PROGRESS"} => first_kex_done,
           closed => closed', closed' \/ UNCHANGED kex_state, err' \in ContentErrors,
           \/ UNCHANGED s2c
           \/ (\E types : Incoming(types)) /\ (closed' \/ s2c[1].type \notin KexTypes)
    PROVE  HandshakeInv'
<1>1. PICK h \in Handshakes(sv.method) : EndsAt(h)
  BY DEF HandshakeInv, Handshake
<1>2. h[2] \in Seq(KexTypes) /\ h[3] \in Seq(KexTypes)
  BY PlaceTypes
<1>3. KexOn(c2s', h[2])
  BY <1>1, <1>2, TalkKex DEF EndsAt
<1>4. ~closed' => KexOn(s2c', h[3])
  <2> SUFFICES ASSUME ~closed' PROVE KexOn(s2c', h[3])
    OBVIOUS
  <2>1. KexOn(s2c, h[3])
    BY <1>1 DEF EndsAt
  <2>2. CASE UNCHANGED s2c
    BY <2>1, <2>2
  <2>3. CASE (\E types : Incoming(types)) /\ s2c[1].type \notin KexTypes
    <3>1. s2c # <<>> /\ s2c' = Tail(s2c)
      BY <2>3 DEF Incoming
    <3> QED
      BY <2>1, <2>3, <3>1, <1>2, KexTail, HsTypes
  <2> QED
    BY <2>2, <2>3
<1>5. EndsAt(h)'
  BY <1>1, <1>3, <1>4 DEF EndsAt, SvPhase
<1>6. Handshake'
  BY <1>5 DEF HandshakeInv, Handshake, SvPhase
<1>7. FirstPackets' /\ MethodAgrees' /\ FirstThingsFirst'
  BY FirstPacketsStay, MethodStays, FirstThingsTalk DEF HandshakeInv, FirstPackets
<1> QED
  BY <1>6, <1>7 DEF HandshakeInv

\* Sending a message of the upper layers, now or later.
LEMMA UpSends ==
    ASSUME NEW n \in Nat, SendUp(Up(n))
    PROVE  Sends({"UP"})
<1>1. CASE UNCHANGED c2s
  BY <1>1 DEF Sends
<1>2. CASE SendNow(<<Up(n)>>)
  <2> DEFINE ms == <<Up(n)>>
  <2>1. ms \in Seq(Message) /\ Len(ms) = 1 /\ ms[1].type = "UP" /\ SendNow(ms)
    BY <1>2, MsgType DEF Up
  <2> HIDE DEF ms
  <2> QED
    BY <2>1 DEF Sends
<1> QED
  BY <1>1, <1>2 DEF SendUp

-----------------------------------------------------------------------------
(* The client's steps *)

\* The application's operations.
LEMMA HandshakeApp == TypeOK /\ SealInv /\ HandshakeInv /\ App => HandshakeInv'
<1> SUFFICES ASSUME TypeOK, SealInv, HandshakeInv, App PROVE HandshakeInv'
  OBVIOUS
<1>m. \A t \in {"DISCONNECT", "SERVICE_REQUEST", "IGNORE", "UP"} :
         t \in MsgTypes /\ {t} \in SUBSET MsgTypes /\ {t} \cap KexTypes = {}
  BY DEF MsgTypes, KexTypes
<1>u. \A t \in {"DISCONNECT", "IGNORE"} : {t} \cap Upper = {}
  BY DEF Upper
<1>e. err \in ContentErrors
  BY DEF HandshakeInv
<1>f. /\ ~started => c2s = <<>> /\ ~first_kex_done /\ ~have_version /\ ~hostkey_event
      /\ auth_state \in {"SERVICE_SENT", "IN_PROGRESS"} => first_kex_done
  BY DEF HandshakeInv, FirstThingsFirst
<1>1. CASE ssh_start
  <2>0. /\ ~started /\ ~closed /\ ~have_version /\ ~hostkey_event /\ c2s = <<>> /\ ~first_kex_done
        /\ kex_state = "IDLE"
    BY <1>1, <1>f DEF ssh_start, SealInv, ClientKeys
  <2>1. UNCHANGED <<have_version, first_kex_done, kex_method, strict_kex, rx, auth_state,
                    hostkey_event, s2c, sv>>
    BY <1>1 DEF ssh_start, keys
  <2>2. PICK h \in Handshakes(sv.method) : EndsAt(h)
    BY DEF HandshakeInv, Handshake
  <2>3. h[2] \in Seq(KexTypes) /\ h[3] \in Seq(KexTypes) /\ KexOn(c2s, h[2])
    BY <2>2, PlaceTypes DEF EndsAt
  <2>4. FirstPackets'
    BY <2>1, FirstPacketsStay DEF HandshakeInv, FirstPackets
  <2>5. MethodAgrees'
    <3>1. closed' \/ kex_state' \notin {"WAIT_GROUP", "WAIT_REPLY"}
      BY <1>1 DEF ssh_start, Fail
    <3> QED
      BY <2>0, <2>1, <3>1, MethodStays DEF HandshakeInv
  <2>6. CASE Fail(<<>>, "not enough entropy") /\ UNCHANGED <<started, kex_state>>
    <3>1. SendNow(<<>>) /\ closed' /\ err' = "not enough entropy"
      BY <2>0, <2>6 DEF Fail
    <3>2. Sends({})
      BY <3>1, SendsWhat
    <3>3. KexOn(c2s', h[2])
      BY <2>3, <3>2, TalkKex
    <3>4. EndsAt(h)'
      BY <2>1, <2>2, <3>1, <3>3 DEF EndsAt, SvPhase
    <3>5. Handshake'
      BY <2>1, <3>4 DEF HandshakeInv, Handshake, SvPhase
    <3>6. c2s' = <<>>
      <4> DEFINE ms == <<>>
      <4>1. ms \in Seq(Message) /\ Len(ms) = 0 /\ Len(c2s) = 0 /\ SendNow(ms)
        BY <2>0, <3>1, EmptySeq
      <4> HIDE DEF ms
      <4>2. Len(c2s') = 0 /\ c2s' \in Seq(Packet)
        <5>1. c2s' \in Seq(Packet) /\ Len(c2s') = Len(c2s) + Len(ms)
          BY <4>1, SendNowEffect
        <5> QED
          BY <4>1, <5>1
      <4> QED
        BY <4>2, EmptySeq
    <3>7. FirstThingsFirst'
      BY <2>0, <2>1, <2>6, <3>6, EmptySeq DEF HandshakeInv, FirstThingsFirst
    <3> QED
      BY <2>4, <2>5, <3>1, <3>5, <3>7 DEF HandshakeInv, ContentErrors
  <2>7. CASE started' = TRUE /\ SendNow(<<KexInit>>) /\ kex_state' = "SENT_INIT"
             /\ UNCHANGED <<closed, err>>
    <3>1. /\ <<KexInit>> \in Seq(Message) /\ KexOn(<<KexInit>>, <<"KEXINIT">>)
          /\ KexInit.type = "KEXINIT" /\ Len(<<KexInit>>) = 1 /\ <<KexInit>>[1] = KexInit
      <4>1. KexInit \in Message /\ KexInit.type = "KEXINIT" /\ "KEXINIT" \in KexTypes
        BY MsgType DEF KexInit, Msg, MsgTypes, KexTypes
      <4> QED
        BY <4>1, KexOfMsgs, MsgSeq
    <3>2. sv.exch = 0 \/ sv.kex = "sent"
      <4>1. sv.rx = 0
        <5>1. tx = sv.rx
          BY <2>0 DEF SealInv, Chain
        <5> QED
          BY <5>1, <2>0 DEF SealInv, ClientKeys
      <4>2. h[4] # "newkeys"
        <5>1. h[1] = "IDLE" /\ h[4] = "newkeys" => h[2] # <<>>
          BY DEF Handshakes
        <5>2. h[2] = <<>>
          <6>1. Len(c2s) = 0 /\ Len(h[2]) \in Nat
            BY <2>0, <2>3, EmptySeq
          <6>2. PICK at \in [1..Len(h[2]) -> 1..Len(c2s)] : TRUE
            BY <2>3 DEF KexOn
          <6>3. Len(h[2]) = 0
            <7>1. 1 \in 1..Len(h[2]) => at[1] \in 1..Len(c2s)
              BY <6>2
            <7>2. 1..Len(c2s) = {}
              BY <6>1
            <7>3. 1 \notin 1..Len(h[2])
              BY <7>1, <7>2
            <7> QED
              BY <7>3, <6>1
          <6> QED
            BY <6>3, <2>3, EmptySeq
        <5> QED
          BY <5>1, <5>2, <2>0, <2>2 DEF EndsAt
      <4>3. h[4] \in {"new", "idle", "sent"}
        <5>1. h[1] = "IDLE" => h[4] \in {"new", "idle", "sent", "newkeys"}
          BY DEF Handshakes
        <5> QED
          BY <5>1, <4>2, <2>0, <2>2 DEF EndsAt
      <4>4. SvPhase \in {"new", "idle", "sent"}
        BY <4>3, <2>2 DEF EndsAt
      <4>5. CASE sv.kex = "idle"
        BY <4>1, <4>5 DEF SealInv, ServerKeys
      <4>6. CASE sv.kex # "idle"
        <5>1. sv.kex # "new"
          BY HsTypes DEF SvState
        <5> QED
          BY <4>4, <4>6, <5>1 DEF SvPhase
      <4> QED
        BY <4>5, <4>6
    <3>3. \/ h = <<"IDLE", <<>>, <<>>, "new">>
          \/ h = <<"IDLE", <<>>, <<"KEXINIT">>, "sent">>
      <4>1. SvPhase \in {"new", "sent", "answered"}
        BY <3>2 DEF SvPhase
      <4>2. h[1] = "IDLE" /\ h[4] \in {"new", "sent", "answered"}
        BY <4>1, <2>0, <2>2 DEF EndsAt
      <4> QED
        BY <4>2 DEF Handshakes
    <3>4. KexOn(c2s', <<"KEXINIT">>)
      <4>1. KexOn(c2s, <<>>)
        BY <3>3, <2>3
      <4>2. <<"KEXINIT">> \in Seq(KexTypes) /\ <<>> \in Seq(KexTypes)
        BY NoKexSeq DEF KexTypes
      <4>3. KexOn(c2s', <<>> \o <<"KEXINIT">>)
        BY <4>1, <4>2, <3>1, <2>7, SendKex
      <4> QED
        BY <4>3, ShortLists
    <3>5. \E g \in Handshakes(sv.method) : EndsAt(g)'
      <4>1. CASE h = <<"IDLE", <<>>, <<>>, "new">>
        <5> DEFINE g == <<"SENT_INIT", <<"KEXINIT">>, <<>>, "new">>
        <5>1. g \in Handshakes(sv.method)
          BY DEF Handshakes
        <5>2. EndsAt(g)'
          BY <4>1, <2>0, <2>1, <2>2, <2>7, <3>4 DEF EndsAt, SvPhase
        <5> QED
          BY <5>1, <5>2
      <4>2. CASE h = <<"IDLE", <<>>, <<"KEXINIT">>, "sent">>
        <5> DEFINE g == <<"SENT_INIT", <<"KEXINIT">>, <<"KEXINIT">>, "sent">>
        <5>1. g \in Handshakes(sv.method)
          BY DEF Handshakes
        <5>2. EndsAt(g)'
          BY <4>2, <2>0, <2>1, <2>2, <2>7, <3>4 DEF EndsAt, SvPhase
        <5> QED
          BY <5>1, <5>2
      <4> QED
        BY <3>3, <4>1, <4>2
    <3>6. Handshake'
      BY <2>1, <3>5 DEF HandshakeInv, Handshake, SvPhase
    <3>7. FirstThingsFirst'
      <4>1. /\ Len(c2s) = 0 /\ Len(c2s') = Len(c2s) + 1
            /\ c2s'[Len(c2s) + 1] = Seal(KexInit, tx, tx_seq + 1 - 1)
        <5> DEFINE ms == <<KexInit>>
        <5>1. ms \in Seq(Message) /\ Len(ms) = 1 /\ ms[1] = KexInit /\ SendNow(ms)
          BY <3>1, <2>7
        <5> HIDE DEF ms
        <5>2. /\ Len(c2s') = Len(c2s) + Len(ms)
              /\ \A i \in 1..Len(ms) : c2s'[Len(c2s) + i] = Seal(ms[i], tx, tx_seq + i - 1)
          BY <5>1, SendNowEffect
        <5>3. Len(c2s) = 0
          BY <2>0, EmptySeq
        <5> QED
          BY <5>1, <5>2, <5>3
      <4>2. c2s'[1].type = "KEXINIT"
        BY <4>1, <3>1 DEF Seal
      <4>3. \A i \in 1..Len(c2s') : c2s'[i].type = "KEXINIT"
        BY <4>1, <4>2
      <4> QED
        BY <4>3, <2>0, <2>1, <2>7, <1>f DEF FirstThingsFirst
    <3> QED
      BY <2>4, <2>5, <2>7, <3>6, <3>7, <1>e DEF HandshakeInv
  <2> QED
    BY <1>1, <2>6, <2>7 DEF ssh_start
<1>2. CASE \E accept \in BOOLEAN : ssh_hostkey_accept(accept)
  <2>1. PICK accept \in BOOLEAN : ssh_hostkey_accept(accept)
    BY <1>2
  <2>2. /\ UNCHANGED <<sv, kex_method, strict_kex, rx, started, first_kex_done, s2c, kex_state>>
        /\ hostkey_event /\ started
    BY <2>1, <1>f DEF ssh_hostkey_accept, keys, kexflags
  <2>3. CASE ~accept
    <3>1. /\ SendNow(<<>>) \/ SendNow(<<Msg("DISCONNECT")>>)
          /\ closed' /\ err' = "host key rejected" /\ UNCHANGED auth_state
      BY <2>1, <2>3 DEF ssh_hostkey_accept
    <3>2. Sends({"DISCONNECT"})
      BY <3>1, <1>m, SendsWhat
    <3> QED
      BY <2>2, <3>1, <3>2, <1>m, <1>u, <1>f, HandshakeTalk DEF ContentErrors
  <2>4. CASE accept /\ first_kex_done /\ auth_state = "WAIT_HOSTKEY"
    <3>1. /\ SendNow(<<>>) \/ SendNow(<<Msg("SERVICE_REQUEST")>>)
          /\ UNCHANGED <<closed, err>>
      BY <2>1, <2>4 DEF ssh_hostkey_accept, AuthBegin
    <3>2. Sends({"SERVICE_REQUEST"})
      BY <3>1, <1>m, SendsWhat
    <3> QED
      BY <2>2, <2>4, <3>1, <3>2, <1>m, <1>e, HandshakeTalk
  <2>5. CASE accept /\ ~(first_kex_done /\ auth_state = "WAIT_HOSTKEY")
    <3>1. UNCHANGED <<closed, err, c2s, auth_state>>
      BY <2>1, <2>5 DEF ssh_hostkey_accept
    <3>2. Sends({})
      BY <3>1 DEF Sends
    <3> QED
      BY <2>2, <3>1, <3>2, <1>e, <1>f, HandshakeTalk
  <2> QED
    BY <2>3, <2>4, <2>5
<1>3. CASE Submit
  <2>1. /\ UNCHANGED <<sv, kex_method, strict_kex, rx, started, first_kex_done, s2c, kex_state, closed, err,
                       auth_state>>
        /\ first_kex_done /\ started
    BY <1>3, <1>f DEF Submit, keys, kexflags
  <2>2. Sends({"UP"})
    <3>1. submitted + 1 \in Nat /\ SendUp(Up(submitted + 1))
      BY <1>3 DEF Submit, TypeOK, CountsOK
    <3> QED
      BY <3>1, UpSends
  <2> QED
    BY <2>1, <2>2, <1>m, <1>e, HandshakeTalk
<1>4. CASE ssh_send_ignore
  <2>1. /\ UNCHANGED <<sv, kex_method, strict_kex, rx, started, first_kex_done, s2c, kex_state, closed, err,
                       auth_state>>
        /\ first_kex_done /\ started /\ SendNow(<<Msg("IGNORE")>>)
    BY <1>4, <1>f DEF ssh_send_ignore, keys, kexflags
  <2>2. Sends({"IGNORE"})
    BY <2>1, <1>m, SendsWhat
  <2> QED
    BY <2>1, <2>2, <1>m, <1>e, HandshakeTalk
<1>5. CASE ssh_disconnect
  <2>1. /\ UNCHANGED <<sv, kex_method, strict_kex, rx, started, first_kex_done, s2c, kex_state, err, auth_state>>
        /\ started /\ closed' /\ SendNow(<<Msg("DISCONNECT")>>)
    BY <1>5 DEF ssh_disconnect, keys, kexflags
  <2>2. Sends({"DISCONNECT"})
    BY <2>1, <1>m, SendsWhat
  <2> QED
    BY <2>1, <2>2, <1>m, <1>u, <1>e, <1>f, HandshakeTalk
<1> QED
  BY <1>1, <1>2, <1>3, <1>4, <1>5 DEF App

\* Every packet of the server passes the checks of read_packet() and of the handlers.
LEMMA NoRefusal ==
    ASSUME TypeOK, SealInv, HandshakeInv, NEW types, Incoming(types)
    PROVE  Refusals(Head(s2c)) = {} /\ Head(s2c) = s2c[1] /\ s2c' = Tail(s2c) /\ ~closed
<1> DEFINE p == s2c[1]
<1>0. ~closed /\ s2c # <<>> /\ s2c' = Tail(s2c)
  BY DEF Incoming
<1>1. Head(s2c) = p /\ p \in Packet /\ p.key = rx /\ p.seq = rx_seq
  BY <1>0, HeadOpens DEF SealInv
<1>2. 1 \in 1..Len(s2c)
  <2>1. Len(s2c) \in Nat /\ Len(s2c) # 0
    BY <1>0, HsTypes, EmptySeq
  <2> QED
    BY <2>1
<1>3. ~first_kex_done => p.key = 0
  BY <1>1 DEF SealInv, ClientKeys
<1>4. p.key = 0 => /\ p.seq = 0 => p.type = "KEXINIT"
                   /\ strict_kex => p.type \in {"KEXINIT", "KEX_REPLY", "GEX_GROUP",
                                                "GEX_REPLY", "NEWKEYS"}
  BY <1>2 DEF HandshakeInv, FirstPackets
<1>5. PICK h \in Handshakes(sv.method) : EndsAt(h)
  BY DEF HandshakeInv, Handshake
<1>6. kex_state = h[1] /\ KexOn(s2c, h[3]) /\ h[3] \in Seq(KexTypes)
  BY <1>0, <1>5, PlaceTypes DEF EndsAt
<1>7. p.type \in KexTypes => h[3] # <<>> /\ h[3][1] = p.type
  BY <1>0, <1>6, KexTail, HsTypes
<1>8. sv.method \in {"DH", "GEX"}
  BY HsTypes
<1>9. /\ p.type = "KEXINIT" => kex_state \in {"IDLE", "SENT_INIT"}
      /\ p.type = "GEX_GROUP" => kex_state = "WAIT_GROUP"
      /\ p.type = "NEWKEYS" => kex_state = "WAIT_NEWKEYS"
      /\ p.type \in {"KEX_REPLY", "GEX_REPLY"} =>
            kex_state = "WAIT_REPLY" /\ (p.type = "GEX_REPLY" <=> sv.method = "GEX")
  <2>1. {"KEXINIT", "GEX_GROUP", "NEWKEYS", "KEX_REPLY", "GEX_REPLY"} \subseteq KexTypes
    BY DEF KexTypes
  <2>2. CASE p.type = "KEXINIT"
    BY <2>1, <2>2, <1>6, <1>7, <1>8, ReadsKexInit
  <2>3. CASE p.type = "GEX_GROUP"
    BY <2>1, <2>3, <1>6, <1>7, <1>8, ReadsGroup
  <2>4. CASE p.type = "NEWKEYS"
    BY <2>1, <2>4, <1>6, <1>7, <1>8, ReadsNewKeys
  <2>5. CASE p.type \in {"KEX_REPLY", "GEX_REPLY"}
    BY <2>1, <2>5, <1>6, <1>7, <1>8, ReadsReply
  <2> QED
    BY <2>2, <2>3, <2>4, <2>5
<1>10. p.type \in {"KEX_REPLY", "GEX_REPLY"} => (p.type = "GEX_REPLY" <=> kex_method = "GEX")
  BY <1>0, <1>9 DEF HandshakeInv, MethodAgrees
<1> HIDE DEF p
<1>11. Refusals(p) = {}
  <2>1. ~(p.key # rx \/ p.seq # rx_seq)
    BY <1>1
  <2>2. ~(rx_seq = 0 /\ ~first_kex_done /\ p.type # "KEXINIT")
    BY <1>1, <1>3, <1>4
  <2>3. ~(/\ strict_kex /\ ~first_kex_done
          /\ p.type \notin {"KEXINIT", "KEX_REPLY", "GEX_GROUP", "GEX_REPLY", "NEWKEYS"})
    BY <1>3, <1>4
  <2>4. ~(\/ p.type = "KEXINIT" /\ kex_state \notin {"IDLE", "SENT_INIT"}
          \/ p.type = "GEX_GROUP" /\ kex_state # "WAIT_GROUP"
          \/ p.type \in {"KEX_REPLY", "GEX_REPLY"} /\ kex_state # "WAIT_REPLY"
          \/ p.type = "KEX_REPLY" /\ kex_method = "GEX"
          \/ p.type = "GEX_REPLY" /\ kex_method # "GEX"
          \/ p.type = "NEWKEYS" /\ kex_state # "WAIT_NEWKEYS")
    BY <1>9, <1>10
  <2> QED
    BY <2>1, <2>2, <2>3, <2>4 DEF Refusals
<1> QED
  BY <1>0, <1>1, <1>11

\* Where the client is when it reads an exchange message, and what is then left under way.
LEMMA ReadsKex ==
    ASSUME TypeOK, HandshakeInv, NEW types, Incoming(types), s2c[1].type \in KexTypes
    PROVE  \E h \in Handshakes(sv.method) :
              /\ EndsAt(h) /\ h[1] = kex_state /\ h[3] # <<>> /\ h[3][1] = s2c[1].type
              /\ KexOn(s2c', Tail(h[3])) /\ KexOn(c2s, h[2]) /\ h[2] \in Seq(KexTypes)
<1>1. ~closed /\ s2c # <<>> /\ s2c' = Tail(s2c)
  BY DEF Incoming
<1>2. PICK h \in Handshakes(sv.method) : EndsAt(h)
  BY DEF HandshakeInv, Handshake
<1>3. kex_state = h[1] /\ KexOn(s2c, h[3]) /\ KexOn(c2s, h[2])
  BY <1>1, <1>2 DEF EndsAt
<1>4. h[3] \in Seq(KexTypes) /\ h[2] \in Seq(KexTypes)
  BY PlaceTypes
<1>5. h[3] # <<>> /\ h[3][1] = s2c[1].type /\ KexOn(s2c', Tail(h[3]))
  BY <1>1, <1>3, <1>4, KexTail, HsTypes
<1> QED
  BY <1>2, <1>3, <1>4, <1>5

\* The version line, and the packets that are no part of the exchange.
LEMMA HandshakeRecv ==
    /\ TypeOK /\ SealInv /\ HandshakeInv
    /\ \/ read_version \/ RecvIgnored \/ RecvDisconnect \/ RecvMisc \/ RecvServiceAccept \/ RecvUp
    => HandshakeInv'
<1> SUFFICES ASSUME TypeOK, SealInv, HandshakeInv,
                    \/ read_version \/ RecvIgnored \/ RecvDisconnect \/ RecvMisc
                    \/ RecvServiceAccept \/ RecvUp
             PROVE  HandshakeInv'
  OBVIOUS
<1>m. /\ \A t \in {"DISCONNECT", "UNIMPLEMENTED", "UP"} :
            t \in MsgTypes /\ {t} \in SUBSET MsgTypes /\ {t} \cap KexTypes = {}
      /\ \A t \in {"DISCONNECT", "UNIMPLEMENTED"} : {t} \cap Upper = {}
      /\ {} \cap KexTypes = {} /\ {} \cap Upper = {}
      /\ \A t \in {"GUESS", "DISCONNECT", "IGNORE", "UNIMPLEMENTED", "OTHER",
                   "SERVICE_ACCEPT", "UP"} : t \notin KexTypes
  BY DEF MsgTypes, KexTypes, Upper
<1>f. /\ ~started => ~have_version
      /\ auth_state \in {"SERVICE_SENT", "IN_PROGRESS"} => first_kex_done
      /\ err \in ContentErrors
  BY DEF HandshakeInv, FirstThingsFirst
<1>h. \A types : Incoming(types) => /\ s2c[1].type \in types /\ started /\ ~closed
  <2> SUFFICES ASSUME NEW types, Incoming(types)
               PROVE  s2c[1].type \in types /\ started /\ ~closed
    OBVIOUS
  <2>1. Head(s2c) = s2c[1]
    BY NoRefusal
  <2> QED
    BY <2>1 DEF Incoming
<1>1. CASE read_version
  <2>1. /\ UNCHANGED <<sv, kex_method, strict_kex, rx, started, first_kex_done, s2c, kex_state,
                       auth_state>>
        /\ started /\ ~closed
    BY <1>1 DEF read_version, keys, kexflags
  <2>2. CASE UNCHANGED <<closed, err, c2s>>
    <3>1. Sends({})
      BY <2>2 DEF Sends
    <3> QED
      BY <2>1, <2>2, <3>1, <1>m, <1>f, HandshakeTalk
  <2>3. CASE Fail(<<>>, "not protocol 2")
    <3>1. Sends({"DISCONNECT"}) /\ err' = "not protocol 2"
      BY <2>3, <1>m, SendsWhat DEF Fail
    <3> QED
      BY <2>1, <3>1, <1>m, <1>f, HandshakeTalk DEF ContentErrors
  <2> QED
    BY <1>1, <2>2, <2>3 DEF read_version
<1>2. CASE RecvIgnored
  <2>1. /\ UNCHANGED <<sv, kex_method, strict_kex, rx, started, first_kex_done, kex_state,
                       auth_state, closed, err, c2s>>
        /\ Incoming(MsgTypes) /\ ignore_next_packet
    BY <1>2 DEF RecvIgnored, keys
  <2>2. s2c[1].type \notin KexTypes
    BY <2>1, <1>m, <1>h DEF SealInv, GuessFollows
  <2>3. Sends({})
    BY <2>1 DEF Sends
  <2> QED
    BY <2>1, <2>2, <2>3, <1>m, <1>f, <1>h, HandshakeTalk
<1>3. CASE RecvDisconnect
  <2>1. /\ UNCHANGED <<sv, kex_method, strict_kex, rx, started, first_kex_done, kex_state,
                       auth_state, err, c2s>>
        /\ Incoming({"DISCONNECT"}) /\ closed'
    BY <1>3 DEF RecvDisconnect, Accepted, keys, kexflags
  <2>3. Sends({})
    BY <2>1 DEF Sends
  <2> QED
    BY <2>1, <2>3, <1>m, <1>f, <1>h, HandshakeTalk
<1>4. CASE RecvMisc
  <2>1. /\ UNCHANGED <<sv, kex_method, strict_kex, rx, started, first_kex_done, kex_state,
                       auth_state, closed, err>>
        /\ Incoming({"IGNORE", "UNIMPLEMENTED", "OTHER", "GUESS"})
        /\ SendNow(<<Msg("UNIMPLEMENTED")>>) \/ SendNow(<<>>)
    BY <1>4 DEF RecvMisc, Accepted, keys, kexflags
  <2>2. s2c[1].type \notin KexTypes
    BY <2>1, <1>m, <1>h
  <2>3. Sends({"UNIMPLEMENTED"})
    BY <2>1, <1>m, SendsWhat
  <2> QED
    BY <2>1, <2>2, <2>3, <1>m, <1>f, <1>h, HandshakeTalk
<1>5. CASE RecvServiceAccept
  <2>1. /\ UNCHANGED <<sv, kex_method, strict_kex, rx, started, first_kex_done, kex_state,
                       closed, err>>
        /\ Incoming({"SERVICE_ACCEPT"})
    BY <1>5 DEF RecvServiceAccept, Accepted, keys, kexflags
  <2>2. s2c[1].type \notin KexTypes
    BY <2>1, <1>m, <1>h
  <2>3. CASE auth_state = "SERVICE_SENT"
    <3>1. submitted + 1 \in Nat /\ SendUp(Up(submitted + 1))
      BY <1>5, <2>3 DEF RecvServiceAccept, TypeOK, CountsOK
    <3>2. Sends({"UP"}) /\ first_kex_done
      BY <3>1, <2>3, <1>f, UpSends
    <3> QED
      BY <2>1, <2>2, <3>2, <1>m, <1>f, <1>h, HandshakeTalk
  <2>4. CASE auth_state # "SERVICE_SENT"
    <3>1. UNCHANGED <<auth_state, c2s>>
      BY <1>5, <2>4 DEF RecvServiceAccept
    <3>2. Sends({})
      BY <3>1 DEF Sends
    <3> QED
      BY <2>1, <2>2, <3>1, <3>2, <1>m, <1>f, <1>h, HandshakeTalk
  <2> QED
    BY <2>3, <2>4
<1>6. CASE RecvUp
  <2>1. /\ UNCHANGED <<sv, kex_method, strict_kex, rx, started, first_kex_done, kex_state,
                       auth_state, closed, err, c2s>>
        /\ Incoming({"UP"})
    BY <1>6 DEF RecvUp, Accepted, keys, kexflags
  <2>2. s2c[1].type \notin KexTypes
    BY <2>1, <1>m, <1>h
  <2>3. Sends({})
    BY <2>1 DEF Sends
  <2> QED
    BY <2>1, <2>2, <2>3, <1>m, <1>f, <1>h, HandshakeTalk
<1> QED
  BY <1>1, <1>2, <1>3, <1>4, <1>5, <1>6

-----------------------------------------------------------------------------
(* The client's part of the exchange *)

\* The ends move to the place g.
LEMMA Moves ==
    ASSUME HandshakeInv, UNCHANGED sv, NEW g \in Handshakes(sv.method), SvPhase = g[4],
           KexOn(c2s', g[2]), closed' \/ (kex_state' = g[1] /\ KexOn(s2c', g[3]))
    PROVE  Handshake'
<1>1. EndsAt(g)'
  BY DEF EndsAt, SvPhase
<1> QED
  BY <1>1 DEF HandshakeInv, Handshake, SvPhase

\* A packet that ends the session: only what it says can be the reason.
LEMMA HandshakeFails == TypeOK /\ SealInv /\ HandshakeInv /\ RecvFails => HandshakeInv'
<1> SUFFICES ASSUME TypeOK, SealInv, HandshakeInv, RecvFails PROVE HandshakeInv'
  OBVIOUS
<1> DEFINE p == Head(s2c)
           rekey == p.type = "KEXINIT" /\ kex_state = "IDLE"
<1>1. /\ Incoming(MsgTypes) /\ Refusals(p) = {} /\ p = s2c[1]
      /\ UNCHANGED <<sv, kex_method, strict_kex, rx, started, first_kex_done, auth_state>>
      /\ started /\ have_version /\ ~closed
  BY NoRefusal DEF RecvFails, keys, Incoming
<1>2. PICK why \in Rejections(p) : Fail(IF rekey THEN <<KexInit>> ELSE <<>>, why)
  BY <1>1 DEF RecvFails
<1>3. why \in ContentErrors
  BY <1>2 DEF Rejections, ContentErrors
<1>4. closed' /\ err' \in ContentErrors
  BY <1>2, <1>3 DEF Fail
<1>5. auth_state \in {"SERVICE_SENT", "IN_PROGRESS"} => first_kex_done
  BY DEF HandshakeInv, FirstThingsFirst
<1>6. CASE ~rekey
  <2> DEFINE T == {"DISCONNECT"}
  <2>1. T \in SUBSET MsgTypes /\ "DISCONNECT" \in T /\ T \cap KexTypes = {} /\ T \cap Upper = {}
    BY DEF MsgTypes, KexTypes, Upper
  <2>2. Sends(T)
    BY <1>2, <1>6, <2>1, SendsWhat
  <2> QED
    BY <1>1, <1>4, <1>5, <2>1, <2>2, HandshakeTalk
<1>7. CASE rekey
  <2> DEFINE T == {"KEXINIT", "DISCONNECT"}
  <2>1. /\ T \in SUBSET MsgTypes /\ T \cap Upper = {} /\ "KEXINIT" \in KexTypes
        /\ "DISCONNECT" \in MsgTypes /\ "KEXINIT" \in MsgTypes /\ "DISCONNECT" \notin KexTypes
    BY DEF MsgTypes, KexTypes, Upper
  <2>2. Fail(<<KexInit>>, why)
    BY <1>2, <1>7
  <2>3. Sends(T)
    BY <2>1, <2>2, SendsWhat
  <2>4. SendNow(Append(<<KexInit>>, Msg("DISCONNECT")))
    BY <1>1, <2>2 DEF Fail
  <2>5. /\ KexInit \in Message /\ Msg("DISCONNECT") \in Message
        /\ KexInit.type = "KEXINIT" /\ Msg("DISCONNECT").type = "DISCONNECT"
    BY <2>1, MsgType DEF KexInit, Msg
  <2>6. /\ Append(<<KexInit>>, Msg("DISCONNECT")) \in Seq(Message)
        /\ KexOn(Append(<<KexInit>>, Msg("DISCONNECT")), <<"KEXINIT">>)
    BY <2>1, <2>5, KexOfMsgs, MsgSeq
  <2>7. PICK h \in Handshakes(sv.method) :
          /\ EndsAt(h) /\ h[1] = kex_state /\ h[3] # <<>> /\ h[3][1] = s2c[1].type
          /\ KexOn(c2s, h[2]) /\ h[2] \in Seq(KexTypes)
    BY <1>1, <1>7, <2>1, ReadsKex
  <2>8. KexOn(c2s', h[2] \o <<"KEXINIT">>)
    BY <2>1, <2>4, <2>6, <2>7, SendKex, NoKexSeq
  <2>9. <<"SENT_INIT", h[2] \o <<"KEXINIT">>, h[3], h[4]>> \in Handshakes(sv.method)
    BY <1>1, <1>7, <2>7, ReadsKexInit, HsTypes
  <2>10. Handshake'
    BY <1>1, <1>4, <2>7, <2>8, <2>9, Moves DEF EndsAt
  <2>11. FirstPackets' /\ MethodAgrees'
    BY <1>1, <1>4, FirstPacketsStay, MethodStays DEF HandshakeInv, FirstPackets
  <2>12. FirstThingsFirst'
    BY <1>1, <1>5, <2>1, <2>3, FirstThingsTalk DEF HandshakeInv
  <2> QED
    BY <1>4, <2>10, <2>11, <2>12 DEF HandshakeInv
<1> QED
  BY <1>6, <1>7

\* The server's KEXINIT is answered.
LEMMA HandshakeKexInit == TypeOK /\ SealInv /\ HandshakeInv /\ handle_kexinit => HandshakeInv'
<1> SUFFICES ASSUME TypeOK, SealInv, HandshakeInv, handle_kexinit PROVE HandshakeInv'
  OBVIOUS
<1> DEFINE p == Head(s2c)
           m == sv.method
           k == kex_send_init(m)
           next == IF m = "GEX" THEN "WAIT_GROUP" ELSE "WAIT_REPLY"
           T == {"KEXINIT", "KEX_INIT", "GEX_REQUEST"}
<1>1. /\ Incoming({"KEXINIT"}) /\ p = s2c[1] /\ p.type = "KEXINIT" /\ p.key = rx
      /\ UNCHANGED <<sv, closed, rx, started, first_kex_done, auth_state, err>>
      /\ started /\ ~closed /\ strict_kex' = StrictKex(p)
  BY NoRefusal, HeadOpens DEF handle_kexinit, keys, Accepted, Incoming, SealInv
<1>2. 1 \in 1..Len(s2c)
  <2>1. Len(s2c) \in Nat \ {0}
    BY <1>1, TailKeeps
  <2> QED
    BY <2>1
<1>3. MethodOf(p.opt) = m
  BY <1>1, <1>2 DEF HandshakeInv, MethodAgrees
<1>4. /\ SendNow(Append(IF kex_state = "IDLE" THEN <<KexInit>> ELSE <<>>, k))
      /\ kex_method' = m /\ kex_state' = next
  BY <1>3 DEF handle_kexinit
<1>5. /\ T \in SUBSET MsgTypes /\ T \cap Upper = {} /\ T \subseteq KexTypes
  BY DEF MsgTypes, KexTypes, Upper
<1>6. \E t \in {"KEX_INIT", "GEX_REQUEST"} : k = Msg(t) /\ k.type = t
  BY DEF kex_send_init, Msg
<1>7. k \in Message /\ k.type \in KexTypes /\ KexInit \in Message /\ KexInit.type = "KEXINIT"
  BY <1>5, <1>6, MsgType DEF KexInit, Msg
<1>8. Append(<<>>, k) = <<k>>
  OBVIOUS
<1>9. Sends(T)
  BY <1>4, <1>5, <1>6, <1>8, SendsWhat DEF KexInit
<1>10. PICK h \in Handshakes(m) :
          /\ EndsAt(h) /\ h[1] = kex_state /\ h[3] # <<>> /\ h[3][1] = "KEXINIT"
          /\ KexOn(s2c', Tail(h[3])) /\ KexOn(c2s, h[2]) /\ h[2] \in Seq(KexTypes)
  BY <1>1, <1>5, ReadsKex
<1>11. Handshake'
  <2>1. CASE kex_state = "IDLE"
    <3>1. SendNow(Append(<<KexInit>>, k)) /\ Append(<<KexInit>>, k) \in Seq(Message)
      BY <1>4, <1>7, <2>1, MsgSeq
    <3>2. KexOn(Append(<<KexInit>>, k), <<"KEXINIT", k.type>>)
      BY <1>5, <1>7, KexOfMsgs
    <3>3. <<"KEXINIT", k.type>> \in Seq(KexTypes)
      BY <1>5, <1>7
    <3>4. KexOn(c2s', h[2] \o <<"KEXINIT", k.type>>)
      BY <1>10, <3>1, <3>2, <3>3, SendKex
    <3>5. <<next, h[2] \o <<"KEXINIT", k.type>>, Tail(h[3]), h[4]>> \in Handshakes(m)
      BY <1>10, <2>1, ReadsKexInit, HsTypes
    <3> HIDE DEF next, k
    <3> QED
      BY <1>1, <1>4, <1>10, <3>4, <3>5, Moves DEF EndsAt
  <2>2. CASE kex_state # "IDLE"
    <3>1. SendNow(<<k>>) /\ <<k>> \in Seq(Message)
      BY <1>4, <1>7, <1>8, <2>2, MsgSeq
    <3>2. KexOn(<<k>>, <<k.type>>)
      BY <1>7, KexOfMsgs
    <3>3. KexOn(c2s', h[2] \o <<k.type>>)
      BY <1>7, <1>10, <3>1, <3>2, SendKex, NoKexSeq
    <3>4. <<next, h[2] \o <<k.type>>, Tail(h[3]), h[4]>> \in Handshakes(m)
      BY <1>10, <2>2, ReadsKexInit, HsTypes
    <3> HIDE DEF next, k
    <3> QED
      BY <1>1, <1>4, <1>10, <3>3, <3>4, Moves DEF EndsAt
  <2> QED
    BY <2>1, <2>2
<1>12. strict_kex' => sv.strict
  <2>1. CASE first_kex_done
    BY <1>1, <2>1 DEF StrictKex, HandshakeInv, FirstPackets
  <2>2. CASE ~first_kex_done
    <3>1. p.key = 0
      BY <1>1, <2>2 DEF SealInv, ClientKeys
    <3> QED
      BY <1>1, <1>2, <2>2, <3>1 DEF StrictKex, SealInv, StrictAgrees
  <2> QED
    BY <2>1, <2>2
<1>13. FirstPackets' /\ MethodAgrees'
  BY <1>1, <1>4, <1>12, FirstPacketsStay, MethodTail DEF HandshakeInv
<1>14. FirstThingsFirst'
  <2>1. auth_state' \in {"SERVICE_SENT", "IN_PROGRESS"} => first_kex_done
    BY <1>1 DEF HandshakeInv, FirstThingsFirst
  <2> QED
    BY <1>1, <1>5, <1>9, <2>1, FirstThingsTalk DEF HandshakeInv
<1> QED
  BY <1>1, <1>11, <1>13, <1>14 DEF HandshakeInv

\* The server's group is answered.
LEMMA HandshakeGroup == TypeOK /\ SealInv /\ HandshakeInv /\ handle_gex_group => HandshakeInv'
<1> SUFFICES ASSUME TypeOK, SealInv, HandshakeInv, handle_gex_group PROVE HandshakeInv'
  OBVIOUS
<1> DEFINE T == {"GEX_INIT"}
           ms == <<Msg("GEX_INIT")>>
<1>1. /\ Incoming({"GEX_GROUP"}) /\ s2c[1].type = "GEX_GROUP"
      /\ UNCHANGED <<sv, closed, rx, started, first_kex_done, auth_state, err, strict_kex,
                     kex_method>>
      /\ started /\ ~closed /\ SendNow(ms) /\ kex_state' = "WAIT_REPLY"
  BY NoRefusal, HeadOpens DEF handle_gex_group, keys, Accepted, Incoming, SealInv
<1>2. /\ T \in SUBSET MsgTypes /\ T \cap Upper = {} /\ "GEX_GROUP" \in KexTypes
      /\ "GEX_INIT" \in KexTypes /\ "GEX_INIT" \in MsgTypes
  BY DEF MsgTypes, KexTypes, Upper
<1>3. Msg("GEX_INIT") \in Message /\ Msg("GEX_INIT").type = "GEX_INIT"
  BY <1>2, MsgType DEF Msg
<1>4. ms \in Seq(Message) /\ KexOn(ms, <<"GEX_INIT">>)
  BY <1>2, <1>3, KexOfMsgs, MsgSeq
<1>5. Sends(T)
  BY <1>1, <1>2, SendsWhat
<1>6. PICK h \in Handshakes(sv.method) :
          /\ EndsAt(h) /\ h[1] = kex_state /\ h[3] # <<>> /\ h[3][1] = "GEX_GROUP"
          /\ KexOn(s2c', Tail(h[3])) /\ KexOn(c2s, h[2]) /\ h[2] \in Seq(KexTypes)
  BY <1>1, <1>2, ReadsKex
<1>7. KexOn(c2s', h[2] \o <<"GEX_INIT">>)
  BY <1>1, <1>2, <1>4, <1>6, SendKex, NoKexSeq
<1>8. /\ h[1] = "WAIT_GROUP"
      /\ <<"WAIT_REPLY", h[2] \o <<"GEX_INIT">>, Tail(h[3]), h[4]>> \in Handshakes(sv.method)
  BY <1>6, ReadsGroup, HsTypes
<1>9. Handshake'
  BY <1>1, <1>6, <1>7, <1>8, Moves DEF EndsAt
<1>10. kex_method' = sv.method
  BY <1>1, <1>6, <1>8 DEF HandshakeInv, MethodAgrees
<1>11. FirstPackets' /\ MethodAgrees'
  BY <1>1, <1>10, FirstPacketsStay, MethodTail DEF HandshakeInv, FirstPackets
<1>12. FirstThingsFirst'
  <2>1. auth_state' \in {"SERVICE_SENT", "IN_PROGRESS"} => first_kex_done
    BY <1>1 DEF HandshakeInv, FirstThingsFirst
  <2> QED
    BY <1>1, <1>2, <1>5, <2>1, FirstThingsTalk DEF HandshakeInv
<1> QED
  BY <1>1, <1>9, <1>11, <1>12 DEF HandshakeInv

\* The reply is answered by NEWKEYS, and what waited follows under the new keys.
LEMMA HandshakeReply ==
    TypeOK /\ SealInv /\ KeysBelow /\ HandshakeInv /\ handle_kex_reply => HandshakeInv'
<1> SUFFICES ASSUME TypeOK, SealInv, KeysBelow, HandshakeInv, handle_kex_reply
             PROVE  HandshakeInv'
  OBVIOUS
<1> DEFINE L == Len(c2s)
           n == 1 + Len(deferred)
           u == [i \in 1..n |-> c2s'[L + i]]
<1>1. /\ Incoming({"KEX_REPLY", "GEX_REPLY"}) /\ s2c[1].type \in {"KEX_REPLY", "GEX_REPLY"}
      /\ UNCHANGED <<sv, closed, rx, started, first_kex_done, auth_state, err, strict_kex,
                     kex_method>>
      /\ started /\ ~closed /\ kex_state' = "WAIT_NEWKEYS"
  BY NoRefusal, HeadOpens DEF handle_kex_reply, Accepted, Incoming, SealInv
<1>2. /\ Len(c2s') = L + n /\ L \in Nat /\ Len(deferred) \in Nat /\ n \in Nat \ {0} /\ tx \in Nat
      /\ \A i \in 1..L : c2s'[i] = c2s[i]
      /\ c2s'[L + 1].type = "NEWKEYS"
      /\ \A i \in (L + 2)..Len(c2s') : c2s'[i].type = "UP" /\ c2s'[i].key = tx + 1
  <2>1. Len(deferred) \in Nat
    BY DEF TypeOK, QueuesOK
  <2> QED
    BY <2>1, ReplyEffect, EarlyTypes
<1>3. /\ {"KEX_REPLY", "GEX_REPLY", "NEWKEYS"} \subseteq KexTypes /\ "UP" \notin KexTypes
      /\ "NEWKEYS" \notin Upper
  BY DEF KexTypes, Upper
<1>4. Len(u) = n /\ \A i \in 1..n : u[i] = c2s'[L + i]
  BY <1>2
<1> HIDE DEF u
<1>5. KexOn(u, <<"NEWKEYS">>)
  <2>1. u[1].type = "NEWKEYS" /\ \A i \in 1..Len(u) : i # 1 => u[i].type = "UP"
    BY <1>2, <1>4
  <2> QED
    BY <1>2, <1>3, <1>4, <2>1, KexFirst
<1>6. PICK h \in Handshakes(sv.method) :
          /\ EndsAt(h) /\ h[1] = kex_state /\ h[3] # <<>> /\ h[3][1] = s2c[1].type
          /\ KexOn(s2c', Tail(h[3])) /\ KexOn(c2s, h[2]) /\ h[2] \in Seq(KexTypes)
  BY <1>1, <1>3, ReadsKex
<1>7. KexOn(c2s', h[2] \o <<"NEWKEYS">>)
  <2>1. /\ \A i \in 1..Len(c2s) : c2s'[i].type = c2s[i].type
        /\ \A i \in 1..Len(u) : c2s'[Len(c2s) + i].type = u[i].type
        /\ Len(u) \in Nat /\ Len(c2s') = Len(c2s) + Len(u) /\ Len(c2s) \in Nat
    BY <1>2, <1>4
  <2> QED
    BY <1>3, <1>5, <1>6, <2>1, KexConcat, NoKexSeq
<1>8. <<"WAIT_NEWKEYS", h[2] \o <<"NEWKEYS">>, Tail(h[3]), h[4]>> \in Handshakes(sv.method)
  BY <1>1, <1>6, ReadsReply, HsTypes
<1>9. Handshake'
  BY <1>1, <1>6, <1>7, <1>8, Moves DEF EndsAt
<1>10. FirstPackets' /\ MethodAgrees'
  BY <1>1, FirstPacketsStay, MethodStays DEF HandshakeInv, FirstPackets
<1>11. FirstThingsFirst'
  <2>1. \A i \in 1..Len(c2s') : c2s'[i].type \in Upper => c2s'[i].key > 0
    <3> SUFFICES ASSUME NEW i \in 1..Len(c2s'), c2s'[i].type \in Upper PROVE c2s'[i].key > 0
      OBVIOUS
    <3>1. CASE i \in 1..L
      BY <1>2, <3>1 DEF HandshakeInv, FirstThingsFirst, Upper
    <3>2. CASE i = L + 1
      BY <1>2, <1>3, <3>2
    <3>3. CASE i \in (L + 2)..Len(c2s')
      BY <1>2, <3>3
    <3>4. i \in 1..L \/ i = L + 1 \/ i \in (L + 2)..Len(c2s')
      <4>1. L \in Nat /\ Len(c2s') \in Nat /\ i \in 1..Len(c2s')
        BY <1>2
      <4> HIDE DEF L, n
      <4> QED
        BY <4>1
    <3> QED
      BY <3>1, <3>2, <3>3, <3>4
  <2> QED
    BY <1>1, <2>1 DEF HandshakeInv, FirstThingsFirst, Upper
<1> QED
  BY <1>1, <1>9, <1>10, <1>11 DEF HandshakeInv

\* The server's NEWKEYS ends the exchange, and the first one starts authentication.
LEMMA HandshakeNewKeys == TypeOK /\ SealInv /\ HandshakeInv /\ handle_newkeys => HandshakeInv'
<1> SUFFICES ASSUME TypeOK, SealInv, HandshakeInv, handle_newkeys PROVE HandshakeInv'
  OBVIOUS
<1> DEFINE T == {"SERVICE_REQUEST"}
<1>1. /\ Incoming({"NEWKEYS"}) /\ s2c[1].type = "NEWKEYS"
      /\ UNCHANGED <<sv, closed, started, err, strict_kex, kex_method>>
      /\ started /\ ~closed /\ kex_state' = "IDLE" /\ rx' = rx_next /\ first_kex_done' = TRUE
      /\ KexFinished
  BY NoRefusal, HeadOpens DEF handle_newkeys, Accepted, Incoming, SealInv
<1>2. T \in SUBSET MsgTypes /\ T \cap KexTypes = {} /\ "NEWKEYS" \in KexTypes
  BY DEF MsgTypes, KexTypes
<1>3. PICK h \in Handshakes(sv.method) :
          /\ EndsAt(h) /\ h[1] = kex_state /\ h[3] # <<>> /\ h[3][1] = "NEWKEYS"
          /\ KexOn(s2c', Tail(h[3])) /\ KexOn(c2s, h[2]) /\ h[2] \in Seq(KexTypes)
  BY <1>1, <1>2, ReadsKex
<1>4. /\ h[1] = "WAIT_NEWKEYS"
      /\ <<"IDLE", h[2], Tail(h[3]), h[4]>> \in Handshakes(sv.method)
  BY <1>3, ReadsNewKeys, HsTypes
<1>5. rx' > 0 /\ tx > 0
  BY <1>1, <1>3, <1>4, HsTypes DEF SealInv, ClientKeys
<1>6. Sends(T)
  <2>1. CASE UNCHANGED c2s
    BY <2>1 DEF Sends
  <2>2. CASE AuthBegin
    BY <1>1, <1>2, <2>2, SendsWhat DEF AuthBegin
  <2> QED
    BY <1>1, <2>1, <2>2 DEF KexFinished
<1>7. KexOn(c2s', h[2])
  BY <1>2, <1>3, <1>6, TalkKex
<1>8. Handshake'
  BY <1>1, <1>3, <1>4, <1>7, Moves DEF EndsAt
<1>9. FirstPackets' /\ MethodAgrees'
  BY <1>1, FirstPacketsStay, MethodStays DEF HandshakeInv, FirstPackets
<1>10. FirstThingsFirst'
  <2>1. \A i \in 1..Len(c2s') : c2s'[i].type \in Upper => c2s'[i].key > 0
    BY <1>5, <1>6, UpperTalk DEF HandshakeInv
  <2> QED
    BY <1>1, <1>5, <2>1 DEF HandshakeInv, FirstThingsFirst, Upper
<1> QED
  BY <1>1, <1>8, <1>9, <1>10 DEF HandshakeInv

-----------------------------------------------------------------------------
(* The server's steps *)

FirstTypes == {"KEXINIT", "KEX_REPLY", "GEX_GROUP", "GEX_REPLY", "NEWKEYS"}
InKexPhases == {"answered", "group", "replied", "newkeys"}

\* The server's steps move the ends to the place g.
LEMMA SvMoves ==
    ASSUME UNCHANGED client, NEW g \in Handshakes(sv'.method), SvPhase' = g[4],
           KexOn(c2s', g[2]), closed \/ (kex_state = g[1] /\ KexOn(s2c', g[3])),
           sv'.in_kex <=> g[4] \in InKexPhases
    PROVE  Handshake'
<1>1. UNCHANGED <<closed, kex_state>>
  BY DEF client
<1>2. EndsAt(g)'
  BY <1>1 DEF EndsAt
<1> QED
  BY <1>2 DEF Handshake, InKexPhases

\* They leave the client alone, but for what they read of its packets.
LEMMA SvLeaves ==
    ASSUME TypeOK, HandshakeInv, UNCHANGED client,
           UNCHANGED c2s \/ (c2s # <<>> /\ c2s' = Tail(c2s))
    PROVE  /\ UNCHANGED <<closed, kex_state, kex_method, strict_kex, err>>
           /\ FirstThingsFirst'
<1>1. UNCHANGED <<closed, kex_state, kex_method, strict_kex, err, started, first_kex_done,
                  have_version, hostkey_event, rx, auth_state>>
  BY DEF client
<1>2. CASE UNCHANGED c2s
  BY <1>1, <1>2 DEF HandshakeInv, FirstThingsFirst
<1>3. CASE c2s # <<>> /\ c2s' = Tail(c2s)
  <2>1. /\ Len(c2s') = Len(c2s) - 1 /\ Len(c2s) \in Nat \ {0}
        /\ \A i \in 1..Len(c2s') : c2s'[i] = c2s[i + 1]
    BY <1>3, EarlyTypes, HeadTailProperties, EmptySeq
  <2>2. \A i \in 1..Len(c2s') : i + 1 \in 1..Len(c2s)
    BY <2>1
  <2> QED
    BY <1>1, <1>3, <2>1, <2>2 DEF HandshakeInv, FirstThingsFirst
<1> QED
  BY <1>1, <1>2, <1>3

\* What is on its way to the client after the server has added messages to it.
LEMMA AddsWhat ==
    ASSUME TypeOK, NEW ms, Adds(ms), NEW i \in 1..Len(s2c')
    PROVE  \/ i \in 1..Len(s2c) /\ s2c'[i] = s2c[i]
           \/ \E k \in 1..Len(ms) :
                 /\ s2c'[i].type = ms[k].type /\ s2c'[i].opt = ms[k].opt
                 /\ s2c'[i].key = sv.tx /\ s2c'[i].seq = sv.tx_seq + k - 1
<1>1. /\ Len(ms) \in Nat /\ Len(s2c) \in Nat /\ Len(s2c') = Len(s2c) + Len(ms)
      /\ \A k \in 1..Len(s2c) : s2c'[k] = s2c[k]
      /\ \A k \in 1..Len(ms) : s2c'[Len(s2c) + k] = Seal(ms[k], sv.tx, sv.tx_seq + k - 1)
  BY HsTypes DEF Adds
<1>2. CASE i \in 1..Len(s2c)
  BY <1>1, <1>2
<1>3. CASE i \notin 1..Len(s2c)
  <2>1. PICK k \in 1..Len(ms) : i = Len(s2c) + k
    <3>1. i - Len(s2c) \in 1..Len(ms) /\ Len(s2c) + (i - Len(s2c)) = i
      BY <1>1, <1>3
    <3> QED
      BY <3>1
  <2>2. s2c'[i] = Seal(ms[k], sv.tx, sv.tx_seq + k - 1)
    BY <1>1, <2>1
  <2>3. /\ s2c'[i].type = ms[k].type /\ s2c'[i].opt = ms[k].opt
        /\ s2c'[i].key = sv.tx /\ s2c'[i].seq = sv.tx_seq + k - 1
    BY <2>2 DEF Seal
  <2> QED
    BY <2>3
<1> QED
  BY <1>2, <1>3

\* The first packets stay what they are when what the server adds may come first.
LEMMA AddsFirst ==
    ASSUME TypeOK, FirstPackets, NEW ms, Adds(ms), UNCHANGED strict_kex, sv'.strict = sv.strict,
           (sv'.exch > 0 /\ sv'.tx = 0) => sv'.tx_seq > 0,
           (sv'.owe \/ sv'.got > 0) => sv'.rx > 0,
           sv.tx = 0 => \A k \in 1..Len(ms) :
                           /\ sv.tx_seq + k - 1 = 0 => ms[k].type = "KEXINIT"
                           /\ sv.strict => ms[k].type \in FirstTypes
    PROVE  FirstPackets'
<1>1. ASSUME NEW i \in 1..Len(s2c'), s2c'[i].key = 0
      PROVE  /\ s2c'[i].seq = 0 => s2c'[i].type = "KEXINIT"
             /\ sv'.strict => s2c'[i].type \in FirstTypes
  <2>1. CASE i \in 1..Len(s2c) /\ s2c'[i] = s2c[i]
    BY <1>1, <2>1 DEF FirstPackets, FirstTypes
  <2>2. ASSUME NEW k \in 1..Len(ms), s2c'[i].type = ms[k].type,
               s2c'[i].key = sv.tx, s2c'[i].seq = sv.tx_seq + k - 1
        PROVE  /\ s2c'[i].seq = 0 => s2c'[i].type = "KEXINIT"
               /\ sv'.strict => s2c'[i].type \in FirstTypes
    BY <1>1, <2>2
  <2> QED
    BY <2>1, <2>2, AddsWhat
<1> QED
  BY <1>1 DEF FirstPackets, FirstTypes

\* The method stays agreed on while the server announces no other one.
LEMMA AddsMethod ==
    ASSUME TypeOK, MethodAgrees, UNCHANGED <<closed, kex_state, kex_method>>, NEW ms, Adds(ms),
           sv'.method = sv.method, \A k \in 1..Len(ms) : ms[k].type # "KEXINIT"
    PROVE  MethodAgrees'
<1>1. ASSUME ~closed, NEW i \in 1..Len(s2c'), s2c'[i].type = "KEXINIT"
      PROVE  MethodOf(s2c'[i].opt) = sv.method
  <2>1. i \in 1..Len(s2c) /\ s2c'[i] = s2c[i]
    BY <1>1, AddsWhat
  <2> QED
    BY <1>1, <2>1 DEF MethodAgrees
<1> QED
  BY <1>1 DEF MethodAgrees

\* What both ends know about the keys the server uses.
LEMMA SvKeysOrder ==
    ASSUME TypeOK, SealInv
    PROVE  /\ sv.exch \in Nat /\ sv.tx \in Nat /\ sv.rx \in Nat /\ sv.tx_seq \in Nat
           /\ sv.rx > 0 => sv.tx > 0 /\ sv.exch > 0
           /\ sv.kex # "idle" => sv.exch > 0
           /\ sv.kex = "idle" => sv.tx = sv.exch
<1>1. /\ sv.exch \in Nat /\ sv.tx \in Nat /\ sv.rx \in Nat /\ sv.tx_seq \in Nat
      /\ sv.kex \in {"idle", "sent", "group", "replied", "newkeys"}
  BY HsTypes DEF SvState
<1> QED
  BY <1>1 DEF SealInv, ServerKeys

\* What sending does to the server's own state, besides what it adds to the wire.
LEMMA SvSendAdds ==
    ASSUME TypeOK, NEW ms \in Seq(Message), NEW s \in SvState, SvSend(ms, s)
    PROVE  /\ Adds(ms) /\ Len(ms) \in Nat
           /\ sv'.strict = s.strict /\ sv'.exch = s.exch /\ sv'.method = s.method
           /\ sv'.kex = s.kex /\ sv'.tx = s.tx /\ sv'.rx = s.rx /\ sv'.in_kex = s.in_kex
           /\ sv'.owe = s.owe /\ sv'.got = s.got /\ sv'.tx_seq = sv.tx_seq + Len(ms)
<1>1. Adds(ms) /\ sv' = [s EXCEPT !.tx_seq = sv.tx_seq + Len(ms)]
  BY SvSendEffect DEF Adds
<1> QED
  BY <1>1 DEF SvState

\* A message that belongs to no exchange.
LEMMA HandshakeSvTalk ==
    ASSUME TypeOK, SealInv, HandshakeInv, UNCHANGED client, UNCHANGED c2s,
           NEW m \in Message, NEW s \in SvState, SvSend(<<m>>, s), m.type \notin KexTypes,
           s.strict = sv.strict, s.exch = sv.exch, s.method = sv.method, s.kex = sv.kex,
           s.tx = sv.tx, s.rx = sv.rx, s.in_kex = sv.in_kex, s.owe => sv.owe, s.got = sv.got,
           sv.exch > 0, sv.strict => sv.tx > 0
    PROVE  HandshakeInv'
<1> DEFINE ms == <<m>>
<1>1. ms \in Seq(Message) /\ Len(ms) = 1 /\ ms[1] = m
  BY MsgSeq
<1>2. SvSend(ms, s)
  OBVIOUS
<1>3. /\ UNCHANGED <<closed, kex_state, kex_method, strict_kex, err>>
      /\ FirstThingsFirst'
  BY SvLeaves
<1> HIDE DEF ms
<1>4. /\ Adds(ms) /\ sv'.strict = sv.strict /\ sv'.exch = sv.exch /\ sv'.method = sv.method
      /\ sv'.kex = sv.kex /\ sv'.tx = sv.tx /\ sv'.rx = sv.rx /\ sv'.in_kex = sv.in_kex
      /\ sv'.owe = s.owe /\ sv'.got = sv.got /\ sv'.tx_seq = sv.tx_seq + 1
  BY <1>1, <1>2, SvSendAdds
<1>5. KexOn(ms, <<>>)
  BY <1>1, KexOfMsgs
<1>6. PICK h \in Handshakes(sv.method) : EndsAt(h)
  BY DEF HandshakeInv, Handshake
<1>7. ~closed => KexOn(s2c', h[3])
  <2> SUFFICES ASSUME ~closed PROVE KexOn(s2c', h[3])
    OBVIOUS
  <2>1. KexOn(s2c, h[3]) /\ h[3] \in Seq(KexTypes)
    BY <1>6, PlaceTypes DEF EndsAt
  <2>2. KexOn(s2c', h[3] \o <<>>)
    BY <1>4, <1>5, <2>1, AddsKex, NoKexSeq
  <2>3. h[3] \o <<>> = h[3]
    BY <2>1
  <2> QED
    BY <2>2, <2>3
<1>8. SvPhase' = SvPhase
  BY <1>4 DEF SvPhase
<1>9. sv.in_kex <=> SvPhase \in InKexPhases
  BY DEF HandshakeInv, Handshake, InKexPhases
<1>10. Handshake'
  BY <1>3, <1>4, <1>6, <1>7, <1>8, <1>9, SvMoves DEF EndsAt
<1>11. FirstPackets'
  <2>1. sv.tx \in Nat /\ sv.tx_seq \in Nat /\ sv.exch \in Nat
    BY SvKeysOrder
  <2>2. sv.tx = 0 => \A k \in 1..Len(ms) :
                        /\ sv.tx_seq + k - 1 = 0 => ms[k].type = "KEXINIT"
                        /\ sv.strict => ms[k].type \in FirstTypes
    BY <1>1, <2>1 DEF HandshakeInv, FirstPackets
  <2>3. (sv'.exch > 0 /\ sv'.tx = 0) => sv'.tx_seq > 0
    BY <1>4, <2>1
  <2>4. (sv'.owe \/ sv'.got > 0) => sv'.rx > 0
    BY <1>4 DEF HandshakeInv, FirstPackets
  <2> QED
    BY <1>3, <1>4, <2>2, <2>3, <2>4, AddsFirst DEF HandshakeInv
<1>12. MethodAgrees'
  <2>1. \A k \in 1..Len(ms) : ms[k].type # "KEXINIT"
    BY <1>1 DEF KexTypes
  <2> QED
    BY <1>3, <1>4, <2>1, AddsMethod DEF HandshakeInv
<1> QED
  BY <1>3, <1>10, <1>11, <1>12 DEF HandshakeInv

\* What the server says between, before and after exchanges.
LEMMA HandshakeServerTalk ==
    /\ TypeOK /\ SealInv /\ HandshakeInv
    /\ SvAccept \/ SvUp \/ SvMisc \/ SvDisconnect
    => HandshakeInv'
<1> SUFFICES ASSUME TypeOK, SealInv, HandshakeInv, SvAccept \/ SvUp \/ SvMisc \/ SvDisconnect
             PROVE  HandshakeInv'
  OBVIOUS
<1>1. sv \in SvState /\ sv.up + 1 \in Nat /\ sv.misc + 1 \in Nat
  <2>1. sv \in SvState
    BY HsTypes
  <2> QED
    BY <2>1, SvFields
<1>2. UNCHANGED client /\ UNCHANGED c2s
  BY DEF SvAccept, SvUp, SvMisc, SvDisconnect
<1>3. \A t \in {"SERVICE_ACCEPT", "IGNORE", "UNIMPLEMENTED", "OTHER", "DISCONNECT"} :
         Msg(t) \in Message /\ Msg(t).type \notin KexTypes
  <2>1. \A t \in {"SERVICE_ACCEPT", "IGNORE", "UNIMPLEMENTED", "OTHER", "DISCONNECT"} :
           t \in MsgTypes /\ t \notin KexTypes
    BY DEF MsgTypes, KexTypes
  <2> QED
    BY <2>1, MsgType DEF Msg
<1>4. /\ sv.rx > 0 => sv.tx > 0 /\ sv.exch > 0
      /\ sv.owe \/ sv.got > 0 => sv.rx > 0
  BY SvKeysOrder DEF HandshakeInv, FirstPackets
<1>5. CASE SvAccept
  <2> DEFINE s == [sv EXCEPT !.owe = FALSE]
  <2>1. s \in SvState /\ SvSend(<<Msg("SERVICE_ACCEPT")>>, s) /\ sv.owe
    BY <1>1, <1>5, SvSetFlag DEF SvAccept
  <2>2. /\ s.strict = sv.strict /\ s.exch = sv.exch /\ s.method = sv.method /\ s.kex = sv.kex
        /\ s.tx = sv.tx /\ s.rx = sv.rx /\ s.in_kex = sv.in_kex /\ s.owe = FALSE
        /\ s.got = sv.got
    BY <1>1 DEF SvState
  <2> HIDE DEF s
  <2> QED
    BY <1>2, <1>3, <1>4, <2>1, <2>2, HandshakeSvTalk
<1>6. CASE SvUp
  <2> DEFINE s == [sv EXCEPT !.up = sv.up + 1]
  <2>1. s \in SvState /\ SvSend(<<Up(sv.up + 1)>>, s) /\ sv.got > 0
    BY <1>1, <1>6, SvSetCount DEF SvUp
  <2>2. /\ s.strict = sv.strict /\ s.exch = sv.exch /\ s.method = sv.method /\ s.kex = sv.kex
        /\ s.tx = sv.tx /\ s.rx = sv.rx /\ s.in_kex = sv.in_kex /\ s.owe = sv.owe
        /\ s.got = sv.got
    BY <1>1 DEF SvState
  <2>3. Up(sv.up + 1) \in Message /\ Up(sv.up + 1).type \notin KexTypes
    BY <1>1, MsgType DEF Up, KexTypes
  <2> HIDE DEF s
  <2> QED
    BY <1>2, <1>4, <2>1, <2>2, <2>3, HandshakeSvTalk
<1>7. CASE SvMisc
  <2> DEFINE s == [sv EXCEPT !.misc = sv.misc + 1]
  <2>1. PICK t \in {"IGNORE", "UNIMPLEMENTED", "OTHER"} : SvSend(<<Msg(t)>>, s)
    BY <1>7 DEF SvMisc
  <2>2. s \in SvState /\ sv.exch > 0 /\ (sv.strict => sv.tx > 0)
    BY <1>1, <1>7, SvSetCount DEF SvMisc
  <2>3. /\ s.strict = sv.strict /\ s.exch = sv.exch /\ s.method = sv.method /\ s.kex = sv.kex
        /\ s.tx = sv.tx /\ s.rx = sv.rx /\ s.in_kex = sv.in_kex /\ s.owe = sv.owe
        /\ s.got = sv.got
    BY <1>1 DEF SvState
  <2> HIDE DEF s
  <2> QED
    BY <1>2, <1>3, <2>1, <2>2, <2>3, HandshakeSvTalk
<1>8. CASE SvDisconnect
  <2> DEFINE s == [sv EXCEPT !.gone = TRUE]
  <2>1. /\ s \in SvState /\ SvSend(<<Msg("DISCONNECT")>>, s)
        /\ sv.exch > 0 /\ (sv.strict => sv.tx > 0)
    BY <1>1, <1>8, SvSetFlag DEF SvDisconnect
  <2>2. /\ s.strict = sv.strict /\ s.exch = sv.exch /\ s.method = sv.method /\ s.kex = sv.kex
        /\ s.tx = sv.tx /\ s.rx = sv.rx /\ s.in_kex = sv.in_kex /\ s.owe = sv.owe
        /\ s.got = sv.got
    BY <1>1 DEF SvState
  <2> HIDE DEF s
  <2> QED
    BY <1>2, <1>3, <2>1, <2>2, HandshakeSvTalk
<1> QED
  BY <1>5, <1>6, <1>7, <1>8

\* The server opens an exchange.
LEMMA HandshakeSvKexInit == TypeOK /\ SealInv /\ HandshakeInv /\ SvKexInit => HandshakeInv'
<1> SUFFICES ASSUME TypeOK, SealInv, HandshakeInv, SvKexInit PROVE HandshakeInv'
  OBVIOUS
<1>1. PICK opt \in SUBSET Options :
         /\ sv.exch = 0 => (("strict" \in opt) <=> sv.strict)
         /\ "guess" \in opt => (sv.exch > 0 \/ ~sv.strict)
         /\ SvSend(<<[type |-> "KEXINIT", id |-> 0, opt |-> opt]>> \o
                   (IF "guess" \in opt THEN <<Msg("GUESS")>> ELSE <<>>),
                   [sv EXCEPT !.kex = "sent", !.exch = @ + 1, !.method = MethodOf(opt)])
  BY DEF SvKexInit
<1> DEFINE k == [type |-> "KEXINIT", id |-> 0, opt |-> opt]
           ms == <<k>> \o (IF "guess" \in opt THEN <<Msg("GUESS")>> ELSE <<>>)
           s == [sv EXCEPT !.kex = "sent", !.exch = @ + 1, !.method = MethodOf(opt)]
           n == MethodOf(opt)
<1>2. /\ UNCHANGED client /\ UNCHANGED c2s /\ sv.kex = "idle"
      /\ sv \in SvState /\ sv.exch + 1 \in Nat /\ n \in {"DH", "GEX"}
  <2>1. sv \in SvState /\ n \in {"DH", "GEX"}
    BY HsTypes DEF MethodOf
  <2> QED
    BY <2>1, SvFields DEF SvKexInit
<1>3. /\ UNCHANGED <<closed, kex_state, kex_method, strict_kex, err>>
      /\ FirstThingsFirst'
  BY <1>2, SvLeaves
<1>4. s \in SvState
  <2>1. [[sv EXCEPT !.kex = "sent"] EXCEPT !.exch = sv.exch + 1] \in SvState
    BY <1>2, SvSetKex, SvSetCount
  <2> QED
    BY <1>2, <2>1, SvSetMethod
<1>5. /\ s.strict = sv.strict /\ s.exch = sv.exch + 1 /\ s.method = n /\ s.kex = "sent"
      /\ s.tx = sv.tx /\ s.rx = sv.rx /\ s.in_kex = sv.in_kex /\ s.owe = sv.owe
      /\ s.got = sv.got
  BY <1>2 DEF SvState
<1>6. /\ k \in Message /\ k.type = "KEXINIT" /\ k.opt = opt /\ "KEXINIT" \in KexTypes
      /\ Msg("GUESS") \in Message /\ Msg("GUESS").type = "GUESS" /\ "GUESS" \notin KexTypes
  BY MsgType DEF Message, MsgTypes, KexTypes, Msg
<1>7. /\ ms \in Seq(Message) /\ KexOn(ms, <<"KEXINIT">>) /\ Len(ms) \in Nat \ {0}
      /\ ms[1] = k /\ \A i \in 1..Len(ms) : i # 1 => ms[i].type = "GUESS" /\ "guess" \in opt
  <2>1. CASE "guess" \in opt
    <3>1. ms = Append(<<k>>, Msg("GUESS"))
      BY <2>1, <1>6
    <3>2. /\ Append(<<k>>, Msg("GUESS")) \in Seq(Message)
          /\ Len(Append(<<k>>, Msg("GUESS"))) = 2
          /\ Append(<<k>>, Msg("GUESS"))[1] = k
          /\ Append(<<k>>, Msg("GUESS"))[2] = Msg("GUESS")
      BY <1>6, MsgSeq
    <3>3. KexOn(Append(<<k>>, Msg("GUESS")), <<"KEXINIT">>)
      BY <1>6, KexOfMsgs
    <3> HIDE DEF k, ms
    <3> QED
      BY <2>1, <3>1, <3>2, <3>3, <1>6
  <2>2. CASE "guess" \notin opt
    <3>1. ms = <<k>> /\ Len(<<k>>) = 1 /\ <<k>>[1] = k /\ <<k>> \in Seq(Message)
      BY <2>2, <1>6, MsgSeq
    <3>2. KexOn(<<k>>, <<"KEXINIT">>)
      BY <1>6, KexOfMsgs
    <3> HIDE DEF k, ms
    <3> QED
      BY <3>1, <3>2
  <2> QED
    BY <2>1, <2>2
<1> HIDE DEF k, ms, s, n
<1>8. SvSend(ms, s)
  BY <1>1 DEF ms, s, k
<1>9. /\ Adds(ms) /\ sv'.strict = sv.strict /\ sv'.exch = sv.exch + 1 /\ sv'.method = n
      /\ sv'.kex = "sent" /\ sv'.tx = sv.tx /\ sv'.rx = sv.rx /\ sv'.in_kex = sv.in_kex
      /\ sv'.owe = sv.owe /\ sv'.got = sv.got /\ sv'.tx_seq = sv.tx_seq + Len(ms)
  BY <1>4, <1>5, <1>7, <1>8, SvSendAdds
<1>10. /\ sv.exch \in Nat /\ sv.tx \in Nat /\ sv.tx_seq \in Nat /\ sv.tx = sv.exch
  BY <1>2, SvKeysOrder
<1>11. PICK h \in Handshakes(sv.method) : EndsAt(h)
  BY DEF HandshakeInv, Handshake
<1>12. h[4] \in {"new", "idle"} /\ ~sv.in_kex
  <2>1. SvPhase \in {"new", "idle"}
    BY <1>2 DEF SvPhase
  <2> QED
    BY <1>11, <2>1 DEF EndsAt, HandshakeInv, Handshake
<1>13. Handshake'
  <2> DEFINE g == <<h[1], h[2], h[3] \o <<"KEXINIT">>, "sent">>
  <2>1. g \in Handshakes(n)
    BY <1>2, <1>12, ServerOpens, HsTypes
  <2>2. ~closed => KexOn(s2c', h[3] \o <<"KEXINIT">>)
    <3> SUFFICES ASSUME ~closed PROVE KexOn(s2c', h[3] \o <<"KEXINIT">>)
      OBVIOUS
    <3>1. KexOn(s2c, h[3]) /\ h[3] \in Seq(KexTypes)
      BY <1>11, PlaceTypes DEF EndsAt
    <3> QED
      BY <1>6, <1>7, <1>9, <3>1, AddsKex, NoKexSeq
  <2>3. SvPhase' = "sent"
    BY <1>9, <1>10, <1>12 DEF SvPhase
  <2>4. "sent" \notin InKexPhases
    BY DEF InKexPhases
  <2> QED
    BY <1>2, <1>9, <1>11, <1>12, <2>1, <2>2, <2>3, <2>4, SvMoves DEF EndsAt
<1>14. FirstPackets'
  <2>1. sv.tx = 0 => \A i \in 1..Len(ms) :
                        /\ sv.tx_seq + i - 1 = 0 => ms[i].type = "KEXINIT"
                        /\ sv.strict => ms[i].type \in FirstTypes
    <3> SUFFICES ASSUME sv.tx = 0, NEW i \in 1..Len(ms)
                 PROVE  /\ sv.tx_seq + i - 1 = 0 => ms[i].type = "KEXINIT"
                        /\ sv.strict => ms[i].type \in FirstTypes
      OBVIOUS
    <3>1. CASE i = 1
      BY <3>1, <1>6, <1>7 DEF FirstTypes
    <3>2. CASE i # 1
      BY <3>2, <1>1, <1>7, <1>10
    <3> QED
      BY <3>1, <3>2
  <2>2. sv'.tx_seq > 0
    BY <1>7, <1>9, <1>10
  <2>3. (sv'.owe \/ sv'.got > 0) => sv'.rx > 0
    BY <1>9 DEF HandshakeInv, FirstPackets
  <2> QED
    BY <1>3, <1>9, <2>1, <2>2, <2>3, AddsFirst DEF HandshakeInv
<1>15. MethodAgrees'
  <2> SUFFICES ASSUME ~closed
               PROVE  /\ kex_state \notin {"WAIT_GROUP", "WAIT_REPLY"}
                      /\ \A i \in 1..Len(s2c') :
                            s2c'[i].type = "KEXINIT" => MethodOf(s2c'[i].opt) = n
    BY <1>3, <1>9 DEF MethodAgrees
  <2>1. kex_state = h[1] /\ KexOn(s2c, h[3])
    BY <1>11 DEF EndsAt
  <2>2. h[1] \notin {"WAIT_GROUP", "WAIT_REPLY"} /\ (h[3] = <<>> \/ h[3] = <<"NEWKEYS">>)
    BY <1>12 DEF Handshakes
  <2>3. \A l \in 1..Len(h[3]) : h[3][l] # "KEXINIT"
    <3>1. CASE h[3] = <<>>
      BY <3>1, EmptySeq
    <3>2. CASE h[3] = <<"NEWKEYS">>
      BY <3>2
    <3> QED
      BY <2>2, <3>1, <3>2
  <2>4. \A i \in 1..Len(s2c) : s2c[i].type # "KEXINIT"
    <3>1. PICK at \in [1..Len(h[3]) -> 1..Len(s2c)] :
            /\ \A l \in 1..Len(h[3]) : s2c[at[l]].type = h[3][l]
            /\ \A i \in 1..Len(s2c) : s2c[i].type \in KexTypes
                                        => \E l \in 1..Len(h[3]) : at[l] = i
      BY <2>1 DEF KexOn
    <3> QED
      BY <3>1, <2>3, <1>6
  <2>5. \A i \in 1..Len(s2c') : s2c'[i].type = "KEXINIT" => MethodOf(s2c'[i].opt) = n
    <3> SUFFICES ASSUME NEW i \in 1..Len(s2c'), s2c'[i].type = "KEXINIT"
                 PROVE  MethodOf(s2c'[i].opt) = n
      OBVIOUS
    <3>1. PICK j \in 1..Len(ms) : s2c'[i].type = ms[j].type /\ s2c'[i].opt = ms[j].opt
      BY <1>9, <2>4, AddsWhat
    <3>2. j = 1
      BY <3>1, <1>7
    <3> QED
      BY <3>1, <3>2, <1>6, <1>7 DEF n
  <2> QED
    BY <2>1, <2>2, <2>5
<1> QED
  BY <1>3, <1>13, <1>14, <1>15 DEF HandshakeInv

\* The server ends its part of the exchange.
LEMMA HandshakeSvNewKeys == TypeOK /\ SealInv /\ HandshakeInv /\ SvNewKeys => HandshakeInv'
<1> SUFFICES ASSUME TypeOK, SealInv, HandshakeInv, SvNewKeys PROVE HandshakeInv'
  OBVIOUS
<1> DEFINE m == Msg("NEWKEYS")
           ms == <<m>>
<1>1. UNCHANGED client /\ UNCHANGED c2s /\ sv.kex = "replied" /\ sv \in SvState
  BY HsTypes DEF SvNewKeys
<1>2. /\ sv'.strict = sv.strict /\ sv'.exch = sv.exch /\ sv'.method = sv.method
      /\ sv'.kex = "newkeys" /\ sv'.tx = sv.exch /\ sv'.rx = sv.rx
      /\ sv'.in_kex = sv.in_kex /\ sv'.owe = sv.owe /\ sv'.got = sv.got
  BY <1>1 DEF SvNewKeys, SvState
<1>3. /\ UNCHANGED <<closed, kex_state, kex_method, strict_kex, err>>
      /\ FirstThingsFirst'
  BY <1>1, SvLeaves
<1>4. m \in Message /\ m.type = "NEWKEYS" /\ "NEWKEYS" \in KexTypes
  BY MsgType DEF Msg, MsgTypes, KexTypes
<1> HIDE DEF m
<1>5. ms \in Seq(Message) /\ Len(ms) = 1 /\ ms[1] = m /\ KexOn(ms, <<"NEWKEYS">>)
  BY <1>4, MsgSeq, KexOfMsgs
<1> HIDE DEF ms
<1>6. sv.exch \in Nat /\ sv.tx_seq \in Nat /\ sv.exch > 0
  BY <1>1, SvKeysOrder
<1>7. Adds(ms)
  <2> DEFINE p == Seal(m, sv.tx, sv.tx_seq)
  <2>1. s2c' = Append(s2c, p)
    BY DEF SvNewKeys, m
  <2>2. p = Seal(m, sv.tx, sv.tx_seq + 1 - 1)
    <3>1. sv.tx_seq + 1 - 1 = sv.tx_seq
      BY <1>6
    <3> QED
      BY <3>1
  <2> HIDE DEF p
  <2>3. /\ Len(s2c') = Len(s2c) + 1 /\ s2c'[Len(s2c) + 1] = p
        /\ \A i \in 1..Len(s2c) : s2c'[i] = s2c[i]
    BY <2>1, HsTypes
  <2>4. \A i \in 1..Len(ms) : i = 1
    BY <1>5
  <2> QED
    BY <1>5, <2>2, <2>3, <2>4 DEF Adds
<1>8. PICK h \in Handshakes(sv.method) : EndsAt(h)
  BY DEF HandshakeInv, Handshake
<1>9. h[4] = "replied" /\ sv.in_kex
  <2>1. SvPhase = "replied"
    BY <1>1, <1>6 DEF SvPhase
  <2> QED
    BY <1>8, <2>1 DEF EndsAt, HandshakeInv, Handshake
<1>10. Handshake'
  <2> DEFINE g == <<h[1], h[2], h[3] \o <<"NEWKEYS">>, "newkeys">>
  <2>1. g \in Handshakes(sv.method)
    BY <1>9, ServerCloses, HsTypes
  <2>2. ~closed => KexOn(s2c', h[3] \o <<"NEWKEYS">>)
    <3> SUFFICES ASSUME ~closed PROVE KexOn(s2c', h[3] \o <<"NEWKEYS">>)
      OBVIOUS
    <3>1. KexOn(s2c, h[3]) /\ h[3] \in Seq(KexTypes)
      BY <1>8, PlaceTypes DEF EndsAt
    <3> QED
      BY <1>4, <1>5, <1>7, <3>1, AddsKex, NoKexSeq
  <2>3. SvPhase' = "newkeys"
    BY <1>2, <1>6 DEF SvPhase
  <2>4. "newkeys" \in InKexPhases
    BY DEF InKexPhases
  <2> QED
    BY <1>1, <1>2, <1>8, <1>9, <2>1, <2>2, <2>3, <2>4, SvMoves DEF EndsAt
<1>11. FirstPackets'
  <2>1. sv.tx = 0 => \A i \in 1..Len(ms) :
                        /\ sv.tx_seq + i - 1 = 0 => ms[i].type = "KEXINIT"
                        /\ sv.strict => ms[i].type \in FirstTypes
    BY <1>4, <1>5, <1>6 DEF HandshakeInv, FirstPackets, FirstTypes
  <2>2. (sv'.owe \/ sv'.got > 0) => sv'.rx > 0
    BY <1>2 DEF HandshakeInv, FirstPackets
  <2> QED
    BY <1>2, <1>3, <1>6, <1>7, <2>1, <2>2, AddsFirst DEF HandshakeInv
<1>12. MethodAgrees'
  <2>1. \A i \in 1..Len(ms) : ms[i].type # "KEXINIT"
    BY <1>4, <1>5
  <2> QED
    BY <1>2, <1>3, <1>7, <2>1, AddsMethod DEF HandshakeInv
<1> QED
  BY <1>3, <1>10, <1>11, <1>12 DEF HandshakeInv

\* What the client sends first tells the server's state.
LEMMA ServerTakes ==
    ASSUME TypeOK, SealInv, HandshakeInv, c2s # <<>>
    PROVE  /\ Head(c2s) = c2s[1] /\ 1 \in 1..Len(c2s)
           /\ c2s[1].key = sv.rx /\ c2s[1].seq = sv.rx_seq /\ c2s[1].type \in MsgTypes
           /\ \E h \in Handshakes(sv.method) :
                 /\ EndsAt(h)
                 /\ c2s[1].type \notin KexTypes => KexOn(Tail(c2s), h[2])
                 /\ c2s[1].type \in KexTypes =>
                       h[2] # <<>> /\ h[2][1] = c2s[1].type /\ KexOn(Tail(c2s), Tail(h[2]))
<1>1. c2s \in Seq(Packet) /\ Len(c2s) \in Nat \ {0} /\ Head(c2s) = c2s[1] /\ c2s[1] \in Packet
  BY EarlyTypes, HeadTailProperties, EmptySeq, ElementOfSeq
<1>2. c2s[1].key = sv.rx /\ c2s[1].seq = sv.rx_seq
  BY DEF SealInv, Chain
<1>3. PICK h \in Handshakes(sv.method) : EndsAt(h)
  BY DEF HandshakeInv, Handshake
<1>4. KexOn(c2s, h[2]) /\ h[2] \in Seq(KexTypes)
  BY <1>3, PlaceTypes DEF EndsAt
<1>5. /\ c2s[1].type \notin KexTypes => KexOn(Tail(c2s), h[2])
      /\ c2s[1].type \in KexTypes =>
            h[2] # <<>> /\ h[2][1] = c2s[1].type /\ KexOn(Tail(c2s), Tail(h[2]))
  BY <1>1, <1>4, KexTail
<1> QED
  BY <1>1, <1>2, <1>3, <1>5 DEF Packet

\* The server reads a message that it does not answer at once.
LEMMA HandshakeSvSilent ==
    ASSUME TypeOK, SealInv, HandshakeInv, SvRecv,
           Head(c2s).type \notin {"GEX_REQUEST", "KEX_INIT", "GEX_INIT"}
    PROVE  HandshakeInv'
<1> DEFINE p == Head(c2s)
           next == [sv EXCEPT !.rx_seq = @ + 1]
<1>1. UNCHANGED client /\ c2s # <<>> /\ c2s' = Tail(c2s) /\ SvTakes(p) /\ sv \in SvState
  BY HsTypes DEF SvRecv
<1>2. /\ UNCHANGED <<closed, kex_state, kex_method, strict_kex, err>>
      /\ FirstThingsFirst'
  BY <1>1, SvLeaves
<1>3. UNCHANGED s2c
  BY DEF SvRecv
<1>4. /\ p = c2s[1] /\ 1 \in 1..Len(c2s) /\ p.key = sv.rx /\ p.type \in MsgTypes
      /\ sv.exch \in Nat /\ sv.rx \in Nat
  BY <1>1, ServerTakes, SvKeysOrder
<1>5. PICK h \in Handshakes(sv.method) :
         /\ EndsAt(h)
         /\ p.type \notin KexTypes => KexOn(c2s', h[2])
         /\ p.type \in KexTypes => h[2] # <<>> /\ h[2][1] = p.type /\ KexOn(c2s', Tail(h[2]))
  BY <1>1, <1>4, ServerTakes
<1>6. /\ SvPhase = h[4] /\ (sv.in_kex <=> h[4] \in InKexPhases)
      /\ closed \/ (kex_state = h[1] /\ KexOn(s2c', h[3]))
  BY <1>3, <1>5 DEF EndsAt, HandshakeInv, Handshake, InKexPhases
<1>k. "KEXINIT" \in KexTypes /\ "NEWKEYS" \in KexTypes
  BY DEF KexTypes
<1>7. /\ sv'.strict = sv.strict /\ sv'.exch = sv.exch /\ sv'.method = sv.method
      /\ sv'.tx = sv.tx /\ sv'.tx_seq = sv.tx_seq
      /\ p.type = "KEXINIT" => /\ sv'.kex = sv.kex /\ sv'.rx = sv.rx /\ sv'.in_kex = TRUE
                               /\ sv'.owe = sv.owe /\ sv'.got = sv.got
      /\ p.type = "NEWKEYS" => /\ sv'.kex = "idle" /\ sv'.rx = sv.exch /\ sv'.in_kex = FALSE
                               /\ sv'.owe = sv.owe /\ sv'.got = sv.got
      /\ p.type \notin {"KEXINIT", "NEWKEYS"} =>
            /\ sv'.kex = sv.kex /\ sv'.rx = sv.rx /\ sv'.in_kex = sv.in_kex
            /\ p.type # "SERVICE_REQUEST" => sv'.owe = sv.owe
            /\ p.type # "UP" => sv'.got = sv.got
  <2>1. CASE p.type = "KEXINIT"
    <3>1. sv' = [next EXCEPT !.in_kex = TRUE]
      BY <2>1 DEF SvRecv
    <3> QED
      BY <3>1, <2>1, <1>1 DEF SvState
  <2>2. CASE p.type = "NEWKEYS"
    BY <2>2, <1>1 DEF SvRecv, SvState
  <2>3. CASE p.type = "SERVICE_REQUEST"
    <3>1. sv' = [next EXCEPT !.owe = TRUE]
      BY <2>3 DEF SvRecv
    <3> QED
      BY <3>1, <2>3, <1>1 DEF SvState
  <2>4. CASE p.type = "UP"
    <3>1. sv' = [next EXCEPT !.got = @ + 1]
      BY <2>4 DEF SvRecv
    <3> QED
      BY <3>1, <2>4, <1>1 DEF SvState
  <2>5. CASE p.type \notin {"KEXINIT", "NEWKEYS", "SERVICE_REQUEST", "UP"}
    <3>1. sv' = next \/ sv' = [next EXCEPT !.gone = TRUE]
      BY <2>5 DEF SvRecv
    <3> QED
      BY <3>1, <2>5, <1>1 DEF SvState
  <2> QED
    BY <2>1, <2>2, <2>3, <2>4, <2>5
<1> HIDE DEF p
<1>8. Handshake'
  <2>1. CASE p.type = "KEXINIT"
    <3>1. sv.kex = "sent" /\ ~sv.in_kex /\ sv.exch > 0
      BY <1>1, <2>1, SvKeysOrder DEF SvTakes
    <3>2. h[4] = "sent"
      BY <1>6, <3>1 DEF SvPhase
    <3>3. <<h[1], Tail(h[2]), h[3], "answered">> \in Handshakes(sv.method)
      BY <1>5, <1>k, <2>1, <3>2, ServerReads, HsTypes
    <3>4. SvPhase' = "answered" /\ "answered" \in InKexPhases
      BY <1>7, <2>1, <3>1 DEF SvPhase, InKexPhases
    <3> QED
      BY <1>1, <1>5, <1>6, <1>7, <1>k, <2>1, <3>3, <3>4, SvMoves
  <2>2. CASE p.type = "NEWKEYS"
    <3>1. sv.kex = "newkeys" /\ sv.exch > 0
      BY <1>1, <2>2, SvKeysOrder DEF SvTakes
    <3>2. h[4] = "newkeys"
      BY <1>6, <3>1 DEF SvPhase
    <3>3. <<h[1], Tail(h[2]), h[3], "idle">> \in Handshakes(sv.method)
      BY <1>5, <1>k, <2>2, <3>2, ServerReads, HsTypes
    <3>4. SvPhase' = "idle" /\ "idle" \notin InKexPhases
      BY <1>7, <2>2, <3>1 DEF SvPhase, InKexPhases
    <3> QED
      BY <1>1, <1>5, <1>6, <1>7, <1>k, <2>2, <3>3, <3>4, SvMoves
  <2>3. CASE p.type \notin {"KEXINIT", "NEWKEYS"}
    <3>1. p.type \notin KexTypes
      <4>1. p.type \in KexTypes =>
               h[2][1] \in {"KEXINIT", "GEX_REQUEST", "KEX_INIT", "GEX_INIT", "NEWKEYS"}
        BY <1>5, ServerReads, HsTypes
      <4>2. p.type \notin {"GEX_REQUEST", "KEX_INIT", "GEX_INIT"}
        BY DEF p
      <4> QED
        BY <1>5, <2>3, <4>1, <4>2
    <3>2. SvPhase' = SvPhase
      BY <1>7, <2>3 DEF SvPhase
    <3> QED
      BY <1>1, <1>5, <1>6, <1>7, <2>3, <3>1, <3>2, SvMoves
  <2> QED
    BY <2>1, <2>2, <2>3
<1>9. FirstPackets'
  <2>1. (sv'.owe \/ sv'.got > 0) => sv'.rx > 0
    <3>1. sv.owe \/ sv.got > 0 => sv.rx > 0
      BY DEF HandshakeInv, FirstPackets
    <3>2. p.type \in {"SERVICE_REQUEST", "UP"} => sv.rx > 0
      BY <1>4 DEF HandshakeInv, FirstThingsFirst
    <3>3. p.type = "NEWKEYS" => sv.exch > 0
      BY <1>1, SvKeysOrder DEF SvTakes
    <3> QED
      BY <1>7, <3>1, <3>2, <3>3
  <2> QED
    BY <1>2, <1>3, <1>7, <2>1 DEF HandshakeInv, FirstPackets
<1>10. MethodAgrees'
  BY <1>2, <1>3, <1>7 DEF HandshakeInv, MethodAgrees
<1> QED
  BY <1>2, <1>8, <1>9, <1>10 DEF HandshakeInv

\* The server reads a message of the exchange and answers it.
LEMMA HandshakeSvAnswers ==
    ASSUME TypeOK, SealInv, HandshakeInv, SvRecv,
           Head(c2s).type \in {"GEX_REQUEST", "KEX_INIT", "GEX_INIT"}
    PROVE  HandshakeInv'
<1> DEFINE p == Head(c2s)
           next == [sv EXCEPT !.rx_seq = @ + 1]
           t == IF p.type = "GEX_REQUEST" THEN "GEX_GROUP"
                ELSE IF p.type = "KEX_INIT" THEN "KEX_REPLY" ELSE "GEX_REPLY"
           k == IF p.type = "GEX_REQUEST" THEN "group" ELSE "replied"
           m == [type |-> t, id |-> IF p.type = "GEX_REQUEST" THEN 0 ELSE sv.exch, opt |-> {}]
           ms == <<m>>
           s == [next EXCEPT !.kex = k]
<1>1. /\ UNCHANGED client /\ c2s # <<>> /\ c2s' = Tail(c2s) /\ SvTakes(p) /\ sv \in SvState
      /\ sv.exch \in Nat /\ sv.tx_seq \in Nat
  BY HsTypes, SvKeysOrder DEF SvRecv
<1>2. /\ UNCHANGED <<closed, kex_state, kex_method, strict_kex, err>>
      /\ FirstThingsFirst'
  BY <1>1, SvLeaves
<1>3. SvSend(ms, s)
  <2>1. CASE p.type = "GEX_REQUEST"
    BY <2>1 DEF SvRecv, Msg
  <2>2. CASE p.type = "KEX_INIT"
    BY <2>2 DEF SvRecv
  <2>3. CASE p.type = "GEX_INIT"
    BY <2>3 DEF SvRecv
  <2> QED
    BY <2>1, <2>2, <2>3
<1>4. /\ s \in SvState /\ s.strict = sv.strict /\ s.exch = sv.exch /\ s.method = sv.method
      /\ s.kex = k /\ s.tx = sv.tx /\ s.rx = sv.rx /\ s.in_kex = sv.in_kex
      /\ s.owe = sv.owe /\ s.got = sv.got
  <2>1. next \in SvState
    <3>1. sv.rx_seq + 1 \in Nat
      BY <1>1, SvFields
    <3> QED
      BY <1>1, <3>1, SvSetCount
  <2>2. s \in SvState
    BY <2>1, SvSetKex
  <2> QED
    BY <1>1, <2>2 DEF SvState
<1>5. m \in Message /\ m.type = t /\ t \in {"GEX_GROUP", "KEX_REPLY", "GEX_REPLY"}
  BY <1>1 DEF Message, MsgTypes, KexTypes
<1>6. t \in KexTypes /\ t \in FirstTypes /\ t # "KEXINIT"
  BY <1>5 DEF KexTypes, FirstTypes
<1> HIDE DEF m, s
<1>7. ms \in Seq(Message) /\ Len(ms) = 1 /\ ms[1] = m /\ KexOn(ms, <<t>>)
  BY <1>5, <1>6, MsgSeq, KexOfMsgs
<1> HIDE DEF ms
<1>8. /\ Adds(ms) /\ sv'.strict = sv.strict /\ sv'.exch = sv.exch /\ sv'.method = sv.method
      /\ sv'.kex = k /\ sv'.tx = sv.tx /\ sv'.rx = sv.rx /\ sv'.in_kex = sv.in_kex
      /\ sv'.owe = sv.owe /\ sv'.got = sv.got /\ sv'.tx_seq = sv.tx_seq + 1
  <2> HIDE DEF next, k
  <2> QED
    BY <1>1, <1>3, <1>4, <1>7, SvSendAdds
<1>9. PICK h \in Handshakes(sv.method) :
         /\ EndsAt(h)
         /\ p.type \in KexTypes => h[2] # <<>> /\ h[2][1] = p.type /\ KexOn(c2s', Tail(h[2]))
  BY <1>1, ServerTakes
<1>10. p.type \in KexTypes
  BY DEF KexTypes
<1>11. /\ SvPhase = h[4] /\ (sv.in_kex <=> h[4] \in InKexPhases)
       /\ h[4] \in {"answered", "group"} /\ sv.in_kex
       /\ <<h[1], Tail(h[2]), h[3] \o <<t>>, k>> \in Handshakes(sv.method)
  <2>1. SvPhase = h[4] /\ (sv.in_kex <=> h[4] \in InKexPhases)
    BY <1>9 DEF EndsAt, HandshakeInv, Handshake, InKexPhases
  <2>2. CASE p.type = "GEX_REQUEST"
    BY <2>1, <2>2, <1>9, <1>10, ServerReads, HsTypes DEF InKexPhases
  <2>3. CASE p.type = "KEX_INIT"
    BY <2>1, <2>3, <1>9, <1>10, ServerReads, HsTypes DEF InKexPhases
  <2>4. CASE p.type = "GEX_INIT"
    BY <2>1, <2>4, <1>9, <1>10, ServerReads, HsTypes DEF InKexPhases
  <2> QED
    BY <2>1, <2>2, <2>3, <2>4
<1>12. sv.exch > 0 /\ k \in {"group", "replied"} /\ k \in InKexPhases
  <2>1. sv.exch # 0
    BY <1>11 DEF SvPhase
  <2> QED
    BY <1>1, <2>1 DEF InKexPhases
<1> HIDE DEF p, t, k
<1>13. Handshake'
  <2>1. ~closed => kex_state = h[1] /\ KexOn(s2c', h[3] \o <<t>>)
    <3> SUFFICES ASSUME ~closed PROVE kex_state = h[1] /\ KexOn(s2c', h[3] \o <<t>>)
      OBVIOUS
    <3>1. kex_state = h[1] /\ KexOn(s2c, h[3]) /\ h[3] \in Seq(KexTypes)
      BY <1>9, PlaceTypes DEF EndsAt
    <3> QED
      BY <1>6, <1>7, <1>8, <3>1, AddsKex, NoKexSeq
  <2>2. SvPhase' = k
    BY <1>8, <1>12 DEF SvPhase
  <2> QED
    BY <1>1, <1>8, <1>9, <1>10, <1>11, <1>12, <2>1, <2>2, SvMoves
<1>14. FirstPackets'
  <2>1. sv.tx = 0 => \A i \in 1..Len(ms) :
                        /\ sv.tx_seq + i - 1 = 0 => ms[i].type = "KEXINIT"
                        /\ sv.strict => ms[i].type \in FirstTypes
    <3> SUFFICES ASSUME sv.tx = 0, NEW i \in 1..Len(ms)
                 PROVE  sv.tx_seq + i - 1 # 0 /\ ms[i].type \in FirstTypes
      OBVIOUS
    <3>1. i = 1 /\ sv.tx_seq > 0
      BY <1>7, <1>12 DEF HandshakeInv, FirstPackets
    <3> QED
      BY <3>1, <1>1, <1>5, <1>6, <1>7
  <2>2. sv'.tx_seq > 0
    BY <1>1, <1>8
  <2>3. (sv'.owe \/ sv'.got > 0) => sv'.rx > 0
    BY <1>8 DEF HandshakeInv, FirstPackets
  <2> QED
    BY <1>2, <1>8, <2>1, <2>2, <2>3, AddsFirst DEF HandshakeInv
<1>15. MethodAgrees'
  <2>1. \A i \in 1..Len(ms) : ms[i].type # "KEXINIT"
    BY <1>5, <1>6, <1>7
  <2> QED
    BY <1>2, <1>8, <2>1, AddsMethod DEF HandshakeInv
<1> QED
  BY <1>2, <1>13, <1>14, <1>15 DEF HandshakeInv

-----------------------------------------------------------------------------
(* The theorem *)

\* Nothing is under way before the session starts.
LEMMA HandshakeInit == Init => HandshakeInv
<1> SUFFICES ASSUME Init PROVE HandshakeInv
  OBVIOUS
<1>1. /\ c2s = <<>> /\ s2c = <<>> /\ kex_state = "IDLE" /\ auth_state = "NONE"
      /\ ~strict_kex /\ ~started /\ ~first_kex_done /\ ~have_version /\ ~hostkey_event
      /\ err = "none" /\ sv.exch = 0 /\ sv.in_kex = FALSE /\ sv.owe = FALSE /\ sv.got = 0
      /\ sv.method = "DH"
  BY DEF Init
<1>2. Len(c2s) = 0 /\ Len(s2c) = 0
  BY <1>1, EmptySeq
<1>3. KexOn(c2s, <<>>) /\ KexOn(s2c, <<>>)
  BY <1>2, KexNone
<1>4. Handshake
  <2> DEFINE g == <<"IDLE", <<>>, <<>>, "new">>
  <2>1. g \in Handshakes(sv.method)
    BY DEF Handshakes
  <2>2. EndsAt(g)
    BY <1>1, <1>3 DEF EndsAt, SvPhase
  <2>3. SvPhase \notin {"answered", "group", "replied", "newkeys"}
    BY <1>1 DEF SvPhase
  <2> QED
    BY <1>1, <2>1, <2>2, <2>3 DEF Handshake
<1>5. MethodAgrees /\ FirstPackets /\ FirstThingsFirst
  BY <1>1, <1>2 DEF MethodAgrees, FirstPackets, FirstThingsFirst
<1>6. err \in ContentErrors
  BY <1>1 DEF ContentErrors
<1> QED
  BY <1>4, <1>5, <1>6 DEF HandshakeInv

\* The invariant is inductive, given SealInv and that no key is ahead of the client.
LEMMA HandshakeStep ==
    TypeOK /\ SealInv /\ EarlyInv /\ HandshakeInv /\ [Next]_vars => HandshakeInv'
<1> SUFFICES ASSUME TypeOK, SealInv, EarlyInv, HandshakeInv, [Next]_vars PROVE HandshakeInv'
  OBVIOUS
<1>1. CASE UNCHANGED vars
  <2>1. UNCHANGED <<c2s, s2c, sv, client>>
    BY <1>1 DEF vars
  <2>2. /\ UNCHANGED <<closed, kex_state, kex_method, strict_kex, err>>
        /\ FirstThingsFirst'
    BY <2>1, SvLeaves
  <2> QED
    BY <2>1, <2>2 DEF HandshakeInv, Handshake, EndsAt, SvPhase, MethodAgrees, FirstPackets
<1>2. CASE App \/ read_version
  BY <1>2, HandshakeApp, HandshakeRecv
<1>3. CASE Recv
  BY <1>3, HandshakeRecv, HandshakeFails, HandshakeKexInit, HandshakeGroup, HandshakeReply,
     HandshakeNewKeys DEF Recv, EarlyInv, WireInv
<1>4. CASE Server
  BY <1>4, HandshakeSvKexInit, HandshakeSvNewKeys, HandshakeServerTalk, HandshakeSvSilent,
     HandshakeSvAnswers DEF Server
<1> QED
  BY <1>1, <1>2, <1>3, <1>4 DEF Next

\* Whatever the client sends first, the server can take it, now or after its own
\* KEXINIT or NEWKEYS; but for a service request inside a re-exchange.
LEMMA FirstIsTaken ==
    ASSUME TypeOK, SealInv, WireInv, HandshakeInv, c2s # <<>>
    PROVE  \/ SvTakes(Head(c2s))
           \/ Head(c2s).type = "KEXINIT" /\ sv.exch = 0
           \/ Head(c2s).type = "NEWKEYS" /\ sv.kex = "replied"
           \/ SvOffended
<1> DEFINE p == Head(c2s)
<1>1. p = c2s[1] /\ 1 \in 1..Len(c2s) /\ p.key = sv.rx /\ p.seq = sv.rx_seq /\ p.type \in MsgTypes
  BY ServerTakes
<1>2. PICK h \in Handshakes(sv.method) :
         EndsAt(h) /\ (p.type \in KexTypes => h[2] # <<>> /\ h[2][1] = p.type)
  BY <1>1, ServerTakes
<1>3. /\ SvPhase = h[4] /\ (sv.in_kex <=> h[4] \in InKexPhases)
      /\ sv.kex \in {"idle", "sent", "group", "replied", "newkeys"} /\ sv.rx \in Nat
  <2>1. sv \in SvState
    BY HsTypes
  <2> QED
    BY <1>2, <2>1 DEF EndsAt, HandshakeInv, Handshake, InKexPhases, SvState
<1> HIDE DEF p
<1>4. /\ h[4] = "new" => sv.exch = 0
      /\ h[4] = "sent" => sv.kex = "sent" /\ ~sv.in_kex
      /\ h[4] = "answered" => sv.kex = "sent" /\ sv.in_kex
      /\ h[4] \in {"group", "replied", "newkeys"} => sv.kex = h[4]
  <2>1. "sent" \notin InKexPhases
    BY DEF InKexPhases
  <2> QED
    BY <1>3, <2>1 DEF SvPhase
<1>5. p.type = "UP" => ~sv.in_kex
  <2>1. p.type = "UP" /\ sv.in_kex => p.key > sv.rx
    BY <1>1 DEF WireInv, QuietDuringKex
  <2> QED
    BY <1>1, <1>3, <2>1
<1>6. CASE p.type \in KexTypes
  <2>1. /\ p.type = "KEXINIT" => h[4] \in {"new", "sent"}
        /\ p.type = "GEX_REQUEST" => sv.method = "GEX" /\ h[4] = "answered"
        /\ p.type = "KEX_INIT" => sv.method = "DH" /\ h[4] = "answered"
        /\ p.type = "GEX_INIT" => h[4] = "group"
        /\ p.type = "NEWKEYS" => h[4] \in {"replied", "newkeys"}
        /\ p.type \in {"KEXINIT", "GEX_REQUEST", "KEX_INIT", "GEX_INIT", "NEWKEYS"}
    <3>1. h[2] # <<>> /\ h[2][1] = p.type /\ sv.method \in {"DH", "GEX"}
      BY <1>2, <1>6, HsTypes
    <3> QED
      BY <3>1, ServerReads
  <2> QED
    BY <1>1, <1>4, <2>1 DEF SvTakes, p
<1>7. CASE p.type \notin KexTypes
  <2>1. p.type \notin {"KEXINIT", "KEX_INIT", "GEX_REQUEST", "GEX_INIT", "NEWKEYS"}
    BY <1>7 DEF KexTypes
  <2>2. CASE p.type = "SERVICE_REQUEST" /\ sv.in_kex
    <3>1. p.key > 0
      BY <1>1, <2>2 DEF HandshakeInv, FirstThingsFirst
    <3> QED
      BY <1>1, <1>3, <2>2, <3>1 DEF SvOffended, p
  <2>3. CASE p.type # "SERVICE_REQUEST" \/ ~sv.in_kex
    BY <1>1, <1>5, <2>1, <2>3 DEF SvTakes, p
  <2> QED
    BY <2>2, <2>3
<1> QED
  BY <1>6, <1>7

\* In every state of every session, whatever the server chooses and however often either
\* side opens a new exchange: a server that follows the protocol is never accused of
\* breaking it, and the one thing it is ever sent that it cannot take is a service request
\* inside a re-exchange, for a host key accepted meanwhile.
THEOREM NeverFalselyAccused == Spec => []NoFalseAlarm
<1>1. TypeOK /\ SealInv /\ EarlyInv /\ HandshakeInv => NoFalseAlarm
  BY FirstIsTaken DEF EarlyInv, HandshakeInv, NoFalseAlarm
<1>2. Spec => []EarlyInv
  BY EarlyInit, EarlyStep, TypeCorrect, SealInvariant, PTL DEF Spec
<1> QED
  BY <1>1, <1>2, HandshakeInit, HandshakeStep, TypeCorrect, SealInvariant, PTL DEF Spec

\* Nor does the client ever refuse a packet for coming at the wrong moment.
THEOREM NothingRefused == Spec => [][\A types : Incoming(types) => Refusals(Head(s2c)) = {}]_vars
<1>1. TypeOK /\ SealInv /\ HandshakeInv =>
         \A types : Incoming(types) => Refusals(Head(s2c)) = {}
  BY NoRefusal
<1>2. TypeOK /\ SealInv /\ HandshakeInv /\ [Next]_vars =>
         [\A types : Incoming(types) => Refusals(Head(s2c)) = {}]_vars
  BY <1>1
<1>3. Spec => []EarlyInv
  BY EarlyInit, EarlyStep, TypeCorrect, SealInvariant, PTL DEF Spec
<1> QED
  BY <1>2, <1>3, HandshakeInit, HandshakeStep, TypeCorrect, SealInvariant, PTL DEF Spec

-----------------------------------------------------------------------------
(* Wires and the messages of the upper layers on them *)

\* Sets with the same members are equal.
LEMMA SameSet == \A S, T : (\A m : m \in S <=> m \in T) => S = T
OBVIOUS

\* What it is to be among them.
LEMMA InUpIds ==
    ASSUME NEW w
    PROVE  \A n : n \in UpIds(w) <=> \E i \in 1..Len(w) : w[i].type = "UP" /\ w[i].id = n
BY DEF UpIds

\* A wire without any such message carries none, whatever the numbers have come to.
LEMMA OrderNone ==
    ASSUME NEW w, NEW b \in Int, \A i \in 1..Len(w) : w[i].type # "UP"
    PROVE  InOrder(w, b, b)
<1>1. UpIds(w) = {}
  BY InUpIds
<1>2. (b + 1)..b = {}
  OBVIOUS
<1> QED
  BY <1>1, <1>2 DEF InOrder

\* One message alone.
LEMMA OrderOne ==
    ASSUME NEW w, Len(w) = 1, NEW b \in Int, w[1].type = "UP", w[1].id = b + 1
    PROVE  InOrder(w, b, b + 1)
<1>1. 1 \in 1..Len(w) /\ \A i \in 1..Len(w) : i = 1
  OBVIOUS
<1>2. \A n : n \in UpIds(w) <=> n = b + 1
  BY <1>1, InUpIds
<1>3. \A n : n = b + 1 <=> n \in (b + 1)..(b + 1)
  OBVIOUS
<1>4. UpIds(w) = (b + 1)..(b + 1)
  BY <1>2, <1>3, SameSet
<1>5. \A i, j \in 1..Len(w) : ~(i < j)
  BY <1>1
<1> QED
  BY <1>4, <1>5 DEF InOrder

\* Without its head, a wire carries the same messages, or the same but the first of them.
LEMMA OrderTail ==
    ASSUME NEW X, NEW w \in Seq(X), w # <<>>, NEW a \in Int, NEW b \in Int, InOrder(w, a, b)
    PROVE  /\ w[1].type # "UP" => InOrder(Tail(w), a, b)
           /\ w[1].type = "UP" => w[1].id = a + 1 /\ InOrder(Tail(w), a + 1, b)
<1> DEFINE t == Tail(w)
           n == Len(w)
<1>1. n \in Nat \ {0} /\ Len(t) = n - 1 /\ \A i \in 1..Len(t) : t[i] = w[i + 1]
  BY HeadTailProperties, EmptySeq
<1>2. /\ a <= b /\ UpIds(w) = (a + 1)..b
      /\ \A i, j \in 1..n : (i < j /\ w[i].type = "UP" /\ w[j].type = "UP") => w[i].id < w[j].id
  BY DEF InOrder
<1> HIDE DEF t, n
<1>3. \A i, j \in 1..Len(t) : (i < j /\ t[i].type = "UP" /\ t[j].type = "UP") => t[i].id < t[j].id
  <2> TAKE i, j \in 1..Len(t)
  <2>1. i + 1 \in 1..n /\ j + 1 \in 1..n /\ t[i] = w[i + 1] /\ t[j] = w[j + 1]
    BY <1>1
  <2> QED
    BY <2>1, <1>2
<1>4. \A m : m \in UpIds(t) <=> \E i \in 2..n : w[i].type = "UP" /\ w[i].id = m
  <2> TAKE m
  <2>1. ASSUME NEW i \in 1..Len(t), t[i].type = "UP", t[i].id = m
        PROVE  \E k \in 2..n : w[k].type = "UP" /\ w[k].id = m
    <3>1. i + 1 \in 2..n /\ t[i] = w[i + 1]
      BY <1>1
    <3> QED
      BY <2>1, <3>1
  <2>2. ASSUME NEW i \in 2..n, w[i].type = "UP", w[i].id = m
        PROVE  \E k \in 1..Len(t) : t[k].type = "UP" /\ t[k].id = m
    <3>1. i - 1 \in 1..Len(t) /\ (i - 1) + 1 = i
      BY <1>1
    <3>2. t[i - 1] = w[i]
      BY <3>1, <1>1
    <3> QED
      BY <2>2, <3>1, <3>2
  <2> QED
    BY <2>1, <2>2, InUpIds
<1>5. \A m : m \in UpIds(w) <=> \E i \in 1..n : w[i].type = "UP" /\ w[i].id = m
  BY InUpIds DEF n
<1>6. CASE w[1].type # "UP"
  <2>1. \A m : m \in UpIds(t) <=> m \in UpIds(w)
    <3> TAKE m
    <3>1. \A i \in 1..n : i = 1 \/ i \in 2..n
      BY <1>1
    <3>2. \A i \in 2..n : i \in 1..n
      BY <1>1
    <3> QED
      BY <3>1, <3>2, <1>4, <1>5, <1>6
  <2>2. UpIds(t) = (a + 1)..b
    BY <1>2, <2>1, SameSet
  <2> QED
    BY <1>2, <1>3, <1>6, <2>2 DEF InOrder, t
<1>7. CASE w[1].type = "UP"
  <2>1. 1 \in 1..n
    BY <1>1
  <2>2. w[1].id \in (a + 1)..b
    BY <1>2, <1>5, <1>7, <2>1
  <2>3. a + 1 \in UpIds(w)
    BY <1>2, <2>2
  <2>4. PICK i \in 1..n : w[i].type = "UP" /\ w[i].id = a + 1
    BY <1>5, <2>3
  <2>5. w[1].id = a + 1
    <3>1. CASE i = 1
      BY <2>4, <3>1
    <3>2. CASE i # 1
      <4>1. 1 < i
        BY <3>2
      <4>2. w[1].id < a + 1
        BY <1>2, <1>7, <2>1, <2>4, <4>1
      <4> QED
        BY <2>2, <4>2
    <3> QED
      BY <3>1, <3>2
  <2>6. \A m : m \in UpIds(t) <=> m \in (a + 2)..b
    <3> TAKE m
    <3>1. ASSUME m \in UpIds(t) PROVE m \in (a + 2)..b
      <4>1. PICK k \in 2..n : w[k].type = "UP" /\ w[k].id = m
        BY <1>4, <3>1
      <4>2. k \in 1..n /\ 1 < k
        BY <1>1
      <4>3. m \in (a + 1)..b
        BY <1>2, <1>5, <4>1, <4>2
      <4>4. a + 1 < m
        BY <1>2, <1>7, <2>1, <2>5, <4>1, <4>2
      <4> QED
        BY <4>3, <4>4
    <3>2. ASSUME m \in (a + 2)..b PROVE m \in UpIds(t)
      <4>1. m \in (a + 1)..b /\ m # a + 1
        BY <3>2
      <4>2. PICK k \in 1..n : w[k].type = "UP" /\ w[k].id = m
        BY <1>2, <1>5, <4>1
      <4>3. k # 1
        BY <2>5, <4>1, <4>2
      <4>4. k \in 2..n
        BY <4>3
      <4> QED
        BY <1>4, <4>2, <4>4
    <3> QED
      BY <3>1, <3>2
  <2>7. UpIds(t) = (a + 1 + 1)..b
    <3>1. UpIds(t) = (a + 2)..b
      BY <2>6, SameSet
    <3>2. a + 1 + 1 = a + 2
      OBVIOUS
    <3> QED
      BY <3>1, <3>2
  <2>8. a + 1 <= b
    BY <2>2
  <2> QED
    BY <1>3, <1>7, <2>5, <2>7, <2>8 DEF InOrder, t
<1> QED
  BY <1>6, <1>7

\* What is put behind a wire goes on where the wire stops.
LEMMA OrderConcat ==
    ASSUME NEW w, NEW u, NEW v, Len(w) \in Nat, Len(u) \in Nat, Len(v) = Len(w) + Len(u),
           \A i \in 1..Len(w) : v[i] = w[i],
           \A k \in 1..Len(u) : v[Len(w) + k].type = u[k].type /\ v[Len(w) + k].id = u[k].id,
           NEW a \in Int, NEW b \in Int, NEW c \in Int, InOrder(w, a, b), InOrder(u, b, c)
    PROVE  InOrder(v, a, c)
<1> DEFINE n == Len(w)
           k == Len(u)
<1>1. /\ a <= b /\ UpIds(w) = (a + 1)..b
      /\ \A i, j \in 1..n : (i < j /\ w[i].type = "UP" /\ w[j].type = "UP") => w[i].id < w[j].id
      /\ b <= c /\ UpIds(u) = (b + 1)..c
      /\ \A i, j \in 1..k : (i < j /\ u[i].type = "UP" /\ u[j].type = "UP") => u[i].id < u[j].id
  BY DEF InOrder
<1>2. /\ n \in Nat /\ k \in Nat /\ Len(v) = n + k
      /\ \A i \in 1..n : v[i] = w[i]
      /\ \A i \in 1..k : v[n + i].type = u[i].type /\ v[n + i].id = u[i].id
  OBVIOUS
<1>3. \A m : m \in UpIds(w) <=> \E i \in 1..n : w[i].type = "UP" /\ w[i].id = m
  BY InUpIds
<1>4. \A m : m \in UpIds(u) <=> \E i \in 1..k : u[i].type = "UP" /\ u[i].id = m
  BY InUpIds
<1> HIDE DEF n, k
<1>5. \A i \in 1..Len(v) : i \in 1..n \/ i - n \in 1..k
  BY <1>2
<1>6. ASSUME NEW i \in 1..n, w[i].type = "UP" PROVE w[i].id \in (a + 1)..b
  BY <1>1, <1>3, <1>6
<1>7. ASSUME NEW i \in 1..k, u[i].type = "UP" PROVE u[i].id \in (b + 1)..c
  BY <1>1, <1>4, <1>7
<1>8. ASSUME NEW i \in 1..Len(v), i - n \in 1..k
      PROVE  v[i].type = u[i - n].type /\ v[i].id = u[i - n].id
  <2>1. v[n + (i - n)].type = u[i - n].type /\ v[n + (i - n)].id = u[i - n].id
    BY <1>2, <1>8
  <2>2. n + (i - n) = i
    BY <1>2
  <2> QED
    BY <2>1, <2>2
<1>9. ASSUME NEW i \in 1..Len(v), NEW j \in 1..Len(v), i < j, v[i].type = "UP", v[j].type = "UP"
      PROVE  v[i].id < v[j].id
  <2>1. CASE i \in 1..n /\ j \in 1..n
    BY <1>1, <1>2, <1>9, <2>1
  <2>2. CASE i \in 1..n /\ j - n \in 1..k
    <3>1. v[i].id \in (a + 1)..b
      BY <1>2, <1>6, <1>9, <2>2
    <3>2. v[j].id \in (b + 1)..c
      BY <1>7, <1>8, <1>9, <2>2
    <3> QED
      BY <3>1, <3>2
  <2>3. CASE i - n \in 1..k /\ j - n \in 1..k
    <3>1. i - n < j - n
      BY <1>2, <1>9
    <3>2. u[i - n].id < u[j - n].id
      BY <1>1, <1>8, <1>9, <2>3, <3>1
    <3> QED
      BY <1>8, <2>3, <3>2
  <2>4. CASE i - n \in 1..k /\ j \in 1..n
    BY <1>2, <1>9, <2>4
  <2> QED
    BY <1>5, <2>1, <2>2, <2>3, <2>4
<1>10. \A m : m \in UpIds(v) <=> m \in (a + 1)..c
  <2> TAKE m
  <2>1. ASSUME m \in UpIds(v) PROVE m \in (a + 1)..c
    <3>1. PICK i \in 1..Len(v) : v[i].type = "UP" /\ v[i].id = m
      BY <2>1, InUpIds
    <3>2. CASE i \in 1..n
      <4>1. m \in (a + 1)..b
        BY <1>2, <1>6, <3>1, <3>2
      <4> QED
        BY <4>1, <1>1
    <3>3. CASE i - n \in 1..k
      <4>1. m \in (b + 1)..c
        BY <1>7, <1>8, <3>1, <3>3
      <4> QED
        BY <4>1, <1>1
    <3> QED
      BY <1>5, <3>2, <3>3
  <2>2. ASSUME m \in (a + 1)..c PROVE m \in UpIds(v)
    <3>1. CASE m \in (a + 1)..b
      <4>1. PICK i \in 1..n : w[i].type = "UP" /\ w[i].id = m
        BY <1>1, <1>3, <3>1
      <4>2. i \in 1..Len(v) /\ v[i] = w[i]
        BY <1>2
      <4> QED
        BY <4>1, <4>2, InUpIds
    <3>2. CASE m \in (b + 1)..c
      <4>1. PICK i \in 1..k : u[i].type = "UP" /\ u[i].id = m
        BY <1>1, <1>4, <3>2
      <4>2. n + i \in 1..Len(v)
        BY <1>2
      <4>3. v[n + i].type = "UP" /\ v[n + i].id = m
        BY <1>2, <4>1
      <4> QED
        BY <4>2, <4>3, InUpIds
    <3>3. m \in (a + 1)..b \/ m \in (b + 1)..c
      BY <2>2, <1>1
    <3> QED
      BY <3>1, <3>2, <3>3
  <2> QED
    BY <2>1, <2>2
<1>11. UpIds(v) = (a + 1)..c /\ a <= c
  <2>1. UpIds(v) = (a + 1)..c
    BY <1>10, SameSet
  <2> QED
    BY <1>1, <2>1
<1> QED
  BY <1>9, <1>11 DEF InOrder

-----------------------------------------------------------------------------
(* What the two ends do to the order *)

\* What the proofs need of the types.
LEMMA PipeTypes ==
    ASSUME TypeOK
    PROVE  /\ submitted \in Nat /\ dispatched \in Nat /\ deferred \in Seq(Message)
           /\ Len(deferred) \in Nat /\ c2s \in Seq(Packet) /\ s2c \in Seq(Packet)
           /\ Len(c2s) \in Nat /\ Len(s2c) \in Nat
           /\ sv \in SvState /\ sv.up \in Nat /\ sv.got \in Nat
<1>1. /\ submitted \in Nat /\ dispatched \in Nat /\ deferred \in Seq(Message)
      /\ c2s \in Seq(Packet) /\ s2c \in Seq(Packet) /\ sv \in SvState
  BY DEF TypeOK, CountsOK, QueuesOK, SvOK
<1> QED
  BY <1>1, SvFields

\* What the client sends at once follows what is on the wire.
LEMMA SendFollows ==
    ASSUME TypeOK, NEW ms \in Seq(Message), SendNow(ms),
           NEW a \in Int, NEW b \in Int, NEW c \in Int,
           InOrder(c2s, a, b), InOrder(ms, b, c)
    PROVE  InOrder(c2s', a, c)
<1>1. /\ Len(c2s') = Len(c2s) + Len(ms) /\ Len(c2s) \in Nat /\ Len(ms) \in Nat
      /\ \A i \in 1..Len(c2s) : c2s'[i] = c2s[i]
      /\ \A i \in 1..Len(ms) : c2s'[Len(c2s) + i] = Seal(ms[i], tx, tx_seq + i - 1)
  <2>1. Len(c2s) \in Nat /\ Len(ms) \in Nat
    BY PipeTypes, LenProperties
  <2>2. /\ Len(c2s') = Len(c2s) + Len(ms)
        /\ \A i \in 1..Len(c2s) : c2s'[i] = c2s[i]
        /\ \A i \in 1..Len(ms) : c2s'[Len(c2s) + i] = Seal(ms[i], tx, tx_seq + i - 1)
    BY SendNowEffect
  <2> QED
    BY <2>1, <2>2
<1>2. \A i \in 1..Len(ms) : /\ c2s'[Len(c2s) + i].type = ms[i].type
                            /\ c2s'[Len(c2s) + i].id = ms[i].id
  <2> TAKE i \in 1..Len(ms)
  <2>1. c2s'[Len(c2s) + i] = Seal(ms[i], tx, tx_seq + i - 1)
    BY <1>1
  <2> QED
    BY <2>1 DEF Seal
<1> QED
  BY <1>1, <1>2, OrderConcat

\* What the client sends of its own is not counted.
LEMMA OutTalk ==
    ASSUME TypeOK, NEW T, Sends(T), "UP" \notin T,
           NEW a \in Int, NEW b \in Int, InOrder(c2s, a, b)
    PROVE  InOrder(c2s', a, b)
<1>1. CASE UNCHANGED c2s
  BY <1>1
<1>2. ASSUME NEW ms \in Seq(Message), SendNow(ms), \A k \in 1..Len(ms) : ms[k].type \in T
      PROVE  InOrder(c2s', a, b)
  <2>1. \A k \in 1..Len(ms) : ms[k].type # "UP"
    BY <1>2
  <2>2. InOrder(ms, b, b)
    BY <2>1, OrderNone
  <2> QED
    BY <1>2, <2>2, SendFollows
<1> QED
  BY <1>1, <1>2 DEF Sends

\* The next message of the upper layers takes its place at the end, on the wire or in the
\* queue.
LEMMA OutUp ==
    ASSUME TypeOK, OutboundInOrder, WaitsForNewKeys, SendUp(Up(submitted + 1)),
           submitted' = submitted + 1, sv'.got = sv.got,
           UNCHANGED <<kex_sent_kexinit, kex_sent_newkeys>>
    PROVE  OutboundInOrder' /\ WaitsForNewKeys'
<1> DEFINE m == Up(submitted + 1)
           n == submitted - Len(deferred)
<1>1. submitted \in Nat /\ deferred \in Seq(Message) /\ Len(deferred) \in Nat /\ sv.got \in Nat
  BY PipeTypes
<1>2. InOrder(c2s, sv.got, n) /\ InOrder(deferred, n, submitted)
  BY DEF OutboundInOrder
<1>3. submitted + 1 \in Nat
  BY <1>1
<1>4. m \in Message /\ m.type = "UP" /\ m.id = submitted + 1
  BY <1>3, MsgType DEF Up
<1> HIDE DEF m
<1>5. CASE ssh_kex_locked
  <2>1. deferred' = Append(deferred, m) /\ UNCHANGED c2s
    BY <1>5 DEF SendUp, m
  <2> DEFINE u == <<m>>
             k == Len(deferred)
  <2>2. /\ Len(deferred') = k + 1 /\ \A i \in 1..k : deferred'[i] = deferred[i]
        /\ deferred'[k + 1] = m
    BY <1>1, <1>4, <2>1, AppendProperties
  <2>3. Len(u) = 1 /\ u[1] = m
    OBVIOUS
  <2> HIDE DEF u
  <2>4. InOrder(u, submitted, submitted + 1)
    BY <1>1, <1>4, <2>3, OrderOne
  <2>5. \A i \in 1..Len(u) : deferred'[k + i].type = u[i].type /\ deferred'[k + i].id = u[i].id
    <3> TAKE i \in 1..Len(u)
    <3>1. i = 1
      BY <2>3
    <3> QED
      BY <3>1, <2>2, <2>3
  <2>6. InOrder(deferred', n, submitted + 1)
    <3> DEFINE next == deferred'
    <3>1. n \in Int /\ submitted \in Int /\ submitted + 1 \in Int /\ Len(deferred) \in Nat
      BY <1>1
    <3>2. Len(next) = Len(deferred) + Len(u) /\ \A i \in 1..Len(deferred) : next[i] = deferred[i]
      BY <2>2, <2>3
    <3>3. \A i \in 1..Len(u) : /\ next[Len(deferred) + i].type = u[i].type
                               /\ next[Len(deferred) + i].id = u[i].id
      BY <2>5
    <3>4. InOrder(deferred, n, submitted) /\ Len(u) \in Nat
      BY <1>2, <2>3
    <3> HIDE DEF next, n
    <3>5. InOrder(next, n, submitted + 1)
      BY <2>4, <3>1, <3>2, <3>3, <3>4, OrderConcat
    <3> QED
      BY <3>5 DEF next
  <2>7. submitted' - Len(deferred') = n
    BY <1>1, <2>2
  <2>8. OutboundInOrder'
    BY <1>2, <2>1, <2>6, <2>7 DEF OutboundInOrder
  <2> QED
    BY <1>5, <2>8 DEF WaitsForNewKeys, ssh_kex_locked
<1>6. CASE ~ssh_kex_locked
  <2> DEFINE ms == <<m>>
  <2>1. SendNow(ms) /\ UNCHANGED deferred /\ deferred = <<>>
    BY <1>6 DEF SendUp, WaitsForNewKeys, m
  <2>2. Len(deferred) = 0
    BY <2>1
  <2>3. ms \in Seq(Message) /\ Len(ms) = 1 /\ ms[1] = m
    BY <1>4, MsgSeq
  <2> HIDE DEF ms
  <2>4. InOrder(ms, submitted, submitted + 1)
    BY <1>1, <1>4, <2>3, OrderOne
  <2>5. InOrder(c2s', sv.got, submitted + 1)
    BY <1>1, <1>2, <2>1, <2>2, <2>3, <2>4, SendFollows
  <2>6. InOrder(deferred', submitted + 1, submitted + 1)
    BY <1>3, <2>1, <2>2, OrderNone
  <2>7. submitted' - Len(deferred') = submitted + 1
    BY <1>1, <2>1, <2>2
  <2>8. OutboundInOrder'
    BY <2>5, <2>6, <2>7 DEF OutboundInOrder
  <2> QED
    BY <2>1, <2>8 DEF WaitsForNewKeys
<1> QED
  BY <1>5, <1>6

\* A packet read off the server's wire is none of these, or the next of them.
LEMMA InboundRead ==
    ASSUME TypeOK, InboundInOrder, NEW types, Incoming(types), UNCHANGED sv,
           IF s2c[1].type = "UP" THEN dispatched' = dispatched + 1 ELSE UNCHANGED dispatched
    PROVE  InboundInOrder'
<1>1. s2c \in Seq(Packet) /\ s2c # <<>> /\ s2c' = Tail(s2c)
      /\ dispatched \in Nat /\ sv.up \in Nat
  BY PipeTypes DEF Incoming
<1>2. InOrder(s2c, dispatched, sv.up)
  BY DEF InboundInOrder
<1>3. /\ s2c[1].type # "UP" => InOrder(Tail(s2c), dispatched, sv.up)
      /\ s2c[1].type = "UP" => InOrder(Tail(s2c), dispatched + 1, sv.up)
  BY <1>1, <1>2, OrderTail
<1> QED
  BY <1>1, <1>3 DEF InboundInOrder

\* The client says what is no message of the upper layers, and hears of the server what
\* it counts when it is one.
LEMMA PipeTalk ==
    ASSUME TypeOK, PipeInv, UNCHANGED <<submitted, deferred, sv>>,
           NEW T, Sends(T), "UP" \notin T,
           ~ssh_kex_locked' => ~ssh_kex_locked \/ deferred = <<>>,
           \/ UNCHANGED <<s2c, dispatched>>
           \/ /\ \E types : Incoming(types)
              /\ IF s2c[1].type = "UP" THEN dispatched' = dispatched + 1
                                       ELSE UNCHANGED dispatched
    PROVE  PipeInv'
<1>1. submitted - Len(deferred) \in Int /\ sv.got \in Int
  BY PipeTypes
<1>2. InOrder(c2s', sv.got, submitted - Len(deferred))
  BY <1>1, OutTalk DEF PipeInv, OutboundInOrder
<1>3. OutboundInOrder' /\ WaitsForNewKeys'
  BY <1>2 DEF PipeInv, OutboundInOrder, WaitsForNewKeys
<1>4. InboundInOrder'
  <2>1. CASE UNCHANGED <<s2c, dispatched>>
    BY <2>1 DEF PipeInv, InboundInOrder
  <2>2. CASE /\ \E types : Incoming(types)
             /\ IF s2c[1].type = "UP" THEN dispatched' = dispatched + 1
                                      ELSE UNCHANGED dispatched
    BY <2>2, InboundRead DEF PipeInv
  <2> QED
    BY <2>1, <2>2
<1> QED
  BY <1>3, <1>4 DEF PipeInv

-----------------------------------------------------------------------------
(* The client's steps *)

\* The application's operations.
LEMMA PipeApp == TypeOK /\ PipeInv /\ App => PipeInv'
<1> SUFFICES ASSUME TypeOK, PipeInv, App PROVE PipeInv'
  OBVIOUS
<1>m. \A t \in {"KEXINIT", "DISCONNECT", "IGNORE", "SERVICE_REQUEST"} :
         t \in MsgTypes /\ {t} \in SUBSET MsgTypes /\ "UP" \notin {t}
  BY DEF MsgTypes, KexTypes
<1>1. CASE ssh_start
  <2>1. UNCHANGED <<submitted, dispatched, deferred, s2c, sv>>
    BY <1>1 DEF ssh_start, counters
  <2>2. CASE SendNow(<<KexInit>>) /\ kex_sent_kexinit' /\ ~kex_sent_newkeys'
    <3>1. Sends({"KEXINIT"})
      BY <2>2, <1>m, SendsWhat DEF KexInit
    <3> QED
      BY <2>1, <2>2, <3>1, <1>m, PipeTalk DEF ssh_kex_locked
  <2>3. CASE Fail(<<>>, "not enough entropy") /\ UNCHANGED <<kex_sent_kexinit, kex_sent_newkeys>>
    <3>1. Sends({"DISCONNECT"})
      BY <2>3, <1>m, SendsWhat
    <3> QED
      BY <2>1, <2>3, <3>1, <1>m, PipeTalk DEF ssh_kex_locked
  <2> QED
    BY <1>1, <2>2, <2>3 DEF ssh_start
<1>2. CASE Submit
  <2>1. OutboundInOrder' /\ WaitsForNewKeys'
    BY <1>2, OutUp DEF Submit, PipeInv, kexflags
  <2>2. InboundInOrder'
    BY <1>2 DEF Submit, PipeInv, InboundInOrder
  <2> QED
    BY <2>1, <2>2 DEF PipeInv
<1>3. CASE ssh_send_ignore
  <2>1. UNCHANGED <<submitted, dispatched, deferred, s2c, sv, kex_sent_kexinit, kex_sent_newkeys>>
    BY <1>3 DEF ssh_send_ignore, kexflags
  <2>2. Sends({"IGNORE"})
    BY <1>3, <1>m, SendsWhat DEF ssh_send_ignore
  <2> QED
    BY <2>1, <2>2, <1>m, PipeTalk DEF ssh_kex_locked
<1>4. CASE ssh_disconnect
  <2>1. UNCHANGED <<submitted, dispatched, deferred, s2c, sv, kex_sent_kexinit, kex_sent_newkeys>>
    BY <1>4 DEF ssh_disconnect, kexflags, counters
  <2>2. Sends({"DISCONNECT"})
    BY <1>4, <1>m, SendsWhat DEF ssh_disconnect
  <2> QED
    BY <2>1, <2>2, <1>m, PipeTalk DEF ssh_kex_locked
<1>5. ASSUME NEW accept \in BOOLEAN, ssh_hostkey_accept(accept) PROVE PipeInv'
  <2>1. UNCHANGED <<submitted, dispatched, deferred, s2c, sv, kex_sent_kexinit, kex_sent_newkeys>>
    BY <1>5 DEF ssh_hostkey_accept, kexflags, counters
  <2>2. PICK t \in {"DISCONNECT", "SERVICE_REQUEST"} :
           UNCHANGED c2s \/ SendNow(<<>>) \/ SendNow(<<Msg(t)>>)
    BY <1>5 DEF ssh_hostkey_accept, AuthBegin
  <2>3. Sends({t})
    BY <2>2, <1>m, SendsWhat DEF Sends
  <2> QED
    BY <2>1, <2>3, <1>m, PipeTalk DEF ssh_kex_locked
<1> QED
  BY <1>1, <1>2, <1>3, <1>4, <1>5 DEF App

\* The version line, and the packets that end nothing of an exchange.
LEMMA PipeRecv ==
    /\ TypeOK /\ SealInv /\ HandshakeInv /\ PipeInv
    /\ \/ read_version \/ RecvFails \/ RecvIgnored \/ handle_kexinit \/ handle_gex_group
       \/ RecvDisconnect \/ RecvMisc \/ RecvServiceAccept \/ RecvUp
    => PipeInv'
<1> SUFFICES ASSUME TypeOK, SealInv, HandshakeInv, PipeInv,
                    \/ read_version \/ RecvFails \/ RecvIgnored \/ handle_kexinit
                    \/ handle_gex_group \/ RecvDisconnect \/ RecvMisc \/ RecvServiceAccept
                    \/ RecvUp
             PROVE  PipeInv'
  OBVIOUS
<1> DEFINE T == {"KEXINIT", "DISCONNECT", "KEX_INIT", "GEX_REQUEST", "GEX_INIT", "UNIMPLEMENTED"}
<1>m. T \in SUBSET MsgTypes /\ "UP" \notin T
  BY DEF MsgTypes, KexTypes
<1>t. /\ "KEXINIT" \in T /\ "DISCONNECT" \in T /\ "KEX_INIT" \in T /\ "GEX_REQUEST" \in T
      /\ "GEX_INIT" \in T /\ "UNIMPLEMENTED" \in T
  OBVIOUS
<1> HIDE DEF T
<1>h. \A types : Incoming(types) => s2c[1].type \in types /\ Refusals(Head(s2c)) = {}
                                    /\ Head(s2c) = s2c[1]
  <2> SUFFICES ASSUME NEW types, Incoming(types)
               PROVE  s2c[1].type \in types /\ Refusals(Head(s2c)) = {} /\ Head(s2c) = s2c[1]
    OBVIOUS
  <2>1. Head(s2c) = s2c[1] /\ Refusals(Head(s2c)) = {}
    BY NoRefusal
  <2> QED
    BY <2>1 DEF Incoming
\* Nothing of the upper layers is read or sent.
<1>q. ASSUME UNCHANGED <<submitted, dispatched, deferred, sv>>, Sends(T),
             ~ssh_kex_locked' => ~ssh_kex_locked,
             UNCHANGED s2c \/ ((\E types : Incoming(types)) /\ s2c[1].type # "UP")
      PROVE  PipeInv'
  BY <1>q, <1>m, PipeTalk
<1>1. CASE read_version
  <2>1. /\ UNCHANGED <<submitted, dispatched, deferred, s2c, sv, kex_sent_kexinit,
                       kex_sent_newkeys>>
        /\ UNCHANGED c2s \/ Fail(<<>>, "not protocol 2")
    BY <1>1 DEF read_version, kexflags, counters
  <2>2. Sends(T)
    BY <2>1, <1>m, <1>t, SendsWhat DEF Sends
  <2> QED
    BY <2>1, <2>2, <1>q DEF ssh_kex_locked
<1>2. CASE RecvFails
  <2> DEFINE p == Head(s2c)
             rekey == Refusals(p) = {} /\ p.type = "KEXINIT" /\ kex_state = "IDLE"
  <2>1. /\ Incoming(MsgTypes) /\ UNCHANGED <<submitted, dispatched, deferred, sv>>
        /\ \E why \in (IF Refusals(p) # {} THEN Refusals(p) ELSE Rejections(p)) :
              Fail(IF rekey THEN <<KexInit>> ELSE <<>>, why)
        /\ kex_sent_kexinit' = (kex_sent_kexinit \/ rekey)
        /\ kex_sent_newkeys' = (kex_sent_newkeys /\ ~rekey)
    BY <1>2 DEF RecvFails, counters
  <2>2. PICK why \in Rejections(p) : Fail(IF rekey THEN <<KexInit>> ELSE <<>>, why)
    BY <2>1, <1>h
  <2>3. s2c[1].type # "UP"
    BY <2>1, <2>2, <1>h DEF Rejections
  <2>4. ~ssh_kex_locked' => ~ssh_kex_locked
    <3>1. kex_sent_kexinit \in BOOLEAN /\ kex_sent_newkeys \in BOOLEAN
      BY EarlyTypes
    <3> HIDE DEF rekey
    <3> QED
      BY <2>1, <3>1, Zenon DEF ssh_kex_locked
  <2> HIDE DEF rekey
  <2>5. Fail(<<KexInit>>, why) \/ Fail(<<>>, why)
    BY <2>2
  <2>6. Sends(T)
    BY <2>5, <1>m, <1>t, SendsWhat
  <2> QED
    BY <2>1, <2>3, <2>4, <2>6, <1>q
<1>3. CASE RecvIgnored
  <2>1. /\ UNCHANGED <<submitted, dispatched, deferred, sv, c2s, kex_sent_kexinit,
                       kex_sent_newkeys>>
        /\ Incoming(MsgTypes) /\ ignore_next_packet /\ ~closed
    BY <1>3 DEF RecvIgnored, counters, Incoming
  <2>2. s2c[1].type # "UP"
    BY <2>1 DEF SealInv, GuessFollows
  <2> QED
    BY <2>1, <2>2, <1>q DEF ssh_kex_locked, Sends
<1>4. CASE handle_kexinit
  <2>1. /\ UNCHANGED <<submitted, dispatched, deferred, sv>>
        /\ Incoming({"KEXINIT"}) /\ kex_sent_kexinit' /\ ~kex_sent_newkeys'
        /\ \E method \in {"DH", "GEX"} :
              SendNow(Append(IF kex_state = "IDLE" THEN <<KexInit>> ELSE <<>>, kex_send_init(method)))
    BY <1>4 DEF handle_kexinit, Accepted, MethodOf, counters
  <2>2. PICK t \in {"KEX_INIT", "GEX_REQUEST"} :
           SendNow(Append(IF kex_state = "IDLE" THEN <<KexInit>> ELSE <<>>, Msg(t)))
    BY <2>1 DEF kex_send_init
  <2>3. Append(<<>>, Msg(t)) = <<Msg(t)>>
    OBVIOUS
  <2>4. SendNow(Append(<<Msg("KEXINIT")>>, Msg(t))) \/ SendNow(<<Msg(t)>>)
    BY <2>2, <2>3 DEF KexInit
  <2>5. Sends(T)
    BY <2>4, <1>m, <1>t, SendsWhat
  <2>6. s2c[1].type # "UP"
    BY <2>1, <1>h
  <2> QED
    BY <2>1, <2>5, <2>6, <1>q DEF ssh_kex_locked
<1>5. CASE handle_gex_group
  <2>1. /\ UNCHANGED <<submitted, dispatched, deferred, sv, kex_sent_kexinit, kex_sent_newkeys>>
        /\ Incoming({"GEX_GROUP"}) /\ SendNow(<<Msg("GEX_INIT")>>)
    BY <1>5 DEF handle_gex_group, Accepted, counters
  <2>2. Sends(T) /\ s2c[1].type # "UP"
    BY <2>1, <1>m, <1>t, <1>h, SendsWhat
  <2> QED
    BY <2>1, <2>2, <1>q DEF ssh_kex_locked
<1>6. CASE RecvDisconnect
  <2>1. /\ UNCHANGED <<submitted, dispatched, deferred, sv, c2s, kex_sent_kexinit,
                       kex_sent_newkeys>>
        /\ Incoming({"DISCONNECT"})
    BY <1>6 DEF RecvDisconnect, Accepted, counters, kexflags
  <2>2. s2c[1].type # "UP"
    BY <2>1, <1>h
  <2> QED
    BY <2>1, <2>2, <1>q DEF ssh_kex_locked, Sends
<1>7. CASE RecvMisc
  <2>1. /\ UNCHANGED <<submitted, dispatched, deferred, sv, kex_sent_kexinit, kex_sent_newkeys>>
        /\ Incoming({"IGNORE", "UNIMPLEMENTED", "OTHER", "GUESS"})
        /\ SendNow(<<Msg("UNIMPLEMENTED")>>) \/ SendNow(<<>>)
    BY <1>7 DEF RecvMisc, Accepted, counters, kexflags
  <2>2. Sends(T) /\ s2c[1].type # "UP"
    BY <2>1, <1>m, <1>t, <1>h, SendsWhat
  <2> QED
    BY <2>1, <2>2, <1>q DEF ssh_kex_locked
<1>8. CASE RecvServiceAccept
  <2>1. /\ UNCHANGED <<dispatched, sv, kex_sent_kexinit, kex_sent_newkeys>>
        /\ Incoming({"SERVICE_ACCEPT"})
        /\ \/ submitted' = submitted + 1 /\ SendUp(Up(submitted + 1))
           \/ UNCHANGED <<submitted, c2s, deferred>>
    BY <1>8 DEF RecvServiceAccept, Accepted, kexflags
  <2>2. s2c[1].type # "UP"
    BY <2>1, <1>h
  <2>3. CASE submitted' = submitted + 1 /\ SendUp(Up(submitted + 1))
    <3>1. OutboundInOrder' /\ WaitsForNewKeys'
      BY <2>1, <2>3, OutUp DEF PipeInv
    <3>2. InboundInOrder'
      BY <2>1, <2>2, InboundRead DEF PipeInv
    <3> QED
      BY <3>1, <3>2 DEF PipeInv
  <2>4. CASE UNCHANGED <<submitted, c2s, deferred>>
    BY <2>1, <2>2, <2>4, <1>q DEF ssh_kex_locked, Sends
  <2> QED
    BY <2>1, <2>3, <2>4
<1>9. CASE RecvUp
  <2>1. /\ UNCHANGED <<submitted, deferred, sv, c2s, kex_sent_kexinit, kex_sent_newkeys>>
        /\ Incoming({"UP"}) /\ dispatched' = dispatched + 1
    BY <1>9 DEF RecvUp, Accepted, kexflags
  <2>2. s2c[1].type = "UP" /\ Sends(T)
    BY <2>1, <1>h DEF Sends
  <2> QED
    BY <2>1, <2>2, <1>m, PipeTalk DEF ssh_kex_locked
<1> QED
  BY <1>1, <1>2, <1>3, <1>4, <1>5, <1>6, <1>7, <1>8, <1>9

\* The exchange ends on our side: what waited follows our NEWKEYS, in its order.
LEMMA PipeReply == TypeOK /\ SealInv /\ EarlyInv /\ HandshakeInv /\ PipeInv /\ handle_kex_reply => PipeInv'
<1> SUFFICES ASSUME TypeOK, SealInv, EarlyInv, HandshakeInv, PipeInv, handle_kex_reply
             PROVE  PipeInv'
  OBVIOUS
<1> DEFINE new == DeriveKeys(Head(s2c))
           seq == SeqAfterNewKeys(tx_seq)
           nk == Seal(Msg("NEWKEYS"), tx, tx_seq)
           rest == SealAll(deferred, new, seq)
           v == c2s \o <<nk>>
           n == submitted - Len(deferred)
<1>1. /\ Incoming({"KEX_REPLY", "GEX_REPLY"}) /\ c2s' = v \o rest /\ deferred' = <<>>
      /\ tx' = new /\ UNCHANGED <<submitted, dispatched, sv>>
  BY DEF handle_kex_reply, Accepted, flush_deferred, counters
<1>2. /\ c2s \in Seq(Packet) /\ Len(c2s) \in Nat /\ tx_seq \in Nat /\ tx \in Nat
      /\ deferred \in Seq(Message) /\ Len(deferred) \in Nat
      /\ submitted \in Nat /\ n \in Int /\ sv.got \in Int
  BY PipeTypes, EarlyTypes
<1>3. new \in Nat /\ seq \in Nat
  <2>1. tx' = tx + 1
    BY ReplyEffect DEF EarlyInv, WireInv
  <2> QED
    BY <1>1, <1>2, <2>1 DEF SeqAfterNewKeys
<1>4. nk \in Packet /\ nk.type = "NEWKEYS"
  BY <1>2, MsgType DEF Seal, Msg, Packet, MsgTypes, KexTypes
<1>5. /\ rest \in Seq(Packet) /\ Len(rest) = Len(deferred)
      /\ \A i \in 1..Len(deferred) : rest[i] = Seal(deferred[i], new, seq + i - 1)
  BY <1>2, <1>3, SealAllType
<1> HIDE DEF new, seq, nk, rest
<1>6. /\ v \in Seq(Packet) /\ Len(v) = Len(c2s) + 1 /\ v[Len(c2s) + 1] = nk
      /\ \A i \in 1..Len(c2s) : v[i] = c2s[i]
  BY <1>2, <1>4
<1> HIDE DEF v, n
<1>7. /\ Len(c2s') = Len(v) + Len(deferred)
      /\ \A i \in 1..Len(v) : c2s'[i] = v[i]
      /\ \A i \in 1..Len(deferred) : c2s'[Len(v) + i] = rest[i]
  <2>1. /\ Len(v \o rest) = Len(v) + Len(rest)
        /\ \A i \in 1..(Len(v) + Len(rest)) : (v \o rest)[i] =
              IF i <= Len(v) THEN v[i] ELSE rest[i - Len(v)]
    <3>1. v \in Seq(Packet) /\ rest \in Seq(Packet)
      BY <1>5, <1>6
    <3> QED
      BY ONLY <3>1, ConcatProperties
  <2>2. Len(v) \in Nat /\ Len(rest) \in Nat
    BY <1>2, <1>5, <1>6
  <2> QED
    BY <1>1, <1>5, <2>1, <2>2
<1>8. InOrder(c2s, sv.got, n) /\ InOrder(deferred, n, submitted)
  BY DEF PipeInv, OutboundInOrder, n
<1>9. InOrder(v, sv.got, n)
  <2> DEFINE u == <<nk>>
  <2>1. Len(u) = 1 /\ u[1] = nk
    OBVIOUS
  <2> HIDE DEF u
  <2>2. \A i \in 1..Len(u) : i = 1
    BY <2>1
  <2>3. InOrder(u, n, n)
    BY <1>2, <1>4, <2>1, <2>2, OrderNone
  <2>4. \A i \in 1..Len(u) : v[Len(c2s) + i].type = u[i].type /\ v[Len(c2s) + i].id = u[i].id
    BY <1>6, <2>1, <2>2
  <2>5. /\ Len(u) \in Nat /\ Len(v) = Len(c2s) + Len(u) /\ sv.got \in Int /\ n \in Int
        /\ Len(c2s) \in Nat
    BY <1>2, <1>6, <2>1
  <2>6. \A i \in 1..Len(c2s) : v[i] = c2s[i]
    BY <1>6
  <2>7. InOrder(c2s, sv.got, n)
    BY <1>8
  <2> QED
    BY <2>3, <2>4, <2>5, <2>6, <2>7, OrderConcat
<1>10. \A i \in 1..Len(deferred) : /\ c2s'[Len(v) + i].type = deferred[i].type
                                  /\ c2s'[Len(v) + i].id = deferred[i].id
  <2> TAKE i \in 1..Len(deferred)
  <2>1. c2s'[Len(v) + i] = Seal(deferred[i], new, seq + i - 1)
    BY <1>5, <1>7
  <2> QED
    BY <2>1 DEF Seal
<1>11. InOrder(c2s', sv.got, submitted)
  <2> DEFINE next == c2s'
  <2>1. /\ Len(v) \in Nat /\ Len(deferred) \in Nat
        /\ sv.got \in Int /\ n \in Int /\ submitted \in Int
    BY <1>2, <1>6
  <2>2. Len(next) = Len(v) + Len(deferred) /\ \A i \in 1..Len(v) : next[i] = v[i]
    BY <1>7
  <2>3. \A i \in 1..Len(deferred) : /\ next[Len(v) + i].type = deferred[i].type
                                    /\ next[Len(v) + i].id = deferred[i].id
    BY <1>10
  <2>4. InOrder(deferred, n, submitted)
    BY <1>8
  <2> HIDE DEF next
  <2>5. InOrder(next, sv.got, submitted)
    BY <2>1, <2>2, <2>3, <2>4, <1>9, OrderConcat
  <2> QED
    BY <2>5 DEF next
<1>12. OutboundInOrder'
  <2>1. Len(deferred') = 0
    BY <1>1
  <2>2. submitted' - Len(deferred') = submitted /\ submitted \in Int
    BY <1>1, <1>2, <2>1
  <2>3. InOrder(deferred', submitted, submitted)
    BY <2>1, <2>2, OrderNone
  <2> QED
    BY <1>1, <1>11, <2>2, <2>3 DEF OutboundInOrder
<1>13. s2c[1].type # "UP"
  BY <1>1, HeadOpens DEF SealInv, Incoming
<1>14. InboundInOrder'
  BY <1>1, <1>13, InboundRead DEF PipeInv
<1> QED
  BY <1>1, <1>12, <1>14 DEF PipeInv, WaitsForNewKeys

\* The server's NEWKEYS ends the exchange: ours has long left, and nothing waits.
LEMMA PipeNewKeys == TypeOK /\ SealInv /\ EarlyInv /\ HandshakeInv /\ PipeInv /\ handle_newkeys => PipeInv'
<1> SUFFICES ASSUME TypeOK, SealInv, EarlyInv, HandshakeInv, PipeInv, handle_newkeys
             PROVE  PipeInv'
  OBVIOUS
<1> DEFINE T == {"SERVICE_REQUEST"}
<1>1. /\ Incoming({"NEWKEYS"}) /\ s2c[1].type = "NEWKEYS"
      /\ UNCHANGED <<submitted, dispatched, deferred, sv>> /\ KexFinished
  BY NoRefusal, HeadOpens DEF handle_newkeys, Accepted, Incoming, SealInv, counters
<1>2. T \in SUBSET MsgTypes /\ "UP" \notin T /\ "SERVICE_REQUEST" \in T /\ "NEWKEYS" \in KexTypes
  BY DEF MsgTypes, KexTypes
<1>3. PICK h \in Handshakes(sv.method) : h[1] = kex_state /\ h[3] # <<>> /\ h[3][1] = "NEWKEYS"
  BY <1>1, <1>2, ReadsKex
<1>4. kex_state = "WAIT_NEWKEYS"
  BY <1>3, ReadsNewKeys, HsTypes
<1>5. deferred = <<>>
  BY <1>4 DEF EarlyInv, WireInv, FlagsFit, PipeInv, WaitsForNewKeys, ssh_kex_locked
<1>6. Sends(T)
  <2>1. UNCHANGED c2s \/ SendNow(<<>>) \/ SendNow(<<Msg("SERVICE_REQUEST")>>)
    BY <1>1 DEF KexFinished, AuthBegin
  <2> QED
    BY <2>1, <1>2, SendsWhat DEF Sends
<1> QED
  BY <1>1, <1>2, <1>5, <1>6, PipeTalk

-----------------------------------------------------------------------------
(* The server's steps *)

\* What the server adds follows what is on its way to the client.
LEMMA AddsFollow ==
    ASSUME TypeOK, NEW ms, Adds(ms), NEW a \in Int, NEW b \in Int, NEW c \in Int,
           InOrder(s2c, a, b), InOrder(ms, b, c)
    PROVE  InOrder(s2c', a, c)
<1>1. /\ Len(s2c') = Len(s2c) + Len(ms) /\ Len(s2c) \in Nat /\ Len(ms) \in Nat
      /\ \A i \in 1..Len(s2c) : s2c'[i] = s2c[i]
      /\ \A i \in 1..Len(ms) : s2c'[Len(s2c) + i] = Seal(ms[i], sv.tx, sv.tx_seq + i - 1)
  BY PipeTypes DEF Adds
<1>2. \A i \in 1..Len(ms) : /\ s2c'[Len(s2c) + i].type = ms[i].type
                            /\ s2c'[Len(s2c) + i].id = ms[i].id
  <2> TAKE i \in 1..Len(ms)
  <2>1. s2c'[Len(s2c) + i] = Seal(ms[i], sv.tx, sv.tx_seq + i - 1)
    BY <1>1
  <2> QED
    BY <2>1 DEF Seal
<1> DEFINE next == s2c'
<1>3. Len(next) = Len(s2c) + Len(ms) /\ \A i \in 1..Len(s2c) : next[i] = s2c[i]
  BY <1>1
<1>4. \A i \in 1..Len(ms) : /\ next[Len(s2c) + i].type = ms[i].type
                            /\ next[Len(s2c) + i].id = ms[i].id
  BY <1>2
<1> HIDE DEF next
<1>5. InOrder(next, a, c)
  BY <1>1, <1>3, <1>4, OrderConcat
<1> QED
  BY <1>5 DEF next

\* What of the server's own state a message it sends leaves alone.
LEMMA AddsCounts ==
    ASSUME TypeOK, NEW ms \in Seq(Message), NEW s, SvSend(ms, s)
    PROVE  /\ Adds(ms)
           /\ sv' = [s EXCEPT !.tx_seq = sv.tx_seq + Len(ms)]
BY SvSendEffect DEF Adds

\* The server reads a packet, or none, and says what is no message of the upper layers.
LEMMA PipeSvTalk ==
    ASSUME TypeOK, PipeInv, UNCHANGED client,
           \/ UNCHANGED c2s /\ sv'.got = sv.got
           \/ /\ c2s # <<>> /\ c2s' = Tail(c2s)
              /\ sv'.got = IF c2s[1].type = "UP" THEN sv.got + 1 ELSE sv.got,
           \/ UNCHANGED s2c
           \/ \E ms : Adds(ms) /\ \A k \in 1..Len(ms) : ms[k].type # "UP",
           sv'.up = sv.up
    PROVE  PipeInv'
<1>1. UNCHANGED <<submitted, dispatched, deferred, kex_sent_kexinit, kex_sent_newkeys>>
  BY DEF client
<1>2. /\ dispatched \in Int /\ submitted - Len(deferred) \in Int /\ sv.up \in Int /\ sv.got \in Int
      /\ c2s \in Seq(Packet)
  BY PipeTypes
<1>3. OutboundInOrder'
  <2>1. CASE UNCHANGED c2s /\ sv'.got = sv.got
    BY <1>1, <2>1 DEF PipeInv, OutboundInOrder
  <2>2. CASE /\ c2s # <<>> /\ c2s' = Tail(c2s)
             /\ sv'.got = IF c2s[1].type = "UP" THEN sv.got + 1 ELSE sv.got
    <3>1. InOrder(c2s, sv.got, submitted - Len(deferred))
      BY DEF PipeInv, OutboundInOrder
    <3>2. InOrder(c2s', sv'.got, submitted - Len(deferred))
      BY <1>2, <2>2, <3>1, OrderTail
    <3> QED
      BY <1>1, <3>2 DEF PipeInv, OutboundInOrder
  <2> QED
    BY <2>1, <2>2
<1>4. InboundInOrder'
  <2>1. CASE UNCHANGED s2c
    BY <1>1, <2>1 DEF PipeInv, InboundInOrder
  <2>2. ASSUME NEW ms, Adds(ms), \A k \in 1..Len(ms) : ms[k].type # "UP"
        PROVE  InboundInOrder'
    <3>1. InOrder(ms, sv.up, sv.up)
      BY <1>2, <2>2, OrderNone
    <3>2. InOrder(s2c', dispatched, sv.up)
      BY <1>2, <2>2, <3>1, AddsFollow DEF PipeInv, InboundInOrder
    <3> QED
      BY <1>1, <3>2 DEF InboundInOrder
  <2> QED
    BY <2>1, <2>2
<1> QED
  BY <1>1, <1>3, <1>4 DEF PipeInv, WaitsForNewKeys, ssh_kex_locked

\* The server's exchanges, its messages and its leaving.
LEMMA PipeServer ==
    /\ TypeOK /\ PipeInv
    /\ \/ SvKexInit \/ SvNewKeys \/ SvAccept \/ SvUp \/ SvMisc \/ SvDisconnect
    => PipeInv'
<1> SUFFICES ASSUME TypeOK, PipeInv,
                    \/ SvKexInit \/ SvNewKeys \/ SvAccept \/ SvUp \/ SvMisc \/ SvDisconnect
             PROVE  PipeInv'
  OBVIOUS
<1>0. sv \in SvState /\ UNCHANGED client /\ UNCHANGED c2s
  BY PipeTypes DEF SvKexInit, SvNewKeys, SvAccept, SvUp, SvMisc, SvDisconnect
<1>m. \A t \in {"SERVICE_ACCEPT", "DISCONNECT", "IGNORE", "UNIMPLEMENTED", "OTHER", "GUESS", "NEWKEYS"} :
         Msg(t) \in Message /\ Msg(t).type = t
  BY MsgType DEF Msg, MsgTypes, KexTypes
\* One message that is not of the upper layers.
<1>q. ASSUME NEW m \in Message, m.type # "UP", NEW s, SvSend(<<m>>, s),
             [s EXCEPT !.tx_seq = sv.tx_seq + Len(<<m>>)].up = sv.up,
             [s EXCEPT !.tx_seq = sv.tx_seq + Len(<<m>>)].got = sv.got
      PROVE  PipeInv'
  <2> DEFINE ms == <<m>>
  <2>1. ms \in Seq(Message) /\ Len(ms) = 1 /\ ms[1] = m /\ SvSend(ms, s)
    BY <1>q, MsgSeq
  <2>2. Adds(ms) /\ sv' = [s EXCEPT !.tx_seq = sv.tx_seq + Len(ms)]
    BY <2>1, AddsCounts
  <2>3. sv'.up = sv.up /\ sv'.got = sv.got
    BY <1>q, <2>2
  <2> HIDE DEF ms
  <2>4. \A k \in 1..Len(ms) : ms[k].type # "UP"
    BY <1>q, <2>1
  <2> QED
    BY <1>0, <2>2, <2>3, <2>4, PipeSvTalk
<1>1. CASE SvKexInit
  <2>1. PICK opt \in SUBSET Options :
           SvSend(<<[type |-> "KEXINIT", id |-> 0, opt |-> opt]>> \o
                  (IF "guess" \in opt THEN <<Msg("GUESS")>> ELSE <<>>),
                  [sv EXCEPT !.kex = "sent", !.exch = @ + 1, !.method = MethodOf(opt)])
    BY <1>1 DEF SvKexInit
  <2> DEFINE p == [type |-> "KEXINIT", id |-> 0, opt |-> opt]
             ms == <<p>> \o (IF "guess" \in opt THEN <<Msg("GUESS")>> ELSE <<>>)
             s == [sv EXCEPT !.kex = "sent", !.exch = @ + 1, !.method = MethodOf(opt)]
  <2>2. p \in Message /\ p.type = "KEXINIT" /\ Msg("GUESS") \in Message
    BY <1>m DEF Message, MsgTypes, KexTypes
  <2>3. Msg("GUESS").type = "GUESS"
    BY <1>m
  <2> HIDE DEF p
  <2>4. /\ ms \in Seq(Message)
        /\ \A k \in 1..Len(ms) : ms[k] = p \/ ms[k] = Msg("GUESS")
    <3> DEFINE q == Msg("GUESS")
    <3>1. p \in Message /\ q \in Message
      BY <2>2
    <3> HIDE DEF q
    <3>2. /\ <<p>> \o <<q>> \in Seq(Message) /\ Len(<<p>> \o <<q>>) = 2
          /\ (<<p>> \o <<q>>)[1] = p /\ (<<p>> \o <<q>>)[2] = q
      BY <3>1
    <3>3. <<p>> \o <<>> \in Seq(Message) /\ Len(<<p>> \o <<>>) = 1 /\ (<<p>> \o <<>>)[1] = p
      BY <3>1
    <3>4. ms = <<p>> \o <<q>> \/ ms = <<p>> \o <<>>
      BY DEF q
    <3> HIDE DEF ms
    <3>5. CASE ms = <<p>> \o <<q>>
      <4>1. \A k \in 1..Len(ms) : k = 1 \/ k = 2
        BY <3>2, <3>5
      <4> QED
        BY <3>2, <3>5, <4>1 DEF q
    <3>6. CASE ms = <<p>> \o <<>>
      <4>1. \A k \in 1..Len(ms) : k = 1
        BY <3>3, <3>6
      <4> QED
        BY <3>3, <3>6, <4>1
    <3> QED
      BY <3>4, <3>5, <3>6
  <2>5. SvSend(ms, s)
    BY <2>1 DEF p
  <2> HIDE DEF ms
  <2>6. Adds(ms) /\ sv' = [s EXCEPT !.tx_seq = sv.tx_seq + Len(ms)]
    BY <2>4, <2>5, AddsCounts
  <2>7. sv'.up = sv.up /\ sv'.got = sv.got
    BY <1>0, <2>6 DEF SvState
  <2>8. \A k \in 1..Len(ms) : ms[k].type # "UP"
    BY <2>2, <2>3, <2>4
  <2> QED
    BY <1>0, <2>6, <2>7, <2>8, PipeSvTalk
<1>2. CASE SvNewKeys
  <2>1. /\ s2c' = Append(s2c, Seal(Msg("NEWKEYS"), sv.tx, sv.tx_seq))
        /\ sv' = [sv EXCEPT !.kex = "newkeys", !.tx = sv.exch,
                            !.tx_seq = IF sv.strict THEN 0 ELSE @ + 1]
    BY <1>2 DEF SvNewKeys
  <2> DEFINE ms == <<Msg("NEWKEYS")>>
  <2>2. ms \in Seq(Message) /\ Len(ms) = 1 /\ ms[1] = Msg("NEWKEYS")
    BY <1>m, MsgSeq
  <2> HIDE DEF ms
  <2>3. \A k \in 1..Len(ms) : k = 1 /\ ms[k] = Msg("NEWKEYS")
    BY <2>2
  <2>4. /\ Len(s2c') = Len(s2c) + 1 /\ \A i \in 1..Len(s2c) : s2c'[i] = s2c[i]
        /\ s2c'[Len(s2c) + 1] = Seal(Msg("NEWKEYS"), sv.tx, sv.tx_seq)
    BY <2>1, PipeTypes
  <2>5. sv.tx_seq \in Nat /\ sv.tx_seq + 1 - 1 = sv.tx_seq
    BY <1>0, SvFields
  <2>6. Adds(ms)
    BY <2>2, <2>3, <2>4, <2>5 DEF Adds
  <2>7. sv'.up = sv.up /\ sv'.got = sv.got
    BY <1>0, <2>1 DEF SvState
  <2>8. \A k \in 1..Len(ms) : ms[k].type # "UP"
    BY <1>m, <2>3
  <2> QED
    BY <1>0, <2>6, <2>7, <2>8, PipeSvTalk
<1>3. CASE SvAccept
  <2>1. SvSend(<<Msg("SERVICE_ACCEPT")>>, [sv EXCEPT !.owe = FALSE])
    BY <1>3 DEF SvAccept
  <2> QED
    BY <1>0, <1>m, <1>q, <2>1 DEF SvState
<1>4. CASE SvUp
  <2> DEFINE m == Up(sv.up + 1)
             ms == <<m>>
             s == [sv EXCEPT !.up = @ + 1]
  <2>1. SvSend(ms, s) /\ sv.up \in Nat /\ dispatched \in Nat
    BY <1>0, <1>4, PipeTypes DEF SvUp
  <2>2. sv.up + 1 \in Nat
    BY <2>1
  <2>3. m \in Message /\ m.type = "UP" /\ m.id = sv.up + 1
    BY <2>2, MsgType DEF Up
  <2> HIDE DEF m
  <2>4. ms \in Seq(Message) /\ Len(ms) = 1 /\ ms[1] = m
    BY <2>3, MsgSeq
  <2> HIDE DEF ms
  <2>5. Adds(ms) /\ sv' = [s EXCEPT !.tx_seq = sv.tx_seq + Len(ms)]
    BY <2>1, <2>4, AddsCounts
  <2>6. sv'.up = sv.up + 1 /\ sv'.got = sv.got
    BY <1>0, <2>5 DEF SvState
  <2>7. InOrder(ms, sv.up, sv.up + 1)
    BY <2>1, <2>3, <2>4, OrderOne
  <2>8. InOrder(s2c', dispatched, sv.up + 1)
    BY <2>1, <2>2, <2>5, <2>7, AddsFollow DEF PipeInv, InboundInOrder
  <2>9. UNCHANGED <<submitted, dispatched, deferred, kex_sent_kexinit, kex_sent_newkeys>>
    BY <1>0 DEF client
  <2> QED
    BY <1>0, <2>6, <2>8, <2>9
       DEF PipeInv, OutboundInOrder, InboundInOrder, WaitsForNewKeys, ssh_kex_locked
<1>5. CASE SvMisc
  <2>1. PICK type \in {"IGNORE", "UNIMPLEMENTED", "OTHER"} :
           SvSend(<<Msg(type)>>, [sv EXCEPT !.misc = @ + 1])
    BY <1>5 DEF SvMisc
  <2>2. Msg(type) \in Message /\ Msg(type).type # "UP"
    BY <1>m
  <2> QED
    BY <1>0, <1>q, <2>1, <2>2 DEF SvState
<1>6. CASE SvDisconnect
  <2>1. SvSend(<<Msg("DISCONNECT")>>, [sv EXCEPT !.gone = TRUE])
    BY <1>6 DEF SvDisconnect
  <2> QED
    BY <1>0, <1>m, <1>q, <2>1 DEF SvState
<1> QED
  BY <1>1, <1>2, <1>3, <1>4, <1>5, <1>6

\* The server takes in the next packet, and answers a step of the exchange at once.
LEMMA PipeSvRecv == TypeOK /\ PipeInv /\ SvRecv => PipeInv'
<1> SUFFICES ASSUME TypeOK, PipeInv, SvRecv PROVE PipeInv'
  OBVIOUS
<1> DEFINE p == Head(c2s)
           next == [sv EXCEPT !.rx_seq = @ + 1]
<1>1. UNCHANGED client /\ c2s # <<>> /\ c2s' = Tail(c2s) /\ sv \in SvState
  BY PipeTypes DEF SvRecv
<1>2. p = c2s[1]
  BY <1>1, PipeTypes, HeadTailProperties
\* One answer.
<1>q. ASSUME NEW m \in Message, m.type # "UP", p.type # "UP", NEW s, SvSend(<<m>>, s),
             [s EXCEPT !.tx_seq = sv.tx_seq + Len(<<m>>)].up = sv.up,
             [s EXCEPT !.tx_seq = sv.tx_seq + Len(<<m>>)].got = sv.got
      PROVE  PipeInv'
  <2> DEFINE ms == <<m>>
  <2>1. ms \in Seq(Message) /\ Len(ms) = 1 /\ ms[1] = m /\ SvSend(ms, s)
    BY <1>q, MsgSeq
  <2>2. Adds(ms) /\ sv' = [s EXCEPT !.tx_seq = sv.tx_seq + Len(ms)]
    BY <2>1, AddsCounts
  <2>3. sv'.up = sv.up /\ sv'.got = sv.got
    BY <1>q, <2>2
  <2> HIDE DEF ms
  <2>4. \A k \in 1..Len(ms) : ms[k].type # "UP"
    BY <1>q, <2>1
  <2>5. sv'.got = IF c2s[1].type = "UP" THEN sv.got + 1 ELSE sv.got
    BY <1>2, <1>q, <2>3
  <2> QED
    BY <1>1, <2>2, <2>3, <2>4, <2>5, PipeSvTalk
\* No answer.
<1>s. ASSUME UNCHANGED s2c, sv'.up = sv.up,
             sv'.got = IF p.type = "UP" THEN sv.got + 1 ELSE sv.got
      PROVE  PipeInv'
  BY <1>1, <1>2, <1>s, PipeSvTalk
<1>3. CASE p.type \in {"KEX_INIT", "GEX_INIT"}
  <2> DEFINE m == [type |-> IF p.type = "KEX_INIT" THEN "KEX_REPLY" ELSE "GEX_REPLY",
                   id |-> sv.exch, opt |-> {}]
             s == [next EXCEPT !.kex = "replied"]
  <2>1. SvSend(<<m>>, s)
    BY <1>3 DEF SvRecv
  <2>2. sv.exch \in Nat
    BY <1>1, SvFields
  <2>3. m \in Message /\ m.type # "UP"
    BY <2>2 DEF Message, MsgTypes, KexTypes
  <2> HIDE DEF m
  <2>4. /\ [s EXCEPT !.tx_seq = sv.tx_seq + Len(<<m>>)].up = sv.up
        /\ [s EXCEPT !.tx_seq = sv.tx_seq + Len(<<m>>)].got = sv.got
    BY <1>1 DEF SvState
  <2> HIDE DEF s
  <2> QED
    BY <1>3, <1>q, <2>1, <2>3, <2>4
<1>4. CASE p.type = "GEX_REQUEST"
  <2> DEFINE m == Msg("GEX_GROUP")
             s == [next EXCEPT !.kex = "group"]
  <2>1. SvSend(<<m>>, s)
    BY <1>4 DEF SvRecv
  <2>2. m \in Message /\ m.type # "UP"
    BY MsgType DEF Msg, MsgTypes, KexTypes
  <2> HIDE DEF m
  <2>3. /\ [s EXCEPT !.tx_seq = sv.tx_seq + Len(<<m>>)].up = sv.up
        /\ [s EXCEPT !.tx_seq = sv.tx_seq + Len(<<m>>)].got = sv.got
    BY <1>1 DEF SvState
  <2> HIDE DEF s
  <2> QED
    BY <1>4, <1>q, <2>1, <2>2, <2>3
<1>5. CASE p.type = "UP"
  <2>1. sv' = [next EXCEPT !.got = @ + 1] /\ UNCHANGED s2c
    BY <1>5 DEF SvRecv
  <2>2. sv'.up = sv.up /\ sv'.got = sv.got + 1
    BY <1>1, <2>1 DEF SvState
  <2> QED
    BY <1>5, <1>s, <2>1, <2>2
<1>6. CASE p.type = "NEWKEYS"
  <2>1. /\ sv' = [sv EXCEPT !.kex = "idle", !.in_kex = FALSE, !.rx = sv.exch,
                            !.rx_seq = IF sv.strict THEN 0 ELSE @ + 1]
        /\ UNCHANGED s2c
    BY <1>6 DEF SvRecv
  <2>2. sv'.up = sv.up /\ sv'.got = sv.got
    BY <1>1, <2>1 DEF SvState
  <2> QED
    BY <1>6, <1>s, <2>1, <2>2
<1>7. CASE p.type \notin {"KEX_INIT", "GEX_INIT", "GEX_REQUEST", "UP", "NEWKEYS"}
  <2>1. /\ UNCHANGED s2c
        /\ \/ sv' = [next EXCEPT !.in_kex = TRUE] \/ sv' = [next EXCEPT !.owe = TRUE]
           \/ sv' = [next EXCEPT !.gone = TRUE] \/ sv' = next
    BY <1>7 DEF SvRecv
  <2>2. sv'.up = sv.up /\ sv'.got = sv.got
    BY <1>1, <2>1 DEF SvState
  <2> QED
    BY <1>7, <1>s, <2>1, <2>2
<1> QED
  BY <1>3, <1>4, <1>5, <1>6, <1>7

-----------------------------------------------------------------------------
(* The invariant, and the refinement *)

\* At the start nothing is under way.
LEMMA PipeInit == Init => PipeInv
<1> SUFFICES ASSUME Init PROVE PipeInv
  OBVIOUS
<1>1. /\ c2s = <<>> /\ s2c = <<>> /\ deferred = <<>> /\ submitted = 0 /\ dispatched = 0
      /\ sv.got = 0 /\ sv.up = 0
  BY DEF Init
<1>2. Len(c2s) = 0 /\ Len(s2c) = 0 /\ Len(deferred) = 0
  BY <1>1
<1>3. InOrder(c2s, 0, 0) /\ InOrder(s2c, 0, 0) /\ InOrder(deferred, 0, 0)
  BY <1>2, OrderNone
<1>4. submitted - Len(deferred) = 0
  <2>1. 0 - 0 = 0
    OBVIOUS
  <2> QED
    BY <1>1, <1>2, <2>1, Zenon
<1> QED
  BY <1>1, <1>3, <1>4 DEF PipeInv, OutboundInOrder, WaitsForNewKeys, InboundInOrder

\* Every step keeps it.
LEMMA PipeStep ==
    TypeOK /\ SealInv /\ EarlyInv /\ HandshakeInv /\ PipeInv /\ [Next]_vars => PipeInv'
<1> SUFFICES ASSUME TypeOK, SealInv, EarlyInv, HandshakeInv, PipeInv, [Next]_vars PROVE PipeInv'
  OBVIOUS
<1>1. CASE UNCHANGED vars
  <2>1. /\ UNCHANGED <<c2s, s2c, sv, deferred, submitted, dispatched, kex_sent_kexinit,
                       kex_sent_newkeys>>
    BY <1>1 DEF vars, client
  <2> QED
    BY <2>1 DEF PipeInv, OutboundInOrder, WaitsForNewKeys, InboundInOrder, ssh_kex_locked
<1>2. CASE App \/ read_version
  BY <1>2, PipeApp, PipeRecv
<1>3. CASE Recv
  BY <1>3, PipeRecv, PipeReply, PipeNewKeys DEF Recv
<1>4. CASE Server
  BY <1>4, PipeServer, PipeSvRecv DEF Server
<1> QED
  BY <1>1, <1>2, <1>3, <1>4 DEF Next

\* What a step does to the pipe: a message more, one delivered, the end, or nothing.
Accepts == submitted' = submitted + 1 /\ ~closed /\ ~closed' /\ sv'.got = sv.got
Delivers == sv'.got = sv.got + 1 /\ UNCHANGED <<submitted, closed, deferred>>
Cuts == closed' /\ UNCHANGED <<submitted, deferred>> /\ sv'.got = sv.got
Stays == /\ UNCHANGED <<submitted, closed>> /\ sv'.got = sv.got
         /\ closed => UNCHANGED deferred

\* Every step of the transport is one of these four, seen as a step of the pipe.
LEMMA StepShape == TypeOK /\ [Next]_vars => Accepts \/ Delivers \/ Cuts \/ Stays
<1> SUFFICES ASSUME TypeOK, [Next]_vars PROVE Accepts \/ Delivers \/ Cuts \/ Stays
  OBVIOUS
<1>1. CASE UNCHANGED vars
  BY <1>1 DEF vars, client, Stays
<1>2. CASE App
  <2>1. CASE ssh_start
    BY <2>1 DEF ssh_start, Fail, counters, Cuts, Stays
  <2>2. CASE Submit
    BY <2>2 DEF Submit, Accepts
  <2>3. CASE ssh_send_ignore
    BY <2>3 DEF ssh_send_ignore, Stays
  <2>4. CASE ssh_disconnect
    BY <2>4 DEF ssh_disconnect, counters, Cuts
  <2>5. ASSUME NEW accept \in BOOLEAN, ssh_hostkey_accept(accept) PROVE Cuts \/ Stays
    BY <2>5 DEF ssh_hostkey_accept, counters, Cuts, Stays
  <2> QED
    BY <1>2, <2>1, <2>2, <2>3, <2>4, <2>5 DEF App
<1>3. CASE read_version
  BY <1>3 DEF read_version, Fail, counters, Cuts, Stays
<1>4. CASE RecvFails
  BY <1>4 DEF RecvFails, Fail, counters, Cuts
<1>5. CASE RecvIgnored \/ handle_kexinit \/ handle_gex_group \/ handle_newkeys
  BY <1>5 DEF RecvIgnored, handle_kexinit, handle_gex_group, handle_newkeys, counters, Stays
<1>6. CASE handle_kex_reply
  BY <1>6 DEF handle_kex_reply, Accepted, Incoming, counters, Stays
<1>7. CASE RecvDisconnect
  BY <1>7 DEF RecvDisconnect, counters, Cuts
<1>8. CASE RecvMisc \/ RecvUp
  BY <1>8 DEF RecvMisc, RecvUp, counters, Stays
<1>9. CASE RecvServiceAccept
  BY <1>9 DEF RecvServiceAccept, Accepted, Incoming, Accepts, Stays
<1>10. CASE Server
  <2>0. sv \in SvState /\ UNCHANGED <<submitted, closed, deferred>>
    BY <1>10, PipeTypes
       DEF Server, SvKexInit, SvNewKeys, SvAccept, SvUp, SvMisc, SvDisconnect, SvRecv, client
  <2>1. CASE SvKexInit
    <3>1. sv'.got = sv.got
      BY <2>0, <2>1 DEF SvKexInit, SvSend, SvState
    <3> QED
      BY <2>0, <3>1 DEF Stays
  <2>2. CASE SvNewKeys \/ SvAccept \/ SvUp
    <3>1. sv'.got = sv.got
      BY <2>0, <2>2 DEF SvNewKeys, SvAccept, SvUp, SvSend, SvState
    <3> QED
      BY <2>0, <3>1 DEF Stays
  <2>3. CASE SvMisc \/ SvDisconnect
    <3>1. sv'.got = sv.got
      BY <2>0, <2>3 DEF SvMisc, SvDisconnect, SvSend, SvState
    <3> QED
      BY <2>0, <3>1 DEF Stays
  <2>4. CASE SvRecv
    <3>1. sv'.got = sv.got \/ sv'.got = sv.got + 1
      BY <2>0, <2>4 DEF SvRecv, SvSend, SvState
    <3> QED
      BY <2>0, <3>1 DEF Stays, Delivers
  <2> QED
    BY <1>10, <2>1, <2>2, <2>3, <2>4 DEF Server
<1> QED
  BY <1>1, <1>2, <1>3, <1>4, <1>5, <1>6, <1>7, <1>8, <1>9, <1>10 DEF Next, Recv

\* What is under way: the messages after the last delivered one, up to the last accepted
\* one, or to the last one that left before the session closed.
UnderWay == UpIds(c2s) \cup (IF closed THEN {} ELSE UpIds(deferred))
LastLeft == submitted - Len(deferred)

UnderWayRight ==
    /\ submitted \in Nat /\ sv.got \in Nat /\ LastLeft \in Nat /\ closed \in BOOLEAN
    /\ sv.got <= LastLeft /\ LastLeft <= submitted
    /\ UnderWay = (sv.got + 1)..(IF closed THEN LastLeft ELSE submitted)

\* The messages under way are exactly the numbers between the two counts of the pipe.
LEMMA WhatIsUnderWay == TypeOK /\ PipeInv => UnderWayRight
<1> SUFFICES ASSUME TypeOK, PipeInv PROVE UnderWayRight
  OBVIOUS
<1>1. submitted \in Nat /\ sv.got \in Nat /\ Len(deferred) \in Nat /\ closed \in BOOLEAN
  BY PipeTypes DEF TypeOK, FlagsOK
<1>2. /\ sv.got <= LastLeft /\ UpIds(c2s) = (sv.got + 1)..LastLeft
      /\ LastLeft <= submitted /\ UpIds(deferred) = (LastLeft + 1)..submitted
  BY DEF PipeInv, OutboundInOrder, InOrder, LastLeft
<1>3. LastLeft \in Nat
  BY <1>1, <1>2 DEF LastLeft
<1> HIDE DEF LastLeft
<1>4. UnderWay = (sv.got + 1)..(IF closed THEN LastLeft ELSE submitted)
  <2>1. CASE closed
    BY <1>2, <2>1 DEF UnderWay
  <2>2. CASE ~closed
    <3>1. \A m : m \in UnderWay <=> m \in (sv.got + 1)..submitted
      <4> TAKE m
      <4>1. m \in UnderWay <=> m \in (sv.got + 1)..LastLeft \/ m \in (LastLeft + 1)..submitted
        BY <1>2, <2>2 DEF UnderWay
      <4> QED
        BY <1>1, <1>2, <1>3, <4>1
    <3> QED
      BY <2>2, <3>1, SameSet
  <2> QED
    BY <2>1, <2>2
<1> QED
  BY <1>1, <1>2, <1>3, <1>4 DEF UnderWayRight

\* Every step of the transport is a step of the pipe, or none.
LEMMA PipeSteps ==
    ASSUME TypeOK, TypeOK', PipeInv, PipeInv', [Next]_vars
    PROVE  [Pipe!Next]_Pipe!vars
<1>1. Accepts \/ Delivers \/ Cuts \/ Stays
  BY StepShape
<1>2. /\ submitted \in Nat /\ sv.got \in Nat /\ LastLeft \in Nat /\ closed \in BOOLEAN
      /\ sv.got <= LastLeft /\ LastLeft <= submitted
      /\ UnderWay = (sv.got + 1)..(IF closed THEN LastLeft ELSE submitted)
  BY WhatIsUnderWay DEF UnderWayRight
<1>r. UnderWayRight'
  BY WhatIsUnderWay, PTL
<1>3. /\ sv'.got <= LastLeft' /\ LastLeft' <= submitted' /\ closed' \in BOOLEAN
      /\ UnderWay' = (sv'.got + 1)..(IF closed' THEN LastLeft' ELSE submitted')
      /\ sv'.got \in Nat /\ submitted' \in Nat /\ LastLeft' \in Nat
  BY <1>r DEF UnderWayRight
<1>4. UNCHANGED <<submitted, deferred>> => LastLeft' = LastLeft
  BY DEF LastLeft
<1>5. CASE Accepts
  <2>1. UnderWay' = UnderWay \cup {submitted + 1}
    <3>1. \A m : m \in UnderWay' <=> m \in UnderWay \cup {submitted + 1}
      <4> TAKE m
      <4>1. m \in UnderWay' <=> m \in (sv.got + 1)..(submitted + 1)
        BY <1>3, <1>5 DEF Accepts
      <4>2. m \in UnderWay <=> m \in (sv.got + 1)..submitted
        BY <1>2, <1>5 DEF Accepts
      <4> QED
        BY <1>2, <4>1, <4>2
    <3> QED
      BY <3>1, SameSet
  <2>2. ~closed /\ closed' = closed /\ submitted' = submitted + 1 /\ sv'.got = sv.got
    BY <1>2, <1>3, <1>5 DEF Accepts
  <2>3. Pipe!Accept
    BY <2>1, <2>2 DEF Pipe!Accept, UnderWay
  <2> QED
    BY <2>3 DEF Pipe!Next
<1>6. CASE Delivers
  <2>1. LastLeft' = LastLeft /\ sv'.got = sv.got + 1 /\ UNCHANGED <<submitted, closed>>
    BY <1>4, <1>6 DEF Delivers
  <2>2. sv.got + 1 \in UnderWay
    BY <1>2, <1>3, <2>1
  <2>3. \A m : m \in UnderWay' <=> m \in UnderWay \ {sv.got + 1}
    <3> TAKE m
    <3> DEFINE last == IF closed THEN LastLeft ELSE submitted
    <3>1. UnderWay = (sv.got + 1)..last /\ UnderWay' = (sv.got + 2)..last /\ last \in Nat
      BY <1>2, <1>3, <2>1
    <3> HIDE DEF last
    <3> QED
      BY <1>2, <3>1
  <2>4. UnderWay' = UnderWay \ {sv.got + 1}
    BY <2>3, SameSet
  <2>5. Pipe!Deliver
    BY <2>1, <2>2, <2>4 DEF Pipe!Deliver, UnderWay
  <2> QED
    BY <2>5 DEF Pipe!Next
<1>7. CASE Cuts
  <2>1. LastLeft' = LastLeft /\ sv'.got = sv.got /\ UNCHANGED submitted /\ closed' = TRUE
    BY <1>3, <1>4, <1>7 DEF Cuts
  <2>2. \A m : m \in UnderWay' <=> m \in {k \in UnderWay : k <= LastLeft}
    <3> TAKE m
    <3> DEFINE last == IF closed THEN LastLeft ELSE submitted
    <3>1. UnderWay = (sv.got + 1)..last /\ UnderWay' = (sv.got + 1)..LastLeft
          /\ last \in Nat /\ LastLeft <= last
      BY <1>2, <1>3, <2>1
    <3> HIDE DEF last
    <3> QED
      BY <1>2, <3>1
  <2>3. UnderWay' = {k \in UnderWay : k <= LastLeft}
    BY <2>2, SameSet
  <2>4. LastLeft \in 0..submitted
    BY <1>2
  <2>5. \E n \in 0..submitted : UnderWay' = {k \in UnderWay : k <= n}
    BY <2>3, <2>4
  <2>6. Pipe!Cut
    BY <2>1, <2>5 DEF Pipe!Cut, UnderWay
  <2> QED
    BY <2>6 DEF Pipe!Next
<1>8. CASE Stays
  <2>1. UNCHANGED <<submitted, closed>> /\ sv'.got = sv.got /\ (closed => LastLeft' = LastLeft)
    BY <1>4, <1>8 DEF Stays
  <2>2. UnderWay' = UnderWay
    BY <1>2, <1>3, <2>1
  <2> QED
    BY <2>1, <2>2 DEF Pipe!vars, UnderWay
<1> QED
  BY <1>1, <1>5, <1>6, <1>7, <1>8

\* For every number of key exchanges and messages: the transport is an ordered pipe for
\* the messages of the upper layers (ssh_send_packet and its queue, flush_deferred), and
\* hands up those of the server in order, none swallowed.
THEOREM PipeImplemented == Spec => ImplementsPipe
<1>1. Init => Pipe!Init
  <2> SUFFICES ASSUME Init PROVE Pipe!Init
    OBVIOUS
  <2>1. c2s = <<>> /\ deferred = <<>> /\ submitted = 0 /\ sv.got = 0 /\ closed = FALSE
    BY DEF Init
  <2>2. Len(c2s) = 0 /\ Len(deferred) = 0
    BY <2>1
  <2>3. UpIds(c2s) = {} /\ UpIds(deferred) = {}
    BY <2>2, InUpIds
  <2> QED
    BY <2>1, <2>3 DEF Pipe!Init
<1>2. TypeOK /\ TypeOK' /\ PipeInv /\ PipeInv' /\ [Next]_vars => [Pipe!Next]_Pipe!vars
  BY PipeSteps
<1>3. PipeInv => InboundInOrder
  BY DEF PipeInv
<1>4. Spec => []EarlyInv
  BY EarlyInit, EarlyStep, TypeCorrect, SealInvariant, PTL DEF Spec
<1>5. Spec => []HandshakeInv
  BY <1>4, HandshakeInit, HandshakeStep, TypeCorrect, SealInvariant, PTL DEF Spec
<1>6. Spec => []PipeInv
  BY <1>4, <1>5, PipeInit, PipeStep, TypeCorrect, SealInvariant, PTL DEF Spec
<1>7. Spec => [][Pipe!Next]_Pipe!vars
  BY <1>2, <1>6, TypeCorrect, PTL DEF Spec
<1>8. Spec => Pipe!Safety
  BY <1>1, <1>7, PTL DEF Spec, Pipe!Safety
<1> QED
  BY <1>3, <1>6, <1>8, PTL DEF ImplementsPipe
=============================================================================
