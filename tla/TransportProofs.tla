-------------------------- MODULE TransportProofs --------------------------
(***************************************************************************)
(* Proofs about Transport, for every number of key exchanges and messages: *)
(* its types; that every packet opens; that nothing leaves too early.      *)
(***************************************************************************)
EXTENDS Transport, SequenceTheorems, TLAPS

-----------------------------------------------------------------------------
(* Sealing and sending *)

\* SealAll seals each message of a list in turn.
LEMMA SealAllType ==
    ASSUME NEW ms \in Seq(Message), NEW key \in Nat, NEW seq \in Nat
    PROVE  /\ SealAll(ms, key, seq) \in Seq(Packet)
           /\ Len(SealAll(ms, key, seq)) = Len(ms)
           /\ \A i \in 1..Len(ms) :
                 SealAll(ms, key, seq)[i] = Seal(ms[i], key, seq + i - 1)
<1>1. \A i \in 1..Len(ms) : Seal(ms[i], key, seq + i - 1) \in Packet
  <2> TAKE i \in 1..Len(ms)
  <2>1. ms[i] \in Message
    BY ElementOfSeq
  <2>2. seq + i - 1 \in Nat
    OBVIOUS
  <2> QED
    BY <2>1, <2>2 DEF Message, Packet, Seal
<1>2. Len(ms) \in Nat
  OBVIOUS
<1>3. SealAll(ms, key, seq) \in [1..Len(ms) -> Packet]
  BY <1>1 DEF SealAll
<1>4. SealAll(ms, key, seq) \in Seq(Packet) /\ Len(SealAll(ms, key, seq)) = Len(ms)
  BY <1>2, <1>3, SeqDef
<1> QED
  BY <1>4 DEF SealAll

\* send_packet_now() for a list of messages leaves what was on the wire in place
\* and puts each message behind it, sealed with the current key and counter.
LEMMA SendNowEffect ==
    ASSUME TypeOK, NEW ms \in Seq(Message), SendNow(ms)
    PROVE  /\ c2s' \in Seq(Packet) /\ tx_seq' \in Nat
           /\ tx_seq' = tx_seq + Len(ms)
           /\ Len(c2s') = Len(c2s) + Len(ms)
           /\ \A i \in 1..Len(c2s) : c2s'[i] = c2s[i]
           /\ \A i \in 1..Len(ms) :
                 c2s'[Len(c2s) + i] = Seal(ms[i], tx, tx_seq + i - 1)
<1>1. tx \in Nat /\ tx_seq \in Nat /\ c2s \in Seq(Packet) /\ Len(ms) \in Nat
  BY DEF TypeOK, CountsOK, QueuesOK, SvOK, SvState
<1>2. /\ SealAll(ms, tx, tx_seq) \in Seq(Packet)
      /\ Len(SealAll(ms, tx, tx_seq)) = Len(ms)
      /\ \A i \in 1..Len(ms) :
            SealAll(ms, tx, tx_seq)[i] = Seal(ms[i], tx, tx_seq + i - 1)
  BY <1>1, SealAllType
<1>3. c2s' = c2s \o SealAll(ms, tx, tx_seq) /\ tx_seq' = tx_seq + Len(ms)
  BY DEF SendNow
<1> DEFINE w == SealAll(ms, tx, tx_seq)
<1>4. /\ c2s \o w \in Seq(Packet)
      /\ Len(c2s \o w) = Len(c2s) + Len(w)
      /\ \A i \in 1..(Len(c2s) + Len(w)) : (c2s \o w)[i] =
            IF i <= Len(c2s) THEN c2s[i] ELSE w[i - Len(c2s)]
  BY <1>1, <1>2, ConcatProperties
<1>5. /\ Len(c2s) \in Nat /\ Len(w) = Len(ms)
      /\ \A i \in 1..Len(ms) : w[i] = Seal(ms[i], tx, tx_seq + i - 1)
  BY <1>1, <1>2
<1>6. c2s' = c2s \o w
  BY <1>3
<1> HIDE DEF w
<1>7. \A i \in 1..Len(c2s) : c2s'[i] = c2s[i]
  BY <1>1, <1>4, <1>5, <1>6
<1>8. \A i \in 1..Len(ms) : c2s'[Len(c2s) + i] = Seal(ms[i], tx, tx_seq + i - 1)
  BY <1>1, <1>4, <1>5, <1>6
<1> QED
  BY <1>1, <1>3, <1>4, <1>5, <1>6, <1>7, <1>8

\* The messages the client makes.
LEMMA MsgType ==
    /\ \A t \in MsgTypes : Msg(t) \in Message
    /\ \A n \in Nat : Up(n) \in Message
BY DEF Msg, Up, Message, MsgTypes

\* The server's sealing, likewise.
LEMMA SvSendEffect ==
    ASSUME TypeOK, NEW ms \in Seq(Message), NEW s, SvSend(ms, s)
    PROVE  /\ s2c' \in Seq(Packet)
           /\ Len(s2c') = Len(s2c) + Len(ms)
           /\ \A i \in 1..Len(s2c) : s2c'[i] = s2c[i]
           /\ \A i \in 1..Len(ms) :
                 s2c'[Len(s2c) + i] = Seal(ms[i], sv.tx, sv.tx_seq + i - 1)
           /\ sv' = [s EXCEPT !.tx_seq = sv.tx_seq + Len(ms)]
<1>1. sv.tx \in Nat /\ sv.tx_seq \in Nat /\ s2c \in Seq(Packet) /\ Len(ms) \in Nat
  BY DEF TypeOK, CountsOK, QueuesOK, SvOK, SvState
<1> DEFINE w == SealAll(ms, sv.tx, sv.tx_seq)
<1>2. /\ w \in Seq(Packet) /\ Len(w) = Len(ms)
      /\ \A i \in 1..Len(ms) : w[i] = Seal(ms[i], sv.tx, sv.tx_seq + i - 1)
  BY <1>1, SealAllType
<1>3. /\ s2c' = s2c \o w
      /\ sv' = [s EXCEPT !.tx_seq = sv.tx_seq + Len(ms)]
  BY DEF SvSend
<1> HIDE DEF w
<1>4. /\ s2c \o w \in Seq(Packet)
      /\ Len(s2c \o w) = Len(s2c) + Len(w)
      /\ \A i \in 1..(Len(s2c) + Len(w)) : (s2c \o w)[i] =
            IF i <= Len(s2c) THEN s2c[i] ELSE w[i - Len(s2c)]
  BY <1>1, <1>2, ConcatProperties
<1>5. Len(s2c) \in Nat
  BY <1>1
<1>6. \A i \in 1..Len(s2c) : s2c'[i] = s2c[i]
  BY <1>1, <1>2, <1>3, <1>4, <1>5
<1>7. \A i \in 1..Len(ms) :
         s2c'[Len(s2c) + i] = Seal(ms[i], sv.tx, sv.tx_seq + i - 1)
  BY <1>1, <1>2, <1>3, <1>4, <1>5
<1> QED
  BY <1>2, <1>3, <1>4, <1>6, <1>7

-----------------------------------------------------------------------------
(* Type correctness *)

\* The initial state has the right types.
LEMMA InitType == Init => TypeOK
<1> SUFFICES ASSUME Init PROVE TypeOK
  OBVIOUS
<1>1. FlagsOK
  BY DEF Init, FlagsOK
<1>2. StatesOK
  BY DEF Init, StatesOK, KexStates, AuthStates, Errors, ContentErrors
<1>3. CountsOK
  BY DEF Init, CountsOK
<1>4. QueuesOK
  <2>1. deferred = <<>> /\ c2s = <<>> /\ s2c = <<>>
    BY DEF Init
  <2> QED
    BY <2>1, EmptySeq DEF QueuesOK
<1>5. SvOK
  BY DEF Init, SvOK, SvState
<1> QED
  BY <1>1, <1>2, <1>3, <1>4, <1>5 DEF TypeOK

\* The messages the client sends at once are lists of messages.
LEMMA MsgSeq ==
    /\ <<>> \in Seq(Message)
    /\ \A m \in Message : <<m>> \in Seq(Message)
    /\ \A ms \in Seq(Message), m \in Message : Append(ms, m) \in Seq(Message)
BY EmptySeq, AppendProperties

\* The application's operations keep the types.
LEMMA AppType == TypeOK /\ App => TypeOK'
<1> SUFFICES ASSUME TypeOK, App PROVE TypeOK'
  OBVIOUS
<1>0. /\ \A t \in MsgTypes : Msg(t) \in Message
      /\ \A n \in Nat : Up(n) \in Message
  BY MsgType
<1>s. \A ms : SendNow(ms) /\ ms \in Seq(Message) => c2s' \in Seq(Packet) /\ tx_seq' \in Nat
  BY SendNowEffect
<1>e. ContentErrors \subseteq Errors
  BY DEF Errors
<1> USE DEF TypeOK, FlagsOK, StatesOK, CountsOK, QueuesOK
<1>1. CASE ssh_start
  <2>2. <<Msg("KEXINIT")>> \in Seq(Message) /\ Append(<<>>, Msg("DISCONNECT")) \in Seq(Message)
    BY <1>0, MsgSeq DEF MsgTypes, KexTypes
  <2>3. c2s' \in Seq(Packet) /\ tx_seq' \in Nat
    BY <1>1, <1>s, <2>2, MsgSeq DEF ssh_start, Fail, KexInit
  <2>4. StatesOK'
    BY <1>1, <1>e DEF ssh_start, Fail, KexStates, ContentErrors
  <2>5. FlagsOK'
    BY <1>1 DEF ssh_start, Fail, gate
  <2> QED
    BY <1>1, <2>3, <2>4, <2>5 DEF ssh_start, keys, counters, SvOK
<1>2. CASE Submit
  <2>1. Up(submitted + 1) \in Message
    BY <1>0
  <2>2. c2s' \in Seq(Packet) /\ tx_seq' \in Nat /\ deferred' \in Seq(Message)
    BY <1>2, <1>s, <2>1, MsgSeq DEF Submit, SendUp
  <2> QED
    BY <1>2, <2>2 DEF Submit, kexflags, gate, keys, SvOK
<1>3. CASE ssh_send_ignore
  <2>1. <<Msg("IGNORE")>> \in Seq(Message)
    BY <1>0, MsgSeq DEF MsgTypes, KexTypes
  <2>2. c2s' \in Seq(Packet) /\ tx_seq' \in Nat
    BY <1>3, <1>s, <2>1 DEF ssh_send_ignore
  <2> QED
    BY <1>3, <2>2 DEF ssh_send_ignore, kexflags, gate, keys, SvOK
<1>4. CASE ssh_disconnect
  <2>1. <<Msg("DISCONNECT")>> \in Seq(Message)
    BY <1>0, MsgSeq DEF MsgTypes, KexTypes
  <2>2. c2s' \in Seq(Packet) /\ tx_seq' \in Nat
    BY <1>4, <1>s, <2>1 DEF ssh_disconnect
  <2> QED
    BY <1>4, <2>2 DEF ssh_disconnect, kexflags, gate, keys, counters, SvOK
<1>5. ASSUME NEW accept \in BOOLEAN, ssh_hostkey_accept(accept)
      PROVE  TypeOK'
  <2>1. <<Msg("DISCONNECT")>> \in Seq(Message) /\ <<Msg("SERVICE_REQUEST")>> \in Seq(Message)
    BY <1>0, MsgSeq DEF MsgTypes, KexTypes
  <2>2. c2s' \in Seq(Packet) /\ tx_seq' \in Nat
    BY <1>5, <1>s, <2>1, MsgSeq DEF ssh_hostkey_accept, AuthBegin
  <2>3. StatesOK'
    BY <1>5, <1>e DEF ssh_hostkey_accept, AuthBegin, AuthStates, ContentErrors, kexflags
  <2>4. FlagsOK'
    BY <1>5 DEF ssh_hostkey_accept, kexflags
  <2> QED
    BY <1>5, <2>2, <2>3, <2>4 DEF ssh_hostkey_accept, kexflags, keys, counters, SvOK
<1> QED
  BY <1>1, <1>2, <1>3, <1>4, <1>5 DEF App

\* The packets the client handles keep the types.
LEMMA RecvType == TypeOK /\ (read_version \/ Recv) => TypeOK'
<1> SUFFICES ASSUME TypeOK, read_version \/ Recv PROVE TypeOK'
  OBVIOUS
<1>0. /\ \A t \in MsgTypes : Msg(t) \in Message
      /\ \A n \in Nat : Up(n) \in Message
  BY MsgType
<1>s. \A ms : SendNow(ms) /\ ms \in Seq(Message) => c2s' \in Seq(Packet) /\ tx_seq' \in Nat
  BY SendNowEffect
<1>e. ContentErrors \subseteq Errors /\ ProtocolErrors \subseteq Errors
  BY DEF Errors
<1> USE DEF TypeOK, FlagsOK, StatesOK, CountsOK, QueuesOK
<1>h. \A types : Incoming(types) => s2c' \in Seq(Packet) /\ Head(s2c) \in Packet
  BY HeadTailProperties DEF Incoming
<1>a. \A types : Accepted(types) => s2c' \in Seq(Packet) /\ Head(s2c) \in Packet
  BY <1>h DEF Accepted
<1>k. /\ KexInit \in Message /\ Msg("DISCONNECT") \in Message
      /\ Msg("GEX_INIT") \in Message /\ Msg("NEWKEYS") \in Message
      /\ Msg("UNIMPLEMENTED") \in Message /\ Msg("SERVICE_REQUEST") \in Message
      /\ \A method : kex_send_init(method) \in Message
  BY <1>0 DEF KexInit, kex_send_init, MsgTypes, KexTypes
<1>1. CASE read_version
  <2>1. c2s' \in Seq(Packet) /\ tx_seq' \in Nat
    BY <1>1, <1>s, <1>k, MsgSeq DEF read_version, Fail
  <2>2. StatesOK'
    BY <1>1, <1>e DEF read_version, Fail, ContentErrors, kexflags
  <2>3. FlagsOK'
    BY <1>1 DEF read_version, Fail, kexflags, gate
  <2> QED
    BY <1>1, <2>1, <2>2, <2>3 DEF read_version, keys, counters, SvOK
<1>2. CASE RecvFails
  <2>1. c2s' \in Seq(Packet) /\ tx_seq' \in Nat
    BY <1>2, <1>s, <1>k, MsgSeq DEF RecvFails, Fail
  <2>2. err' \in Errors
    <3>1. \A p : Refusals(p) \subseteq Errors
      BY <1>e DEF Refusals, ProtocolErrors
    <3>2. \A p : Rejections(p) \subseteq Errors
      BY <1>e DEF Rejections, ContentErrors
    <3> QED
      BY <1>2, <3>1, <3>2 DEF RecvFails, Fail
  <2>3. StatesOK'
    BY <1>2, <2>2 DEF RecvFails, KexStates
  <2>4. FlagsOK'
    BY <1>2 DEF RecvFails, Fail, gate
  <2>5. s2c' \in Seq(Packet)
    <3>1. Incoming(MsgTypes)
      BY <1>2 DEF RecvFails
    <3> QED
      BY <3>1, <1>h
  <2>6. rx_seq' \in Nat
    <3>1. rx_seq' = rx_seq \/ rx_seq' = rx_seq + 1
      BY <1>2 DEF RecvFails
    <3> QED
      BY <3>1
  <2> QED
    BY <1>2, <2>1, <2>3, <2>4, <2>5, <2>6 DEF RecvFails, keys, counters, SvOK
<1>3. CASE RecvIgnored
  <2>1. s2c' \in Seq(Packet)
    <3>1. Incoming(MsgTypes)
      BY <1>3 DEF RecvIgnored
    <3> QED
      BY <3>1, <1>h
  <2>2. FlagsOK'
    BY <1>3 DEF RecvIgnored, gate
  <2>3. StatesOK' /\ CountsOK'
    BY <1>3 DEF RecvIgnored, keys, counters
  <2> QED
    BY <1>3, <2>1, <2>2, <2>3 DEF RecvIgnored, SvOK
<1>4. CASE handle_kexinit
  <2>1. c2s' \in Seq(Packet) /\ tx_seq' \in Nat
    BY <1>4, <1>s, <1>k, MsgSeq DEF handle_kexinit
  <2>2. s2c' \in Seq(Packet)
    <3>1. Accepted({"KEXINIT"})
      BY <1>4 DEF handle_kexinit
    <3> QED
      BY <3>1, <1>a
  <2>3. strict_kex' \in BOOLEAN
    BY <1>4 DEF handle_kexinit, StrictKex
  <2>4. FlagsOK'
    BY <1>4, <2>3 DEF handle_kexinit, gate
  <2>5. StatesOK'
    BY <1>4 DEF handle_kexinit, MethodOf, KexStates
  <2>6. CountsOK'
    BY <1>4, <2>1 DEF handle_kexinit, keys, counters
  <2> QED
    BY <1>4, <2>1, <2>2, <2>4, <2>5, <2>6 DEF handle_kexinit, SvOK
<1>5. CASE handle_gex_group
  <2>1. c2s' \in Seq(Packet) /\ tx_seq' \in Nat
    BY <1>5, <1>s, <1>k, MsgSeq DEF handle_gex_group
  <2> QED
    BY <1>5, <1>a, <2>1 DEF handle_gex_group, keys, gate, counters, KexStates, SvOK
<1>6. CASE handle_kex_reply
  <2> DEFINE new == DeriveKeys(Head(s2c))
             seq == SeqAfterNewKeys(tx_seq)
  <2>1. new \in Nat /\ seq \in Nat /\ s2c' \in Seq(Packet)
    <3>1. Accepted({"KEX_REPLY", "GEX_REPLY"})
      BY <1>6 DEF handle_kex_reply
    <3>2. s2c' \in Seq(Packet) /\ Head(s2c) \in Packet
      BY <3>1, <1>a
    <3> QED
      BY <3>2 DEF DeriveKeys, Packet, SeqAfterNewKeys
  <2>2. Seal(Msg("NEWKEYS"), tx, tx_seq) \in Packet
    BY <1>k DEF Seal, Message, Packet
  <2>3. SealAll(deferred, new, seq) \in Seq(Packet)
    BY <2>1, SealAllType
  <2>4. <<Seal(Msg("NEWKEYS"), tx, tx_seq)>> \in Seq(Packet)
    BY <2>2
  <2>5. c2s' = c2s \o <<Seal(Msg("NEWKEYS"), tx, tx_seq)>> \o SealAll(deferred, new, seq)
    BY <1>6 DEF handle_kex_reply, flush_deferred
  <2>6. c2s' \in Seq(Packet)
    BY <2>3, <2>4, <2>5, ConcatProperties
  <2>7. tx_seq' \in Nat /\ tx' \in Nat /\ rx_next' \in Nat
    BY <1>6, <2>1 DEF handle_kex_reply
  <2>8. deferred' \in Seq(Message)
    BY <1>6, MsgSeq DEF handle_kex_reply
  <2> QED
    BY <1>6, <2>1, <2>6, <2>7, <2>8 DEF handle_kex_reply, gate, counters, KexStates, SvOK
<1>7. CASE handle_newkeys
  <2>1. c2s' \in Seq(Packet) /\ tx_seq' \in Nat
    BY <1>7, <1>s, <1>k, MsgSeq DEF handle_newkeys, KexFinished, AuthBegin
  <2>2. s2c' \in Seq(Packet)
    <3>1. Accepted({"NEWKEYS"})
      BY <1>7 DEF handle_newkeys
    <3> QED
      BY <3>1, <1>a
  <2>3. auth_state' \in AuthStates
    BY <1>7 DEF handle_newkeys, KexFinished, AuthBegin, AuthStates
  <2>4. FlagsOK'
    BY <1>7 DEF handle_newkeys, gate
  <2>5. StatesOK'
    BY <1>7, <2>3 DEF handle_newkeys, KexStates
  <2>6. CountsOK'
    BY <1>7, <2>1 DEF handle_newkeys, counters, SeqAfterNewKeys
  <2> QED
    BY <1>7, <2>1, <2>2, <2>4, <2>5, <2>6 DEF handle_newkeys, SvOK
<1>8. CASE RecvDisconnect
  BY <1>8, <1>a DEF RecvDisconnect, kexflags, keys, gate, counters, SvOK
<1>9. CASE RecvMisc
  <2>1. c2s' \in Seq(Packet) /\ tx_seq' \in Nat
    BY <1>9, <1>s, <1>k, MsgSeq DEF RecvMisc
  <2> QED
    BY <1>9, <1>a, <2>1 DEF RecvMisc, kexflags, keys, gate, counters, SvOK
<1>10. CASE RecvServiceAccept
  <2>1. Up(submitted + 1) \in Message
    BY <1>0
  <2>2. c2s' \in Seq(Packet) /\ tx_seq' \in Nat /\ deferred' \in Seq(Message)
    BY <1>10, <1>s, <2>1, MsgSeq DEF RecvServiceAccept, SendUp
  <2> QED
    BY <1>10, <1>a, <2>2 DEF RecvServiceAccept, kexflags, keys, gate, AuthStates, SvOK
<1>11. CASE RecvUp
  BY <1>11, <1>a DEF RecvUp, kexflags, keys, gate, SvOK
<1> QED
  BY <1>1, <1>2, <1>3, <1>4, <1>5, <1>6, <1>7, <1>8, <1>9, <1>10, <1>11 DEF Recv

\* The fields of the server's state, and changing one of them within its type.
LEMMA SvFields ==
    ASSUME NEW s \in SvState
    PROVE  /\ s.strict \in BOOLEAN /\ s.exch \in Nat /\ s.tx \in Nat /\ s.rx \in Nat
           /\ s.tx_seq \in Nat /\ s.rx_seq \in Nat /\ s.up \in Nat /\ s.got \in Nat
           /\ s.misc \in Nat
BY DEF SvState

\* One of its counters set to a number.
LEMMA SvSetCount ==
    ASSUME NEW s \in SvState, NEW n \in Nat
    PROVE  /\ [s EXCEPT !.exch = n] \in SvState
           /\ [s EXCEPT !.tx = n] \in SvState /\ [s EXCEPT !.rx = n] \in SvState
           /\ [s EXCEPT !.tx_seq = n] \in SvState /\ [s EXCEPT !.rx_seq = n] \in SvState
           /\ [s EXCEPT !.up = n] \in SvState /\ [s EXCEPT !.got = n] \in SvState
           /\ [s EXCEPT !.misc = n] \in SvState
BY DEF SvState

\* One of its flags set.
LEMMA SvSetFlag ==
    ASSUME NEW s \in SvState, NEW b \in BOOLEAN
    PROVE  /\ [s EXCEPT !.in_kex = b] \in SvState
           /\ [s EXCEPT !.owe = b] \in SvState /\ [s EXCEPT !.gone = b] \in SvState
BY DEF SvState

\* The stage of its exchange set.
LEMMA SvSetKex ==
    ASSUME NEW s \in SvState, NEW k \in {"idle", "sent", "group", "replied", "newkeys"}
    PROVE  [s EXCEPT !.kex = k] \in SvState
BY DEF SvState

\* The method of its exchange set.
LEMMA SvSetMethod ==
    ASSUME NEW s \in SvState, NEW m \in {"DH", "GEX"}
    PROVE  [s EXCEPT !.method = m] \in SvState
BY DEF SvState

\* The server's steps keep the types.
LEMMA ServerType == TypeOK /\ Server => TypeOK'
<1> SUFFICES ASSUME TypeOK, Server PROVE TypeOK'
  OBVIOUS
<1>0. /\ \A t \in MsgTypes : Msg(t) \in Message
      /\ \A n \in Nat : Up(n) \in Message
  BY MsgType
<1>s. \A ms \in Seq(Message), s \in SvState : SvSend(ms, s) => s2c' \in Seq(Packet) /\ SvOK'
  <2> SUFFICES ASSUME NEW ms \in Seq(Message), NEW s \in SvState, SvSend(ms, s)
               PROVE  s2c' \in Seq(Packet) /\ SvOK'
    OBVIOUS
  <2>1. s2c' \in Seq(Packet) /\ sv' = [s EXCEPT !.tx_seq = sv.tx_seq + Len(ms)]
    BY SvSendEffect
  <2>2. sv.tx_seq + Len(ms) \in Nat
    BY SMTT(30) DEF TypeOK, SvOK, SvState
  <2> QED
    BY <2>1, <2>2 DEF SvOK, SvState
<1>t. SvOK /\ c2s \in Seq(Packet) /\ s2c \in Seq(Packet)
  BY DEF TypeOK, QueuesOK
<1>m. /\ sv \in SvState /\ sv.exch \in Nat /\ sv.tx_seq \in Nat /\ sv.rx_seq \in Nat
      /\ sv.got \in Nat /\ sv.up \in Nat /\ sv.misc \in Nat
  BY <1>t, SvFields DEF SvOK
<1>n. /\ sv.exch + 1 \in Nat /\ sv.tx_seq + 1 \in Nat /\ sv.rx_seq + 1 \in Nat
      /\ sv.got + 1 \in Nat /\ sv.up + 1 \in Nat /\ sv.misc + 1 \in Nat
      /\ (IF sv.strict THEN 0 ELSE sv.tx_seq + 1) \in Nat
      /\ (IF sv.strict THEN 0 ELSE sv.rx_seq + 1) \in Nat
  BY <1>m
<1>u. UNCHANGED client /\ c2s' \in Seq(Packet) /\ s2c' \in Seq(Packet) /\ SvOK' => TypeOK'
  BY DEF client, TypeOK, FlagsOK, StatesOK, CountsOK, QueuesOK
<1>1. CASE SvKexInit
  <2>1. PICK opt \in SUBSET Options :
           SvSend(<<[type |-> "KEXINIT", id |-> 0, opt |-> opt]>> \o
                  (IF "guess" \in opt THEN <<Msg("GUESS")>> ELSE <<>>),
                  [sv EXCEPT !.kex = "sent", !.exch = @ + 1, !.method = MethodOf(opt)])
    BY <1>1 DEF SvKexInit
  <2> DEFINE ms == <<[type |-> "KEXINIT", id |-> 0, opt |-> opt]>> \o
                   (IF "guess" \in opt THEN <<Msg("GUESS")>> ELSE <<>>)
  <2>2. [type |-> "KEXINIT", id |-> 0, opt |-> opt] \in Message /\ Msg("GUESS") \in Message
    BY <1>0 DEF Message, MsgTypes, KexTypes
  <2>3. /\ <<[type |-> "KEXINIT", id |-> 0, opt |-> opt]>> \in Seq(Message)
        /\ (IF "guess" \in opt THEN <<Msg("GUESS")>> ELSE <<>>) \in Seq(Message)
    BY <2>2, MsgSeq
  <2>4. ms \in Seq(Message) /\ Len(ms) \in Nat
    BY <2>3, ConcatProperties
  <2>5. [sv EXCEPT !.kex = "sent", !.exch = @ + 1, !.method = MethodOf(opt)] \in SvState
    <3>1. MethodOf(opt) \in {"DH", "GEX"}
      BY DEF MethodOf
    <3>2. [[sv EXCEPT !.kex = "sent"] EXCEPT !.exch = sv.exch + 1] \in SvState
      BY <1>m, <1>n, SvSetKex, SvSetCount
    <3> QED
      BY <3>1, <3>2, SvSetMethod
  <2>6. s2c' \in Seq(Packet) /\ SvOK'
    BY <2>1, <2>4, <2>5, <1>s
  <2> QED
    BY <1>1, <1>t, <1>u, <2>6 DEF SvKexInit
<1>2. CASE SvNewKeys
  <2>1. Seal(Msg("NEWKEYS"), sv.tx, sv.tx_seq) \in Packet
    BY <1>0, <1>t DEF Seal, SvOK, SvState, Message, Packet, MsgTypes, KexTypes
  <2>2. s2c' \in Seq(Packet)
    BY <1>2, <1>t, <2>1, AppendProperties DEF SvNewKeys
  <2>3. SvOK'
    BY <1>2, <1>m, <1>n, SvSetKex, SvSetCount DEF SvNewKeys, SvOK
  <2> QED
    BY <1>2, <1>t, <1>u, <2>2, <2>3 DEF SvNewKeys
<1>3. CASE SvAccept
  <2>1. <<Msg("SERVICE_ACCEPT")>> \in Seq(Message)
    BY <1>0, MsgSeq DEF MsgTypes, KexTypes
  <2>2. [sv EXCEPT !.owe = FALSE] \in SvState
    BY <1>t DEF SvOK, SvState
  <2>3. s2c' \in Seq(Packet) /\ SvOK'
    BY <1>3, <1>s, <2>1, <2>2 DEF SvAccept
  <2> QED
    BY <1>3, <1>t, <1>u, <2>3 DEF SvAccept
<1>4. CASE SvUp
  <2>1. <<Up(sv.up + 1)>> \in Seq(Message)
    BY <1>0, <1>t, MsgSeq DEF SvOK, SvState
  <2>2. [sv EXCEPT !.up = @ + 1] \in SvState
    BY <1>m, <1>n, SvSetCount
  <2>3. s2c' \in Seq(Packet) /\ SvOK'
    BY <1>4, <1>s, <2>1, <2>2 DEF SvUp
  <2> QED
    BY <1>4, <1>t, <1>u, <2>3 DEF SvUp
<1>5. CASE SvMisc
  <2>1. PICK type \in {"IGNORE", "UNIMPLEMENTED", "OTHER"} :
           SvSend(<<Msg(type)>>, [sv EXCEPT !.misc = @ + 1])
    BY <1>5 DEF SvMisc
  <2>2. <<Msg(type)>> \in Seq(Message)
    BY <1>0, MsgSeq DEF MsgTypes, KexTypes
  <2>3. [sv EXCEPT !.misc = @ + 1] \in SvState
    BY <1>m, <1>n, SvSetCount
  <2>4. s2c' \in Seq(Packet) /\ SvOK'
    BY <1>s, <2>1, <2>2, <2>3
  <2> QED
    BY <1>5, <1>t, <1>u, <2>4 DEF SvMisc
<1>6. CASE SvDisconnect
  <2>1. <<Msg("DISCONNECT")>> \in Seq(Message)
    BY <1>0, MsgSeq DEF MsgTypes, KexTypes
  <2>2. [sv EXCEPT !.gone = TRUE] \in SvState
    BY <1>t DEF SvOK, SvState
  <2>3. s2c' \in Seq(Packet) /\ SvOK'
    BY <1>6, <1>s, <2>1, <2>2 DEF SvDisconnect
  <2> QED
    BY <1>6, <1>t, <1>u, <2>3 DEF SvDisconnect
<1>7. CASE SvRecv
  <2>1. c2s' \in Seq(Packet) /\ Head(c2s) \in Packet
    BY <1>7, <1>t, HeadTailProperties DEF SvRecv
  <2>2. /\ <<Msg("GEX_GROUP")>> \in Seq(Message)
        /\ \A n \in Nat : \A t \in {"KEX_REPLY", "GEX_REPLY"} :
              <<[type |-> t, id |-> n, opt |-> {}]>> \in Seq(Message)
    BY <1>0, MsgSeq DEF Message, MsgTypes, KexTypes
  <2>3. s2c' \in Seq(Packet) /\ SvOK'
    <3> DEFINE p == Head(c2s)
               next == [sv EXCEPT !.rx_seq = @ + 1]
    <3>0. /\ [next EXCEPT !.kex = "group"] \in SvState
          /\ [next EXCEPT !.kex = "replied"] \in SvState
          /\ sv.exch \in Nat
      BY <1>m, <1>n, SvSetKex, SvSetCount
    <3>1. CASE p.type = "GEX_REQUEST"
      <4>1. SvSend(<<Msg("GEX_GROUP")>>, [next EXCEPT !.kex = "group"])
        BY <1>7, <3>1 DEF SvRecv
      <4> QED
        BY <4>1, <3>0, <2>2, <1>s
    <3>2. CASE p.type \in {"KEX_INIT", "GEX_INIT"}
      <4>1. SvSend(<<[type |-> IF p.type = "KEX_INIT" THEN "KEX_REPLY" ELSE "GEX_REPLY",
                      id |-> sv.exch, opt |-> {}]>>, [next EXCEPT !.kex = "replied"])
        BY <1>7, <3>2 DEF SvRecv
      <4> QED
        BY <4>1, <3>0, <2>2, <1>s
    <3>3. CASE p.type \notin {"GEX_REQUEST", "KEX_INIT", "GEX_INIT"}
      <4>1. next \in SvState
        BY <1>m, <1>n, SvSetCount
      <4>2. /\ [next EXCEPT !.in_kex = TRUE] \in SvState
            /\ [next EXCEPT !.owe = TRUE] \in SvState
            /\ [next EXCEPT !.gone = TRUE] \in SvState
            /\ [next EXCEPT !.got = sv.got + 1] \in SvState
        BY <4>1, <1>n, SvSetFlag, SvSetCount
      <4>3. CASE p.type = "NEWKEYS"
        <5>1. [[sv EXCEPT !.kex = "idle"] EXCEPT !.in_kex = FALSE] \in SvState
          BY <1>m, SvSetKex, SvSetFlag
        <5>2. [[[[sv EXCEPT !.kex = "idle"] EXCEPT !.in_kex = FALSE] EXCEPT !.rx = sv.exch]
                 EXCEPT !.rx_seq = IF sv.strict THEN 0 ELSE sv.rx_seq + 1] \in SvState
          BY <5>1, <1>m, <1>n, SvSetCount
        <5> QED
          BY <1>7, <3>3, <4>3, <5>2, <1>t DEF SvRecv, SvOK
      <4>4. CASE p.type = "UP"
        <5>1. next.got = sv.got
          BY <1>m DEF SvState
        <5> QED
          BY <1>7, <3>3, <4>4, <4>2, <5>1, <1>t DEF SvRecv, SvOK
      <4>5. CASE p.type \notin {"NEWKEYS", "UP"}
        BY <1>7, <3>3, <4>5, <4>1, <4>2, <1>t DEF SvRecv, SvOK
      <4> QED
        BY <4>3, <4>4, <4>5
    <3> QED
      BY <3>1, <3>2, <3>3
  <2> QED
    BY <1>7, <1>u, <2>1, <2>3 DEF SvRecv
<1> QED
  BY <1>1, <1>2, <1>3, <1>4, <1>5, <1>6, <1>7 DEF Server

\* The types are right in every state, whatever the bounds.
THEOREM TypeCorrect == Spec => []TypeOK
<1>1. TypeOK /\ UNCHANGED vars => TypeOK'
  BY DEF vars, client, TypeOK, FlagsOK, StatesOK, CountsOK, QueuesOK, SvOK
<1>2. TypeOK /\ [Next]_vars => TypeOK'
  BY <1>1, AppType, RecvType, ServerType DEF Next
<1> QED
  BY InitType, <1>2, PTL DEF Spec

-----------------------------------------------------------------------------
(***************************************************************************)
(* Every packet opens: the keys and sequence numbers of the two ends agree *)
(* across any number of key exchanges, with and without the counter reset  *)
(* of strict key exchange.  The packets on a wire form a chain from the    *)
(* receiver's key and counter to the sender's; each action either takes    *)
(* its first packet, or adds to its end, or leaves it alone.               *)
(***************************************************************************)
-----------------------------------------------------------------------------
(* Chains of packets *)

\* Taking the first packet moves the receiver to the key and counter after it.
LEMMA ChainRecv ==
    ASSUME NEW w \in Seq(Packet), NEW strict \in BOOLEAN, NEW rkey, NEW rseq,
           NEW skey, NEW sseq, w # <<>>,
           Chain(w, strict, rkey, rseq, skey, sseq)
    PROVE  /\ Head(w) = w[1] /\ w[1] \in Packet
           /\ w[1].key = rkey /\ w[1].seq = rseq
           /\ Chain(Tail(w), strict, NextKey(w[1]), NextSeq(w[1], strict), skey, sseq)
<1>1. Len(w) \in Nat \ {0} /\ Head(w) = w[1] /\ w[1] \in Packet
  BY EmptySeq, ElementOfSeq
<1>2. /\ Tail(w) \in Seq(Packet) /\ Len(Tail(w)) = Len(w) - 1
      /\ \A i \in 1..Len(Tail(w)) : Tail(w)[i] = w[i + 1]
  BY HeadTailProperties
<1>3. /\ w[1].key = rkey /\ w[1].seq = rseq
      /\ \A i \in 1..(Len(w) - 1) :
            w[i + 1].key = NextKey(w[i]) /\ w[i + 1].seq = NextSeq(w[i], strict)
      /\ skey = NextKey(w[Len(w)]) /\ sseq = NextSeq(w[Len(w)], strict)
  BY DEF Chain
<1> DEFINE t == Tail(w)
<1>4. CASE t = <<>>
  <2>1. Len(w) = 1
    BY <1>1, <1>2, <1>4, EmptySeq, SMTT(30)
  <2> QED
    BY <2>1, <1>1, <1>3, <1>4 DEF Chain
<1>5. CASE t # <<>>
  <2>1. Len(t) \in Nat \ {0}
    BY <1>2, <1>5, EmptySeq
  <2>2. t[1].key = NextKey(w[1]) /\ t[1].seq = NextSeq(w[1], strict)
    BY <1>1, <1>2, <1>3, <2>1
  <2>3. \A i \in 1..(Len(t) - 1) :
           t[i + 1].key = NextKey(t[i]) /\ t[i + 1].seq = NextSeq(t[i], strict)
    <3> TAKE i \in 1..(Len(t) - 1)
    <3>1. i \in 1..Len(t) /\ i + 1 \in 1..Len(t) /\ i + 1 \in 1..(Len(w) - 1)
      BY <1>1, <1>2, <2>1
    <3>2. t[i] = w[i + 1] /\ t[i + 1] = w[(i + 1) + 1]
      BY <1>2, <3>1
    <3> QED
      BY <1>3, <3>1, <3>2
  <2>4. t[Len(t)] = w[Len(w)]
    BY <1>1, <1>2, <2>1
  <2> QED
    BY <1>1, <1>3, <1>5, <2>2, <2>3, <2>4 DEF Chain
<1> QED
  BY <1>1, <1>3, <1>4, <1>5

\* A packet sealed with the sender's key and counter extends the chain.
LEMMA ChainSend ==
    ASSUME NEW w \in Seq(Packet), NEW strict \in BOOLEAN, NEW rkey, NEW rseq,
           NEW skey, NEW sseq, NEW v \in Seq(Packet),
           Chain(w, strict, rkey, rseq, skey, sseq),
           Len(v) = Len(w) + 1, \A i \in 1..Len(w) : v[i] = w[i],
           v[Len(v)].key = skey, v[Len(v)].seq = sseq
    PROVE  Chain(v, strict, rkey, rseq, NextKey(v[Len(v)]), NextSeq(v[Len(v)], strict))
<1>1. Len(w) \in Nat /\ Len(v) \in Nat /\ v # <<>>
  BY EmptySeq
<1>2. CASE w = <<>>
  BY <1>1, <1>2, EmptySeq DEF Chain
<1>3. CASE w # <<>>
  <2>1. /\ w[1].key = rkey /\ w[1].seq = rseq
        /\ \A i \in 1..(Len(w) - 1) :
              w[i + 1].key = NextKey(w[i]) /\ w[i + 1].seq = NextSeq(w[i], strict)
        /\ skey = NextKey(w[Len(w)]) /\ sseq = NextSeq(w[Len(w)], strict)
    BY <1>3 DEF Chain
  <2>2. Len(w) >= 1
    BY <1>1, <1>3, EmptySeq
  <2>3. v[1].key = rkey /\ v[1].seq = rseq
    BY <2>1, <2>2, <1>1
  <2>4. \A i \in 1..(Len(v) - 1) :
           v[i + 1].key = NextKey(v[i]) /\ v[i + 1].seq = NextSeq(v[i], strict)
    <3> TAKE i \in 1..(Len(v) - 1)
    <3>1. i \in 1..Len(w) /\ v[i] = w[i]
      BY <1>1
    <3>2. CASE i = Len(w)
      BY <3>1, <3>2, <2>1
    <3>3. CASE i # Len(w)
      <4>1. i \in 1..(Len(w) - 1) /\ i + 1 \in 1..Len(w)
        BY <3>1, <3>3, <1>1
      <4> QED
        BY <4>1, <3>1, <2>1
    <3> QED
      BY <3>2, <3>3
  <2> QED
    BY <1>1, <2>3, <2>4 DEF Chain
<1> QED
  BY <1>2, <1>3

\* So does any number of packets sealed one after the other, none of them NEWKEYS.
LEMMA ChainSendAll ==
    ASSUME NEW w \in Seq(Packet), NEW strict \in BOOLEAN, NEW rkey, NEW rseq,
           NEW skey \in Nat, NEW sseq \in Nat, NEW v \in Seq(Packet), NEW n \in Nat,
           Chain(w, strict, rkey, rseq, skey, sseq),
           Len(v) = Len(w) + n, \A i \in 1..Len(w) : v[i] = w[i],
           \A i \in 1..n : /\ v[Len(w) + i].key = skey
                           /\ v[Len(w) + i].seq = sseq + i - 1
                           /\ v[Len(w) + i].type # "NEWKEYS"
    PROVE  Chain(v, strict, rkey, rseq, skey, sseq + n)
<1>1. Len(w) \in Nat /\ Len(v) \in Nat
  OBVIOUS
<1>2. CASE n = 0
  <2>1. v = w
    BY <1>1, <1>2, SeqEqual
  <2> QED
    BY <1>2, <2>1
<1>3. CASE n # 0
  <2>1. v # <<>> /\ Len(v) = Len(w) + n
    BY <1>1, <1>3, EmptySeq
  <2>2. \A j \in (Len(w) + 1)..Len(v) :
           v[j].key = skey /\ v[j].seq = sseq + (j - Len(w)) - 1 /\ v[j].type # "NEWKEYS"
    <3> TAKE j \in (Len(w) + 1)..Len(v)
    <3>1. j - Len(w) \in 1..n /\ Len(w) + (j - Len(w)) = j
      BY <1>1
    <3> QED
      BY <3>1
  <2>3. skey = NextKey(v[Len(v)]) /\ sseq + n = NextSeq(v[Len(v)], strict)
    <3>1. Len(v) \in (Len(w) + 1)..Len(v) /\ Len(v) - Len(w) = n
      BY <1>1, <1>3
    <3>2. /\ v[Len(v)].key = skey /\ v[Len(v)].seq = sseq + n - 1
          /\ v[Len(v)].type # "NEWKEYS"
      BY <2>2, <3>1
    <3> QED
      BY <3>2, <1>1 DEF NextKey, NextSeq
  <2>4. CASE w = <<>>
    <3>1. Len(w) = 0 /\ skey = rkey /\ sseq = rseq
      BY <2>4, EmptySeq DEF Chain
    <3>2. v[1].key = rkey /\ v[1].seq = rseq
      BY <2>2, <3>1, <1>1, <1>3
    <3>3. \A i \in 1..(Len(v) - 1) :
             v[i + 1].key = NextKey(v[i]) /\ v[i + 1].seq = NextSeq(v[i], strict)
      <4> TAKE i \in 1..(Len(v) - 1)
      <4>1. i \in (Len(w) + 1)..Len(v) /\ i + 1 \in (Len(w) + 1)..Len(v)
        BY <3>1, <1>1
      <4> QED
        BY <4>1, <2>2, <3>1 DEF NextKey, NextSeq
    <3> QED
      BY <2>1, <2>3, <3>2, <3>3 DEF Chain
  <2>5. CASE w # <<>>
    <3>1. /\ w[1].key = rkey /\ w[1].seq = rseq
          /\ \A i \in 1..(Len(w) - 1) :
                w[i + 1].key = NextKey(w[i]) /\ w[i + 1].seq = NextSeq(w[i], strict)
          /\ skey = NextKey(w[Len(w)]) /\ sseq = NextSeq(w[Len(w)], strict)
      BY <2>5 DEF Chain
    <3>2. Len(w) >= 1
      BY <1>1, <2>5, EmptySeq
    <3>3. v[1].key = rkey /\ v[1].seq = rseq
      BY <3>1, <3>2, <1>1
    <3>4. \A i \in 1..(Len(v) - 1) :
             v[i + 1].key = NextKey(v[i]) /\ v[i + 1].seq = NextSeq(v[i], strict)
      <4> TAKE i \in 1..(Len(v) - 1)
      <4>1. CASE i < Len(w)
        <5>1. i \in 1..(Len(w) - 1) /\ i \in 1..Len(w) /\ i + 1 \in 1..Len(w)
          BY <4>1, <1>1
        <5> QED
          BY <5>1, <3>1
      <4>2. CASE i = Len(w)
        <5>1. i \in 1..Len(w) /\ i + 1 \in (Len(w) + 1)..Len(v)
          BY <4>2, <3>2, <1>1, <2>1
        <5>2. v[i] = w[Len(w)] /\ v[i + 1].key = skey /\ v[i + 1].seq = sseq
          BY <4>2, <5>1, <2>2, <1>1
        <5> QED
          BY <5>2, <3>1
      <4>3. CASE i > Len(w)
        <5>1. i \in (Len(w) + 1)..Len(v) /\ i + 1 \in (Len(w) + 1)..Len(v)
          BY <4>3, <1>1
        <5> QED
          BY <5>1, <2>2, <1>1 DEF NextKey, NextSeq
      <4> QED
        BY <4>1, <4>2, <4>3, <1>1
    <3> QED
      BY <2>1, <2>3, <3>3, <3>4 DEF Chain
  <2> QED
    BY <2>4, <2>5
<1> QED
  BY <1>2, <1>3

-----------------------------------------------------------------------------
(* The client's steps *)

\* Messages that are not NEWKEYS, sent now under the present key, extend the
\* chain to the server.
LEMMA TalkKeepsChain ==
    ASSUME TypeOK, TypeOK', UNCHANGED <<tx, sv>>, NEW ms \in Seq(Message),
           \A i \in 1..Len(ms) : ms[i].type # "NEWKEYS", SendNow(ms),
           Chain(c2s, sv.strict, sv.rx, sv.rx_seq, tx, tx_seq)
    PROVE  Chain(c2s, sv.strict, sv.rx, sv.rx_seq, tx, tx_seq)'
<1>1. /\ tx \in Nat /\ tx_seq \in Nat /\ c2s \in Seq(Packet) /\ c2s' \in Seq(Packet)
      /\ Len(ms) \in Nat /\ sv.strict \in BOOLEAN
  BY SvFields, SMTT(30) DEF TypeOK, CountsOK, QueuesOK, SvOK
<1>2. /\ tx_seq' = tx_seq + Len(ms)
      /\ Len(c2s') = Len(c2s) + Len(ms)
      /\ \A i \in 1..Len(c2s) : c2s'[i] = c2s[i]
      /\ \A i \in 1..Len(ms) : c2s'[Len(c2s) + i] = Seal(ms[i], tx, tx_seq + i - 1)
  BY SendNowEffect
<1>3. \A i \in 1..Len(ms) : /\ c2s'[Len(c2s) + i].key = tx
                            /\ c2s'[Len(c2s) + i].seq = tx_seq + i - 1
                            /\ c2s'[Len(c2s) + i].type # "NEWKEYS"
  <2> TAKE i \in 1..Len(ms)
  <2>1. c2s'[Len(c2s) + i] = Seal(ms[i], tx, tx_seq + i - 1) /\ ms[i].type # "NEWKEYS"
    BY <1>2
  <2> QED
    BY <2>1 DEF Seal
<1>4. Chain(c2s', sv.strict, sv.rx, sv.rx_seq, tx, tx_seq + Len(ms))
  BY <1>1, <1>2, <1>3, ChainSendAll
<1> QED
  BY <1>2, <1>4 DEF Chain

\* The first packet the client has not read is sealed as it expects.
LEMMA HeadOpens ==
    ASSUME TypeOK, NEW types, Incoming(types),
           Chain(s2c, sv.strict, rx, rx_seq, sv.tx, sv.tx_seq)
    PROVE  /\ Head(s2c) = s2c[1] /\ s2c[1] \in Packet /\ s2c[1].type \in types
           /\ s2c[1].key = rx /\ s2c[1].seq = rx_seq
           /\ s2c' = Tail(s2c)
           /\ Chain(s2c', sv.strict, NextKey(s2c[1]), NextSeq(s2c[1], sv.strict),
                    sv.tx, sv.tx_seq)
<1>1. s2c \in Seq(Packet) /\ s2c # <<>> /\ sv.strict \in BOOLEAN
  BY SvFields DEF TypeOK, QueuesOK, SvOK, Incoming
<1>2. s2c' = Tail(s2c) /\ Head(s2c).type \in types
  BY DEF Incoming
<1> QED
  BY <1>1, <1>2, ChainRecv

\* What holds of every packet of the server's wire still does without its first.
LEMMA TailKeeps ==
    ASSUME TypeOK, NEW types, Incoming(types)
    PROVE  /\ s2c' \in Seq(Packet) /\ Len(s2c') = Len(s2c) - 1
           /\ \A i \in 1..Len(s2c') : s2c'[i] = s2c[i + 1]
           /\ Len(s2c) \in Nat \ {0}
<1>1. s2c \in Seq(Packet) /\ s2c # <<>> /\ s2c' = Tail(s2c)
  BY DEF TypeOK, QueuesOK, Incoming
<1> QED
  BY <1>1, HeadTailProperties, EmptySeq

\* With one packet read, what SealInv says of the rest still holds.
LEMMA TailShape ==
    ASSUME TypeOK, NEW types, Incoming(types), UNCHANGED <<sv>>, SealInv
    PROVE  /\ ReplyKeys'
           /\ \A i \in 1..Len(s2c') : (s2c'[i].type = "KEXINIT" /\ s2c'[i].key = 0)
                                       => (("strict" \in s2c'[i].opt) <=> sv.strict)
           /\ \A i \in 1..Len(s2c') : (s2c'[i].type = "KEXINIT" /\ "guess" \in s2c'[i].opt)
                                 => i < Len(s2c') /\ s2c'[i + 1].type = "GUESS"
<1>1. /\ Len(s2c') = Len(s2c) - 1 /\ Len(s2c) \in Nat \ {0}
      /\ \A i \in 1..Len(s2c') : s2c'[i] = s2c[i + 1]
  BY TailKeeps
<1>2. \A i \in 1..Len(s2c') : i + 1 \in 1..Len(s2c)
  BY <1>1
<1>3. ReplyKeys'
  BY <1>1, <1>2 DEF SealInv, ReplyKeys
<1>4. \A i \in 1..Len(s2c') : (s2c'[i].type = "KEXINIT" /\ s2c'[i].key = 0)
                              => (("strict" \in s2c'[i].opt) <=> sv.strict)
  BY <1>1, <1>2 DEF SealInv, StrictAgrees
<1>5. ASSUME NEW i \in 1..Len(s2c'), s2c'[i].type = "KEXINIT", "guess" \in s2c'[i].opt
      PROVE  i < Len(s2c') /\ s2c'[i + 1].type = "GUESS"
  <2>1. i + 1 < Len(s2c) /\ s2c[(i + 1) + 1].type = "GUESS"
    BY <1>1, <1>2, <1>5 DEF SealInv, GuessFollows
  <2>2. i + 1 \in 1..Len(s2c')
    BY <2>1, <1>1
  <2> QED
    BY <2>1, <2>2, <1>1
<1> QED
  BY <1>3, <1>4, <1>5

\* What a step of the client that talks, and takes at most one packet that is not
\* NEWKEYS, must still show for SealInv.
LEMMA ClientStep ==
    ASSUME TypeOK, TypeOK', SealInv, UNCHANGED <<sv, keys>>,
           \/ UNCHANGED <<c2s, tx_seq>>
           \/ \E ms \in Seq(Message) :
                 SendNow(ms) /\ \A i \in 1..Len(ms) : ms[i].type # "NEWKEYS",
           \/ closed'
           \/ UNCHANGED <<s2c, rx_seq, closed>>
           \/ /\ \E types : Incoming(types)
              /\ s2c[1].type # "NEWKEYS" /\ rx_seq' = rx_seq + 1,
           ClientKeys', StrictAgrees', ReplyKeys', OnlyUpWaits', GuessFollows'
    PROVE  SealInv'
<1>1. Chain(c2s, sv.strict, sv.rx, sv.rx_seq, tx, tx_seq)'
  <2>1. CASE UNCHANGED <<c2s, tx_seq>>
    BY <2>1 DEF SealInv, keys, Chain
  <2>2. CASE \E ms \in Seq(Message) :
                SendNow(ms) /\ \A i \in 1..Len(ms) : ms[i].type # "NEWKEYS"
    BY <2>2, TalkKeepsChain DEF SealInv, keys
  <2> QED
    BY <2>1, <2>2
<1>2. (~closed => Chain(s2c, sv.strict, rx, rx_seq, sv.tx, sv.tx_seq))'
  <2>1. CASE closed'
    BY <2>1
  <2>2. CASE UNCHANGED <<s2c, rx_seq, closed>>
    BY <2>2 DEF SealInv, keys, Chain
  <2>3. CASE /\ \E types : Incoming(types)
             /\ s2c[1].type # "NEWKEYS" /\ rx_seq' = rx_seq + 1
    <3>1. PICK types : Incoming(types)
      BY <2>3
    <3>2. ~closed
      BY <3>1 DEF Incoming
    <3>3. /\ s2c[1].key = rx /\ s2c[1].seq = rx_seq
          /\ Chain(s2c', sv.strict, NextKey(s2c[1]), NextSeq(s2c[1], sv.strict),
                   sv.tx, sv.tx_seq)
      BY <3>1, <3>2, HeadOpens DEF SealInv
    <3>4. NextKey(s2c[1]) = rx /\ NextSeq(s2c[1], sv.strict) = rx_seq + 1
      BY <3>3, <2>3 DEF NextKey, NextSeq
    <3> QED
      BY <2>3, <3>3, <3>4 DEF keys, Chain
  <2> QED
    BY <2>1, <2>2, <2>3
<1>3. ServerKeys'
  BY DEF SealInv, ServerKeys
<1> QED
  BY <1>1, <1>2, <1>3 DEF SealInv

\* Short lists of messages, none of them NEWKEYS.
LEMMA Talk ==
    /\ \A t \in MsgTypes : t # "NEWKEYS" =>
          /\ <<Msg(t)>> \in Seq(Message)
          /\ \A i \in 1..Len(<<Msg(t)>>) : <<Msg(t)>>[i].type # "NEWKEYS"
    /\ \A n \in Nat :
          /\ <<Up(n)>> \in Seq(Message)
          /\ \A i \in 1..Len(<<Up(n)>>) : <<Up(n)>>[i].type # "NEWKEYS"
    /\ <<>> \in Seq(Message) /\ \A i \in 1..Len(<<>>) : <<>>[i].type # "NEWKEYS"
    /\ \A t, u \in MsgTypes : t # "NEWKEYS" /\ u # "NEWKEYS" =>
          /\ Append(<<Msg(t)>>, Msg(u)) \in Seq(Message)
          /\ \A i \in 1..Len(Append(<<Msg(t)>>, Msg(u))) :
                Append(<<Msg(t)>>, Msg(u))[i].type # "NEWKEYS"
<1>1. \A t \in MsgTypes : Msg(t) \in Message /\ Msg(t).type = t
  BY MsgType DEF Msg
<1>2. \A n \in Nat : Up(n) \in Message /\ Up(n).type = "UP"
  BY MsgType DEF Up
<1>3. \A m : /\ Len(<<m>>) = 1 /\ <<m>>[1] = m
            /\ \A k : /\ Len(Append(<<m>>, k)) = 2
                      /\ Append(<<m>>, k)[1] = m /\ Append(<<m>>, k)[2] = k
  OBVIOUS
<1>4. \A m \in Message : <<m>> \in Seq(Message)
  OBVIOUS
<1>5. \A m, k \in Message : Append(<<m>>, k) \in Seq(Message)
  BY <1>4, MsgSeq
<1>6. \A t \in MsgTypes : t # "NEWKEYS" =>
          /\ <<Msg(t)>> \in Seq(Message)
          /\ \A i \in 1..Len(<<Msg(t)>>) : <<Msg(t)>>[i].type # "NEWKEYS"
  BY <1>1, <1>3, <1>4
<1>7. \A n \in Nat :
          /\ <<Up(n)>> \in Seq(Message)
          /\ \A i \in 1..Len(<<Up(n)>>) : <<Up(n)>>[i].type # "NEWKEYS"
  BY <1>2, <1>3, <1>4
<1>8. ASSUME NEW t \in MsgTypes, NEW u \in MsgTypes, t # "NEWKEYS", u # "NEWKEYS"
      PROVE  /\ Append(<<Msg(t)>>, Msg(u)) \in Seq(Message)
             /\ \A i \in 1..Len(Append(<<Msg(t)>>, Msg(u))) :
                   Append(<<Msg(t)>>, Msg(u))[i].type # "NEWKEYS"
  BY <1>1, <1>3, <1>5, <1>8
<1> QED
  BY <1>6, <1>7, <1>8, EmptySeq

\* The application's operations.
LEMMA SealApp == TypeOK /\ TypeOK' /\ SealInv /\ App => SealInv'
<1> SUFFICES ASSUME TypeOK, TypeOK', SealInv, App PROVE SealInv'
  OBVIOUS
<1> DEFINE Quiet == UNCHANGED <<c2s, tx_seq>>
           Talks == \E ms \in Seq(Message) :
                       SendNow(ms) /\ \A i \in 1..Len(ms) : ms[i].type # "NEWKEYS"
<1>m. {"KEXINIT", "DISCONNECT", "IGNORE", "SERVICE_REQUEST"} \subseteq MsgTypes
  BY DEF MsgTypes, KexTypes
<1>t. /\ \A t \in {"KEXINIT", "DISCONNECT", "IGNORE", "SERVICE_REQUEST"} :
            SendNow(<<Msg(t)>>) => Talks
      /\ \A n \in Nat : SendNow(<<Up(n)>>) => Talks
      /\ SendNow(<<>>) => Talks
  BY <1>m, Talk
<1>i. /\ ClientKeys /\ ReplyKeys /\ StrictAgrees /\ OnlyUpWaits /\ GuessFollows
  BY DEF SealInv
<1>1. CASE ssh_start
  <2>1. UNCHANGED <<sv, keys, s2c, rx_seq, deferred, first_kex_done, strict_kex,
                    ignore_next_packet>>
    BY <1>1 DEF ssh_start
  <2>2. Talks
    <3>1. CASE SendNow(<<KexInit>>)
      BY <3>1, <1>t DEF KexInit
    <3>2. CASE Fail(<<>>, "not enough entropy")
      <4>1. Append(<<>>, Msg("DISCONNECT")) = <<Msg("DISCONNECT")>>
        OBVIOUS
      <4> QED
        BY <3>2, <4>1, <1>t DEF Fail
    <3> QED
      BY <1>1, <3>1, <3>2 DEF ssh_start
  <2>3. closed' \/ UNCHANGED <<s2c, rx_seq, closed>>
    BY <1>1 DEF ssh_start, Fail
  <2>4. ClientKeys' /\ StrictAgrees'
    <3>1. kex_state = "IDLE" /\ (kex_state' = "SENT_INIT" \/ kex_state' = kex_state)
      BY <1>1, <1>i DEF ssh_start, ClientKeys
    <3>2. started' \/ kex_state' = "IDLE"
      BY <1>1, <1>i DEF ssh_start, ClientKeys
    <3> QED
      BY <2>1, <3>1, <3>2, <1>i DEF ClientKeys, StrictAgrees, keys
  <2>5. ReplyKeys' /\ OnlyUpWaits'
    BY <2>1, <1>i DEF ReplyKeys, OnlyUpWaits
  <2>6. GuessFollows'
    <3>1. ~closed
      BY <1>1 DEF ssh_start
    <3> QED
      BY <2>1, <3>1, <1>i DEF GuessFollows
  <2> HIDE DEF Talks
  <2> QED
    BY <2>1, <2>2, <2>3, <2>4, <2>5, <2>6, ClientStep DEF Talks
<1>2. CASE ~ssh_start
  <2>1. UNCHANGED <<sv, keys, s2c, rx_seq, kexflags, started>>
    BY <1>2, Zenon DEF App, Submit, ssh_send_ignore, ssh_disconnect, ssh_hostkey_accept
  <2>2. closed' \/ UNCHANGED <<s2c, rx_seq, closed>>
    BY <1>2, <2>1 DEF App, Submit, ssh_send_ignore, ssh_disconnect, ssh_hostkey_accept
  <2>3. Quiet \/ Talks
    <3>1. CASE Submit
      <4>1. submitted + 1 \in Nat
        BY DEF TypeOK, CountsOK
      <4>2. Quiet \/ SendNow(<<Up(submitted + 1)>>)
        BY <3>1 DEF Submit, SendUp
      <4> QED
        BY <4>1, <4>2, <1>t
    <3>2. CASE ssh_send_ignore
      BY <3>2, <1>t DEF ssh_send_ignore
    <3>3. CASE ssh_disconnect
      BY <3>3, <1>t DEF ssh_disconnect
    <3>4. ASSUME NEW accept \in BOOLEAN, ssh_hostkey_accept(accept)
          PROVE  Quiet \/ Talks
      <4>1. \/ Quiet \/ SendNow(<<>>)
            \/ SendNow(<<Msg("DISCONNECT")>>) \/ SendNow(<<Msg("SERVICE_REQUEST")>>)
        BY <3>4 DEF ssh_hostkey_accept, AuthBegin
      <4> QED
        BY <4>1, <1>t
    <3> QED
      BY <1>2, <3>1, <3>2, <3>3, <3>4 DEF App
  <2>4. OnlyUpWaits'
    <3>1. \/ UNCHANGED deferred
          \/ deferred' = Append(deferred, Up(submitted + 1))
      BY <1>2 DEF App, Submit, SendUp, ssh_send_ignore, ssh_disconnect, ssh_hostkey_accept
    <3>2. deferred \in Seq(Message)
      BY DEF TypeOK, QueuesOK
    <3>3. CASE deferred' = Append(deferred, Up(submitted + 1))
      <4>1. /\ Len(deferred') = Len(deferred) + 1
            /\ \A i \in 1..Len(deferred) : deferred'[i] = deferred[i]
            /\ deferred'[Len(deferred) + 1] = Up(submitted + 1)
        BY <3>2, <3>3, AppendProperties
      <4>2. Up(submitted + 1).type = "UP" /\ Len(deferred) \in Nat
        BY <3>2 DEF Up
      <4> QED
        BY <4>1, <4>2, <1>i DEF OnlyUpWaits
    <3> QED
      BY <3>1, <3>3, <1>i DEF OnlyUpWaits
  <2>5. ClientKeys' /\ StrictAgrees' /\ ReplyKeys'
    BY <2>1, <1>i DEF ClientKeys, StrictAgrees, ReplyKeys, keys, kexflags
  <2>6. GuessFollows'
    <3>1. closed => closed'
      BY <1>2 DEF App, Submit, ssh_send_ignore, ssh_disconnect, ssh_hostkey_accept
    <3> QED
      BY <2>1, <3>1, <1>i DEF GuessFollows, kexflags
  <2> HIDE DEF Quiet, Talks
  <2> QED
    BY <2>1, <2>2, <2>3, <2>4, <2>5, <2>6, ClientStep DEF Quiet, Talks
<1> QED
  BY <1>1, <1>2

\* The version line, and the packets that change no key.
LEMMA SealRecv ==
    /\ TypeOK /\ TypeOK' /\ SealInv
    /\ \/ read_version \/ RecvFails \/ RecvIgnored \/ handle_kexinit \/ handle_gex_group
       \/ RecvDisconnect \/ RecvMisc \/ RecvServiceAccept \/ RecvUp
    => SealInv'
<1> SUFFICES ASSUME TypeOK, TypeOK', SealInv,
                    \/ read_version \/ RecvFails \/ RecvIgnored
                    \/ handle_kexinit \/ handle_gex_group
                    \/ RecvDisconnect \/ RecvMisc \/ RecvServiceAccept \/ RecvUp
             PROVE  SealInv'
  OBVIOUS
<1> DEFINE Quiet == UNCHANGED <<c2s, tx_seq>>
           Talks == \E ms \in Seq(Message) :
                       SendNow(ms) /\ \A i \in 1..Len(ms) : ms[i].type # "NEWKEYS"
           Sends == {"KEXINIT", "DISCONNECT", "UNIMPLEMENTED", "GEX_INIT", "GEX_REQUEST",
                     "KEX_INIT"}
<1>m. Sends \subseteq MsgTypes /\ "NEWKEYS" \notin Sends
  BY DEF MsgTypes, KexTypes
<1>t. /\ \A t \in Sends : SendNow(<<Msg(t)>>) => Talks
      /\ \A t, u \in Sends : SendNow(Append(<<Msg(t)>>, Msg(u))) => Talks
      /\ \A n \in Nat : SendNow(<<Up(n)>>) => Talks
      /\ SendNow(<<>>) => Talks
  BY <1>m, Talk
<1>e. \A m : Append(<<>>, m) = <<m>>
  OBVIOUS
<1>i. /\ ClientKeys /\ ReplyKeys /\ StrictAgrees /\ OnlyUpWaits /\ GuessFollows
      /\ ~closed => Chain(s2c, sv.strict, rx, rx_seq, sv.tx, sv.tx_seq)
  BY DEF SealInv
<1>h. \A types : Incoming(types) => /\ Head(s2c) = s2c[1] /\ s2c[1].type \in types
                                   /\ s2c[1].key = rx /\ ~closed /\ started
                                   /\ Len(s2c) \in Nat \ {0}
  <2> SUFFICES ASSUME NEW types, Incoming(types)
               PROVE  /\ Head(s2c) = s2c[1] /\ s2c[1].type \in types
                      /\ s2c[1].key = rx /\ ~closed /\ started
                      /\ Len(s2c) \in Nat \ {0}
    OBVIOUS
  <2>1. ~closed /\ started
    BY DEF Incoming
  <2> QED
    BY <2>1, <1>i, HeadOpens, TailKeeps
<1>s. \A types : Incoming(types) /\ UNCHANGED sv =>
         /\ ReplyKeys'
         /\ \A i \in 1..Len(s2c') : (s2c'[i].type = "KEXINIT" /\ s2c'[i].key = 0)
                                     => (("strict" \in s2c'[i].opt) <=> sv.strict)
         /\ \A i \in 1..Len(s2c') : (s2c'[i].type = "KEXINIT" /\ "guess" \in s2c'[i].opt)
                               => i < Len(s2c') /\ s2c'[i + 1].type = "GUESS"
  BY TailShape
<1> HIDE DEF Quiet, Talks, Sends
<1>1. CASE read_version
  <2>1. UNCHANGED <<sv, keys, s2c, rx_seq, kexflags, started, deferred>>
    BY <1>1 DEF read_version
  <2>2. Quiet \/ Talks
    BY <1>1, <1>t, <1>e DEF read_version, Fail, Quiet, Sends
  <2>3. (closed' \/ UNCHANGED <<s2c, rx_seq, closed>>) /\ ~closed
    BY <1>1, <2>1 DEF read_version, Fail
  <2>4. ClientKeys' /\ StrictAgrees' /\ ReplyKeys' /\ OnlyUpWaits' /\ GuessFollows'
    BY <2>1, <2>3, <1>i DEF ClientKeys, StrictAgrees, ReplyKeys, OnlyUpWaits, GuessFollows,
                             keys, kexflags
  <2> QED
    BY <2>1, <2>2, <2>3, <2>4, ClientStep DEF Quiet, Talks
<1>2. CASE RecvFails
  <2>1. /\ UNCHANGED <<sv, keys, first_kex_done, strict_kex, deferred, started>>
        /\ closed' /\ Incoming(MsgTypes)
    BY <1>2 DEF RecvFails, Fail
  <2>2. Quiet \/ Talks
    <3>1. \/ SendNow(<<>>) \/ SendNow(<<KexInit>>)
          \/ SendNow(Append(<<>>, Msg("DISCONNECT")))
          \/ SendNow(Append(<<KexInit>>, Msg("DISCONNECT")))
      BY <1>2 DEF RecvFails, Fail
    <3> QED
      BY <3>1, <1>t, <1>e DEF KexInit, Sends
  <2>3. kex_state' = kex_state \/ (kex_state = "IDLE" /\ kex_state' = "SENT_INIT")
    BY <1>2 DEF RecvFails
  <2>4. ClientKeys'
    BY <2>1, <2>3, <1>i, <1>h DEF ClientKeys, keys
  <2>5. StrictAgrees'
    BY <2>1, <2>3, <1>i, <1>s DEF StrictAgrees
  <2>6. ReplyKeys' /\ OnlyUpWaits' /\ GuessFollows'
    BY <2>1, <1>i, <1>s DEF OnlyUpWaits, GuessFollows
  <2> QED
    BY <2>1, <2>2, <2>4, <2>5, <2>6, ClientStep DEF Quiet, Talks
<1>3. CASE RecvIgnored
  <2>1. /\ UNCHANGED <<sv, keys, first_kex_done, strict_kex, deferred, started, kex_state>>
        /\ Incoming(MsgTypes) /\ rx_seq' = rx_seq + 1 /\ Quiet
        /\ ignore_next_packet /\ ~ignore_next_packet' /\ UNCHANGED closed
    BY <1>3 DEF RecvIgnored, Quiet
  <2>2. s2c[1].type # "NEWKEYS"
    BY <2>1, <1>i, <1>h DEF GuessFollows
  <2>3. ClientKeys' /\ StrictAgrees'
    BY <2>1, <1>i, <1>s DEF ClientKeys, StrictAgrees, keys
  <2>4. ReplyKeys' /\ OnlyUpWaits' /\ GuessFollows'
    BY <2>1, <1>i, <1>s DEF OnlyUpWaits, GuessFollows
  <2> QED
    BY <2>1, <2>2, <2>3, <2>4, ClientStep DEF Quiet
<1>4. CASE handle_kexinit
  <2> DEFINE p == Head(s2c)
  <2>1. /\ UNCHANGED <<sv, keys, first_kex_done, deferred, started, closed>>
        /\ Incoming({"KEXINIT"}) /\ rx_seq' = rx_seq + 1
        /\ Refusals(p) = {} /\ ~ignore_next_packet
        /\ kex_state' \in {"WAIT_GROUP", "WAIT_REPLY"}
        /\ strict_kex' = StrictKex(p)
        /\ ignore_next_packet' = IF "guess" \in p.opt THEN TRUE ELSE ignore_next_packet
    BY <1>4 DEF handle_kexinit, Accepted
  <2>2. p = s2c[1] /\ p.type = "KEXINIT" /\ p.key = rx /\ Len(s2c) \in Nat \ {0} /\ started
    BY <2>1, <1>h
  <2>3. Talks
    <3>1. \E t \in Sends : SendNow(Append(<<>>, Msg(t))) \/ SendNow(Append(<<Msg("KEXINIT")>>, Msg(t)))
      BY <1>4 DEF handle_kexinit, kex_send_init, KexInit, Sends
    <3> QED
      BY <3>1, <1>t, <1>e DEF Sends
  <2>4. kex_state \in {"IDLE", "SENT_INIT"}
    BY <2>1, <2>2 DEF Refusals
  <2>5. ClientKeys'
    BY <2>1, <2>2, <2>4, <1>i DEF ClientKeys, keys
  <2>6. strict_kex' = sv.strict
    <3>1. CASE first_kex_done
      BY <2>1, <3>1, <1>i DEF StrictKex, StrictAgrees
    <3>2. CASE ~first_kex_done
      <4>1. p.key = 0
        BY <3>2, <2>2, <1>i DEF ClientKeys
      <4>2. ("strict" \in p.opt) <=> sv.strict
        BY <4>1, <2>2, <1>i DEF StrictAgrees
      <4>3. sv.strict \in BOOLEAN
        BY SvFields DEF TypeOK, SvOK
      <4> QED
        BY <2>1, <3>2, <4>2, <4>3 DEF StrictKex
    <3> QED
      BY <3>1, <3>2
  <2>7. StrictAgrees'
    BY <2>1, <2>6, <1>s DEF StrictAgrees
  <2>8. GuessFollows'
    <3>1. "guess" \in p.opt => 1 < Len(s2c) /\ s2c[2].type = "GUESS"
      BY <2>2, <1>i DEF GuessFollows
    <3>2. /\ s2c' \in Seq(Packet) /\ Len(s2c') = Len(s2c) - 1
          /\ \A i \in 1..Len(s2c') : s2c'[i] = s2c[i + 1]
      BY <2>1, TailKeeps
    <3>3. "guess" \in p.opt => s2c' # <<>> /\ s2c'[1].type = "GUESS"
      BY <3>1, <3>2, <2>2, EmptySeq
    <3> QED
      BY <2>1, <3>3, <1>s DEF GuessFollows
  <2>9. ReplyKeys' /\ OnlyUpWaits'
    BY <2>1, <1>i, <1>s DEF OnlyUpWaits
  <2> HIDE DEF p
  <2>10. s2c[1].type # "NEWKEYS"
    BY <2>2
  <2> QED
    BY <2>1, <2>3, <2>5, <2>7, <2>8, <2>9, <2>10, ClientStep DEF Talks
<1>5. CASE handle_gex_group
  <2>1. /\ UNCHANGED <<sv, keys, first_kex_done, strict_kex, deferred, started, closed,
                       ignore_next_packet>>
        /\ Incoming({"GEX_GROUP"}) /\ rx_seq' = rx_seq + 1
        /\ Refusals(Head(s2c)) = {} /\ ~ignore_next_packet
        /\ kex_state' = "WAIT_REPLY" /\ SendNow(<<Msg("GEX_INIT")>>)
    BY <1>5 DEF handle_gex_group, Accepted
  <2>2. /\ Head(s2c) = s2c[1] /\ s2c[1].type = "GEX_GROUP" /\ started
    BY <2>1, <1>h
  <2>3. Talks
    BY <2>1, <1>t DEF Sends
  <2>4. kex_state = "WAIT_GROUP"
    BY <2>1, <2>2 DEF Refusals
  <2>5. ClientKeys' /\ StrictAgrees'
    BY <2>1, <2>2, <2>4, <1>i, <1>s DEF ClientKeys, StrictAgrees, keys
  <2>6. ReplyKeys' /\ OnlyUpWaits' /\ GuessFollows'
    BY <2>1, <1>i, <1>s DEF OnlyUpWaits, GuessFollows
  <2> QED
    BY <2>1, <2>2, <2>3, <2>5, <2>6, ClientStep DEF Talks
<1>6. CASE RecvDisconnect \/ RecvMisc \/ RecvServiceAccept \/ RecvUp
  <2> DEFINE types == {"DISCONNECT", "IGNORE", "UNIMPLEMENTED", "OTHER", "GUESS",
                       "SERVICE_ACCEPT", "UP"}
  <2>1. UNCHANGED <<sv, keys, kexflags, started>> /\ rx_seq' = rx_seq + 1
    BY <1>6 DEF RecvDisconnect, RecvMisc, RecvServiceAccept, RecvUp
  <2>2. Incoming(types) /\ ~ignore_next_packet
    BY <1>6 DEF RecvDisconnect, RecvMisc, RecvServiceAccept, RecvUp, Accepted, Incoming
  <2>3. s2c[1].type # "NEWKEYS"
    BY <2>2, <1>h
  <2>4. Quiet \/ Talks
    <3>1. submitted + 1 \in Nat
      BY DEF TypeOK, CountsOK
    <3>2. \/ Quiet \/ SendNow(<<>>) \/ SendNow(<<Msg("UNIMPLEMENTED")>>)
          \/ SendNow(<<Up(submitted + 1)>>)
      BY <1>6 DEF RecvDisconnect, RecvMisc, RecvServiceAccept, RecvUp, SendUp, Quiet
    <3> QED
      BY <3>1, <3>2, <1>t DEF Sends
  <2>5. OnlyUpWaits'
    <3>1. UNCHANGED deferred \/ deferred' = Append(deferred, Up(submitted + 1))
      BY <1>6 DEF RecvDisconnect, RecvMisc, RecvServiceAccept, RecvUp, SendUp
    <3>2. deferred \in Seq(Message)
      BY DEF TypeOK, QueuesOK
    <3>3. CASE deferred' = Append(deferred, Up(submitted + 1))
      <4>1. /\ Len(deferred') = Len(deferred) + 1
            /\ \A i \in 1..Len(deferred) : deferred'[i] = deferred[i]
            /\ deferred'[Len(deferred) + 1] = Up(submitted + 1)
        BY <3>2, <3>3, AppendProperties
      <4>2. Up(submitted + 1).type = "UP" /\ Len(deferred) \in Nat
        BY <3>2 DEF Up
      <4> QED
        BY <4>1, <4>2, <1>i DEF OnlyUpWaits
    <3> QED
      BY <3>1, <3>3, <1>i DEF OnlyUpWaits
  <2>6. ClientKeys' /\ StrictAgrees' /\ ReplyKeys' /\ GuessFollows'
    BY <2>1, <2>2, <1>i, <1>s DEF ClientKeys, StrictAgrees, GuessFollows, keys, kexflags
  <2> QED
    BY <2>1, <2>2, <2>3, <2>4, <2>5, <2>6, ClientStep DEF Quiet, Talks
<1> QED
  BY <1>1, <1>2, <1>3, <1>4, <1>5, <1>6

\* A verified reply: NEWKEYS closes the chain under the old key, and what waited
\* goes on under the new one.
LEMMA SealReply == TypeOK /\ TypeOK' /\ SealInv /\ handle_kex_reply => SealInv'
<1> SUFFICES ASSUME TypeOK, TypeOK', SealInv, handle_kex_reply PROVE SealInv'
  OBVIOUS
<1> DEFINE p == Head(s2c)
           new == DeriveKeys(p)
           seq == SeqAfterNewKeys(tx_seq)
           nk == Seal(Msg("NEWKEYS"), tx, tx_seq)
           rest == SealAll(deferred, new, seq)
           types == {"KEX_REPLY", "GEX_REPLY"}
<1>i. /\ ClientKeys /\ ServerKeys /\ ReplyKeys /\ StrictAgrees /\ OnlyUpWaits /\ GuessFollows
      /\ Chain(c2s, sv.strict, sv.rx, sv.rx_seq, tx, tx_seq)
      /\ ~closed => Chain(s2c, sv.strict, rx, rx_seq, sv.tx, sv.tx_seq)
  BY DEF SealInv
<1>1. /\ Incoming(types) /\ Refusals(p) = {} /\ ~ignore_next_packet
      /\ c2s' = c2s \o <<nk>> \o rest /\ tx_seq' = seq + Len(deferred)
      /\ tx' = new /\ rx_next' = new /\ rx' = rx /\ rx_seq' = rx_seq + 1
      /\ kex_state' = "WAIT_NEWKEYS" /\ deferred' = <<>>
      /\ UNCHANGED <<first_kex_done, strict_kex, ignore_next_packet, closed, started, sv>>
  BY DEF handle_kex_reply, Accepted, flush_deferred
<1>2. ~closed /\ started
  BY <1>1 DEF Incoming
<1>3. /\ p = s2c[1] /\ p \in Packet /\ p.type \in types /\ p.key = rx /\ p.seq = rx_seq
      /\ Chain(s2c', sv.strict, NextKey(p), NextSeq(p, sv.strict), sv.tx, sv.tx_seq)
  BY <1>1, <1>2, <1>i, HeadOpens
<1>4. /\ tx \in Nat /\ rx \in Nat /\ tx_seq \in Nat /\ rx_seq \in Nat
      /\ c2s \in Seq(Packet) /\ c2s' \in Seq(Packet) /\ deferred \in Seq(Message)
      /\ Len(deferred) \in Nat /\ sv.strict \in BOOLEAN /\ Len(s2c) \in Nat \ {0}
  <2>1. tx \in Nat /\ rx \in Nat /\ tx_seq \in Nat /\ rx_seq \in Nat
    BY DEF TypeOK, CountsOK
  <2>2. c2s \in Seq(Packet) /\ deferred \in Seq(Message)
    BY DEF TypeOK, QueuesOK
  <2>3. c2s' \in Seq(Packet)
    BY DEF TypeOK, QueuesOK
  <2>4. Len(deferred) \in Nat
    BY <2>2
  <2>5. sv.strict \in BOOLEAN
    BY SvFields DEF TypeOK, SvOK
  <2>6. Len(s2c) \in Nat \ {0}
    BY <1>1, TailKeeps
  <2> QED
    BY <2>1, <2>2, <2>3, <2>4, <2>5, <2>6
<1>5. kex_state = "WAIT_REPLY" /\ tx = rx /\ strict_kex = sv.strict
  <2>1. kex_state = "WAIT_REPLY"
    BY <1>1, <1>3 DEF Refusals
  <2> QED
    BY <2>1, <1>i DEF ClientKeys, StrictAgrees
<1>6. new = rx + 1
  <2>1. 1 \in 1..Len(s2c) /\ p = s2c[1] /\ p.type \in types
    BY <1>3, <1>4
  <2>2. p.id = p.key + 1
    BY <2>1, <1>i DEF ReplyKeys
  <2> QED
    BY <2>2, <1>3 DEF DeriveKeys
<1>7. seq = NextSeq(nk, sv.strict) /\ new = NextKey(nk) /\ seq \in Nat /\ new \in Nat
  BY <1>4, <1>5, <1>6 DEF SeqAfterNewKeys, NextSeq, NextKey, Seal, Msg
<1>8. nk \in Packet /\ nk.key = tx /\ nk.seq = tx_seq
  BY <1>4, MsgType DEF Seal, Msg, Packet, MsgTypes, KexTypes
<1>9. /\ rest \in Seq(Packet) /\ Len(rest) = Len(deferred)
      /\ \A i \in 1..Len(deferred) : rest[i] = Seal(deferred[i], new, seq + i - 1)
  BY <1>4, <1>7, SealAllType
<1> HIDE DEF new, seq, nk, rest
<1>10. Chain(c2s', sv.strict, sv.rx, sv.rx_seq, new, seq + Len(deferred))
  <2> DEFINE v == Append(c2s, nk)
  <2>1. /\ v \in Seq(Packet) /\ Len(v) = Len(c2s) + 1
        /\ \A i \in 1..Len(c2s) : v[i] = c2s[i]
        /\ v[Len(c2s) + 1] = nk /\ Len(c2s) \in Nat
    BY <1>4, <1>8, AppendProperties
  <2>2. c2s' = v \o rest
    BY <1>1, <1>4, <1>8
  <2> HIDE DEF v
  <2>3. Chain(v, sv.strict, sv.rx, sv.rx_seq, new, seq)
    <3>1. v[Len(v)] = nk /\ v[Len(v)].key = tx /\ v[Len(v)].seq = tx_seq
      BY <2>1, <1>8
    <3>2. Chain(c2s, sv.strict, sv.rx, sv.rx_seq, tx, tx_seq)
      BY <1>i
    <3>3. c2s \in Seq(Packet) /\ sv.strict \in BOOLEAN
      BY <1>4
    <3>4. Chain(v, sv.strict, sv.rx, sv.rx_seq, NextKey(v[Len(v)]), NextSeq(v[Len(v)], sv.strict))
      BY <2>1, <3>1, <3>2, <3>3, ChainSend
    <3> QED
      BY <3>1, <3>4, <1>7
  <2>4. /\ Len(c2s') = Len(v) + Len(deferred)
        /\ \A i \in 1..Len(v) : c2s'[i] = v[i]
        /\ \A i \in 1..Len(deferred) : c2s'[Len(v) + i] = rest[i]
    <3>1. /\ Len(v \o rest) = Len(v) + Len(rest)
          /\ \A i \in 1..(Len(v) + Len(rest)) : (v \o rest)[i] =
                IF i <= Len(v) THEN v[i] ELSE rest[i - Len(v)]
      <4>1. v \in Seq(Packet) /\ rest \in Seq(Packet)
        BY <2>1, <1>9
      <4> QED
        BY <4>1, ConcatProperties, SMTT(60)
    <3>2. Len(rest) = Len(deferred) /\ c2s' = v \o rest
      BY <2>2, <1>9
    <3> QED
      BY <2>1, <3>1, <3>2, SMTT(60)
  <2>5. \A i \in 1..Len(deferred) : /\ c2s'[Len(v) + i].key = new
                                    /\ c2s'[Len(v) + i].seq = seq + i - 1
                                    /\ c2s'[Len(v) + i].type # "NEWKEYS"
    <3> TAKE i \in 1..Len(deferred)
    <3>1. c2s'[Len(v) + i] = Seal(deferred[i], new, seq + i - 1) /\ deferred[i].type = "UP"
      BY <2>4, <1>9, <1>i DEF OnlyUpWaits
    <3> QED
      BY <3>1 DEF Seal
  <2>6. /\ v \in Seq(Packet) /\ c2s' \in Seq(Packet) /\ sv.strict \in BOOLEAN
        /\ new \in Nat /\ seq \in Nat /\ Len(deferred) \in Nat
    BY <2>1, <1>4, <1>7
  <2> QED
    BY <2>3, <2>4, <2>5, <2>6, ChainSendAll
<1>11. Chain(s2c', sv.strict, rx, rx_seq + 1, sv.tx, sv.tx_seq)
  BY <1>3, <1>4 DEF NextKey, NextSeq
<1>12. ClientKeys'
  BY <1>1, <1>2, <1>6, <1>i DEF ClientKeys
<1>13. /\ ReplyKeys' /\ StrictAgrees' /\ GuessFollows'
  <2>1. /\ ReplyKeys'
        /\ \A i \in 1..Len(s2c') : (s2c'[i].type = "KEXINIT" /\ s2c'[i].key = 0)
                                    => (("strict" \in s2c'[i].opt) <=> sv.strict)
        /\ \A i \in 1..Len(s2c') : (s2c'[i].type = "KEXINIT" /\ "guess" \in s2c'[i].opt)
                              => i < Len(s2c') /\ s2c'[i + 1].type = "GUESS"
    BY <1>1, TailShape
  <2> QED
    BY <1>1, <1>5, <2>1 DEF StrictAgrees, GuessFollows
<1>14. OnlyUpWaits'
  BY <1>1 DEF OnlyUpWaits
<1>15. ServerKeys'
  BY <1>1, <1>i DEF ServerKeys
<1> QED
  BY <1>1, <1>10, <1>11, <1>12, <1>13, <1>14, <1>15 DEF SealInv

\* The server's NEWKEYS: the client's receiving key and counter follow it.
LEMMA SealNewKeys == TypeOK /\ TypeOK' /\ SealInv /\ handle_newkeys => SealInv'
<1> SUFFICES ASSUME TypeOK, TypeOK', SealInv, handle_newkeys PROVE SealInv'
  OBVIOUS
<1> DEFINE p == Head(s2c)
<1>i. /\ ClientKeys /\ ServerKeys /\ ReplyKeys /\ StrictAgrees /\ OnlyUpWaits /\ GuessFollows
      /\ Chain(c2s, sv.strict, sv.rx, sv.rx_seq, tx, tx_seq)
      /\ ~closed => Chain(s2c, sv.strict, rx, rx_seq, sv.tx, sv.tx_seq)
  BY DEF SealInv
<1>1. /\ Incoming({"NEWKEYS"}) /\ Refusals(p) = {} /\ ~ignore_next_packet
      /\ rx' = rx_next /\ rx_seq' = SeqAfterNewKeys(rx_seq) /\ kex_state' = "IDLE"
      /\ first_kex_done' = TRUE /\ KexFinished
      /\ UNCHANGED <<strict_kex, ignore_next_packet, closed, started, sv, tx, deferred>>
  BY DEF handle_newkeys, Accepted
<1>2. ~closed
  BY <1>1 DEF Incoming
<1>3. /\ p = s2c[1] /\ p.type = "NEWKEYS" /\ p.key = rx /\ p.seq = rx_seq
      /\ Chain(s2c', sv.strict, NextKey(p), NextSeq(p, sv.strict), sv.tx, sv.tx_seq)
  BY <1>1, <1>2, <1>i, HeadOpens
<1>4. kex_state = "WAIT_NEWKEYS"
  BY <1>1, <1>3 DEF Refusals
<1>5. rx_next = rx + 1 /\ tx = rx + 1 /\ strict_kex = sv.strict
  BY <1>4, <1>i DEF ClientKeys, StrictAgrees
<1>6. Chain(s2c, sv.strict, rx, rx_seq, sv.tx, sv.tx_seq)'
  <2>1. rx' = NextKey(p) /\ rx_seq' = NextSeq(p, sv.strict)
    BY <1>1, <1>3, <1>5 DEF SeqAfterNewKeys, NextKey, NextSeq
  <2> QED
    BY <2>1, <1>1, <1>3 DEF Chain
<1>7. Chain(c2s, sv.strict, sv.rx, sv.rx_seq, tx, tx_seq)'
  <2>1. CASE UNCHANGED <<c2s, tx_seq>>
    BY <2>1, <1>1, <1>i DEF Chain
  <2>2. CASE AuthBegin
    <3>1. PICK ms \in Seq(Message) :
             SendNow(ms) /\ \A i \in 1..Len(ms) : ms[i].type # "NEWKEYS"
      BY <2>2, Talk DEF AuthBegin, MsgTypes, KexTypes
    <3> QED
      BY <3>1, <1>1, <1>i, TalkKeepsChain
  <2> QED
    BY <1>1, <2>1, <2>2 DEF KexFinished
<1>8. ClientKeys'
  BY <1>1, <1>5 DEF ClientKeys
<1>9. ReplyKeys' /\ StrictAgrees' /\ GuessFollows'
  <2>1. /\ ReplyKeys'
        /\ \A i \in 1..Len(s2c') : (s2c'[i].type = "KEXINIT" /\ s2c'[i].key = 0)
                                    => (("strict" \in s2c'[i].opt) <=> sv.strict)
        /\ \A i \in 1..Len(s2c') : (s2c'[i].type = "KEXINIT" /\ "guess" \in s2c'[i].opt)
                              => i < Len(s2c') /\ s2c'[i + 1].type = "GUESS"
    BY <1>1, TailShape
  <2> QED
    BY <1>1, <1>5, <2>1 DEF StrictAgrees, GuessFollows
<1>10. OnlyUpWaits' /\ ServerKeys'
  BY <1>1, <1>i DEF OnlyUpWaits, ServerKeys
<1> QED
  BY <1>6, <1>7, <1>8, <1>9, <1>10 DEF SealInv

-----------------------------------------------------------------------------
(* The server's steps *)

\* What the server may put on the wire: no NEWKEYS, replies that announce the next
\* keys, KEXINITs that tell the truth about what follows them.
GoodToSend(ms) ==
    \A i \in 1..Len(ms) :
        /\ ms[i].type # "NEWKEYS"
        /\ ms[i].type \in {"KEX_REPLY", "GEX_REPLY"} => ms[i].id = sv.tx + 1
        /\ (ms[i].type = "KEXINIT" /\ sv.tx = 0) => (("strict" \in ms[i].opt) <=> sv.strict)
        /\ (ms[i].type = "KEXINIT" /\ "guess" \in ms[i].opt)
              => i < Len(ms) /\ ms[i + 1].type = "GUESS"

\* What the server may put on the wire keeps SealInv.
LEMMA SvTalk ==
    ASSUME TypeOK, TypeOK', SealInv, UNCHANGED client, NEW ms \in Seq(Message),
           NEW s \in SvState, s.strict = sv.strict, s.tx = sv.tx,
           SvSend(ms, s), GoodToSend(ms)
    PROVE  /\ (~closed => Chain(s2c, sv.strict, rx, rx_seq, sv.tx, sv.tx_seq))'
           /\ ReplyKeys' /\ StrictAgrees' /\ GuessFollows'
           /\ sv'.strict = sv.strict /\ sv'.tx = sv.tx /\ sv'.exch = s.exch
           /\ sv'.kex = s.kex /\ sv'.rx = s.rx /\ sv'.rx_seq = s.rx_seq
<1>i. /\ ReplyKeys /\ StrictAgrees /\ GuessFollows
      /\ ~closed => Chain(s2c, sv.strict, rx, rx_seq, sv.tx, sv.tx_seq)
  BY DEF SealInv
<1>u. UNCHANGED <<closed, rx, rx_seq, first_kex_done, kex_state, strict_kex, ignore_next_packet>>
  BY DEF client
<1>1. /\ s2c' \in Seq(Packet) /\ s2c \in Seq(Packet)
      /\ Len(s2c') = Len(s2c) + Len(ms)
      /\ \A i \in 1..Len(s2c) : s2c'[i] = s2c[i]
      /\ \A i \in 1..Len(ms) :
            s2c'[Len(s2c) + i] = Seal(ms[i], sv.tx, sv.tx_seq + i - 1)
      /\ sv' = [s EXCEPT !.tx_seq = sv.tx_seq + Len(ms)]
  BY SvSendEffect DEF TypeOK, QueuesOK
<1>2. /\ sv'.strict = sv.strict /\ sv'.tx = sv.tx /\ sv'.exch = s.exch
      /\ sv'.kex = s.kex /\ sv'.rx = s.rx /\ sv'.rx_seq = s.rx_seq
      /\ sv'.tx_seq = sv.tx_seq + Len(ms)
  BY <1>1 DEF SvState
<1>3. /\ sv.tx \in Nat /\ sv.tx_seq \in Nat /\ sv.strict \in BOOLEAN /\ Len(ms) \in Nat
      /\ Len(s2c) \in Nat
  BY SvFields DEF TypeOK, QueuesOK, SvOK
<1>4. \A i \in 1..Len(ms) : /\ s2c'[Len(s2c) + i].key = sv.tx
                            /\ s2c'[Len(s2c) + i].seq = sv.tx_seq + i - 1
                            /\ s2c'[Len(s2c) + i].type = ms[i].type
                            /\ s2c'[Len(s2c) + i].id = ms[i].id
                            /\ s2c'[Len(s2c) + i].opt = ms[i].opt
  <2> TAKE i \in 1..Len(ms)
  <2>1. s2c'[Len(s2c) + i] = Seal(ms[i], sv.tx, sv.tx_seq + i - 1)
    BY <1>1
  <2> QED
    BY <2>1 DEF Seal
<1>5. (~closed => Chain(s2c, sv.strict, rx, rx_seq, sv.tx, sv.tx_seq))'
  <2>1. CASE ~closed
    <3>1. \A i \in 1..Len(ms) : /\ s2c'[Len(s2c) + i].key = sv.tx
                                /\ s2c'[Len(s2c) + i].seq = sv.tx_seq + i - 1
                                /\ s2c'[Len(s2c) + i].type # "NEWKEYS"
      BY <1>4 DEF GoodToSend
    <3>2. Chain(s2c', sv.strict, rx, rx_seq, sv.tx, sv.tx_seq + Len(ms))
      BY <2>1, <3>1, <1>1, <1>3, <1>i, ChainSendAll
    <3> QED
      BY <3>2, <1>2, <1>u DEF Chain
  <2>2. CASE closed
    BY <2>2, <1>u
  <2> QED
    BY <2>1, <2>2
<1>6. \A i \in 1..Len(s2c') : \/ i \in 1..Len(s2c)
                              \/ i - Len(s2c) \in 1..Len(ms) /\ i = Len(s2c) + (i - Len(s2c))
  BY <1>1, <1>3
<1>7. ReplyKeys'
  <2> SUFFICES ASSUME NEW i \in 1..Len(s2c'), s2c'[i].type \in {"KEX_REPLY", "GEX_REPLY"}
               PROVE  s2c'[i].id = s2c'[i].key + 1
    BY DEF ReplyKeys
  <2>1. CASE i \in 1..Len(s2c)
    BY <2>1, <1>1, <1>i DEF ReplyKeys
  <2>2. CASE i - Len(s2c) \in 1..Len(ms) /\ i = Len(s2c) + (i - Len(s2c))
    <3> DEFINE j == i - Len(s2c)
    <3>1. j \in 1..Len(ms) /\ i = Len(s2c) + j
      BY <2>2
    <3> HIDE DEF j
    <3> QED
      BY <3>1, <1>4 DEF GoodToSend
  <2> QED
    BY <2>1, <2>2, <1>6
<1>8. StrictAgrees'
  <2>1. \A i \in 1..Len(s2c') : (s2c'[i].type = "KEXINIT" /\ s2c'[i].key = 0)
                                => (("strict" \in s2c'[i].opt) <=> sv.strict)
    <3> SUFFICES ASSUME NEW i \in 1..Len(s2c'), s2c'[i].type = "KEXINIT", s2c'[i].key = 0
                 PROVE  ("strict" \in s2c'[i].opt) <=> sv.strict
      OBVIOUS
    <3>1. CASE i \in 1..Len(s2c)
      BY <3>1, <1>1, <1>i DEF StrictAgrees
    <3>2. CASE i - Len(s2c) \in 1..Len(ms) /\ i = Len(s2c) + (i - Len(s2c))
      <4> DEFINE j == i - Len(s2c)
      <4>1. j \in 1..Len(ms) /\ i = Len(s2c) + j
        BY <3>2
      <4> HIDE DEF j
      <4> QED
        BY <4>1, <1>4, SMTT(30) DEF GoodToSend
    <3> QED
      BY <3>1, <3>2, <1>6
  <2> QED
    BY <2>1, <1>2, <1>u, <1>i DEF StrictAgrees
<1>9. GuessFollows'
  <2>1. ASSUME NEW i \in 1..Len(s2c'), s2c'[i].type = "KEXINIT", "guess" \in s2c'[i].opt
        PROVE  i < Len(s2c') /\ s2c'[i + 1].type = "GUESS"
    <3>1. CASE i \in 1..Len(s2c)
      <4>1. i < Len(s2c) /\ s2c[i + 1].type = "GUESS"
        BY <3>1, <2>1, <1>1, <1>i DEF GuessFollows
      <4>2. i + 1 \in 1..Len(s2c)
        BY <4>1, <1>3
      <4> QED
        BY <4>1, <4>2, <1>1, <1>3
    <3>2. CASE i - Len(s2c) \in 1..Len(ms) /\ i = Len(s2c) + (i - Len(s2c))
      <4> DEFINE j == i - Len(s2c)
      <4>1. j \in 1..Len(ms) /\ i = Len(s2c) + j /\ j \in Int
        BY <3>2
      <4> HIDE DEF j
      <4>2. j < Len(ms) /\ ms[j + 1].type = "GUESS"
        BY <4>1, <2>1, <1>4 DEF GoodToSend
      <4>3. j + 1 \in 1..Len(ms) /\ i + 1 = Len(s2c) + (j + 1)
        BY <4>1, <4>2, <1>3
      <4>4. s2c'[Len(s2c) + (j + 1)].type = ms[j + 1].type
        BY <4>3, <1>4
      <4>5. i < Len(s2c')
        BY <4>1, <4>2, <1>1, <1>3
      <4> QED
        BY <4>2, <4>3, <4>4, <4>5
    <3> QED
      BY <3>1, <3>2, <1>6
  <2>2. (ignore_next_packet /\ ~closed)' => s2c' # <<>> /\ s2c'[1].type = "GUESS"
    <3>1. ASSUME ignore_next_packet, ~closed
          PROVE  s2c' # <<>> /\ s2c'[1].type = "GUESS"
      <4>1. s2c # <<>> /\ s2c[1].type = "GUESS"
        BY <3>1, <1>i DEF GuessFollows
      <4>2. 1 \in 1..Len(s2c)
        BY <4>1, <1>1, <1>3, EmptySeq
      <4>3. s2c'[1] = s2c[1]
        BY <4>2, <1>1
      <4>4. Len(s2c') # 0
        BY <4>2, <1>1, <1>3
      <4> QED
        BY <4>1, <4>3, <4>4, <1>1, EmptySeq
    <3> QED
      BY <3>1, <1>u
  <2> QED
    BY <2>1, <2>2 DEF GuessFollows
<1> QED
  BY <1>2, <1>5, <1>7, <1>8, <1>9

\* The server's own moves.
LEMMA SealServer ==
    /\ TypeOK /\ TypeOK' /\ SealInv
    /\ SvKexInit \/ SvNewKeys \/ SvAccept \/ SvUp \/ SvMisc \/ SvDisconnect
    => SealInv'
<1> SUFFICES ASSUME TypeOK, TypeOK', SealInv,
                    SvKexInit \/ SvNewKeys \/ SvAccept \/ SvUp \/ SvMisc \/ SvDisconnect
             PROVE  SealInv'
  OBVIOUS
<1>u. UNCHANGED client /\ UNCHANGED c2s
  BY DEF SvKexInit, SvNewKeys, SvAccept, SvUp, SvMisc, SvDisconnect
<1>v. UNCHANGED <<started, closed, kex_state, first_kex_done, strict_kex, ignore_next_packet,
                  tx, rx, rx_next, tx_seq, rx_seq, deferred>>
  BY <1>u DEF client
<1>i. /\ ClientKeys /\ ServerKeys /\ ReplyKeys /\ StrictAgrees /\ OnlyUpWaits /\ GuessFollows
      /\ Chain(c2s, sv.strict, sv.rx, sv.rx_seq, tx, tx_seq)
      /\ ~closed => Chain(s2c, sv.strict, rx, rx_seq, sv.tx, sv.tx_seq)
  BY DEF SealInv
<1>s. /\ sv \in SvState /\ sv.tx \in Nat /\ sv.rx \in Nat /\ sv.exch \in Nat
      /\ sv.tx_seq \in Nat /\ sv.strict \in BOOLEAN /\ sv.up \in Nat /\ sv.misc \in Nat
  BY SvFields DEF TypeOK, SvOK
<1>n. sv.exch + 1 \in Nat /\ sv.up + 1 \in Nat /\ sv.misc + 1 \in Nat
  BY <1>s
<1>k. ClientKeys' /\ OnlyUpWaits'
  BY <1>v, <1>i DEF ClientKeys, OnlyUpWaits
<1>c. UNCHANGED <<sv.strict, sv.rx, sv.rx_seq>> =>
         Chain(c2s, sv.strict, sv.rx, sv.rx_seq, tx, tx_seq)'
  BY <1>u, <1>v, <1>i DEF Chain
<1>1. CASE SvKexInit
  <2>1. PICK opt \in SUBSET Options :
           /\ sv.exch = 0 => (("strict" \in opt) <=> sv.strict)
           /\ SvSend(<<[type |-> "KEXINIT", id |-> 0, opt |-> opt]>> \o
                     (IF "guess" \in opt THEN <<Msg("GUESS")>> ELSE <<>>),
                     [sv EXCEPT !.kex = "sent", !.exch = @ + 1, !.method = MethodOf(opt)])
    BY <1>1 DEF SvKexInit
  <2> DEFINE k == [type |-> "KEXINIT", id |-> 0, opt |-> opt]
             ms == <<k>> \o (IF "guess" \in opt THEN <<Msg("GUESS")>> ELSE <<>>)
             s == [sv EXCEPT !.kex = "sent", !.exch = @ + 1, !.method = MethodOf(opt)]
  <2>2. k \in Message /\ Msg("GUESS") \in Message /\ Msg("GUESS").type = "GUESS"
    BY MsgType DEF Message, MsgTypes, KexTypes, Msg
  <2>3. sv.kex = "idle"
    BY <1>1 DEF SvKexInit
  <2>4. s \in SvState
    <3>1. MethodOf(opt) \in {"DH", "GEX"}
      BY DEF MethodOf
    <3>2. [[sv EXCEPT !.kex = "sent"] EXCEPT !.exch = sv.exch + 1] \in SvState
      BY <1>s, <1>n, SvSetKex, SvSetCount
    <3> QED
      BY <3>1, <3>2, SvSetMethod
  <2>5. /\ s.strict = sv.strict /\ s.tx = sv.tx /\ s.rx = sv.rx /\ s.rx_seq = sv.rx_seq
        /\ s.kex = "sent" /\ s.exch = sv.exch + 1
    BY <1>s DEF SvState
  <2>6. ms \in Seq(Message) /\ GoodToSend(ms)
    <3>1. k.type = "KEXINIT" /\ k.opt = opt
      OBVIOUS
    <3>2. sv.tx = 0 => (("strict" \in opt) <=> sv.strict)
      BY <2>1, <2>3, <1>i DEF ServerKeys
    <3>3. CASE "guess" \in opt
      <4>1. ms = Append(<<k>>, Msg("GUESS"))
        BY <3>3, <2>2
      <4>2. /\ Append(<<k>>, Msg("GUESS")) \in Seq(Message)
            /\ Len(Append(<<k>>, Msg("GUESS"))) = 2
            /\ Append(<<k>>, Msg("GUESS"))[1] = k
            /\ Append(<<k>>, Msg("GUESS"))[2] = Msg("GUESS")
        BY <2>2, MsgSeq
      <4> HIDE DEF k, ms
      <4> QED
        BY <4>1, <4>2, <3>1, <3>2, <2>2 DEF GoodToSend
    <3>4. CASE "guess" \notin opt
      <4>1. ms = <<k>> /\ Len(<<k>>) = 1 /\ <<k>>[1] = k /\ <<k>> \in Seq(Message)
        BY <3>4, <2>2, MsgSeq
      <4> HIDE DEF k, ms
      <4> QED
        BY <4>1, <3>1, <3>2, <3>4 DEF GoodToSend
    <3> QED
      BY <3>3, <3>4
  <2> HIDE DEF k, ms, s
  <2>7. SvSend(ms, s)
    BY <2>1 DEF ms, s, k
  <2>8. /\ (~closed => Chain(s2c, sv.strict, rx, rx_seq, sv.tx, sv.tx_seq))'
        /\ ReplyKeys' /\ StrictAgrees' /\ GuessFollows'
        /\ sv'.strict = sv.strict /\ sv'.tx = sv.tx /\ sv'.exch = s.exch
        /\ sv'.kex = s.kex /\ sv'.rx = s.rx /\ sv'.rx_seq = s.rx_seq
    BY <2>4, <2>5, <2>6, <2>7, <1>u, SvTalk
  <2>9. ServerKeys'
    BY <2>3, <2>5, <2>8, <1>s, <1>i DEF ServerKeys
  <2> QED
    BY <2>5, <2>8, <2>9, <1>k, <1>c DEF SealInv
<1>2. CASE SvNewKeys
  <2> DEFINE nk == Seal(Msg("NEWKEYS"), sv.tx, sv.tx_seq)
  <2>1. /\ sv.kex = "replied" /\ s2c' = Append(s2c, nk)
        /\ sv'.kex = "newkeys" /\ sv'.tx = sv.exch
        /\ sv'.tx_seq = IF sv.strict THEN 0 ELSE sv.tx_seq + 1
        /\ sv'.strict = sv.strict /\ sv'.rx = sv.rx /\ sv'.rx_seq = sv.rx_seq
        /\ sv'.exch = sv.exch
    BY <1>2, <1>s DEF SvNewKeys, SvState
  <2>2. sv.exch = sv.tx + 1 /\ sv.rx = sv.tx
    BY <2>1, <1>i DEF ServerKeys
  <2>3. nk \in Packet /\ nk.key = sv.tx /\ nk.seq = sv.tx_seq /\ nk.type = "NEWKEYS"
    BY <1>s, MsgType DEF Seal, Msg, Packet, MsgTypes, KexTypes
  <2> HIDE DEF nk
  <2>4. /\ s2c \in Seq(Packet) /\ s2c' \in Seq(Packet) /\ Len(s2c') = Len(s2c) + 1
        /\ \A i \in 1..Len(s2c) : s2c'[i] = s2c[i]
        /\ s2c'[Len(s2c) + 1] = nk /\ Len(s2c) \in Nat
    BY <2>1, <2>3, AppendProperties DEF TypeOK, QueuesOK
  <2>5. (~closed => Chain(s2c, sv.strict, rx, rx_seq, sv.tx, sv.tx_seq))'
    <3>1. ASSUME ~closed
          PROVE  Chain(s2c', sv.strict, rx, rx_seq, sv'.tx, sv'.tx_seq)
      <4>1. Chain(s2c, sv.strict, rx, rx_seq, sv.tx, sv.tx_seq)
        BY <3>1, <1>i
      <4>2. s2c'[Len(s2c')] = nk /\ s2c'[Len(s2c')].key = sv.tx /\ s2c'[Len(s2c')].seq = sv.tx_seq
        BY <2>3, <2>4
      <4>3. Chain(s2c', sv.strict, rx, rx_seq, NextKey(s2c'[Len(s2c')]),
                  NextSeq(s2c'[Len(s2c')], sv.strict))
        BY <4>1, <4>2, <2>4, <1>s, ChainSend
      <4> QED
        BY <4>2, <4>3, <2>1, <2>2, <2>3 DEF NextKey, NextSeq
    <3> QED
      BY <3>1, <2>1, <1>v DEF Chain
  <2>6. \A i \in 1..Len(s2c') : i \in 1..Len(s2c) \/ s2c'[i] = nk
    BY <2>4
  <2>7. ReplyKeys'
    BY <2>3, <2>4, <2>6, <1>i DEF ReplyKeys
  <2>8. StrictAgrees'
    <3>1. \A i \in 1..Len(s2c') : (s2c'[i].type = "KEXINIT" /\ s2c'[i].key = 0)
                                  => (("strict" \in s2c'[i].opt) <=> sv.strict)
      BY <2>3, <2>4, <2>6, <1>i DEF StrictAgrees
    <3> QED
      BY <3>1, <2>1, <1>v, <1>i DEF StrictAgrees
  <2>9. GuessFollows'
    <3>1. ASSUME NEW i \in 1..Len(s2c'), s2c'[i].type = "KEXINIT", "guess" \in s2c'[i].opt
          PROVE  i < Len(s2c') /\ s2c'[i + 1].type = "GUESS"
      <4>1. i \in 1..Len(s2c) /\ s2c'[i] = s2c[i]
        BY <3>1, <2>3, <2>4, <2>6
      <4>2. i < Len(s2c) /\ s2c[i + 1].type = "GUESS"
        BY <4>1, <3>1, <1>i DEF GuessFollows
      <4>3. i + 1 \in 1..Len(s2c)
        BY <4>1, <4>2, <2>4
      <4> QED
        BY <4>2, <4>3, <2>4
    <3>2. ASSUME ignore_next_packet, ~closed
          PROVE  s2c' # <<>> /\ s2c'[1].type = "GUESS"
      <4>1. s2c # <<>> /\ s2c[1].type = "GUESS"
        BY <3>2, <1>i DEF GuessFollows
      <4>2. 1 \in 1..Len(s2c)
        BY <4>1, <2>4, EmptySeq
      <4>3. s2c'[1] = s2c[1] /\ Len(s2c') # 0
        BY <4>2, <2>4
      <4> QED
        BY <4>1, <4>3, <2>4, EmptySeq
    <3> QED
      BY <3>1, <3>2, <1>v DEF GuessFollows
  <2>10. ServerKeys'
    BY <2>1, <2>2 DEF ServerKeys
  <2> QED
    BY <2>1, <2>5, <2>7, <2>8, <2>9, <2>10, <1>k, <1>c DEF SealInv
<1>3. CASE SvAccept \/ SvUp \/ SvMisc \/ SvDisconnect
  <2>1. \E t \in {"SERVICE_ACCEPT", "UP", "IGNORE", "UNIMPLEMENTED", "OTHER", "DISCONNECT"},
           n \in Nat, s \in SvState :
           /\ SvSend(<<[type |-> t, id |-> n, opt |-> {}]>>, s)
           /\ s.strict = sv.strict /\ s.tx = sv.tx /\ s.rx = sv.rx /\ s.rx_seq = sv.rx_seq
           /\ s.kex = sv.kex /\ s.exch = sv.exch
    <3>1. CASE SvAccept
      <4>1. /\ [sv EXCEPT !.owe = FALSE] \in SvState
            /\ SvSend(<<[type |-> "SERVICE_ACCEPT", id |-> 0, opt |-> {}]>>, [sv EXCEPT !.owe = FALSE])
        BY <3>1, <1>s, SvSetFlag DEF SvAccept, Msg
      <4> DEFINE s == [sv EXCEPT !.owe = FALSE]
      <4>2. /\ s.strict = sv.strict /\ s.tx = sv.tx /\ s.rx = sv.rx /\ s.rx_seq = sv.rx_seq
            /\ s.kex = sv.kex /\ s.exch = sv.exch
        BY <1>s DEF SvState
      <4> HIDE DEF s
      <4> QED
        BY <4>1, <4>2 DEF s
    <3>2. CASE SvUp
      <4>1. /\ [sv EXCEPT !.up = sv.up + 1] \in SvState /\ sv.up + 1 \in Nat
            /\ SvSend(<<[type |-> "UP", id |-> sv.up + 1, opt |-> {}]>>, [sv EXCEPT !.up = sv.up + 1])
        BY <3>2, <1>s, <1>n, SvSetCount DEF SvUp, Up
      <4> DEFINE s == [sv EXCEPT !.up = sv.up + 1]
      <4>2. /\ s.strict = sv.strict /\ s.tx = sv.tx /\ s.rx = sv.rx /\ s.rx_seq = sv.rx_seq
            /\ s.kex = sv.kex /\ s.exch = sv.exch
        BY <1>s DEF SvState
      <4> HIDE DEF s
      <4> QED
        BY <4>1, <4>2 DEF s
    <3>3. CASE SvMisc
      <4>1. PICK type \in {"IGNORE", "UNIMPLEMENTED", "OTHER"} :
               /\ [sv EXCEPT !.misc = sv.misc + 1] \in SvState
               /\ SvSend(<<[type |-> type, id |-> 0, opt |-> {}]>>, [sv EXCEPT !.misc = sv.misc + 1])
        BY <3>3, <1>s, <1>n, SvSetCount DEF SvMisc, Msg
      <4> DEFINE s == [sv EXCEPT !.misc = sv.misc + 1]
      <4>2. /\ s.strict = sv.strict /\ s.tx = sv.tx /\ s.rx = sv.rx /\ s.rx_seq = sv.rx_seq
            /\ s.kex = sv.kex /\ s.exch = sv.exch
        BY <1>s DEF SvState
      <4> HIDE DEF s
      <4> QED
        BY <4>1, <4>2 DEF s
    <3>4. CASE SvDisconnect
      <4>1. /\ [sv EXCEPT !.gone = TRUE] \in SvState
            /\ SvSend(<<[type |-> "DISCONNECT", id |-> 0, opt |-> {}]>>, [sv EXCEPT !.gone = TRUE])
        BY <3>4, <1>s, SvSetFlag DEF SvDisconnect, Msg
      <4> DEFINE s == [sv EXCEPT !.gone = TRUE]
      <4>2. /\ s.strict = sv.strict /\ s.tx = sv.tx /\ s.rx = sv.rx /\ s.rx_seq = sv.rx_seq
            /\ s.kex = sv.kex /\ s.exch = sv.exch
        BY <1>s DEF SvState
      <4> HIDE DEF s
      <4> QED
        BY <4>1, <4>2 DEF s
    <3> QED
      BY <1>3, <3>1, <3>2, <3>3, <3>4
  <2>2. PICK t \in {"SERVICE_ACCEPT", "UP", "IGNORE", "UNIMPLEMENTED", "OTHER", "DISCONNECT"},
             n \in Nat, s \in SvState :
           /\ SvSend(<<[type |-> t, id |-> n, opt |-> {}]>>, s)
           /\ s.strict = sv.strict /\ s.tx = sv.tx /\ s.rx = sv.rx /\ s.rx_seq = sv.rx_seq
           /\ s.kex = sv.kex /\ s.exch = sv.exch
    BY <2>1
  <2> DEFINE m == [type |-> t, id |-> n, opt |-> {}]
  <2>3. m \in Message /\ m.type = t
    BY DEF Message, MsgTypes, KexTypes
  <2> HIDE DEF m
  <2>4. <<m>> \in Seq(Message) /\ Len(<<m>>) = 1 /\ <<m>>[1] = m
    BY <2>3, MsgSeq
  <2>5. GoodToSend(<<m>>)
    BY <2>3, <2>4 DEF GoodToSend
  <2>6. SvSend(<<m>>, s)
    BY <2>2 DEF m
  <2>7. /\ (~closed => Chain(s2c, sv.strict, rx, rx_seq, sv.tx, sv.tx_seq))'
        /\ ReplyKeys' /\ StrictAgrees' /\ GuessFollows'
        /\ sv'.strict = sv.strict /\ sv'.tx = sv.tx /\ sv'.exch = s.exch
        /\ sv'.kex = s.kex /\ sv'.rx = s.rx /\ sv'.rx_seq = s.rx_seq
    BY <2>2, <2>4, <2>5, <2>6, <1>u, SvTalk
  <2>8. ServerKeys'
    BY <2>2, <2>7, <1>i DEF ServerKeys
  <2> QED
    BY <2>2, <2>7, <2>8, <1>k, <1>c DEF SealInv
<1> QED
  BY <1>1, <1>2, <1>3

\* The server reads a packet of ours, and answers it.
LEMMA SealSvRecv == TypeOK /\ TypeOK' /\ SealInv /\ SvRecv => SealInv'
<1> SUFFICES ASSUME TypeOK, TypeOK', SealInv, SvRecv PROVE SealInv'
  OBVIOUS
<1> DEFINE p == Head(c2s)
           next == [sv EXCEPT !.rx_seq = @ + 1]
<1>i. /\ ClientKeys /\ ServerKeys /\ ReplyKeys /\ StrictAgrees /\ OnlyUpWaits /\ GuessFollows
      /\ Chain(c2s, sv.strict, sv.rx, sv.rx_seq, tx, tx_seq)
      /\ ~closed => Chain(s2c, sv.strict, rx, rx_seq, sv.tx, sv.tx_seq)
  BY DEF SealInv
<1>s. /\ sv \in SvState /\ sv.tx \in Nat /\ sv.rx \in Nat /\ sv.exch \in Nat
      /\ sv.tx_seq \in Nat /\ sv.rx_seq \in Nat /\ sv.strict \in BOOLEAN /\ sv.got \in Nat
      /\ sv.rx_seq + 1 \in Nat /\ sv.got + 1 \in Nat
  BY SvFields DEF TypeOK, SvOK
<1>1. UNCHANGED client /\ c2s # <<>> /\ SvTakes(p) /\ c2s' = Tail(c2s) /\ c2s \in Seq(Packet)
  BY DEF SvRecv, TypeOK, QueuesOK
<1>v. UNCHANGED <<started, closed, kex_state, first_kex_done, strict_kex, ignore_next_packet,
                  tx, rx, rx_next, tx_seq, rx_seq, deferred>>
  BY <1>1 DEF client
<1>2. /\ p.key = sv.rx /\ p.seq = sv.rx_seq
      /\ Chain(c2s', sv.strict, NextKey(p), NextSeq(p, sv.strict), tx, tx_seq)
  BY <1>1, <1>s, <1>i, ChainRecv
<1>k. ClientKeys' /\ OnlyUpWaits'
  BY <1>v, <1>i DEF ClientKeys, OnlyUpWaits
<1>n. /\ next \in SvState /\ next.strict = sv.strict /\ next.tx = sv.tx /\ next.rx = sv.rx
      /\ next.rx_seq = sv.rx_seq + 1 /\ next.kex = sv.kex /\ next.exch = sv.exch
      /\ next.tx_seq = sv.tx_seq /\ next.got = sv.got
  <2>1. next \in SvState
    BY <1>s, SvSetCount
  <2> QED
    BY <2>1, <1>s DEF SvState
<1>c. p.type # "NEWKEYS" /\ sv'.strict = sv.strict /\ sv'.rx = sv.rx /\ sv'.rx_seq = sv.rx_seq + 1
         => Chain(c2s, sv.strict, sv.rx, sv.rx_seq, tx, tx_seq)'
  BY <1>2, <1>v DEF NextKey, NextSeq, Chain
<1>q. /\ UNCHANGED s2c /\ sv'.strict = sv.strict /\ sv'.tx_seq = sv.tx_seq
      => /\ (sv'.tx = sv.tx => (~closed => Chain(s2c, sv.strict, rx, rx_seq, sv.tx, sv.tx_seq))')
         /\ ReplyKeys' /\ StrictAgrees' /\ GuessFollows'
  BY <1>v, <1>i DEF ReplyKeys, StrictAgrees, GuessFollows, Chain
<1>3. CASE p.type \in {"GEX_REQUEST", "KEX_INIT", "GEX_INIT"}
  <2>1. \E m \in Message, k \in {"group", "replied"} :
           /\ SvSend(<<m>>, [next EXCEPT !.kex = k])
           /\ m.type \in {"GEX_GROUP", "KEX_REPLY", "GEX_REPLY"}
           /\ m.type \in {"KEX_REPLY", "GEX_REPLY"} => m.id = sv.exch
           /\ sv.kex \in {"sent", "group"}
    <3>1. sv.kex \in {"sent", "group"}
      BY <1>1, <1>3 DEF SvTakes
    <3>2. CASE p.type = "GEX_REQUEST"
      <4>1. SvSend(<<Msg("GEX_GROUP")>>, [next EXCEPT !.kex = "group"])
        BY <3>2 DEF SvRecv
      <4>2. Msg("GEX_GROUP") \in Message /\ Msg("GEX_GROUP").type = "GEX_GROUP"
        BY MsgType DEF Msg, MsgTypes, KexTypes
      <4> QED
        BY <3>1, <4>1, <4>2
    <3>3. CASE p.type \in {"KEX_INIT", "GEX_INIT"}
      <4> DEFINE m == [type |-> IF p.type = "KEX_INIT" THEN "KEX_REPLY" ELSE "GEX_REPLY",
                       id |-> sv.exch, opt |-> {}]
      <4>1. SvSend(<<m>>, [next EXCEPT !.kex = "replied"])
        BY <3>3 DEF SvRecv
      <4>2. m \in Message /\ m.type \in {"KEX_REPLY", "GEX_REPLY"} /\ m.id = sv.exch
        BY <1>s DEF Message, MsgTypes, KexTypes
      <4> HIDE DEF m
      <4> QED
        BY <3>1, <4>1, <4>2
    <3> QED
      BY <1>3, <3>2, <3>3
  <2>2. PICK m \in Message, k \in {"group", "replied"} :
           /\ SvSend(<<m>>, [next EXCEPT !.kex = k])
           /\ m.type \in {"GEX_GROUP", "KEX_REPLY", "GEX_REPLY"}
           /\ m.type \in {"KEX_REPLY", "GEX_REPLY"} => m.id = sv.exch
           /\ sv.kex \in {"sent", "group"}
    BY <2>1
  <2> DEFINE s == [next EXCEPT !.kex = k]
  <2>3. s \in SvState
    BY <1>n, SvSetKex
  <2>4. /\ s.strict = sv.strict /\ s.tx = sv.tx /\ s.rx = sv.rx /\ s.exch = sv.exch
        /\ s.rx_seq = sv.rx_seq + 1 /\ s.kex = k
    BY <1>n DEF SvState
  <2>5. SvSend(<<m>>, s)
    BY <2>2
  <2> HIDE DEF s, next
  <2>6. sv.exch = sv.tx + 1 /\ sv.rx = sv.tx
    BY <2>2, <1>i DEF ServerKeys
  <2>7. <<m>> \in Seq(Message) /\ Len(<<m>>) = 1 /\ <<m>>[1] = m
    BY MsgSeq
  <2>8. GoodToSend(<<m>>)
    BY <2>2, <2>6, <2>7 DEF GoodToSend
  <2>9. /\ (~closed => Chain(s2c, sv.strict, rx, rx_seq, sv.tx, sv.tx_seq))'
        /\ ReplyKeys' /\ StrictAgrees' /\ GuessFollows'
        /\ sv'.strict = sv.strict /\ sv'.tx = sv.tx /\ sv'.exch = s.exch
        /\ sv'.kex = s.kex /\ sv'.rx = s.rx /\ sv'.rx_seq = s.rx_seq
    BY <2>3, <2>4, <2>5, <2>7, <2>8, <1>1, SvTalk
  <2>10. ServerKeys'
    BY <2>2, <2>4, <2>6, <2>9 DEF ServerKeys
  <2> QED
    BY <2>4, <2>9, <2>10, <1>3, <1>k, <1>c DEF SealInv
<1>4. CASE p.type = "NEWKEYS"
  <2>1. /\ sv' = [sv EXCEPT !.kex = "idle", !.in_kex = FALSE, !.rx = sv.exch,
                            !.rx_seq = IF sv.strict THEN 0 ELSE @ + 1]
        /\ UNCHANGED s2c
    BY <1>4 DEF SvRecv
  <2>2. /\ sv'.kex = "idle" /\ sv'.rx = sv.exch /\ sv'.tx = sv.tx /\ sv'.exch = sv.exch
        /\ sv'.rx_seq = (IF sv.strict THEN 0 ELSE sv.rx_seq + 1)
        /\ sv'.strict = sv.strict /\ sv'.tx_seq = sv.tx_seq
    BY <2>1, <1>s DEF SvState
  <2>3. sv.kex = "newkeys"
    BY <1>1, <1>4 DEF SvTakes
  <2>4. sv.tx = sv.exch /\ sv.exch = sv.rx + 1
    BY <2>3, <1>i DEF ServerKeys
  <2>5. Chain(c2s, sv.strict, sv.rx, sv.rx_seq, tx, tx_seq)'
    BY <1>2, <1>4, <1>v, <2>2, <2>4 DEF NextKey, NextSeq, Chain
  <2>6. ServerKeys'
    BY <2>2, <2>4 DEF ServerKeys
  <2> QED
    BY <2>1, <2>2, <2>5, <2>6, <1>k, <1>q DEF SealInv
<1>5. CASE p.type \notin {"GEX_REQUEST", "KEX_INIT", "GEX_INIT", "NEWKEYS"}
  <2>1. \/ sv' = next \/ sv' = [next EXCEPT !.in_kex = TRUE] \/ sv' = [next EXCEPT !.owe = TRUE]
        \/ sv' = [next EXCEPT !.got = @ + 1] \/ sv' = [next EXCEPT !.gone = TRUE]
    BY <1>5 DEF SvRecv
  <2>2. UNCHANGED s2c
    BY <1>5 DEF SvRecv
  <2> HIDE DEF next
  <2>3. /\ sv'.kex = sv.kex /\ sv'.rx = sv.rx /\ sv'.tx = sv.tx /\ sv'.exch = sv.exch
        /\ sv'.rx_seq = sv.rx_seq + 1 /\ sv'.strict = sv.strict /\ sv'.tx_seq = sv.tx_seq
    BY <2>1, <1>n DEF SvState
  <2>4. ServerKeys'
    BY <2>3, <1>i DEF ServerKeys
  <2> QED
    BY <2>2, <2>3, <2>4, <1>5, <1>k, <1>c, <1>q DEF SealInv
<1> QED
  BY <1>3, <1>4, <1>5

-----------------------------------------------------------------------------
(* The theorems *)

\* Before anything is sent both chains are empty.
LEMMA SealInit == Init => SealInv
<1> SUFFICES ASSUME Init PROVE SealInv
  OBVIOUS
<1>1. /\ c2s = <<>> /\ s2c = <<>> /\ deferred = <<>> /\ tx = 0 /\ rx = 0 /\ tx_seq = 0
      /\ rx_seq = 0 /\ kex_state = "IDLE" /\ ~first_kex_done /\ ~ignore_next_packet
      /\ sv.tx = 0 /\ sv.rx = 0 /\ sv.tx_seq = 0 /\ sv.rx_seq = 0 /\ sv.kex = "idle"
      /\ sv.exch = 0
  BY DEF Init
<1>2. Len(c2s) = 0 /\ Len(s2c) = 0 /\ Len(deferred) = 0
  BY <1>1
<1> QED
  BY <1>1, <1>2 DEF SealInv, Chain, ClientKeys, ServerKeys, ReplyKeys, StrictAgrees,
                    OnlyUpWaits, GuessFollows

\* The invariant is inductive.
LEMMA SealStep == TypeOK /\ SealInv /\ [Next]_vars => SealInv'
<1> SUFFICES ASSUME TypeOK, SealInv, [Next]_vars PROVE SealInv'
  OBVIOUS
<1>1. TypeOK'
  <2>1. TypeOK /\ UNCHANGED vars => TypeOK'
    BY DEF vars, client, TypeOK, FlagsOK, StatesOK, CountsOK, QueuesOK, SvOK
  <2> QED
    BY <2>1, AppType, RecvType, ServerType DEF Next
<1>2. CASE UNCHANGED vars
  <2>1. UNCHANGED <<c2s, s2c, sv, client>>
    BY <1>2 DEF vars
  <2>2. UNCHANGED <<started, closed, kex_state, first_kex_done, strict_kex, ignore_next_packet,
                    tx, rx, rx_next, tx_seq, rx_seq, deferred>>
    BY <2>1 DEF client
  <2> QED
    BY <2>1, <2>2 DEF SealInv, Chain, ClientKeys, ServerKeys, ReplyKeys, StrictAgrees,
                      OnlyUpWaits, GuessFollows
<1>3. CASE App \/ read_version
  BY <1>1, <1>3, SealApp, SealRecv
<1>4. CASE Recv
  BY <1>1, <1>4, SealRecv, SealReply, SealNewKeys DEF Recv
<1>5. CASE Server
  BY <1>1, <1>5, SealServer, SealSvRecv DEF Server
<1> QED
  BY <1>2, <1>3, <1>4, <1>5 DEF Next

\* In every state of every session, whatever the number of re-exchanges: the
\* packets of both wires lead from the receiver's keys and counters to the sender's.
THEOREM SealInvariant == Spec => []SealInv
<1>1. TypeOK /\ SealInv /\ [Next]_vars => (TypeOK /\ SealInv)'
  <2>1. TypeOK /\ UNCHANGED vars => TypeOK'
    BY DEF vars, client, TypeOK, FlagsOK, StatesOK, CountsOK, QueuesOK, SvOK
  <2>2. TypeOK /\ [Next]_vars => TypeOK'
    BY <2>1, AppType, RecvType, ServerType DEF Next
  <2> QED
    BY <2>2, SealStep
<1> QED
  BY <1>1, InitType, SealInit, PTL DEF Spec

\* Whichever packet either side reads next was sealed under the key and with the
\* sequence number that side now holds.
THEOREM SealsAlwaysAgree == Spec => []SealsAgree
<1>1. TypeOK /\ SealInv => SealsAgree
  <2> SUFFICES ASSUME TypeOK, SealInv PROVE SealsAgree
    OBVIOUS
  <2>1. c2s \in Seq(Packet) /\ s2c \in Seq(Packet)
    BY DEF TypeOK, QueuesOK
  <2>2. c2s # <<>> => Head(c2s) = c2s[1]
    BY <2>1
  <2>3. s2c # <<>> => Head(s2c) = s2c[1]
    BY <2>1
  <2> QED
    BY <2>2, <2>3 DEF SealInv, SealsAgree, Chain
<1> QED
  BY <1>1, TypeCorrect, SealInvariant, PTL

\* As the first packet always opens, the client never reports a message whose
\* authentication failed.
THEOREM NoFailedMac == Spec => [][\A types : Incoming(types) =>
                                   Refusals(Head(s2c)) # {"message authentication failed"}]_vars
<1>1. TypeOK /\ SealInv =>
         \A types : Incoming(types) => Refusals(Head(s2c)) # {"message authentication failed"}
  <2> SUFFICES ASSUME TypeOK, SealInv, NEW types, Incoming(types)
               PROVE  Refusals(Head(s2c)) # {"message authentication failed"}
    OBVIOUS
  <2>1. ~closed
    BY DEF Incoming
  <2>2. Head(s2c).key = rx /\ Head(s2c).seq = rx_seq
    BY <2>1, HeadOpens DEF SealInv
  <2> QED
    BY <2>2 DEF Refusals
<1>2. TypeOK /\ SealInv /\ [Next]_vars =>
         [\A types : Incoming(types) => Refusals(Head(s2c)) # {"message authentication failed"}]_vars
  BY <1>1
<1> QED
  BY <1>2, TypeCorrect, SealInvariant, PTL DEF Spec

-----------------------------------------------------------------------------
(***************************************************************************)
(* Nothing of the upper layers leaves too early: not between the client's  *)
(* KEXINIT and its NEWKEYS, and not before the host key is accepted.       *)
(* EarlyInv is inductive together with SealInv, which tells that the key   *)
(* of the packet the server reads is the one it holds.                     *)
(***************************************************************************)

\* Whether a message may wait or is held back does not depend on anything else.
Upper == {"SERVICE_REQUEST", "UP"}
NoneOnWire == \A i \in 1..Len(c2s) : c2s[i].type \notin Upper

\* What the proofs need of the types.
LEMMA EarlyTypes ==
    ASSUME TypeOK
    PROVE  /\ tx \in Nat /\ tx_seq \in Nat /\ c2s \in Seq(Packet) /\ Len(c2s) \in Nat
           /\ \A i \in 1..Len(c2s) : c2s[i].key \in Nat
           /\ sv.rx \in Nat /\ sv.in_kex \in BOOLEAN
           /\ kex_sent_kexinit \in BOOLEAN /\ kex_sent_newkeys \in BOOLEAN
<1>1. /\ tx \in Nat /\ tx_seq \in Nat /\ c2s \in Seq(Packet) /\ sv \in SvState
      /\ kex_sent_kexinit \in BOOLEAN /\ kex_sent_newkeys \in BOOLEAN
  BY DEF TypeOK, CountsOK, QueuesOK, SvOK, FlagsOK
<1>2. Len(c2s) \in Nat /\ \A i \in 1..Len(c2s) : c2s[i] \in Packet
  BY <1>1, ElementOfSeq
<1>3. \A i \in 1..Len(c2s) : c2s[i].key \in Nat
  BY <1>2 DEF Packet
<1>4. sv.rx \in Nat /\ sv.in_kex \in BOOLEAN
  BY <1>1 DEF SvState
<1> QED
  BY <1>1, <1>2, <1>3, <1>4

\* Nothing is sent and nothing unlocks: the wire stays right.
LEMMA WireQuiet ==
    ASSUME WireInv, UNCHANGED <<c2s, tx, sv>>, FlagsFit', ssh_kex_locked => ssh_kex_locked'
    PROVE  WireInv'
BY DEF WireInv, KeysBelow, FreeAfterNewKeys, QuietDuringKex

\* Sending messages that belong to no upper layer: a KEXINIT must lock, and nothing unlocks.
LEMMA WireSend ==
    ASSUME TypeOK, WireInv, UNCHANGED <<tx, sv>>, NEW ms \in Seq(Message), SendNow(ms),
           FlagsFit', ssh_kex_locked => ssh_kex_locked',
           \A k \in 1..Len(ms) :
               ms[k].type # "UP" /\ (ms[k].type = "KEXINIT" => ssh_kex_locked')
    PROVE  WireInv'
<1>1. /\ tx \in Nat /\ Len(c2s) \in Nat /\ Len(ms) \in Nat
  BY EarlyTypes
<1>2. /\ Len(c2s') = Len(c2s) + Len(ms)
      /\ \A i \in 1..Len(c2s) : c2s'[i] = c2s[i]
      /\ \A i \in 1..Len(ms) : c2s'[Len(c2s) + i] = Seal(ms[i], tx, tx_seq + i - 1)
  BY SendNowEffect
<1>3. ASSUME NEW i \in 1..Len(c2s'), i > Len(c2s)
      PROVE  /\ c2s'[i].key = tx /\ c2s'[i].type # "UP"
             /\ c2s'[i].type = "KEXINIT" => ssh_kex_locked'
  <2>1. i - Len(c2s) \in 1..Len(ms) /\ i = Len(c2s) + (i - Len(c2s))
    BY <1>1, <1>2, <1>3
  <2>2. c2s'[i] = Seal(ms[i - Len(c2s)], tx, tx_seq + (i - Len(c2s)) - 1)
    BY <2>1, <1>2
  <2> QED
    BY <2>1, <2>2 DEF Seal
<1>4. \A i \in 1..Len(c2s') : i <= Len(c2s) => i \in 1..Len(c2s) /\ c2s'[i] = c2s[i]
  BY <1>1, <1>2
<1>5. KeysBelow'
  <2> SUFFICES ASSUME NEW i \in 1..Len(c2s') PROVE c2s'[i].key <= tx
    BY DEF KeysBelow
  <2>1. CASE i > Len(c2s)
    BY <2>1, <1>3, <1>1
  <2>2. CASE i <= Len(c2s)
    BY <2>2, <1>4 DEF WireInv, KeysBelow
  <2> QED
    BY <2>1, <2>2, <1>1, <1>2
<1>6. FreeAfterNewKeys'
  <2> SUFFICES ASSUME ~ssh_kex_locked'
               PROVE  /\ \A i \in 1..Len(c2s') : c2s'[i].type = "KEXINIT" => c2s'[i].key < tx
                      /\ sv.in_kex => sv.rx < tx
    BY DEF FreeAfterNewKeys
  <2>1. /\ \A i \in 1..Len(c2s) : c2s[i].type = "KEXINIT" => c2s[i].key < tx
        /\ sv.in_kex => sv.rx < tx
    BY DEF WireInv, FreeAfterNewKeys
  <2>2. \A i \in 1..Len(c2s') : i > Len(c2s) \/ i <= Len(c2s)
    BY <1>1, <1>2
  <2> QED
    BY <2>1, <2>2, <1>3, <1>4
<1>7. QuietDuringKex'
  <2>1. \A i \in 1..Len(c2s') : c2s'[i].type = "UP" => i <= Len(c2s)
    BY <1>1, <1>2, <1>3
  <2>2. ASSUME NEW i \in 1..Len(c2s'), NEW j \in 1..Len(c2s'),
               i < j, c2s'[i].type = "KEXINIT", c2s'[j].type = "UP"
        PROVE  c2s'[j].key > c2s'[i].key
    <3>1. j <= Len(c2s) /\ i <= Len(c2s)
      BY <2>1, <2>2, <1>1, <1>2
    <3> QED
      BY <3>1, <2>2, <1>4 DEF WireInv, QuietDuringKex
  <2>3. ASSUME sv.in_kex, NEW j \in 1..Len(c2s'), c2s'[j].type = "UP"
        PROVE  c2s'[j].key > sv.rx
    BY <2>1, <2>3, <1>4 DEF WireInv, QuietDuringKex
  <2> QED
    BY <2>2, <2>3 DEF QuietDuringKex
<1> QED
  BY <1>5, <1>6, <1>7 DEF WireInv

\* An upper layer's message: it is sent only when it may be.
LEMMA WireUp ==
    ASSUME TypeOK, WireInv, NEW n \in Nat, SendUp(Up(n)),
           UNCHANGED <<tx, sv, kex_state, kex_sent_kexinit, kex_sent_newkeys>>
    PROVE  WireInv'
<1>1. CASE ssh_kex_locked
  BY <1>1, WireQuiet DEF SendUp, ssh_kex_locked, WireInv, FlagsFit
<1>2. CASE ~ssh_kex_locked
  <2>0. tx \in Nat /\ Len(c2s) \in Nat /\ sv.rx \in Nat /\ Up(n).type = "UP"
    BY EarlyTypes DEF Up
  <2>1. <<Up(n)>> \in Seq(Message) /\ Len(<<Up(n)>>) = 1 /\ <<Up(n)>>[1] = Up(n)
    BY MsgType, MsgSeq
  <2>s. SendNow(<<Up(n)>>)
    BY <1>2 DEF SendUp
  <2>2. /\ Len(c2s') = Len(c2s) + 1
        /\ \A i \in 1..Len(c2s) : c2s'[i] = c2s[i]
        /\ c2s'[Len(c2s) + 1] = Seal(Up(n), tx, tx_seq + 1 - 1)
    <3> DEFINE ms == <<Up(n)>>
    <3>1. ms \in Seq(Message) /\ Len(ms) = 1 /\ ms[1] = Up(n) /\ SendNow(ms)
      BY <2>1, <2>s
    <3> HIDE DEF ms
    <3>2. /\ Len(c2s') = Len(c2s) + Len(ms)
          /\ \A i \in 1..Len(c2s) : c2s'[i] = c2s[i]
          /\ \A i \in 1..Len(ms) : c2s'[Len(c2s) + i] = Seal(ms[i], tx, tx_seq + i - 1)
      BY <3>1, SendNowEffect
    <3> QED
      BY <3>1, <3>2
  <2>3. c2s'[Len(c2s) + 1].key = tx /\ c2s'[Len(c2s) + 1].type = "UP"
    BY <2>0, <2>2 DEF Seal
  <2>4. \A i \in 1..Len(c2s') : i = Len(c2s) + 1 \/ (i \in 1..Len(c2s) /\ c2s'[i] = c2s[i])
    BY <2>0, <2>2
  <2>5. /\ \A i \in 1..Len(c2s) : c2s[i].type = "KEXINIT" => c2s[i].key < tx
        /\ sv.in_kex => sv.rx < tx
    BY <1>2 DEF WireInv, FreeAfterNewKeys
  <2>6. KeysBelow'
    <3>1. \A i \in 1..Len(c2s') : c2s'[i].key <= tx
      BY <2>0, <2>3, <2>4 DEF WireInv, KeysBelow
    <3> QED
      BY <3>1 DEF KeysBelow
  <2>7. FreeAfterNewKeys'
    <3>1. \A i \in 1..Len(c2s') : c2s'[i].type = "KEXINIT" => c2s'[i].key < tx
      BY <2>3, <2>4, <2>5
    <3> QED
      BY <3>1, <2>5 DEF FreeAfterNewKeys
  <2>8. QuietDuringKex'
    <3>1. ASSUME NEW i \in 1..Len(c2s'), NEW j \in 1..Len(c2s'),
                 i < j, c2s'[i].type = "KEXINIT", c2s'[j].type = "UP"
          PROVE  c2s'[j].key > c2s'[i].key
      <4>1. i \in 1..Len(c2s) /\ c2s'[i] = c2s[i]
        BY <2>0, <2>2, <3>1
      <4>2. CASE j = Len(c2s) + 1
        BY <4>1, <4>2, <3>1, <2>3, <2>5, <2>0, EarlyTypes
      <4>3. CASE j \in 1..Len(c2s) /\ c2s'[j] = c2s[j]
        BY <4>1, <4>3, <3>1 DEF WireInv, QuietDuringKex
      <4> QED
        BY <2>4, <4>2, <4>3
    <3>2. ASSUME sv.in_kex, NEW j \in 1..Len(c2s'), c2s'[j].type = "UP"
          PROVE  c2s'[j].key > sv.rx
      <4>1. CASE j = Len(c2s) + 1
        BY <4>1, <3>2, <2>3, <2>5, <2>0
      <4>2. CASE j \in 1..Len(c2s) /\ c2s'[j] = c2s[j]
        BY <4>2, <3>2 DEF WireInv, QuietDuringKex
      <4> QED
        BY <2>4, <4>1, <4>2
    <3> QED
      BY <3>1, <3>2 DEF QuietDuringKex
  <2> QED
    BY <2>6, <2>7, <2>8 DEF WireInv, FlagsFit
<1> QED
  BY <1>1, <1>2

\* The single messages the client sends of its own, and the pairs.
LEMMA OwnTalk ==
    /\ \A t \in MsgTypes : <<Msg(t)>> \in Seq(Message) /\ Len(<<Msg(t)>>) = 1
                           /\ <<Msg(t)>>[1].type = t
    /\ \A t, u \in MsgTypes :
          /\ Append(<<Msg(t)>>, Msg(u)) \in Seq(Message) /\ Len(Append(<<Msg(t)>>, Msg(u))) = 2
          /\ Append(<<Msg(t)>>, Msg(u))[1].type = t /\ Append(<<Msg(t)>>, Msg(u))[2].type = u
    /\ \A t \in MsgTypes : Append(<<>>, Msg(t)) = <<Msg(t)>>
    /\ <<>> \in Seq(Message) /\ Len(<<>>) = 0
<1>1. \A t \in MsgTypes : Msg(t) \in Message /\ Msg(t).type = t
  BY MsgType DEF Msg
<1>2. \A m : /\ Len(<<m>>) = 1 /\ <<m>>[1] = m /\ Append(<<>>, m) = <<m>>
            /\ \A k : /\ Len(Append(<<m>>, k)) = 2
                      /\ Append(<<m>>, k)[1] = m /\ Append(<<m>>, k)[2] = k
  OBVIOUS
<1>3. \A t, u \in MsgTypes : Append(<<Msg(t)>>, Msg(u)) \in Seq(Message)
  BY <1>1, MsgSeq
<1>4. \A t \in MsgTypes : <<Msg(t)>> \in Seq(Message)
  BY <1>1, MsgSeq
<1> QED
  BY <1>1, <1>2, <1>3, <1>4, EmptySeq

-----------------------------------------------------------------------------
(* The client's steps *)

\* The client sends nothing, or now and only messages of the kinds T.
Sends(T) ==
    \/ UNCHANGED c2s
    \/ \E ms \in Seq(Message) : SendNow(ms) /\ \A k \in 1..Len(ms) : ms[k].type \in T

\* What the actions send, in that form.
LEMMA SendsWhat ==
    ASSUME NEW T \in SUBSET MsgTypes
    PROVE  /\ \A t \in T : SendNow(<<Msg(t)>>) => Sends(T)
           /\ \A t, u \in T : SendNow(Append(<<Msg(t)>>, Msg(u))) => Sends(T)
           /\ SendNow(<<>>) => Sends(T)
           /\ \A why : "DISCONNECT" \in T /\ Fail(<<>>, why) => Sends(T)
           /\ \A why : {"KEXINIT", "DISCONNECT"} \subseteq T /\ Fail(<<KexInit>>, why) => Sends(T)
<1>1. ASSUME NEW t \in T, SendNow(<<Msg(t)>>) PROVE Sends(T)
  <2> DEFINE ms == <<Msg(t)>>
  <2>1. ms \in Seq(Message) /\ Len(ms) = 1 /\ ms[1].type = t /\ SendNow(ms)
    BY <1>1, OwnTalk
  <2> HIDE DEF ms
  <2> QED
    BY <2>1 DEF Sends
<1>2. ASSUME NEW t \in T, NEW u \in T, SendNow(Append(<<Msg(t)>>, Msg(u))) PROVE Sends(T)
  <2> DEFINE ms == Append(<<Msg(t)>>, Msg(u))
  <2>1. ms \in Seq(Message) /\ Len(ms) = 2 /\ ms[1].type = t /\ ms[2].type = u /\ SendNow(ms)
    BY <1>2, OwnTalk
  <2> HIDE DEF ms
  <2> QED
    BY <2>1 DEF Sends
<1>3. SendNow(<<>>) => Sends(T)
  <2> DEFINE ms == <<>>
  <2>1. ms \in Seq(Message) /\ Len(ms) = 0
    BY OwnTalk
  <2> HIDE DEF ms
  <2>2. \A k \in 1..Len(ms) : ms[k].type \in T
    BY <2>1
  <2>3. SendNow(ms) => Sends(T)
    BY <2>1, <2>2, Zenon DEF Sends
  <2> QED
    BY <2>3 DEF ms
<1>4. ASSUME NEW why, "DISCONNECT" \in T, Fail(<<>>, why) PROVE Sends(T)
  <2>1. SendNow(Append(<<>>, Msg("DISCONNECT"))) \/ SendNow(<<>>)
    BY <1>4 DEF Fail
  <2>2. Append(<<>>, Msg("DISCONNECT")) = <<Msg("DISCONNECT")>>
    OBVIOUS
  <2> QED
    BY <2>1, <2>2, <1>1, <1>3, <1>4
<1>5. ASSUME NEW why, {"KEXINIT", "DISCONNECT"} \subseteq T, Fail(<<KexInit>>, why)
      PROVE  Sends(T)
  <2>1. \/ SendNow(Append(<<Msg("KEXINIT")>>, Msg("DISCONNECT")))
        \/ SendNow(<<Msg("KEXINIT")>>)
    BY <1>5 DEF Fail, KexInit
  <2> QED
    BY <2>1, <1>1, <1>2, <1>5
<1> QED
  BY <1>1, <1>2, <1>3, <1>4, <1>5

\* A step of the client that changes no keys and sends nothing of the upper layers, or a
\* SERVICE_REQUEST once the host key is accepted.
LEMMA EarlyTalk ==
    ASSUME TypeOK, EarlyInv, UNCHANGED <<tx, sv>>, NEW T \in SUBSET MsgTypes, Sends(T),
           "UP" \notin T, "KEXINIT" \in T => ssh_kex_locked',
           FlagsFit', ssh_kex_locked => ssh_kex_locked',
           \/ hostkey_decided' /\ hostkey_ok'
           \/ /\ ~(hostkey_decided /\ hostkey_ok) /\ "SERVICE_REQUEST" \notin T
              /\ UNCHANGED deferred
              /\ auth_state' = auth_state \/ auth_state' = "WAIT_HOSTKEY"
    PROVE  EarlyInv'
<1>1. WireInv'
  <2>1. CASE UNCHANGED c2s
    BY <2>1, WireQuiet DEF EarlyInv
  <2>2. CASE \E ms \in Seq(Message) : SendNow(ms) /\ \A k \in 1..Len(ms) : ms[k].type \in T
    BY <2>2, WireSend DEF EarlyInv
  <2> QED
    BY <2>1, <2>2 DEF Sends
<1>2. HostKeyGate'
  <2>1. CASE hostkey_decided' /\ hostkey_ok'
    BY <2>1 DEF HostKeyGate
  <2>2. CASE /\ ~(hostkey_decided /\ hostkey_ok) /\ "SERVICE_REQUEST" \notin T
             /\ UNCHANGED deferred
             /\ auth_state' = auth_state \/ auth_state' = "WAIT_HOSTKEY"
    <3>1. /\ auth_state \in {"NONE", "WAIT_HOSTKEY"} /\ deferred = <<>>
          /\ \A i \in 1..Len(c2s) : c2s[i].type \notin {"SERVICE_REQUEST", "UP"}
      BY <2>2 DEF EarlyInv, HostKeyGate
    <3>2. \A i \in 1..Len(c2s') : c2s'[i].type \notin {"SERVICE_REQUEST", "UP"}
      <4>1. CASE UNCHANGED c2s
        BY <4>1, <3>1
      <4>2. ASSUME NEW ms \in Seq(Message), SendNow(ms),
                   \A k \in 1..Len(ms) : ms[k].type \in T, NEW i \in 1..Len(c2s')
            PROVE  c2s'[i].type \notin {"SERVICE_REQUEST", "UP"}
        <5>1. /\ Len(c2s') = Len(c2s) + Len(ms) /\ Len(c2s) \in Nat /\ Len(ms) \in Nat
              /\ \A k \in 1..Len(c2s) : c2s'[k] = c2s[k]
              /\ \A k \in 1..Len(ms) : c2s'[Len(c2s) + k] = Seal(ms[k], tx, tx_seq + k - 1)
          BY <4>2, SendNowEffect, EarlyTypes
        <5>2. CASE i \in 1..Len(c2s)
          BY <5>1, <5>2, <3>1
        <5>3. CASE i \notin 1..Len(c2s)
          <6>1. i - Len(c2s) \in 1..Len(ms) /\ Len(c2s) + (i - Len(c2s)) = i
            BY <5>1, <5>3
          <6>2. c2s'[i] = Seal(ms[i - Len(c2s)], tx, tx_seq + (i - Len(c2s)) - 1)
            BY <6>1, <5>1
          <6> QED
            BY <6>1, <6>2, <4>2, <2>2 DEF Seal
        <5> QED
          BY <5>2, <5>3
      <4> QED
        BY <4>1, <4>2 DEF Sends
    <3> QED
      BY <2>2, <3>1, <3>2 DEF HostKeyGate
  <2> QED
    BY <2>1, <2>2
<1> QED
  BY <1>1, <1>2 DEF EarlyInv

\* The application's operations.
LEMMA EarlyApp == TypeOK /\ EarlyInv /\ App => EarlyInv'
<1> SUFFICES ASSUME TypeOK, EarlyInv, App PROVE EarlyInv'
  OBVIOUS
<1>m. {"KEXINIT", "DISCONNECT", "IGNORE", "SERVICE_REQUEST"} \subseteq MsgTypes
  BY DEF MsgTypes, KexTypes
<1>f. FlagsFit
  BY DEF EarlyInv, WireInv
<1>1. CASE ssh_start
  <2>1. UNCHANGED <<tx, sv, deferred, hostkey_decided, hostkey_ok, auth_state>>
    BY <1>1 DEF ssh_start, keys, gate
  <2>2. CASE SendNow(<<KexInit>>) /\ kex_sent_kexinit' /\ ~kex_sent_newkeys' /\ kex_state' = "SENT_INIT"
    <3>1. Sends({"KEXINIT"}) /\ {"KEXINIT"} \in SUBSET MsgTypes
      BY <2>2, <1>m, SendsWhat DEF KexInit
    <3> QED
      BY <2>1, <2>2, <3>1, EarlyTalk DEF FlagsFit, ssh_kex_locked
  <2>3. CASE /\ Fail(<<>>, "not enough entropy")
             /\ UNCHANGED <<kex_state, kex_sent_kexinit, kex_sent_newkeys>>
    <3>1. Sends({"DISCONNECT"}) /\ {"DISCONNECT"} \in SUBSET MsgTypes
      BY <2>3, <1>m, SendsWhat
    <3> QED
      BY <2>1, <2>3, <3>1, <1>f, EarlyTalk DEF FlagsFit, ssh_kex_locked
  <2> QED
    BY <1>1, <2>2, <2>3 DEF ssh_start
<1>2. CASE Submit
  <2>1. /\ UNCHANGED <<tx, sv, kex_state, kex_sent_kexinit, kex_sent_newkeys, hostkey_decided, hostkey_ok>>
        /\ SendUp(Up(submitted + 1)) /\ submitted + 1 \in Nat /\ auth_state = "IN_PROGRESS"
    BY <1>2 DEF Submit, keys, kexflags, gate, TypeOK, CountsOK
  <2>2. WireInv'
    BY <2>1, WireUp DEF EarlyInv
  <2>3. hostkey_decided /\ hostkey_ok
    BY <2>1 DEF EarlyInv, HostKeyGate
  <2> QED
    BY <2>1, <2>2, <2>3 DEF EarlyInv, HostKeyGate
<1>3. CASE ssh_send_ignore \/ ssh_disconnect
  <2>1. UNCHANGED <<tx, sv, deferred, hostkey_decided, hostkey_ok, auth_state,
                    kex_state, kex_sent_kexinit, kex_sent_newkeys>>
    BY <1>3 DEF ssh_send_ignore, ssh_disconnect, keys, gate, kexflags
  <2>2. Sends({"IGNORE", "DISCONNECT"}) /\ {"IGNORE", "DISCONNECT"} \in SUBSET MsgTypes
    <3>1. SendNow(<<Msg("IGNORE")>>) \/ SendNow(<<Msg("DISCONNECT")>>)
      BY <1>3 DEF ssh_send_ignore, ssh_disconnect
    <3> QED
      BY <3>1, <1>m, SendsWhat
  <2> QED
    BY <2>1, <2>2, <1>f, EarlyTalk DEF FlagsFit, ssh_kex_locked
<1>4. ASSUME NEW accept \in BOOLEAN, ssh_hostkey_accept(accept)
      PROVE  EarlyInv'
  <2>1. /\ UNCHANGED <<tx, sv, deferred, kex_state, kex_sent_kexinit, kex_sent_newkeys>>
        /\ ~hostkey_decided /\ hostkey_decided' = TRUE /\ hostkey_ok' = accept
    BY <1>4 DEF ssh_hostkey_accept, keys, kexflags
  <2>2. CASE accept
    <3>1. \/ SendNow(<<>>) \/ SendNow(<<Msg("SERVICE_REQUEST")>>) \/ UNCHANGED c2s
      BY <1>4, <2>2 DEF ssh_hostkey_accept, AuthBegin
    <3>2. Sends({"SERVICE_REQUEST"}) /\ {"SERVICE_REQUEST"} \in SUBSET MsgTypes
      BY <3>1, <1>m, SendsWhat DEF Sends
    <3> QED
      BY <2>1, <2>2, <3>2, <1>f, EarlyTalk DEF FlagsFit, ssh_kex_locked
  <2>3. CASE ~accept
    <3>1. UNCHANGED auth_state /\ (SendNow(<<>>) \/ SendNow(<<Msg("DISCONNECT")>>))
      BY <1>4, <2>3 DEF ssh_hostkey_accept
    <3>2. Sends({"DISCONNECT"}) /\ {"DISCONNECT"} \in SUBSET MsgTypes
      BY <3>1, <1>m, SendsWhat
    <3> QED
      BY <2>1, <3>1, <3>2, <1>f, EarlyTalk DEF FlagsFit, ssh_kex_locked
  <2> QED
    BY <2>2, <2>3
<1> QED
  BY <1>1, <1>2, <1>3, <1>4 DEF App

\* The version line, and the packets that do not bring the exchange to its end.
LEMMA EarlyRecv ==
    /\ TypeOK /\ EarlyInv
    /\ \/ read_version \/ RecvFails \/ RecvIgnored \/ handle_kexinit \/ handle_gex_group
       \/ RecvDisconnect \/ RecvMisc \/ RecvUp
    => EarlyInv'
<1> SUFFICES ASSUME TypeOK, EarlyInv,
                    \/ read_version \/ RecvFails \/ RecvIgnored \/ handle_kexinit
                    \/ handle_gex_group \/ RecvDisconnect \/ RecvMisc \/ RecvUp
             PROVE  EarlyInv'
  OBVIOUS
<1> DEFINE T == {"KEXINIT", "DISCONNECT", "KEX_INIT", "GEX_REQUEST", "GEX_INIT", "UNIMPLEMENTED"}
           R == T \ {"KEXINIT"}
<1>m. /\ T \in SUBSET MsgTypes /\ R \in SUBSET MsgTypes /\ "UP" \notin T /\ "UP" \notin R
      /\ "SERVICE_REQUEST" \notin T /\ "SERVICE_REQUEST" \notin R /\ "KEXINIT" \notin R
      /\ {"KEXINIT", "DISCONNECT", "KEX_INIT", "GEX_REQUEST"} \subseteq T
      /\ {"DISCONNECT", "GEX_INIT", "UNIMPLEMENTED", "KEX_INIT", "GEX_REQUEST"} \subseteq R
  BY DEF MsgTypes, KexTypes
<1> HIDE DEF T, R
<1>f. FlagsFit
  BY DEF EarlyInv, WireInv
<1>u. UNCHANGED <<tx, sv, deferred, hostkey_decided, hostkey_ok, auth_state>>
  <2>1. CASE read_version \/ RecvFails \/ RecvIgnored
    BY <2>1 DEF read_version, RecvFails, RecvIgnored, keys, gate
  <2>2. CASE handle_kexinit \/ handle_gex_group
    BY <2>2 DEF handle_kexinit, handle_gex_group, keys, gate
  <2>3. CASE RecvDisconnect \/ RecvMisc \/ RecvUp
    BY <2>3 DEF RecvDisconnect, RecvMisc, RecvUp, keys, gate
  <2> QED
    BY <2>1, <2>2, <2>3
<1>g. \/ hostkey_decided' /\ hostkey_ok'
      \/ /\ ~(hostkey_decided /\ hostkey_ok) /\ UNCHANGED deferred
         /\ auth_state' = auth_state \/ auth_state' = "WAIT_HOSTKEY"
  BY <1>u
\* Nothing about the exchange changes, and no KEXINIT is sent.
<1>q. Sends(R) /\ UNCHANGED <<kex_sent_kexinit, kex_sent_newkeys>> /\ FlagsFit' => EarlyInv'
  BY <1>m, <1>u, <1>g, EarlyTalk DEF ssh_kex_locked
\* The exchange is locked in the end.
<1>l. Sends(T) /\ kex_sent_kexinit' /\ ~kex_sent_newkeys' /\ FlagsFit' => EarlyInv'
  BY <1>m, <1>u, <1>g, EarlyTalk DEF ssh_kex_locked
<1>1. CASE read_version
  <2>1. UNCHANGED <<kex_state, kex_sent_kexinit, kex_sent_newkeys>>
    BY <1>1 DEF read_version, kexflags
  <2>2. Sends(R)
    <3>1. UNCHANGED c2s \/ Fail(<<>>, "not protocol 2")
      BY <1>1 DEF read_version
    <3> QED
      BY <3>1, <1>m, SendsWhat DEF Sends
  <2> QED
    BY <2>1, <2>2, <1>q, <1>f DEF FlagsFit
<1>2. CASE RecvFails
  <2> DEFINE p == Head(s2c)
             rekey == Refusals(p) = {} /\ p.type = "KEXINIT" /\ kex_state = "IDLE"
  <2>1. /\ \E why : Fail(IF rekey THEN <<KexInit>> ELSE <<>>, why)
        /\ kex_state' = IF rekey THEN "SENT_INIT" ELSE kex_state
        /\ kex_sent_kexinit' = (kex_sent_kexinit \/ rekey)
        /\ kex_sent_newkeys' = (kex_sent_newkeys /\ ~rekey)
    BY <1>2 DEF RecvFails
  <2>2. kex_sent_kexinit \in BOOLEAN /\ kex_sent_newkeys \in BOOLEAN
    BY EarlyTypes
  <2> HIDE DEF rekey
  <2>3. CASE rekey
    <3>1. Sends(T)
      BY <2>1, <2>3, <1>m, SendsWhat
    <3> QED
      BY <2>1, <2>3, <3>1, <1>l DEF FlagsFit
  <2>4. CASE ~rekey
    <3>1. Sends(R)
      BY <2>1, <2>4, <1>m, SendsWhat
    <3>2. UNCHANGED <<kex_state, kex_sent_kexinit, kex_sent_newkeys>>
      BY <2>1, <2>2, <2>4, Zenon
    <3> QED
      BY <3>1, <3>2, <1>q, <1>f DEF FlagsFit
  <2> QED
    BY <2>3, <2>4
<1>3. CASE RecvIgnored \/ RecvDisconnect \/ RecvUp
  <2>1. UNCHANGED <<c2s, kex_state, kex_sent_kexinit, kex_sent_newkeys>>
    BY <1>3 DEF RecvIgnored, RecvDisconnect, RecvUp, kexflags
  <2> QED
    BY <2>1, <1>q, <1>f DEF FlagsFit, Sends
<1>4. CASE handle_kexinit
  <2>1. \E method \in {"DH", "GEX"} :
           /\ SendNow(Append(IF kex_state = "IDLE" THEN <<KexInit>> ELSE <<>>, kex_send_init(method)))
           /\ kex_state' = IF method = "GEX" THEN "WAIT_GROUP" ELSE "WAIT_REPLY"
    BY <1>4 DEF handle_kexinit, MethodOf
  <2>2. kex_sent_kexinit' /\ ~kex_sent_newkeys'
    BY <1>4 DEF handle_kexinit
  <2>3. PICK t \in {"KEX_INIT", "GEX_REQUEST"} :
           SendNow(Append(IF kex_state = "IDLE" THEN <<KexInit>> ELSE <<>>, Msg(t)))
    BY <2>1 DEF kex_send_init
  <2>4. Append(<<>>, Msg(t)) = <<Msg(t)>>
    OBVIOUS
  <2>5. SendNow(Append(<<Msg("KEXINIT")>>, Msg(t))) \/ SendNow(<<Msg(t)>>)
    BY <2>3, <2>4 DEF KexInit
  <2>6. Sends(T)
    BY <2>5, <1>m, SendsWhat
  <2> QED
    BY <2>1, <2>2, <2>6, <1>l DEF FlagsFit
<1>5. CASE handle_gex_group
  <2>1. /\ UNCHANGED <<kex_sent_kexinit, kex_sent_newkeys>> /\ kex_state' = "WAIT_REPLY"
        /\ SendNow(<<Msg("GEX_INIT")>>)
    BY <1>5 DEF handle_gex_group
  <2>2. Sends(R)
    BY <2>1, <1>m, SendsWhat
  <2> QED
    BY <2>1, <2>2, <1>q DEF FlagsFit
<1>6. CASE RecvMisc
  <2>1. /\ UNCHANGED <<kex_state, kex_sent_kexinit, kex_sent_newkeys>>
        /\ SendNow(<<Msg("UNIMPLEMENTED")>>) \/ SendNow(<<>>)
    BY <1>6 DEF RecvMisc, kexflags
  <2>2. Sends(R)
    BY <2>1, <1>m, SendsWhat
  <2> QED
    BY <2>1, <2>2, <1>q, <1>f DEF FlagsFit
<1> QED
  BY <1>1, <1>2, <1>3, <1>4, <1>5, <1>6

\* The server's acceptance of our request: the first message of authentication.
LEMMA EarlyAccept == TypeOK /\ EarlyInv /\ RecvServiceAccept => EarlyInv'
<1> SUFFICES ASSUME TypeOK, EarlyInv, RecvServiceAccept PROVE EarlyInv'
  OBVIOUS
<1>1. UNCHANGED <<tx, sv, kex_state, kex_sent_kexinit, kex_sent_newkeys, hostkey_decided, hostkey_ok>>
  BY DEF RecvServiceAccept, keys, kexflags, gate
<1>2. CASE auth_state = "SERVICE_SENT"
  <2>1. SendUp(Up(submitted + 1)) /\ submitted + 1 \in Nat
    BY <1>2 DEF RecvServiceAccept, TypeOK, CountsOK
  <2>2. WireInv'
    BY <1>1, <2>1, WireUp DEF EarlyInv
  <2>3. hostkey_decided /\ hostkey_ok
    BY <1>2 DEF EarlyInv, HostKeyGate
  <2> QED
    BY <1>1, <2>2, <2>3 DEF EarlyInv, HostKeyGate
<1>3. CASE auth_state # "SERVICE_SENT"
  <2>1. UNCHANGED <<auth_state, c2s, deferred>>
    BY <1>3 DEF RecvServiceAccept
  <2>2. Sends({}) /\ {} \in SUBSET MsgTypes
    BY <2>1 DEF Sends
  <2> QED
    BY <1>1, <2>1, <2>2, EarlyTalk DEF FlagsFit, ssh_kex_locked, EarlyInv, WireInv
<1> QED
  BY <1>2, <1>3

\* The server's NEWKEYS ends the exchange, and the client is free again.
LEMMA EarlyNewKeys == TypeOK /\ EarlyInv /\ handle_newkeys => EarlyInv'
<1> SUFFICES ASSUME TypeOK, EarlyInv, handle_newkeys PROVE EarlyInv'
  OBVIOUS
<1>1. /\ UNCHANGED <<tx, sv, deferred, hostkey_decided, hostkey_ok>>
      /\ kex_state' = "IDLE" /\ kex_sent_kexinit' = FALSE /\ KexFinished
      /\ Incoming({"NEWKEYS"}) /\ Refusals(Head(s2c)) = {} /\ ~ignore_next_packet
  BY DEF handle_newkeys, gate, Accepted
<1>2. kex_state = "WAIT_NEWKEYS"
  <2>1. Head(s2c).type = "NEWKEYS"
    BY <1>1 DEF Incoming
  <2> QED
    BY <1>1, <2>1 DEF Refusals
<1>3. ~ssh_kex_locked
  BY <1>2 DEF EarlyInv, WireInv, FlagsFit, ssh_kex_locked
<1>4. CASE ~first_kex_done /\ hostkey_decided /\ hostkey_ok
  <2>1. SendNow(<<>>) \/ SendNow(<<Msg("SERVICE_REQUEST")>>)
    BY <1>1, <1>4 DEF KexFinished, AuthBegin
  <2>2. Sends({"SERVICE_REQUEST"}) /\ {"SERVICE_REQUEST"} \in SUBSET MsgTypes
    BY <2>1, SendsWhat DEF MsgTypes
  <2> QED
    BY <1>1, <1>3, <1>4, <2>2, EarlyTalk DEF FlagsFit
<1>5. CASE ~(~first_kex_done /\ hostkey_decided /\ hostkey_ok)
  <2>1. UNCHANGED c2s /\ (auth_state' = auth_state \/ auth_state' = "WAIT_HOSTKEY")
    BY <1>1, <1>5 DEF KexFinished
  <2>2. Sends({}) /\ {} \in SUBSET MsgTypes
    BY <2>1 DEF Sends
  <2> QED
    BY <1>1, <1>3, <2>1, <2>2, EarlyTalk DEF FlagsFit
<1> QED
  BY <1>4, <1>5

\* What the end of the exchange leaves on the wire: our NEWKEYS under the old keys, and
\* behind it what waited, under the new ones.
LEMMA ReplyEffect ==
    ASSUME TypeOK, SealInv, KeysBelow, handle_kex_reply
    PROVE  /\ tx' = tx + 1
           /\ Len(c2s') = Len(c2s) + 1 + Len(deferred)
           /\ \A i \in 1..Len(c2s) : c2s'[i] = c2s[i]
           /\ c2s'[Len(c2s) + 1].type = "NEWKEYS" /\ c2s'[Len(c2s) + 1].key = tx
           /\ \A i \in (Len(c2s) + 2)..Len(c2s') : c2s'[i].type = "UP" /\ c2s'[i].key = tx + 1
           /\ sv.rx <= tx
<1> DEFINE p == Head(s2c)
           new == DeriveKeys(p)
           seq == SeqAfterNewKeys(tx_seq)
           nk == Seal(Msg("NEWKEYS"), tx, tx_seq)
           rest == SealAll(deferred, new, seq)
           v == Append(c2s, nk)
<1>1. /\ Incoming({"KEX_REPLY", "GEX_REPLY"}) /\ Refusals(p) = {} /\ ~ignore_next_packet
      /\ c2s' = c2s \o <<nk>> \o rest /\ tx' = new
  BY DEF handle_kex_reply, Accepted, flush_deferred
<1>2. ~closed /\ p = s2c[1] /\ p.type \in {"KEX_REPLY", "GEX_REPLY"} /\ p.key = rx
  BY <1>1, HeadOpens DEF SealInv, Incoming
<1>3. kex_state = "WAIT_REPLY" /\ tx = rx
  BY <1>1, <1>2 DEF Refusals, SealInv, ClientKeys
<1>4. /\ tx \in Nat /\ tx_seq \in Nat /\ c2s \in Seq(Packet) /\ deferred \in Seq(Message)
      /\ Len(c2s) \in Nat /\ Len(deferred) \in Nat
  BY DEF TypeOK, CountsOK, QueuesOK
<1>5. new = tx + 1
  <2>1. 1 \in 1..Len(s2c)
    BY <1>1, TailKeeps
  <2> QED
    BY <2>1, <1>2, <1>3 DEF SealInv, ReplyKeys, DeriveKeys
<1>6. seq \in Nat
  BY <1>4 DEF SeqAfterNewKeys
<1>7. nk \in Packet /\ nk.type = "NEWKEYS" /\ nk.key = tx
  BY <1>4, MsgType DEF Seal, Msg, Packet, MsgTypes, KexTypes
<1>8. /\ rest \in Seq(Packet) /\ Len(rest) = Len(deferred)
      /\ \A i \in 1..Len(deferred) : rest[i] = Seal(deferred[i], new, seq + i - 1)
  BY <1>4, <1>5, <1>6, SealAllType
<1> HIDE DEF new, seq, nk, rest
<1>9. /\ v \in Seq(Packet) /\ Len(v) = Len(c2s) + 1
      /\ \A i \in 1..Len(c2s) : v[i] = c2s[i]
      /\ v[Len(c2s) + 1] = nk
  BY <1>4, <1>7, AppendProperties
<1>10. c2s' = v \o rest
  BY <1>1, <1>4, <1>7
<1> HIDE DEF v
<1>11. /\ Len(v \o rest) = Len(v) + Len(rest)
       /\ \A i \in 1..(Len(v) + Len(rest)) : (v \o rest)[i] =
             IF i <= Len(v) THEN v[i] ELSE rest[i - Len(v)]
  BY <1>8, <1>9, ConcatProperties, SMTT(60)
<1>12. Len(c2s') = Len(c2s) + 1 + Len(deferred) /\ \A i \in 1..Len(v) : c2s'[i] = v[i]
  BY <1>4, <1>8, <1>9, <1>10, <1>11
<1>13. ASSUME NEW i \in (Len(c2s) + 2)..Len(c2s')
       PROVE  c2s'[i].type = "UP" /\ c2s'[i].key = tx + 1
  <2>1. i - Len(v) \in 1..Len(deferred) /\ i \in 1..(Len(v) + Len(rest)) /\ ~(i <= Len(v))
    BY <1>4, <1>8, <1>9, <1>12
  <2>2. c2s'[i] = Seal(deferred[i - Len(v)], new, seq + (i - Len(v)) - 1)
    BY <2>1, <1>8, <1>10, <1>11
  <2>3. deferred[i - Len(v)].type = "UP"
    BY <2>1 DEF SealInv, OnlyUpWaits
  <2> QED
    BY <2>2, <2>3, <1>5 DEF Seal
<1>14. sv.rx <= tx
  <2>1. CASE c2s = <<>>
    BY <2>1, <1>4 DEF SealInv, Chain
  <2>2. CASE c2s # <<>>
    <3>1. 1 \in 1..Len(c2s)
      BY <2>2, <1>4, EmptySeq
    <3>2. c2s[1].key = sv.rx
      BY <2>2 DEF SealInv, Chain
    <3> QED
      BY <3>1, <3>2 DEF KeysBelow
  <2> QED
    BY <2>1, <2>2
<1> QED
  BY <1>1, <1>4, <1>5, <1>7, <1>9, <1>12, <1>13, <1>14

\* The exchange ends on our side: what waited leaves under the new keys.
LEMMA EarlyReply == TypeOK /\ SealInv /\ EarlyInv /\ handle_kex_reply => EarlyInv'
<1> SUFFICES ASSUME TypeOK, SealInv, EarlyInv, handle_kex_reply PROVE EarlyInv'
  OBVIOUS
<1>1. /\ tx' = tx + 1
      /\ Len(c2s') = Len(c2s) + 1 + Len(deferred)
      /\ \A i \in 1..Len(c2s) : c2s'[i] = c2s[i]
      /\ c2s'[Len(c2s) + 1].type = "NEWKEYS" /\ c2s'[Len(c2s) + 1].key = tx
      /\ \A i \in (Len(c2s) + 2)..Len(c2s') : c2s'[i].type = "UP" /\ c2s'[i].key = tx + 1
      /\ sv.rx <= tx
  BY ReplyEffect DEF EarlyInv, WireInv
<1>2. /\ UNCHANGED <<sv, hostkey_decided, hostkey_ok, auth_state>>
      /\ kex_sent_newkeys' = TRUE /\ deferred' = <<>>
  BY DEF handle_kex_reply, gate
<1>3. /\ tx \in Nat /\ Len(c2s) \in Nat /\ sv.rx \in Nat /\ Len(deferred) \in Nat
      /\ \A i \in 1..Len(c2s) : c2s[i].key \in Nat
  BY EarlyTypes DEF TypeOK, QueuesOK
<1>4. \A i \in 1..Len(c2s') : \/ i \in 1..Len(c2s) \/ i = Len(c2s) + 1
                              \/ i \in (Len(c2s) + 2)..Len(c2s')
  BY <1>1, <1>3
<1>5. \A i \in 1..Len(c2s) : c2s[i].key <= tx
  BY DEF EarlyInv, WireInv, KeysBelow
<1>6. KeysBelow' /\ FlagsFit'
  <2>1. \A i \in 1..Len(c2s') : c2s'[i].key <= tx + 1
    BY <1>1, <1>3, <1>4, <1>5
  <2> QED
    BY <2>1, <1>1, <1>2 DEF KeysBelow, FlagsFit
<1>7. FreeAfterNewKeys'
  <2>1. \A i \in 1..Len(c2s') : c2s'[i].type = "KEXINIT" => i \in 1..Len(c2s)
    BY <1>1, <1>4
  <2>2. \A i \in 1..Len(c2s') : c2s'[i].type = "KEXINIT" => c2s'[i].key < tx + 1
    BY <2>1, <1>1, <1>3, <1>5
  <2>3. sv.rx < tx + 1
    BY <1>1, <1>3
  <2> QED
    BY <2>2, <2>3, <1>1, <1>2 DEF FreeAfterNewKeys
<1>8. QuietDuringKex'
  <2>1. ASSUME NEW i \in 1..Len(c2s'), NEW j \in 1..Len(c2s'),
               i < j, c2s'[i].type = "KEXINIT", c2s'[j].type = "UP"
        PROVE  c2s'[j].key > c2s'[i].key
    <3>1. i \in 1..Len(c2s) /\ c2s'[i] = c2s[i] /\ c2s[i].key \in Nat /\ c2s[i].key <= tx
      BY <2>1, <1>1, <1>3, <1>4, <1>5
    <3>2. CASE j \in 1..Len(c2s)
      BY <3>1, <3>2, <2>1, <1>1 DEF EarlyInv, WireInv, QuietDuringKex
    <3>3. CASE j \in (Len(c2s) + 2)..Len(c2s')
      BY <3>1, <3>3, <1>1, <1>3
    <3> QED
      BY <3>2, <3>3, <2>1, <1>1, <1>4
  <2>2. ASSUME sv.in_kex, NEW j \in 1..Len(c2s'), c2s'[j].type = "UP"
        PROVE  c2s'[j].key > sv.rx
    <3>1. CASE j \in 1..Len(c2s)
      BY <3>1, <2>2, <1>1 DEF EarlyInv, WireInv, QuietDuringKex
    <3>2. CASE j \in (Len(c2s) + 2)..Len(c2s')
      BY <3>2, <1>1, <1>3
    <3> QED
      BY <3>1, <3>2, <2>2, <1>1, <1>4
  <2> QED
    BY <2>1, <2>2, <1>2 DEF QuietDuringKex
<1>9. HostKeyGate'
  <2>1. CASE hostkey_decided /\ hostkey_ok
    BY <2>1, <1>2 DEF HostKeyGate
  <2>2. CASE ~(hostkey_decided /\ hostkey_ok)
    <3>1. /\ auth_state \in {"NONE", "WAIT_HOSTKEY"} /\ deferred = <<>>
          /\ \A i \in 1..Len(c2s) : c2s[i].type \notin {"SERVICE_REQUEST", "UP"}
      BY <2>2 DEF EarlyInv, HostKeyGate
    <3>2. Len(deferred) = 0
      BY <3>1, EmptySeq
    <3>3. \A i \in 1..Len(c2s') : c2s'[i].type \notin {"SERVICE_REQUEST", "UP"}
      BY <3>1, <3>2, <1>1, <1>3
    <3> QED
      BY <3>1, <3>3, <1>2 DEF HostKeyGate
  <2> QED
    BY <2>1, <2>2
<1> QED
  BY <1>6, <1>7, <1>8, <1>9 DEF EarlyInv, WireInv

-----------------------------------------------------------------------------
(* The server's steps *)

\* The server's own messages leave our wire alone.
LEMMA EarlyServer ==
    /\ TypeOK /\ EarlyInv
    /\ SvKexInit \/ SvNewKeys \/ SvAccept \/ SvUp \/ SvMisc \/ SvDisconnect
    => EarlyInv'
<1> SUFFICES ASSUME TypeOK, EarlyInv,
                    SvKexInit \/ SvNewKeys \/ SvAccept \/ SvUp \/ SvMisc \/ SvDisconnect
             PROVE  EarlyInv'
  OBVIOUS
<1>1. UNCHANGED client /\ UNCHANGED c2s
  BY DEF SvKexInit, SvNewKeys, SvAccept, SvUp, SvMisc, SvDisconnect
<1>2. UNCHANGED <<tx, kex_state, kex_sent_kexinit, kex_sent_newkeys, deferred, auth_state,
                  hostkey_decided, hostkey_ok>>
  BY <1>1 DEF client
<1>s. sv \in SvState
  BY DEF TypeOK, SvOK
<1>3. sv'.in_kex = sv.in_kex /\ sv'.rx = sv.rx
  <2>1. CASE SvKexInit
    <3>1. PICK opt \in SUBSET Options :
             SvSend(<<[type |-> "KEXINIT", id |-> 0, opt |-> opt]>> \o
                       (IF "guess" \in opt THEN <<Msg("GUESS")>> ELSE <<>>),
                    [sv EXCEPT !.kex = "sent", !.exch = @ + 1, !.method = MethodOf(opt)])
      BY <2>1 DEF SvKexInit
    <3>2. \E n : sv' = [[sv EXCEPT !.kex = "sent", !.exch = @ + 1, !.method = MethodOf(opt)]
                           EXCEPT !.tx_seq = n]
      BY <3>1 DEF SvSend
    <3> QED
      BY <3>2, <1>s DEF SvState
  <2>2. CASE SvNewKeys
    BY <2>2, <1>s DEF SvNewKeys, SvState
  <2>3. CASE SvAccept
    BY <2>3, <1>s DEF SvAccept, SvSend, SvState
  <2>4. CASE SvUp
    BY <2>4, <1>s DEF SvUp, SvSend, SvState
  <2>5. CASE SvMisc
    <3>1. \E n : sv' = [[sv EXCEPT !.misc = @ + 1] EXCEPT !.tx_seq = n]
      BY <2>5 DEF SvMisc, SvSend
    <3> QED
      BY <3>1, <1>s DEF SvState
  <2>6. CASE SvDisconnect
    BY <2>6, <1>s DEF SvDisconnect, SvSend, SvState
  <2> QED
    BY <2>1, <2>2, <2>3, <2>4, <2>5, <2>6
<1> QED
  BY <1>1, <1>2, <1>3 DEF EarlyInv, WireInv, KeysBelow, FreeAfterNewKeys, FlagsFit,
                          QuietDuringKex, HostKeyGate, ssh_kex_locked

\* The server reads: its wire gets shorter, and a KEXINIT it reads stands for the one that
\* was on the wire.
LEMMA EarlySvRecv == TypeOK /\ SealInv /\ EarlyInv /\ SvRecv => EarlyInv'
<1> SUFFICES ASSUME TypeOK, SealInv, EarlyInv, SvRecv PROVE EarlyInv'
  OBVIOUS
<1> DEFINE p == Head(c2s)
<1>1. UNCHANGED client /\ c2s # <<>> /\ SvTakes(p) /\ c2s' = Tail(c2s) /\ c2s \in Seq(Packet)
  BY DEF SvRecv, TypeOK, QueuesOK
<1>2. UNCHANGED <<tx, kex_state, kex_sent_kexinit, kex_sent_newkeys, deferred, auth_state,
                  hostkey_decided, hostkey_ok>>
  BY <1>1 DEF client
<1>3. /\ Len(c2s') = Len(c2s) - 1 /\ Len(c2s) \in Nat \ {0} /\ p = c2s[1]
      /\ \A i \in 1..Len(c2s') : c2s'[i] = c2s[i + 1]
  BY <1>1, HeadTailProperties, EmptySeq
<1>4. \A i \in 1..Len(c2s') : i + 1 \in 1..Len(c2s)
  BY <1>3
<1>s. sv \in SvState
  BY DEF TypeOK, SvOK
<1>5. \/ p.type = "KEXINIT" /\ sv'.rx = sv.rx /\ p.key = sv.rx
      \/ sv'.in_kex = FALSE
      \/ sv'.in_kex = sv.in_kex /\ sv'.rx = sv.rx
  <2> DEFINE next == [sv EXCEPT !.rx_seq = @ + 1]
  <2>1. CASE p.type = "KEXINIT"
    <3>1. sv' = [next EXCEPT !.in_kex = TRUE]
      BY <2>1 DEF SvRecv
    <3> QED
      BY <3>1, <2>1, <1>1, <1>s DEF SvState, SvTakes
  <2>2. CASE p.type = "NEWKEYS"
    BY <2>2, <1>s DEF SvRecv, SvState
  <2>3. CASE p.type \in {"GEX_REQUEST", "KEX_INIT", "GEX_INIT"}
    <3>1. \E k, n : sv' = [[next EXCEPT !.kex = k] EXCEPT !.tx_seq = n]
      BY <2>3 DEF SvRecv, SvSend
    <3> QED
      BY <3>1, <1>s DEF SvState
  <2>4. CASE p.type \notin {"KEXINIT", "NEWKEYS", "GEX_REQUEST", "KEX_INIT", "GEX_INIT"}
    <3>1. \/ sv' = next \/ sv' = [next EXCEPT !.owe = TRUE]
          \/ sv' = [next EXCEPT !.got = @ + 1] \/ sv' = [next EXCEPT !.gone = TRUE]
      BY <2>4 DEF SvRecv
    <3> QED
      BY <3>1, <1>s DEF SvState
  <2> QED
    BY <2>1, <2>2, <2>3, <2>4
<1> HIDE DEF p
<1>6. KeysBelow' /\ FlagsFit'
  BY <1>2, <1>3, <1>4 DEF EarlyInv, WireInv, KeysBelow, FlagsFit
<1>7. FreeAfterNewKeys'
  <2>1. ASSUME ~ssh_kex_locked'
        PROVE  /\ \A i \in 1..Len(c2s') : c2s'[i].type = "KEXINIT" => c2s'[i].key < tx
               /\ sv'.in_kex => sv'.rx < tx
    <3>1. /\ \A i \in 1..Len(c2s) : c2s[i].type = "KEXINIT" => c2s[i].key < tx
          /\ sv.in_kex => sv.rx < tx
      BY <2>1, <1>2 DEF EarlyInv, WireInv, FreeAfterNewKeys, ssh_kex_locked
    <3>2. 1 \in 1..Len(c2s)
      BY <1>3
    <3> QED
      BY <3>1, <3>2, <1>3, <1>4, <1>5
  <2> QED
    BY <2>1, <1>2 DEF FreeAfterNewKeys
<1>8. QuietDuringKex'
  <2>1. ASSUME NEW i \in 1..Len(c2s'), NEW j \in 1..Len(c2s'),
               i < j, c2s'[i].type = "KEXINIT", c2s'[j].type = "UP"
        PROVE  c2s'[j].key > c2s'[i].key
    BY <2>1, <1>3, <1>4 DEF EarlyInv, WireInv, QuietDuringKex
  <2>2. ASSUME sv'.in_kex, NEW j \in 1..Len(c2s'), c2s'[j].type = "UP"
        PROVE  c2s'[j].key > sv'.rx
    <3>1. j + 1 \in 1..Len(c2s) /\ c2s[j + 1].type = "UP" /\ c2s'[j] = c2s[j + 1]
      BY <2>2, <1>3, <1>4
    <3>2. CASE p.type = "KEXINIT" /\ sv'.rx = sv.rx /\ p.key = sv.rx
      <4>1. 1 \in 1..Len(c2s) /\ 1 < j + 1 /\ c2s[1].type = "KEXINIT"
        BY <3>2, <1>3
      <4> QED
        BY <4>1, <3>1, <3>2, <1>3 DEF EarlyInv, WireInv, QuietDuringKex
    <3>3. CASE sv'.in_kex = sv.in_kex /\ sv'.rx = sv.rx
      BY <3>1, <3>3, <2>2 DEF EarlyInv, WireInv, QuietDuringKex
    <3> QED
      BY <3>2, <3>3, <2>2, <1>5
  <2> QED
    BY <2>1, <2>2 DEF QuietDuringKex
<1>9. HostKeyGate'
  BY <1>2, <1>3, <1>4 DEF EarlyInv, HostKeyGate
<1> QED
  BY <1>6, <1>7, <1>8, <1>9 DEF EarlyInv, WireInv

-----------------------------------------------------------------------------
(* The theorem *)

\* Nothing is on the wire before the session starts.
LEMMA EarlyInit == Init => EarlyInv
<1> SUFFICES ASSUME Init PROVE EarlyInv
  OBVIOUS
<1>1. /\ c2s = <<>> /\ deferred = <<>> /\ kex_state = "IDLE" /\ auth_state = "NONE"
      /\ sv.in_kex = FALSE
  BY DEF Init
<1>2. Len(c2s) = 0
  BY <1>1
<1> QED
  BY <1>1, <1>2 DEF EarlyInv, WireInv, KeysBelow, FreeAfterNewKeys, FlagsFit, QuietDuringKex,
                    HostKeyGate

\* The invariant is inductive, given SealInv.
LEMMA EarlyStep == TypeOK /\ SealInv /\ EarlyInv /\ [Next]_vars => EarlyInv'
<1> SUFFICES ASSUME TypeOK, SealInv, EarlyInv, [Next]_vars PROVE EarlyInv'
  OBVIOUS
<1>1. CASE UNCHANGED vars
  <2>1. UNCHANGED <<c2s, sv, client>>
    BY <1>1 DEF vars
  <2>2. UNCHANGED <<tx, kex_state, kex_sent_kexinit, kex_sent_newkeys, deferred, auth_state,
                    hostkey_decided, hostkey_ok>>
    BY <2>1 DEF client
  <2> QED
    BY <2>1, <2>2 DEF EarlyInv, WireInv, KeysBelow, FreeAfterNewKeys, FlagsFit,
                      QuietDuringKex, HostKeyGate, ssh_kex_locked
<1>2. CASE App \/ read_version
  BY <1>2, EarlyApp, EarlyRecv
<1>3. CASE Recv
  BY <1>3, EarlyRecv, EarlyReply, EarlyNewKeys, EarlyAccept DEF Recv
<1>4. CASE Server
  BY <1>4, EarlyServer, EarlySvRecv DEF Server
<1> QED
  BY <1>1, <1>2, <1>3, <1>4 DEF Next

\* In every session, whatever the number of key exchanges and whenever the host key is
\* decided: no authentication or channel message leaves between our KEXINIT and our
\* NEWKEYS, and nothing of authentication before the host key is accepted.
THEOREM NothingEverEarly == Spec => []NothingEarly
<1>1. EarlyInv => NothingEarly
  BY DEF EarlyInv, WireInv, NothingEarly
<1> QED
  BY <1>1, EarlyInit, EarlyStep, TypeCorrect, SealInvariant, PTL DEF Spec
=============================================================================
