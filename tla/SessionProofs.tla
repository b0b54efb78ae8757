---------------------------- MODULE SessionProofs ----------------------------
(***************************************************************************)
(* Proof that the application and the engine of Session agree on whose     *)
(* every channel is, for any number of tunnels, browsers and slots, any    *)
(* workload, and however late the events are taken.                        *)
(*                                                                         *)
(* Ownership is a relation between the engine's table, the ids the         *)
(* application holds and the two queues of what is on its way from one to  *)
(* the other.  The first part is about that relation alone: L is the set   *)
(* of <<owner, slot>> of the channels in use, H that of the ids held, at   *)
(* and st give the slot and the state of each owner's channel at the       *)
(* server, n are the messages on their way and e the events not taken.     *)
(***************************************************************************)
EXTENDS Session, SumProofs

Units == Owners \X Nat
SvStates == {"none", "asked", "asked here", "open", "refused", "closed", "gone"}
MsgTypes == {"OPEN_CONFIRM", "OPEN_FAIL", "WINDOW_ADJ", "DATA", "EOF", "SUCCESS", "FAILURE",
             "CLOSE", "X11_OPEN", "DISCONNECT"}
\* (A window adjustment is of any size, the number of a byte is within the bound.)
Messages == {m \in [type : MsgTypes, ch : 0..MaxSlots, own : Owners, n : Nat] :
                m.type # "WINDOW_ADJ" => m.n <= MaxBytes}
Occurrences == [type : EventTypes, ch : 0..MaxSlots, own : Owners, byte : Bytes]

\* What ends a channel: among the events, and among the messages.
Final == {"CLOSE", "OPEN_FAILED"}
Parting == {"CLOSE", "OPEN_FAIL"}
\* Those of whom the shell's switch must not hear.
Private == Displays \cup Browsers

\* One of the first k events tells o of the end of its channel; of the start of it.
Told(e, k, o) == \E m \in 1..k : e[m].own = o /\ e[m].type \in Final
Comes(e, k, o) == \E m \in 1..k : e[m].own = o /\ e[m].type = "X11_OPEN"

Pairs == SUBSET (Owners \X Slots)
Standings == [Owners -> SvStates]
Places == [Owners -> 0..MaxSlots]

\* The engine's table and the server's: a channel in use has one owner, which has no other.
Engine(L, at, st) ==
    /\ \A o \in Owners, i \in Slots : <<o, i>> \in L => at[o] = i
    /\ \A o, p \in Owners, i \in Slots : <<o, i>> \in L /\ <<p, i>> \in L => o = p
    /\ \A o \in Owners : st[o] \in {"asked", "open"} => at[o] \in Slots /\ <<o, at[o]>> \in L
    /\ \A o \in Owners : st[o] = "none" => at[o] = 0
    /\ \A o \in Displays : st[o] # "asked"

\* A message is about a channel in use, or will make one; nothing follows the last.
About(L, at, st, m) ==
    /\ m.type = "DISCONNECT" => m.own = Shell
    /\ m.type = "X11_OPEN" => m.own \in Displays /\ at[m.own] = 0 /\ st[m.own] # "none"
    /\ m.type \notin {"DISCONNECT", "X11_OPEN"} => <<m.own, m.ch>> \in L
    /\ m.type \in Parting => st[m.own] \notin {"asked", "open"}
    /\ m.type = "OPEN_FAIL" => m.own \notin Displays
Sound(L, at, st, n) ==
    /\ \A a \in 1..Len(n) : About(L, at, st, n[a])
    /\ \A a, b \in 1..Len(n) :
          /\ a < b /\ n[a].type \in Parting /\ n[a].own = n[b].own => n[b].type = "DISCONNECT"
          /\ a # b /\ n[a].type = "X11_OPEN" => n[a].own # n[b].own

\* An event is about a channel in use, or the event that ends it is behind; the channel's
\* slot is nobody else's in between; nothing follows the last.
Named(at, v) ==
    /\ v.type = "DISCONNECT" => v.ch = 0 /\ v.own = Shell
    /\ v.type # "DISCONNECT" => v.ch \in Slots /\ v.ch = at[v.own]
    /\ v.type = "X11_OPEN" => v.own \in Displays
    /\ v.type = "OPEN_FAILED" => v.own \notin Displays
Finished(e, a, b) == \E c \in a..b : e[c].own = e[a].own /\ e[c].type \in Final
Ordered(L, at, e) ==
    /\ \A a \in 1..Len(e) :
          /\ Named(at, e[a])
          /\ e[a].type # "DISCONNECT" => <<e[a].own, e[a].ch>> \in L \/ Finished(e, a, Len(e))
          /\ e[a].type \in Final => \A i \in Slots : <<e[a].own, i>> \notin L
    /\ \A a, b \in 1..Len(e) :
          /\ a < b /\ e[a].type \in Final /\ e[a].own = e[b].own => e[b].type = "DISCONNECT"
          /\ a < b /\ e[a].ch \in Slots /\ e[a].ch = e[b].ch /\ e[a].own # e[b].own =>
                Finished(e, a, b - 1)

\* An id held is its owner's own, in use or with its end among the events; an event about the
\* slot of somebody else comes after that end; and those who are private are known.
Routed(L, H, at, e) ==
    /\ \A o \in Owners, i \in Slots : <<o, i>> \in H =>
          /\ at[o] = i
          /\ <<o, i>> \in L \/ Told(e, Len(e), o)
          /\ \A a \in 1..Len(e) : e[a].ch = i /\ e[a].own # o => Told(e, a - 1, o)
    /\ \A a \in 1..Len(e) : e[a].own \in Private =>
          <<e[a].own, e[a].ch>> \in H \/ Comes(e, a, e[a].own)
    /\ \A o \in Private, i \in Slots : <<o, i>> \in L => <<o, i>> \in H \/ Comes(e, Len(e), o)

Grounds(L, H, at, st, n, e) ==
    /\ L \in Pairs /\ H \in Pairs /\ at \in Places /\ st \in Standings
    /\ n \in Seq(Messages) /\ e \in Seq(Occurrences)
Agreed(L, H, at, st, n, e) ==
    Engine(L, at, st) /\ Sound(L, at, st, n) /\ Ordered(L, at, e) /\ Routed(L, H, at, e)

-----------------------------------------------------------------------------
(* Queues *)

Extends(f, e, v) == Len(f) = Len(e) + 1 /\ f[Len(e) + 1] = v /\ \A a \in 1..Len(e) : f[a] = e[a]
Drops(f, e) == Len(f) = Len(e) - 1 /\ \A a \in 1..Len(f) : f[a] = e[a + 1]

LEMMA Queues ==
    ASSUME NEW S, NEW e \in Seq(S)
    PROVE  /\ Len(e) \in Nat /\ \A a \in 1..Len(e) : e[a] \in S
           /\ \A v \in S : /\ Append(e, v) \in Seq(S) /\ Extends(Append(e, v), e, v)
                           /\ e \o <<v>> \in Seq(S) /\ Extends(e \o <<v>>, e, v)
           /\ e # <<>> => /\ Len(e) > 0 /\ Head(e) = e[1] /\ Head(e) \in S
                          /\ Tail(e) \in Seq(S) /\ Drops(Tail(e), e)
<1>1. Len(e) \in Nat /\ \A a \in 1..Len(e) : e[a] \in S
  BY LenProperties, ElementOfSeq
<1>2. ASSUME NEW v \in S
      PROVE  /\ Append(e, v) \in Seq(S) /\ Extends(Append(e, v), e, v)
             /\ e \o <<v>> \in Seq(S) /\ Extends(e \o <<v>>, e, v)
  <2>1. Append(e, v) \in Seq(S) /\ Extends(Append(e, v), e, v)
    BY <1>1 DEF Extends
  <2>2. e \o <<v>> = Append(e, v)
    OBVIOUS
  <2> QED BY <2>1, <2>2
<1>3. ASSUME e # <<>>
      PROVE  /\ Len(e) > 0 /\ Head(e) = e[1] /\ Head(e) \in S
             /\ Tail(e) \in Seq(S) /\ Drops(Tail(e), e)
  <2>1. Len(e) > 0
    BY <1>3, EmptySeq, <1>1
  <2>2. Head(e) = e[1]
    BY <1>3
  <2>3. Tail(e) \in Seq(S) /\ Drops(Tail(e), e)
    BY <1>3, HeadTailProperties DEF Drops
  <2> QED BY <1>1, <2>1, <2>2, <2>3
<1> QED
  BY <1>1, <1>2, <1>3

-----------------------------------------------------------------------------
(* An event more *)

LEMMA Owning ==
    /\ Shell \in Owners /\ Browsers \subseteq Owners /\ Conns \subseteq Owners
    /\ Displays \subseteq Owners /\ Tunnels = Conns \cup Displays /\ Private = Displays \cup Browsers
    /\ Owners = {Shell} \cup Conns \cup Private
    /\ Shell \notin Conns /\ Shell \notin Private /\ Conns \cap Private = {}
    /\ Displays \cap Browsers = {}
BY DEF Owners, Tunnels, Private, Shell, Conns, Displays, Browsers

LEMMA Numbering == MaxSlots \in Nat /\ 0 \notin Slots /\ Slots \subseteq Nat /\ 0..MaxSlots = Slots \cup {0}
<1>1. MaxSlots \in Nat
  BY SessionAssumption
<1> QED BY <1>1 DEF Slots

LEMMA Fields ==
    /\ \A v \in Occurrences : v.type \in EventTypes /\ v.ch \in 0..MaxSlots /\ v.own \in Owners
    /\ \A m \in Messages : m.type \in MsgTypes /\ m.ch \in 0..MaxSlots /\ m.own \in Owners /\ m.n \in Nat
BY DEF Occurrences, Messages

\* What was true of the events stays true of them when there is one more behind.
LEMMA Prefix ==
    ASSUME NEW e, NEW f, NEW v, Extends(f, e, v), Len(e) \in Nat
    PROVE  /\ Len(f) = Len(e) + 1 /\ f[Len(f)] = v
           /\ \A o : \A k \in 0..Len(e) : Told(e, k, o) <=> Told(f, k, o)
           /\ \A o : \A k \in 0..Len(e) : Comes(e, k, o) <=> Comes(f, k, o)
           /\ \A a, b \in 1..Len(e) : Finished(e, a, b) <=> Finished(f, a, b)
           /\ \A o : Told(f, Len(f), o) <=> Told(e, Len(e), o) \/ (v.own = o /\ v.type \in Final)
           /\ \A o : Comes(f, Len(f), o) <=> Comes(e, Len(e), o) \/ (v.own = o /\ v.type = "X11_OPEN")
           /\ \A a \in 1..Len(e) :
                 Finished(f, a, Len(f)) <=> Finished(e, a, Len(e)) \/ (v.own = e[a].own /\ v.type \in Final)
<1>1. Len(f) = Len(e) + 1 /\ f[Len(f)] = v /\ \A a \in 1..Len(e) : f[a] = e[a]
  BY DEF Extends
<1>2. \A o : \A k \in 0..Len(e) : Told(e, k, o) <=> Told(f, k, o)
  BY <1>1 DEF Told
<1>3. \A o : \A k \in 0..Len(e) : Comes(e, k, o) <=> Comes(f, k, o)
  BY <1>1 DEF Comes
<1>4. \A a, b \in 1..Len(e) : Finished(e, a, b) <=> Finished(f, a, b)
  BY <1>1 DEF Finished
<1>5. \A o : Told(f, Len(f), o) <=> Told(e, Len(e), o) \/ (v.own = o /\ v.type \in Final)
  BY <1>1 DEF Told
<1>6. \A o : Comes(f, Len(f), o) <=> Comes(e, Len(e), o) \/ (v.own = o /\ v.type = "X11_OPEN")
  BY <1>1 DEF Comes
<1>7. \A a \in 1..Len(e) :
         Finished(f, a, Len(f)) <=> Finished(e, a, Len(e)) \/ (v.own = e[a].own /\ v.type \in Final)
  BY <1>1 DEF Finished
<1> QED
  BY <1>1, <1>2, <1>3, <1>4, <1>5, <1>6, <1>7

\* Event v may follow the events e, when the channels in use become M and their places bt.
Follows(L, M, H, at, bt, e, f, v) ==
    /\ Named(bt, v)
    /\ v.type # "DISCONNECT" => <<v.own, v.ch>> \in M \/ v.type \in Final
    /\ v.type \in Final => \A i \in Slots : <<v.own, i>> \notin M
    /\ v.own \in Private => <<v.own, v.ch>> \in H \/ Comes(f, Len(f), v.own)
    /\ \A o \in Owners, i \in Slots :
          /\ <<o, i>> \in L => <<o, i>> \in M \/ (o = v.own /\ v.type \in Final)
          /\ <<o, i>> \in M => <<o, i>> \in L \/ (o = v.own /\ v.type = "X11_OPEN")
          /\ <<o, i>> \in H => bt[o] = i /\ (v.ch = i /\ v.own # o => Told(e, Len(e), o))
    /\ \A a \in 1..Len(e) :
          /\ e[a].type # "DISCONNECT" => bt[e[a].own] = at[e[a].own]
          /\ e[a].type \in Final /\ e[a].own = v.own => v.type = "DISCONNECT"
          /\ e[a].ch \in Slots /\ e[a].ch = v.ch /\ e[a].own # v.own => Finished(e, a, Len(e))

LEMMA Pushed ==
    ASSUME NEW L \in Pairs, NEW M \in Pairs, NEW H \in Pairs, NEW at, NEW bt,
           NEW e \in Seq(Occurrences), NEW f, NEW v \in Occurrences,
           Extends(f, e, v), Ordered(L, at, e), Routed(L, H, at, e),
           Follows(L, M, H, at, bt, e, f, v)
    PROVE  Ordered(M, bt, f) /\ Routed(M, H, bt, f)
<1> USE DEF Follows
<1>1. Len(e) \in Nat /\ \A a \in 1..Len(e) : e[a] \in Occurrences /\ e[a].own \in Owners
  BY Queues, Fields
<1>2. /\ Len(f) = Len(e) + 1 /\ f[Len(f)] = v /\ \A a \in 1..Len(e) : f[a] = e[a]
      /\ \A a \in 1..Len(f) : a \in 1..Len(e) \/ a = Len(f)
  BY <1>1 DEF Extends
<1>3. /\ \A o : \A k \in 0..Len(e) : Told(e, k, o) => Told(f, k, o)
      /\ \A o : \A k \in 0..Len(e) : Comes(e, k, o) => Comes(f, k, o)
      /\ \A a, b \in 1..Len(e) : Finished(e, a, b) => Finished(f, a, b)
      /\ \A o : Told(e, Len(e), o) => Told(f, Len(f), o)
      /\ \A o : Comes(e, Len(e), o) => Comes(f, Len(f), o)
      /\ \A o : v.own = o /\ v.type \in Final => Told(f, Len(f), o)
      /\ \A o : v.own = o /\ v.type = "X11_OPEN" => Comes(f, Len(f), o)
      /\ \A a \in 1..Len(e) :
            Finished(e, a, Len(e)) \/ (v.own = e[a].own /\ v.type \in Final) => Finished(f, a, Len(f))
  BY <1>1, Prefix
<1>4. Ordered(M, bt, f)
  <2>1. \A a \in 1..Len(f) :
          /\ Named(bt, f[a])
          /\ f[a].type # "DISCONNECT" => <<f[a].own, f[a].ch>> \in M \/ Finished(f, a, Len(f))
          /\ f[a].type \in Final => \A i \in Slots : <<f[a].own, i>> \notin M
    <3> SUFFICES ASSUME NEW a \in 1..Len(f)
                 PROVE  /\ Named(bt, f[a])
                        /\ f[a].type # "DISCONNECT" => <<f[a].own, f[a].ch>> \in M \/ Finished(f, a, Len(f))
                        /\ f[a].type \in Final => \A i \in Slots : <<f[a].own, i>> \notin M
      OBVIOUS
    <3>1. CASE a \in 1..Len(e)
      <4>1. /\ Named(at, e[a])
            /\ e[a].type # "DISCONNECT" => <<e[a].own, e[a].ch>> \in L \/ Finished(e, a, Len(e))
            /\ e[a].type \in Final => \A i \in Slots : <<e[a].own, i>> \notin L
        BY <3>1 DEF Ordered
      <4>2. e[a].type # "DISCONNECT" => <<e[a].own, e[a].ch>> \in M \/ Finished(f, a, Len(f))
        <5>1. CASE <<e[a].own, e[a].ch>> \in L
          <6>1. e[a].own \in Owners /\ e[a].ch \in Slots
            BY <5>1 DEF Pairs
          <6> QED BY <5>1, <6>1, <3>1, <1>3
        <5> QED BY <5>1, <4>1, <3>1, <1>3
      <4>3. e[a].type \in Final => \A i \in Slots : <<e[a].own, i>> \notin M
        BY <4>1, <3>1, <1>1
      <4>4. Named(bt, e[a])
        BY <4>1, <3>1 DEF Named
      <4> QED BY <4>2, <4>3, <4>4, <3>1, <1>2
    <3>2. CASE a = Len(f)
      <4>1. v.type \in Final => Finished(f, Len(f), Len(f))
        BY <1>1, <1>2 DEF Finished
      <4> QED BY <4>1, <3>2, <1>2
    <3> QED BY <3>1, <3>2, <1>2
  <2>2. \A a, b \in 1..Len(f) :
          /\ a < b /\ f[a].type \in Final /\ f[a].own = f[b].own => f[b].type = "DISCONNECT"
          /\ a < b /\ f[a].ch \in Slots /\ f[a].ch = f[b].ch /\ f[a].own # f[b].own =>
                Finished(f, a, b - 1)
    <3> SUFFICES ASSUME NEW a \in 1..Len(f), NEW b \in 1..Len(f), a < b
                 PROVE  /\ f[a].type \in Final /\ f[a].own = f[b].own => f[b].type = "DISCONNECT"
                        /\ f[a].ch \in Slots /\ f[a].ch = f[b].ch /\ f[a].own # f[b].own =>
                              Finished(f, a, b - 1)
      OBVIOUS
    <3>1. a \in 1..Len(e)
      BY <1>1, <1>2
    <3>2. CASE b \in 1..Len(e)
      <4>1. b - 1 \in 1..Len(e)
        BY <3>2, <3>1, <1>1
      <4> QED BY <3>1, <3>2, <4>1, <1>2, <1>3 DEF Ordered
    <3>3. CASE b = Len(f)
      <4>1. b - 1 = Len(e) /\ Len(e) \in 1..Len(e)
        BY <3>1, <3>3, <1>1, <1>2
      <4> QED BY <3>1, <3>3, <4>1, <1>2, <1>3
    <3> QED BY <3>2, <3>3, <1>2
  <2> QED BY <2>1, <2>2 DEF Ordered
<1>5. Routed(M, H, bt, f)
  <2>1. ASSUME NEW o \in Owners, NEW i \in Slots, <<o, i>> \in H
        PROVE  /\ bt[o] = i
               /\ <<o, i>> \in M \/ Told(f, Len(f), o)
               /\ \A a \in 1..Len(f) : f[a].ch = i /\ f[a].own # o => Told(f, a - 1, o)
    <3>1. <<o, i>> \in L \/ Told(e, Len(e), o)
      BY <2>1 DEF Routed
    <3>2. <<o, i>> \in M \/ Told(f, Len(f), o)
      BY <3>1, <1>3
    <3>3. ASSUME NEW a \in 1..Len(e), f[a].ch = i, f[a].own # o
          PROVE  Told(f, a - 1, o)
      <4>1. Told(e, a - 1, o)
        BY <3>3, <2>1, <1>2 DEF Routed
      <4>2. a - 1 \in 0..Len(e)
        BY <1>1
      <4> QED BY <4>1, <4>2, <1>3
    <3>4. ASSUME v.ch = i, v.own # o
          PROVE  Told(f, Len(f) - 1, o)
      <4>1. Told(e, Len(e), o)
        BY <3>4, <2>1
      <4>2. Len(e) \in 0..Len(e) /\ Len(f) - 1 = Len(e)
        BY <1>1, <1>2
      <4> QED BY <4>1, <4>2, <1>3
    <3> QED BY <3>2, <3>3, <3>4, <2>1, <1>2
  <2>2. ASSUME NEW o \in Private, NEW i \in Slots, <<o, i>> \in M
        PROVE  <<o, i>> \in H \/ Comes(f, Len(f), o)
    <3>1. <<o, i>> \in L \/ (o = v.own /\ v.type = "X11_OPEN")
      BY <2>2, Owning
    <3>2. CASE <<o, i>> \in L
      BY <3>2, <1>3 DEF Routed
    <3> QED BY <3>1, <3>2, <1>3
  <2>3. ASSUME NEW a \in 1..Len(f), f[a].own \in Private
        PROVE  <<f[a].own, f[a].ch>> \in H \/ Comes(f, a, f[a].own)
    <3>1. CASE a \in 1..Len(e)
      BY <3>1, <2>3, <1>1, <1>2, <1>3 DEF Routed
    <3>2. CASE a = Len(f)
      BY <3>2, <2>3, <1>2
    <3> QED BY <3>1, <3>2, <1>2
  <2> QED BY <2>1, <2>2, <2>3 DEF Routed
<1> QED
  BY <1>4, <1>5

\* M are the channels in use that event v leaves so.
Leaves(M, L, v) ==
    \A o \in Owners, i \in Slots : <<o, i>> \in M <=> <<o, i>> \in L /\ (v.type \in Final => o # v.own)

\* An event about a channel in use, which goes on or is at its end.
LEMMA Happens ==
    ASSUME NEW L \in Pairs, NEW M \in Pairs, NEW H \in Pairs, NEW at \in Places, NEW st,
           NEW e \in Seq(Occurrences), NEW f, NEW v \in Occurrences,
           Extends(f, e, v), Engine(L, at, st), Ordered(L, at, e), Routed(L, H, at, e),
           <<v.own, v.ch>> \in L, v.type \notin {"X11_OPEN", "DISCONNECT"}, Leaves(M, L, v),
           v.type = "OPEN_FAILED" => v.own \notin Displays
    PROVE  Ordered(M, at, f) /\ Routed(M, H, at, f)
<1>1. Len(e) \in Nat /\ v.own \in Owners /\ v.ch \in Slots /\ at[v.own] = v.ch
      /\ \A a \in 1..Len(e) : e[a] \in Occurrences /\ e[a].own \in Owners
  <2>1. v.own \in Owners /\ v.ch \in Slots
    BY DEF Pairs
  <2> QED BY <2>1, Queues, Fields DEF Engine
\* An earlier event about the slot: its owner's, or that owner's channel has ended.
<1>2. \A a \in 1..Len(e) : e[a].ch \in Slots /\ e[a].ch = v.ch /\ e[a].own # v.own => Finished(e, a, Len(e))
  <2> SUFFICES ASSUME NEW a \in 1..Len(e), e[a].ch = v.ch, e[a].own # v.own
               PROVE  Finished(e, a, Len(e))
    OBVIOUS
  <2>1. e[a].type # "DISCONNECT"
    BY <1>1, Numbering DEF Ordered, Named
  <2>2. <<e[a].own, e[a].ch>> \notin L
    BY <1>1 DEF Engine
  <2>3. e[a].type # "DISCONNECT" => <<e[a].own, e[a].ch>> \in L \/ Finished(e, a, Len(e))
    BY DEF Ordered
  <2> QED BY <2>1, <2>2, <2>3
\* Nothing about the owner's end.
<1>3. \A a \in 1..Len(e) : e[a].type \in Final => e[a].own # v.own
  BY <1>1 DEF Ordered
<1>4. Named(at, v) /\ (v.type \notin Final => <<v.own, v.ch>> \in M)
  BY <1>1 DEF Named, Leaves
<1>5. v.own \in Private => <<v.own, v.ch>> \in H \/ Comes(f, Len(f), v.own)
  <2>1. v.own \in Private => <<v.own, v.ch>> \in H \/ Comes(e, Len(e), v.own)
    BY <1>1 DEF Routed
  <2>2. Comes(e, Len(e), v.own) => Comes(f, Len(f), v.own)
    BY <1>1, Prefix
  <2> QED BY <2>1, <2>2
<1>6. \A o \in Owners, i \in Slots :
              /\ <<o, i>> \in L => <<o, i>> \in M \/ (o = v.own /\ v.type \in Final)
              /\ <<o, i>> \in M => <<o, i>> \in L
              /\ v.type \in Final => <<v.own, i>> \notin M
  BY <1>1 DEF Leaves
<1>7. ASSUME NEW o \in Owners, NEW i \in Slots, <<o, i>> \in H
      PROVE  at[o] = i /\ (v.ch = i /\ v.own # o => Told(e, Len(e), o))
  <2>1. at[o] = i /\ (<<o, i>> \in L \/ Told(e, Len(e), o))
    BY <1>7 DEF Routed
  <2>2. v.ch = i /\ v.own # o => <<o, i>> \notin L
    BY <1>1 DEF Engine
  <2> QED BY <2>1, <2>2
<1>8. Follows(L, M, H, at, at, e, f, v)
  <2>1. \A o \in Owners, i \in Slots :
          /\ <<o, i>> \in L => <<o, i>> \in M \/ (o = v.own /\ v.type \in Final)
          /\ <<o, i>> \in M => <<o, i>> \in L \/ (o = v.own /\ v.type = "X11_OPEN")
          /\ <<o, i>> \in H => at[o] = i /\ (v.ch = i /\ v.own # o => Told(e, Len(e), o))
    BY <1>6, <1>7
  <2>2. \A a \in 1..Len(e) :
          /\ e[a].type # "DISCONNECT" => at[e[a].own] = at[e[a].own]
          /\ e[a].type \in Final /\ e[a].own = v.own => v.type = "DISCONNECT"
          /\ e[a].ch \in Slots /\ e[a].ch = v.ch /\ e[a].own # v.own => Finished(e, a, Len(e))
    BY <1>2, <1>3
  <2>3. v.type \in Final => \A i \in Slots : <<v.own, i>> \notin M
    BY <1>1, <1>6
  <2> QED BY <1>4, <1>5, <2>1, <2>2, <2>3 DEF Follows
<1> QED
  BY <1>8, Pushed

\* The server opens a channel for a display, in a free slot.
LEMMA Starts ==
    ASSUME NEW L \in Pairs, NEW M \in Pairs, NEW H \in Pairs, NEW at \in Places, NEW bt,
           NEW e \in Seq(Occurrences), NEW f, NEW v \in Occurrences,
           Extends(f, e, v), Ordered(L, at, e), Routed(L, H, at, e),
           v.type = "X11_OPEN", v.own \in Displays, at[v.own] = 0, v.ch \in Slots,
           \A o \in Owners : <<o, v.ch>> \notin L,
           \A o \in Owners, i \in Slots : <<o, i>> \in M <=> <<o, i>> \in L \/ (o = v.own /\ i = v.ch),
           \A o \in Owners : bt[o] = IF o = v.own THEN v.ch ELSE at[o]
    PROVE  Ordered(M, bt, f) /\ Routed(M, H, bt, f)
<1>1. Len(e) \in Nat /\ v.own \in Owners /\ v.own # Shell
      /\ \A a \in 1..Len(e) : e[a] \in Occurrences /\ e[a].own \in Owners
  BY Queues, Fields, Owning
<1>2. ASSUME NEW a \in 1..Len(e)
      PROVE  e[a].own # v.own
  <2>1. Named(at, e[a])
    BY DEF Ordered
  <2> QED BY <2>1, <1>1, Numbering DEF Named
<1>3. ASSUME NEW a \in 1..Len(e), e[a].ch \in Slots, e[a].ch = v.ch
      PROVE  Finished(e, a, Len(e))
  <2>1. e[a].type # "DISCONNECT"
    BY <1>3, Numbering DEF Ordered, Named
  <2>2. <<e[a].own, e[a].ch>> \notin L
    BY <1>1, <1>3
  <2>3. e[a].type # "DISCONNECT" => <<e[a].own, e[a].ch>> \in L \/ Finished(e, a, Len(e))
    BY DEF Ordered
  <2> QED BY <2>1, <2>2, <2>3
<1>4. Named(bt, v) /\ <<v.own, v.ch>> \in M
  BY <1>1 DEF Named
<1>5. Comes(f, Len(f), v.own)
  BY <1>1, Prefix
<1>6. ASSUME NEW o \in Owners, NEW i \in Slots, <<o, i>> \in H
      PROVE  bt[o] = i /\ (v.ch = i /\ v.own # o => Told(e, Len(e), o))
  <2>1. at[o] = i /\ (<<o, i>> \in L \/ Told(e, Len(e), o))
    BY <1>6 DEF Routed
  <2> QED BY <2>1, Numbering
<1>7. v.type \notin Final /\ v.type # "DISCONNECT"
  BY DEF Final
<1>8. \A a \in 1..Len(e) : bt[e[a].own] = at[e[a].own]
  BY <1>1, <1>2
<1>9. Follows(L, M, H, at, bt, e, f, v)
  BY <1>2, <1>3, <1>4, <1>5, <1>6, <1>7, <1>8 DEF Follows
<1> QED
  BY <1>9, Pushed

\* The server has disconnected.
LEMMA Breaks ==
    ASSUME NEW L \in Pairs, NEW H \in Pairs, NEW at,
           NEW e \in Seq(Occurrences), NEW f, NEW v \in Occurrences,
           Extends(f, e, v), Ordered(L, at, e), Routed(L, H, at, e),
           v.type = "DISCONNECT", v.own = Shell, v.ch = 0
    PROVE  Ordered(L, at, f) /\ Routed(L, H, at, f)
<1>1. v.type \notin Final /\ Named(at, v) /\ v.own \notin Private /\ v.ch \notin Slots
  BY Owning, Numbering DEF Final, Named
<1>2. \A o \in Owners, i \in Slots : <<o, i>> \in H => at[o] = i
  BY DEF Routed
<1>3. Follows(L, L, H, at, at, e, f, v)
  BY <1>1, <1>2 DEF Follows
<1> QED
  BY <1>3, Pushed

-----------------------------------------------------------------------------
(* The first event is taken *)

\* What was true of the events is true of those behind the first.
LEMMA Suffix ==
    ASSUME NEW e, NEW f, Drops(f, e), Len(e) \in Nat, Len(e) > 0
    PROVE  /\ Len(f) = Len(e) - 1 /\ Len(f) \in Nat
           /\ \A a \in 1..Len(f) : f[a] = e[a + 1] /\ a + 1 \in 1..Len(e)
           /\ \A o : \A k \in 1..Len(e) :
                 Told(e, k, o) => Told(f, k - 1, o) \/ (e[1].own = o /\ e[1].type \in Final)
           /\ \A o : \A k \in 1..Len(e) :
                 Comes(e, k, o) => Comes(f, k - 1, o) \/ (e[1].own = o /\ e[1].type = "X11_OPEN")
           /\ \A a \in 1..Len(f) : \A b \in 1..Len(e) :
                 Finished(e, a + 1, b) => Finished(f, a, b - 1)
           /\ \A b \in 1..Len(e) :
                 Finished(e, 1, b) => Told(f, b - 1, e[1].own) \/ e[1].type \in Final
<1>1. /\ Len(f) = Len(e) - 1 /\ Len(f) \in Nat
      /\ \A a \in 1..Len(f) : f[a] = e[a + 1] /\ a + 1 \in 1..Len(e)
      /\ \A c \in 1..Len(e) : c = 1 \/ (c - 1 \in 1..Len(f) /\ f[c - 1] = e[c])
  <2>1. Len(f) = Len(e) - 1 /\ Len(f) \in Nat /\ \A a \in 1..Len(f) : f[a] = e[a + 1]
    BY DEF Drops
  <2>2. ASSUME NEW c \in 1..Len(e), c # 1
        PROVE  c - 1 \in 1..Len(f) /\ f[c - 1] = e[c]
    <3>1. c - 1 \in 1..Len(f) /\ c - 1 + 1 = c
      BY <2>1, <2>2
    <3> QED BY <3>1, <2>1
  <2> QED BY <2>1, <2>2
<1>2. ASSUME NEW o, NEW k \in 1..Len(e), Told(e, k, o)
      PROVE  Told(f, k - 1, o) \/ (e[1].own = o /\ e[1].type \in Final)
  <2>1. PICK m \in 1..k : e[m].own = o /\ e[m].type \in Final
    BY <1>2 DEF Told
  <2>2. m \in 1..Len(e) /\ (m # 1 => m - 1 \in 1..(k - 1))
    OBVIOUS
  <2> QED BY <1>1, <2>1, <2>2 DEF Told
<1>3. ASSUME NEW o, NEW k \in 1..Len(e), Comes(e, k, o)
      PROVE  Comes(f, k - 1, o) \/ (e[1].own = o /\ e[1].type = "X11_OPEN")
  <2>1. PICK m \in 1..k : e[m].own = o /\ e[m].type = "X11_OPEN"
    BY <1>3 DEF Comes
  <2>2. m \in 1..Len(e) /\ (m # 1 => m - 1 \in 1..(k - 1))
    OBVIOUS
  <2> QED BY <1>1, <2>1, <2>2 DEF Comes
<1>4. ASSUME NEW a \in 1..Len(f), NEW b \in 1..Len(e), Finished(e, a + 1, b)
      PROVE  Finished(f, a, b - 1)
  <2>1. PICK c \in (a + 1)..b : e[c].own = e[a + 1].own /\ e[c].type \in Final
    BY <1>4 DEF Finished
  <2>2. c \in 1..Len(e) /\ c # 1 /\ c - 1 \in a..(b - 1)
    BY <1>1
  <2> QED BY <1>1, <2>1, <2>2 DEF Finished
<1>5. ASSUME NEW b \in 1..Len(e), Finished(e, 1, b)
      PROVE  Told(f, b - 1, e[1].own) \/ e[1].type \in Final
  <2>1. PICK c \in 1..b : e[c].own = e[1].own /\ e[c].type \in Final
    BY <1>5 DEF Finished
  <2>2. c \in 1..Len(e) /\ (c # 1 => c - 1 \in 1..(b - 1))
    OBVIOUS
  <2> QED BY <1>1, <2>1, <2>2 DEF Told
<1> QED
  BY <1>1, <1>2, <1>3, <1>4, <1>5

\* J are the ids held when event v has been taken: that of a display that came is new, that of
\* a channel at its end is forgotten; others may be forgotten, but of those who are not private.
Settles(J, H, v) ==
    /\ v.type = "X11_OPEN" => <<v.own, v.ch>> \in J
    /\ \A o \in Owners, i \in Slots :
          /\ <<o, i>> \in J => \/ <<o, i>> \in H /\ (v.type \in Final => o # v.own)
                               \/ v.type = "X11_OPEN" /\ o = v.own /\ i = v.ch
          /\ <<o, i>> \in H /\ o \in Private => <<o, i>> \in J \/ (v.type \in Final /\ o = v.own)

LEMMA Took ==
    ASSUME NEW L \in Pairs, NEW H \in Pairs, NEW J \in Pairs, NEW at, NEW st,
           NEW e \in Seq(Occurrences), NEW f, Len(e) > 0, Drops(f, e),
           Engine(L, at, st), Ordered(L, at, e), Routed(L, H, at, e), Settles(J, H, e[1])
    PROVE  Ordered(L, at, f) /\ Routed(L, J, at, f)
<1> DEFINE v == e[1]
<1>1. /\ Len(e) \in Nat /\ 1 \in 1..Len(e) /\ v \in Occurrences /\ v.own \in Owners
      /\ \A a \in 1..Len(e) : e[a] \in Occurrences /\ e[a].own \in Owners
  BY Queues, Fields
<1>2. /\ Len(f) = Len(e) - 1 /\ Len(f) \in Nat
      /\ \A a \in 1..Len(f) : f[a] = e[a + 1] /\ a + 1 \in 1..Len(e)
      /\ \A o : \A k \in 1..Len(e) :
            Told(e, k, o) => Told(f, k - 1, o) \/ (v.own = o /\ v.type \in Final)
      /\ \A o : \A k \in 1..Len(e) :
            Comes(e, k, o) => Comes(f, k - 1, o) \/ (v.own = o /\ v.type = "X11_OPEN")
      /\ \A a \in 1..Len(f) : \A b \in 1..Len(e) : Finished(e, a + 1, b) => Finished(f, a, b - 1)
      /\ \A b \in 1..Len(e) : Finished(e, 1, b) => Told(f, b - 1, v.own) \/ v.type \in Final
  BY <1>1, Suffix
<1>3. v.type = "X11_OPEN" => v.type \notin Final /\ v.type # "DISCONNECT"
  BY DEF Final
<1>4. Ordered(L, at, f)
  <2>1. ASSUME NEW a \in 1..Len(f)
        PROVE  /\ Named(at, f[a])
               /\ f[a].type # "DISCONNECT" => <<f[a].own, f[a].ch>> \in L \/ Finished(f, a, Len(f))
               /\ f[a].type \in Final => \A i \in Slots : <<f[a].own, i>> \notin L
    <3>1. f[a] = e[a + 1] /\ a + 1 \in 1..Len(e) /\ Len(e) - 1 = Len(f) /\ Len(e) \in 1..Len(e)
      BY <1>1, <1>2
    <3>2. /\ Named(at, e[a + 1])
          /\ e[a + 1].type # "DISCONNECT" =>
                <<e[a + 1].own, e[a + 1].ch>> \in L \/ Finished(e, a + 1, Len(e))
          /\ e[a + 1].type \in Final => \A i \in Slots : <<e[a + 1].own, i>> \notin L
      BY <3>1 DEF Ordered
    <3>3. Finished(e, a + 1, Len(e)) => Finished(f, a, Len(f))
      BY <3>1, <1>2
    <3> QED BY <3>1, <3>2, <3>3
  <2>2. ASSUME NEW a \in 1..Len(f), NEW b \in 1..Len(f), a < b
        PROVE  /\ f[a].type \in Final /\ f[a].own = f[b].own => f[b].type = "DISCONNECT"
               /\ f[a].ch \in Slots /\ f[a].ch = f[b].ch /\ f[a].own # f[b].own =>
                     Finished(f, a, b - 1)
    <3>1. /\ f[a] = e[a + 1] /\ f[b] = e[b + 1] /\ a + 1 \in 1..Len(e) /\ b + 1 \in 1..Len(e)
          /\ a + 1 < b + 1 /\ (b + 1) - 1 = b /\ b \in 1..Len(e)
      BY <1>1, <1>2, <2>2
    <3>2. /\ e[a + 1].type \in Final /\ e[a + 1].own = e[b + 1].own => e[b + 1].type = "DISCONNECT"
          /\ e[a + 1].ch \in Slots /\ e[a + 1].ch = e[b + 1].ch /\ e[a + 1].own # e[b + 1].own =>
                Finished(e, a + 1, (b + 1) - 1)
      BY <3>1 DEF Ordered
    <3>3. Finished(e, a + 1, b) => Finished(f, a, b - 1)
      BY <3>1, <1>2
    <3> QED BY <3>1, <3>2, <3>3
  <2> QED BY <2>1, <2>2 DEF Ordered
<1>5. Routed(L, J, at, f)
  <2>1. ASSUME NEW o \in Owners, NEW i \in Slots, <<o, i>> \in J
        PROVE  /\ at[o] = i
               /\ <<o, i>> \in L \/ Told(f, Len(f), o)
               /\ \A a \in 1..Len(f) : f[a].ch = i /\ f[a].own # o => Told(f, a - 1, o)
    <3>1. CASE <<o, i>> \in H /\ (v.type \in Final => o # v.own)
      <4>1. at[o] = i /\ (<<o, i>> \in L \/ Told(e, Len(e), o))
        BY <3>1 DEF Routed
      <4>2. Told(e, Len(e), o) => Told(f, Len(f), o)
        <5>1. Len(e) \in 1..Len(e) /\ Len(e) - 1 = Len(f)
          BY <1>1, <1>2
        <5> QED BY <5>1, <3>1, <1>2
      <4>3. ASSUME NEW a \in 1..Len(f), f[a].ch = i, f[a].own # o
            PROVE  Told(f, a - 1, o)
        <5>1. f[a] = e[a + 1] /\ a + 1 \in 1..Len(e) /\ (a + 1) - 1 = a /\ a \in 1..Len(e)
          BY <1>1, <1>2
        <5>2. Told(e, a, o)
          BY <5>1, <3>1, <4>3 DEF Routed
        <5> QED BY <5>1, <5>2, <3>1, <1>2
      <4> QED BY <4>1, <4>2, <4>3
    <3>2. CASE v.type = "X11_OPEN" /\ o = v.own /\ i = v.ch
      <4>1. Named(at, v) /\ (<<v.own, v.ch>> \in L \/ Finished(e, 1, Len(e)))
        BY <3>2, <1>1, <1>3 DEF Ordered
      <4>2. at[o] = i
        BY <4>1, <3>2, <1>3 DEF Named
      <4>3. Finished(e, 1, Len(e)) => Told(f, Len(f), o)
        <5>1. Len(e) \in 1..Len(e) /\ Len(e) - 1 = Len(f)
          BY <1>1, <1>2
        <5> QED BY <5>1, <3>2, <1>2, <1>3
      <4>4. ASSUME NEW a \in 1..Len(f), f[a].ch = i, f[a].own # o
            PROVE  Told(f, a - 1, o)
        <5>1. f[a] = e[a + 1] /\ a + 1 \in 1..Len(e) /\ (a + 1) - 1 = a /\ a \in 1..Len(e) /\ 1 < a + 1
          BY <1>1, <1>2
        <5>2. Finished(e, 1, a)
          BY <5>1, <3>2, <4>4, <1>1 DEF Ordered
        <5> QED BY <5>1, <5>2, <3>2, <1>2, <1>3
      <4> QED BY <4>1, <4>2, <4>3, <4>4, <3>2
    <3> QED BY <3>1, <3>2, <2>1 DEF Settles
  <2>2. ASSUME NEW o \in Private, NEW i \in Slots, <<o, i>> \in L
        PROVE  <<o, i>> \in J \/ Comes(f, Len(f), o)
    <3>1. o \in Owners /\ at[o] = i /\ Len(e) \in 1..Len(e) /\ Len(e) - 1 = Len(f)
      BY <2>2, <1>1, <1>2, Owning DEF Engine
    <3>2. <<o, i>> \in H \/ Comes(e, Len(e), o)
      BY <2>2 DEF Routed
    <3>3. ~(v.type \in Final /\ o = v.own)
      BY <2>2, <1>1 DEF Ordered
    <3>4. CASE <<o, i>> \in H
      BY <3>1, <3>3, <3>4 DEF Settles
    <3>5. CASE Comes(f, Len(f), o)
      BY <3>5
    <3>6. CASE v.own = o /\ v.type = "X11_OPEN"
      <4>1. Named(at, v)
        BY <1>1 DEF Ordered
      <4>2. v.ch = i
        BY <4>1, <3>1, <3>6, <1>3 DEF Named
      <4> QED BY <4>2, <3>6 DEF Settles
    <3> QED BY <3>1, <3>2, <3>4, <3>5, <3>6, <1>2
  <2>3. ASSUME NEW a \in 1..Len(f), f[a].own \in Private
        PROVE  <<f[a].own, f[a].ch>> \in J \/ Comes(f, a, f[a].own)
    <3>1. f[a] = e[a + 1] /\ a + 1 \in 1..Len(e) /\ (a + 1) - 1 = a /\ 1 < a + 1
      BY <1>1, <1>2
    <3>2. Named(at, f[a]) /\ f[a].own # Shell /\ f[a].own \in Owners
      BY <2>3, <3>1, Owning DEF Ordered
    <3>3. f[a].type # "DISCONNECT" /\ f[a].ch \in Slots /\ f[a].ch = at[f[a].own]
      BY <3>2 DEF Named
    <3>4. <<f[a].own, f[a].ch>> \in H \/ Comes(e, a + 1, f[a].own)
      BY <2>3, <3>1 DEF Routed
    <3>5. ~(v.type \in Final /\ f[a].own = v.own)
      BY <3>1, <3>3, <1>1 DEF Ordered
    <3>6. CASE <<f[a].own, f[a].ch>> \in H
      BY <2>3, <3>2, <3>3, <3>5, <3>6 DEF Settles
    <3>7. CASE Comes(f, a, f[a].own)
      BY <3>7
    <3>8. CASE v.own = f[a].own /\ v.type = "X11_OPEN"
      <4>1. Named(at, v)
        BY <1>1 DEF Ordered
      <4>2. v.ch = f[a].ch
        BY <4>1, <3>3, <3>8, <1>3 DEF Named
      <4> QED BY <4>2, <3>8 DEF Settles
    <3> QED BY <3>1, <3>4, <3>6, <3>7, <3>8, <1>2
  <2> QED BY <2>1, <2>2, <2>3 DEF Routed
<1> QED
  BY <1>4, <1>5

\* Whose the first event is: nobody else holds its slot, and if its owner is private it holds
\* it, or the event is the one that tells of it.
LEMMA Heads ==
    ASSUME NEW L \in Pairs, NEW H \in Pairs, NEW at, NEW e \in Seq(Occurrences), Len(e) > 0,
           Ordered(L, at, e), Routed(L, H, at, e)
    PROVE  /\ Named(at, e[1]) /\ e[1] \in Occurrences /\ e[1].own \in Owners
           /\ \A o \in Owners, i \in Slots : <<o, i>> \in H /\ i = e[1].ch => o = e[1].own
           /\ e[1].own \in Private => <<e[1].own, e[1].ch>> \in H \/ e[1].type = "X11_OPEN"
<1>1. 1 \in 1..Len(e) /\ e[1] \in Occurrences /\ e[1].own \in Owners
  BY Queues, Fields
<1>2. \A o : ~Told(e, 1 - 1, o)
  BY DEF Told
<1>3. \A o : Comes(e, 1, o) => e[1].type = "X11_OPEN"
  BY DEF Comes
<1>4. Named(at, e[1])
  BY <1>1 DEF Ordered
<1>5. \A o \in Owners, i \in Slots : <<o, i>> \in H /\ i = e[1].ch => o = e[1].own
  BY <1>1, <1>2 DEF Routed
<1>6. e[1].own \in Private => <<e[1].own, e[1].ch>> \in H \/ e[1].type = "X11_OPEN"
  BY <1>1, <1>3 DEF Routed
<1> QED
  BY <1>1, <1>4, <1>5, <1>6

-----------------------------------------------------------------------------
(* The steps of the relation *)

\* A message is delivered; those behind it are still sound.
LEMMA Delivered ==
    ASSUME NEW L, NEW M, NEW at, NEW bt, NEW st, NEW tt, NEW n \in Seq(Messages), NEW k,
           Len(n) > 0, Drops(k, n), Sound(L, at, st, n),
           \A a \in 2..Len(n) : About(M, bt, tt, n[a])
    PROVE  Sound(M, bt, tt, k)
<1>1. Len(n) \in Nat
  BY Queues
<1>2. Len(k) = Len(n) - 1 /\ \A a \in 1..Len(k) : k[a] = n[a + 1] /\ a + 1 \in 2..Len(n) /\ a + 1 \in 1..Len(n)
  BY <1>1 DEF Drops
<1>3. \A a \in 1..Len(k) : About(M, bt, tt, k[a])
  BY <1>2
<1>4. ASSUME NEW a \in 1..Len(k), NEW b \in 1..Len(k)
      PROVE  /\ a < b /\ k[a].type \in Parting /\ k[a].own = k[b].own => k[b].type = "DISCONNECT"
             /\ a # b /\ k[a].type = "X11_OPEN" => k[a].own # k[b].own
  <2>1. /\ k[a] = n[a + 1] /\ k[b] = n[b + 1] /\ a + 1 \in 1..Len(n) /\ b + 1 \in 1..Len(n)
        /\ (a < b => a + 1 < b + 1) /\ (a # b => a + 1 # b + 1)
    BY <1>1, <1>2
  <2>2. /\ a + 1 < b + 1 /\ n[a + 1].type \in Parting /\ n[a + 1].own = n[b + 1].own =>
              n[b + 1].type = "DISCONNECT"
        /\ a + 1 # b + 1 /\ n[a + 1].type = "X11_OPEN" => n[a + 1].own # n[b + 1].own
    BY <2>1 DEF Sound
  <2> QED BY <2>1, <2>2
<1> QED
  BY <1>3, <1>4 DEF Sound

\* The first message, and what of the others it leaves as it was.
LEMMA Foremost ==
    ASSUME NEW L, NEW at, NEW st, NEW n \in Seq(Messages), Len(n) > 0, Sound(L, at, st, n)
    PROVE  /\ n[1] \in Messages /\ About(L, at, st, n[1])
           /\ \A a \in 2..Len(n) :
                 /\ n[a] \in Messages /\ About(L, at, st, n[a])
                 /\ n[1].type \in Parting /\ n[a].own = n[1].own => n[a].type = "DISCONNECT"
                 /\ n[1].type = "X11_OPEN" => n[a].own # n[1].own
<1>1. Len(n) \in Nat /\ \A a \in 1..Len(n) : n[a] \in Messages
  BY Queues
<1>2. 1 \in 1..Len(n) /\ \A a \in 2..Len(n) : a \in 1..Len(n) /\ 1 < a /\ 1 # a
  BY <1>1
<1>3. n[1] \in Messages /\ About(L, at, st, n[1])
  BY <1>1, <1>2 DEF Sound
<1>4. \A a \in 2..Len(n) : n[a] \in Messages /\ About(L, at, st, n[a])
  BY <1>1, <1>2 DEF Sound
<1>5. ASSUME NEW a \in 2..Len(n)
      PROVE  /\ n[1].type \in Parting /\ n[1].own = n[a].own => n[a].type = "DISCONNECT"
             /\ n[1].type = "X11_OPEN" => n[1].own # n[a].own
  BY <1>2 DEF Sound
<1> QED
  BY <1>3, <1>4, <1>5

\* A message that makes an event about a channel in use.
LEMMA Occurs ==
    ASSUME NEW L, NEW M \in Pairs, NEW H, NEW at, NEW st, NEW n, NEW k, NEW e, NEW f,
           NEW v \in Occurrences,
           Grounds(L, H, at, st, n, e), Agreed(L, H, at, st, n, e), Len(n) > 0, Drops(k, n),
           Extends(f, e, v), Leaves(M, L, v), v.own = n[1].own, v.ch = n[1].ch,
           n[1].type \notin {"X11_OPEN", "DISCONNECT"}, v.type \notin {"X11_OPEN", "DISCONNECT"},
           (v.type \in Final) = (n[1].type \in Parting),
           v.type = "OPEN_FAILED" => n[1].type = "OPEN_FAIL"
    PROVE  Agreed(M, H, at, st, k, f)
<1>1. /\ L \in Pairs /\ H \in Pairs /\ at \in Places /\ n \in Seq(Messages) /\ e \in Seq(Occurrences)
      /\ Engine(L, at, st) /\ Sound(L, at, st, n) /\ Ordered(L, at, e) /\ Routed(L, H, at, e)
  BY DEF Grounds, Agreed
<1>2. /\ About(L, at, st, n[1])
      /\ \A a \in 2..Len(n) :
            /\ n[a] \in Messages /\ About(L, at, st, n[a])
            /\ n[1].type \in Parting /\ n[a].own = n[1].own => n[a].type = "DISCONNECT"
  BY <1>1, Foremost
<1>3. /\ <<v.own, v.ch>> \in L /\ (v.type = "OPEN_FAILED" => v.own \notin Displays)
      /\ (v.type \in Final => st[v.own] \notin {"asked", "open"})
  BY <1>2 DEF About
<1>4. Ordered(M, at, f) /\ Routed(M, H, at, f)
  BY <1>1, <1>3, Happens
<1>5. Engine(M, at, st)
  <2>1. /\ \A o \in Owners, i \in Slots : <<o, i>> \in M => at[o] = i
        /\ \A o, p \in Owners, i \in Slots : <<o, i>> \in M /\ <<p, i>> \in M => o = p
    BY <1>1 DEF Leaves, Engine
  <2>2. ASSUME NEW o \in Owners, st[o] \in {"asked", "open"}
        PROVE  at[o] \in Slots /\ <<o, at[o]>> \in M
    <3>1. at[o] \in Slots /\ <<o, at[o]>> \in L /\ (v.type \in Final => o # v.own)
      BY <1>1, <1>3, <2>2 DEF Engine
    <3> QED BY <3>1 DEF Leaves
  <2> QED BY <1>1, <2>1, <2>2 DEF Engine
<1>6. \A a \in 2..Len(n) : About(M, at, st, n[a])
  <2> SUFFICES ASSUME NEW a \in 2..Len(n)
               PROVE  About(M, at, st, n[a])
    OBVIOUS
  <2>1. ASSUME n[a].type \notin {"DISCONNECT", "X11_OPEN"}
        PROVE  <<n[a].own, n[a].ch>> \in M
    <3>1. <<n[a].own, n[a].ch>> \in L /\ (v.type \in Final => n[a].own # v.own)
      BY <1>2, <2>1 DEF About
    <3>2. n[a].own \in Owners /\ n[a].ch \in Slots
      BY <3>1, <1>1 DEF Pairs
    <3> QED BY <3>1, <3>2 DEF Leaves
  <2> QED BY <1>2, <2>1 DEF About
<1>7. Sound(M, at, st, k)
  BY <1>1, <1>6, Delivered
<1>8. Agreed(M, H, at, st, k, f)
  BY <1>4, <1>5, <1>7 DEF Agreed
<1> QED
  BY <1>8

\* A message that makes no event: a window's, or that of a display there is no slot for.
LEMMA Passes ==
    ASSUME NEW L, NEW H, NEW at, NEW st, NEW tt, NEW n, NEW k, NEW e,
           Grounds(L, H, at, st, n, e), Agreed(L, H, at, st, n, e), Len(n) > 0, Drops(k, n),
           \A o \in Owners : tt[o] = st[o] \/ tt[o] = "refused"
    PROVE  Agreed(L, H, at, tt, k, e)
<1>1. /\ n \in Seq(Messages)
      /\ Engine(L, at, st) /\ Sound(L, at, st, n) /\ Ordered(L, at, e) /\ Routed(L, H, at, e)
  BY DEF Grounds, Agreed
<1>2. Engine(L, at, tt)
  BY <1>1, Owning DEF Engine
<1>3. \A a \in 2..Len(n) : About(L, at, tt, n[a])
  <2> SUFFICES ASSUME NEW a \in 2..Len(n)
               PROVE  About(L, at, tt, n[a])
    OBVIOUS
  <2>1. n[a].own \in Owners /\ About(L, at, st, n[a])
    BY <1>1, Foremost, Fields
  <2> QED BY <2>1 DEF About
<1>4. Sound(L, at, tt, k)
  BY <1>1, <1>3, Delivered
<1> QED
  BY <1>1, <1>2, <1>4 DEF Agreed

\* Owner o gets slot i, which is free.
Placed(M, L, bt, at, tt, st, o, i, s) ==
    /\ \A p \in Owners, j \in Slots : <<p, j>> \in M <=> <<p, j>> \in L \/ (p = o /\ j = i)
    /\ \A p \in Owners : /\ bt[p] = IF p = o THEN i ELSE at[p]
                         /\ tt[p] = IF p = o THEN s ELSE st[p]
LEMMA Seated ==
    ASSUME NEW L \in Pairs, NEW M, NEW at, NEW bt, NEW st, NEW tt,
           NEW o \in Owners, NEW i \in Slots, Engine(L, at, st), at[o] = 0, \A p \in Owners : <<p, i>> \notin L,
           NEW s \in {"asked", "open"}, Placed(M, L, bt, at, tt, st, o, i, s),
           s = "asked" => o \notin Displays
    PROVE  /\ Engine(M, bt, tt)
           /\ \A m \in Messages : /\ About(L, at, st, m) /\ m.type # "X11_OPEN" => About(M, bt, tt, m)
                                  /\ About(L, at, st, m) /\ m.own # o => About(M, bt, tt, m)
<1>0. 0 \notin Slots
  BY Numbering
<1>1. \A j \in Slots : <<o, j>> \notin L
  BY <1>0 DEF Engine
<1>2. \A p \in Owners, j \in Slots : <<p, j>> \in M => bt[p] = j
  BY <1>1 DEF Engine, Placed
<1>3. \A p, q \in Owners, j \in Slots : <<p, j>> \in M /\ <<q, j>> \in M => p = q
  BY DEF Engine, Placed
<1>4. ASSUME NEW p \in Owners, tt[p] \in {"asked", "open"}
      PROVE  bt[p] \in Slots /\ <<p, bt[p]>> \in M
  BY <1>4 DEF Engine, Placed
<1>5. \A p \in Owners : tt[p] = "none" => bt[p] = 0
  BY DEF Engine, Placed
<1>6. \A p \in Displays : tt[p] # "asked"
  BY Owning DEF Engine, Placed
<1>7. Engine(M, bt, tt)
  BY <1>2, <1>3, <1>4, <1>5, <1>6 DEF Engine
<1>8. ASSUME NEW m \in Messages, About(L, at, st, m), m.own # o
      PROVE  About(M, bt, tt, m)
  <2>1. m.own \in Owners /\ m.ch \in 0..MaxSlots
    BY Fields
  <2>2. m.type \notin {"DISCONNECT", "X11_OPEN"} => <<m.own, m.ch>> \in M
    <3>1. <<m.own, m.ch>> \in L => m.ch \in Slots
      BY DEF Pairs
    <3> QED BY <3>1, <2>1, <1>8 DEF About, Placed
  <2> QED BY <2>1, <2>2, <1>8 DEF About, Placed
<1>9. ASSUME NEW m \in Messages, About(L, at, st, m), m.type # "X11_OPEN", m.own = o
      PROVE  About(M, bt, tt, m)
  <2>1. m.type = "DISCONNECT"
    <3>1. <<m.own, m.ch>> \in L => m.ch \in Slots
      BY DEF Pairs
    <3> QED BY <3>1, <1>1, <1>9 DEF About
  <2> QED BY <2>1, <1>9 DEF About, Parting
<1> QED
  BY <1>7, <1>8, <1>9

\* A display's message, where there is a slot for it.
LEMMA Arrives ==
    ASSUME NEW L, NEW M \in Pairs, NEW H, NEW at, NEW bt, NEW st, NEW tt, NEW n, NEW k, NEW e, NEW f,
           NEW v \in Occurrences, NEW i \in Slots,
           Grounds(L, H, at, st, n, e), Agreed(L, H, at, st, n, e), Len(n) > 0, Drops(k, n),
           n[1].type = "X11_OPEN", v.type = "X11_OPEN", v.own = n[1].own, v.ch = i,
           \A p \in Owners : <<p, i>> \notin L, Extends(f, e, v),
           Placed(M, L, bt, at, tt, st, v.own, i, "open")
    PROVE  Agreed(M, H, bt, tt, k, f)
<1>1. /\ L \in Pairs /\ H \in Pairs /\ at \in Places /\ n \in Seq(Messages) /\ e \in Seq(Occurrences)
      /\ Engine(L, at, st) /\ Sound(L, at, st, n) /\ Ordered(L, at, e) /\ Routed(L, H, at, e)
      /\ v.own \in Owners
  BY Fields DEF Grounds, Agreed
<1>2. /\ v.own \in Displays /\ at[v.own] = 0
      /\ \A a \in 2..Len(n) : n[a] \in Messages /\ About(L, at, st, n[a]) /\ n[a].own # v.own
  <2>1. /\ About(L, at, st, n[1])
        /\ \A a \in 2..Len(n) : n[a] \in Messages /\ About(L, at, st, n[a]) /\ n[a].own # n[1].own
    BY <1>1, Foremost
  <2> QED BY <2>1 DEF About
<1>3. /\ Engine(M, bt, tt)
      /\ \A m \in Messages : About(L, at, st, m) /\ m.own # v.own => About(M, bt, tt, m)
  BY <1>1, <1>2, Seated
<1>4. Sound(M, bt, tt, k)
  BY <1>1, <1>2, <1>3, Delivered
<1>5. /\ \A o \in Owners, j \in Slots : <<o, j>> \in M <=> <<o, j>> \in L \/ (o = v.own /\ j = v.ch)
      /\ \A o \in Owners : bt[o] = IF o = v.own THEN v.ch ELSE at[o]
  BY DEF Placed
<1>6. Ordered(M, bt, f) /\ Routed(M, H, bt, f)
  BY <1>1, <1>2, <1>5, Starts
<1> QED
  BY <1>3, <1>4, <1>6 DEF Agreed

\* The server's last word.
LEMMA Breaking ==
    ASSUME NEW L, NEW H, NEW at, NEW st, NEW n, NEW k, NEW e, NEW f, NEW v \in Occurrences,
           Grounds(L, H, at, st, n, e), Agreed(L, H, at, st, n, e), Len(n) > 0, Drops(k, n),
           v.type = "DISCONNECT", v.own = Shell, v.ch = 0, Extends(f, e, v)
    PROVE  Agreed(L, H, at, st, k, f)
<1>1. /\ L \in Pairs /\ H \in Pairs /\ n \in Seq(Messages) /\ e \in Seq(Occurrences)
      /\ Engine(L, at, st) /\ Sound(L, at, st, n) /\ Ordered(L, at, e) /\ Routed(L, H, at, e)
  BY DEF Grounds, Agreed
<1>2. \A a \in 2..Len(n) : About(L, at, st, n[a])
  BY <1>1, Foremost
<1>3. Sound(L, at, st, k)
  BY <1>1, <1>2, Delivered
<1>4. Ordered(L, at, f) /\ Routed(L, H, at, f)
  BY <1>1, Breaks
<1> QED
  BY <1>1, <1>3, <1>4 DEF Agreed

\* The application takes the first event.
LEMMA Learns ==
    ASSUME NEW L, NEW H, NEW J \in Pairs, NEW at, NEW st, NEW n, NEW e, NEW f,
           Grounds(L, H, at, st, n, e), Agreed(L, H, at, st, n, e), Len(e) > 0, Drops(f, e),
           Settles(J, H, e[1])
    PROVE  Agreed(L, J, at, st, n, f)
<1>1. /\ L \in Pairs /\ H \in Pairs /\ e \in Seq(Occurrences)
      /\ Engine(L, at, st) /\ Sound(L, at, st, n) /\ Ordered(L, at, e) /\ Routed(L, H, at, e)
  BY DEF Grounds, Agreed
<1>2. Ordered(L, at, f) /\ Routed(L, J, at, f)
  BY <1>1, Took
<1> QED
  BY <1>1, <1>2 DEF Agreed

\* It forgets ids of those who are not private.
LEMMA Forgets ==
    ASSUME NEW L, NEW H, NEW J, NEW at, NEW st, NEW n, NEW e,
           Agreed(L, H, at, st, n, e), Grounds(L, H, at, st, n, e),
           \A o \in Owners, i \in Slots : /\ <<o, i>> \in J => <<o, i>> \in H
                                          /\ <<o, i>> \in H /\ o \in Private => <<o, i>> \in J
    PROVE  Agreed(L, J, at, st, n, e)
<1>1. Routed(L, H, at, e) /\ L \in Pairs /\ e \in Seq(Occurrences)
  BY DEF Agreed, Grounds
<1>2. \A a \in 1..Len(e) : e[a].own \in Private =>
          <<e[a].own, e[a].ch>> \in J \/ Comes(e, a, e[a].own)
  <2> SUFFICES ASSUME NEW a \in 1..Len(e), e[a].own \in Private, <<e[a].own, e[a].ch>> \in H
               PROVE  <<e[a].own, e[a].ch>> \in J
    BY <1>1 DEF Routed
  <2>1. e[a].own \in Owners /\ e[a].ch \in Slots
    BY DEF Grounds, Pairs
  <2> QED BY <2>1
<1>3. \A o \in Private, i \in Slots : <<o, i>> \in L => <<o, i>> \in J \/ Comes(e, Len(e), o)
  BY <1>1, Owning DEF Routed
<1>4. \A o \in Owners, i \in Slots : <<o, i>> \in J =>
          /\ at[o] = i
          /\ <<o, i>> \in L \/ Told(e, Len(e), o)
          /\ \A a \in 1..Len(e) : e[a].ch = i /\ e[a].own # o => Told(e, a - 1, o)
  BY <1>1 DEF Routed
<1>5. Routed(L, J, at, e)
  BY <1>2, <1>3, <1>4 DEF Routed
<1> QED
  BY <1>5 DEF Agreed

\* The application opens a channel, when no event is left: owner o holds slot i.
LEMMA Opens ==
    ASSUME NEW L, NEW M \in Pairs, NEW H, NEW J \in Pairs, NEW at, NEW bt, NEW st, NEW tt, NEW n, NEW e,
           NEW o \in Owners, NEW i \in Slots, o \notin Displays, at[o] = 0,
           Grounds(L, H, at, st, n, e), Agreed(L, H, at, st, n, e), Len(e) = 0,
           \A p \in Owners : <<p, i>> \notin L,
           Placed(M, L, bt, at, tt, st, o, i, "asked"),
           \A p \in Owners, j \in Slots : <<p, j>> \in J <=> <<p, j>> \in H \/ (p = o /\ j = i)
    PROVE  Agreed(M, J, bt, tt, n, e)
<1>1. /\ L \in Pairs /\ H \in Pairs /\ at \in Places /\ n \in Seq(Messages)
      /\ Engine(L, at, st) /\ Sound(L, at, st, n) /\ Routed(L, H, at, e)
  BY DEF Grounds, Agreed
<1>2. /\ Engine(M, bt, tt)
      /\ \A m \in Messages : /\ About(L, at, st, m) /\ m.type # "X11_OPEN" => About(M, bt, tt, m)
                             /\ About(L, at, st, m) /\ m.own # o => About(M, bt, tt, m)
  BY <1>1, Seated
<1>3. \A a \in 1..Len(n) : About(M, bt, tt, n[a])
  <2> SUFFICES ASSUME NEW a \in 1..Len(n)
               PROVE  About(M, bt, tt, n[a])
    OBVIOUS
  <2>1. n[a] \in Messages /\ About(L, at, st, n[a])
    BY <1>1, Queues DEF Sound
  <2>2. n[a].type = "X11_OPEN" => n[a].own # o
    BY <2>1 DEF About
  <2> QED BY <2>1, <2>2, <1>2
<1>4. Sound(M, bt, tt, n)
  BY <1>1, <1>3 DEF Sound
<1>5. Ordered(M, bt, e)
  BY DEF Ordered
<1>6. Routed(M, J, bt, e)
  <2>1. ASSUME NEW p \in Owners, NEW j \in Slots, <<p, j>> \in J
        PROVE  bt[p] = j /\ <<p, j>> \in M
    <3>1. CASE p = o /\ j = i
      BY <3>1 DEF Placed
    <3>2. CASE <<p, j>> \in H
      <4>1. at[p] = j /\ <<p, j>> \in L
        BY <3>2, <1>1 DEF Routed, Told
      <4>2. p # o
        BY <4>1, Numbering
      <4> QED BY <4>1, <4>2 DEF Placed
    <3> QED BY <2>1, <3>1, <3>2
  <2>2. ASSUME NEW p \in Private, NEW j \in Slots, <<p, j>> \in M
        PROVE  <<p, j>> \in J
    <3>1. p \in Owners
      BY Owning
    <3>2. CASE <<p, j>> \in L
      BY <3>1, <3>2, <1>1 DEF Routed, Comes
    <3> QED BY <2>2, <3>1, <3>2 DEF Placed
  <2> QED BY <2>1, <2>2 DEF Routed
<1> QED
  BY <1>2, <1>4, <1>5, <1>6 DEF Agreed

-----------------------------------------------------------------------------
(* The server speaks *)

\* Message m more, when the server's states become tt.
LEMMA Speaks ==
    ASSUME NEW L, NEW H, NEW at, NEW st, NEW tt, NEW n, NEW k, NEW e, NEW m \in Messages,
           Grounds(L, H, at, st, n, e), Agreed(L, H, at, st, n, e), Extends(k, n, m),
           Engine(L, at, tt), About(L, at, tt, m),
           \A a \in 1..Len(n) :
              /\ About(L, at, tt, n[a])
              /\ n[a].type \in Parting /\ n[a].own = m.own => m.type = "DISCONNECT"
              /\ n[a].type = "X11_OPEN" => n[a].own # m.own
              /\ m.type = "X11_OPEN" => n[a].own # m.own
    PROVE  Agreed(L, H, at, tt, k, e)
<1>1. /\ n \in Seq(Messages) /\ Len(n) \in Nat
      /\ Sound(L, at, st, n) /\ Ordered(L, at, e) /\ Routed(L, H, at, e)
  BY Queues DEF Grounds, Agreed
<1>2. /\ Len(k) = Len(n) + 1 /\ k[Len(k)] = m /\ \A a \in 1..Len(n) : k[a] = n[a]
      /\ \A a \in 1..Len(k) : a \in 1..Len(n) \/ a = Len(k)
  BY <1>1 DEF Extends
<1>3. \A a \in 1..Len(k) : About(L, at, tt, k[a])
  BY <1>2
<1>4. ASSUME NEW a \in 1..Len(k), NEW b \in 1..Len(k)
      PROVE  /\ a < b /\ k[a].type \in Parting /\ k[a].own = k[b].own => k[b].type = "DISCONNECT"
             /\ a # b /\ k[a].type = "X11_OPEN" => k[a].own # k[b].own
  <2>1. CASE a \in 1..Len(n) /\ b \in 1..Len(n)
    BY <2>1, <1>1, <1>2 DEF Sound
  <2>2. CASE a \in 1..Len(n) /\ b = Len(k)
    BY <2>2, <1>2
  <2>3. CASE a = Len(k)
    BY <2>3, <1>1, <1>2
  <2> QED BY <2>1, <2>2, <2>3, <1>2
<1>5. Sound(L, at, tt, k)
  BY <1>3, <1>4 DEF Sound
<1> QED
  BY <1>1, <1>5 DEF Agreed

\* A message of an owner whose channel the server still has.
LEMMA Converses ==
    ASSUME NEW L, NEW H, NEW at, NEW st, NEW tt, NEW n, NEW k, NEW e, NEW o \in Owners,
           NEW m \in Messages, m.own = o, m.ch = at[o], m.type \notin {"X11_OPEN", "DISCONNECT"},
           Grounds(L, H, at, st, n, e), Agreed(L, H, at, st, n, e), Extends(k, n, m),
           st[o] \in {"asked", "open"}, \A p \in Owners \ {o} : tt[p] = st[p],
           tt[o] # "none", tt[o] = "asked" => st[o] = "asked",
           m.type \in Parting => tt[o] \notin {"asked", "open"},
           m.type = "OPEN_FAIL" => o \notin Displays
    PROVE  Agreed(L, H, at, tt, k, e)
<1>1. /\ n \in Seq(Messages) /\ \A a \in 1..Len(n) : n[a] \in Messages /\ n[a].own \in Owners
      /\ Engine(L, at, st) /\ Sound(L, at, st, n)
  BY Queues, Fields DEF Grounds, Agreed
<1>2. <<o, at[o]>> \in L /\ at[o] \in Slots
  BY <1>1 DEF Engine
<1>3. Engine(L, at, tt) /\ About(L, at, tt, m)
  BY <1>1, <1>2, Owning DEF Engine, About
<1>4. ASSUME NEW a \in 1..Len(n)
      PROVE  /\ About(L, at, tt, n[a])
             /\ n[a].type \in Parting => n[a].own # m.own
             /\ n[a].type = "X11_OPEN" => n[a].own # m.own
  <2>1. About(L, at, st, n[a]) /\ n[a].own \in Owners
    BY <1>1 DEF Sound
  <2>2. /\ n[a].type \in Parting => n[a].own # m.own
        /\ n[a].type = "X11_OPEN" => n[a].own # m.own
    BY <2>1, <1>2, Numbering DEF About
  <2> QED BY <2>1, <2>2 DEF About
<1> QED
  BY <1>3, <1>4, Speaks

\* An X11 client begins.
LEMMA Begins ==
    ASSUME NEW L, NEW H, NEW at, NEW st, NEW tt, NEW n, NEW k, NEW e, NEW o \in Displays,
           NEW m \in Messages, m.own = o, m.type = "X11_OPEN",
           Grounds(L, H, at, st, n, e), Agreed(L, H, at, st, n, e), Extends(k, n, m),
           st[o] = "none", tt[o] = "asked here", \A p \in Owners \ {o} : tt[p] = st[p]
    PROVE  Agreed(L, H, at, tt, k, e)
<1>1. /\ \A a \in 1..Len(n) : n[a] \in Messages /\ n[a].own \in Owners
      /\ L \in Pairs /\ Engine(L, at, st) /\ Sound(L, at, st, n)
      /\ o \in Owners /\ o # Shell /\ 0 \notin Slots /\ Displays \subseteq Owners
  <2>1. o \in Owners /\ o # Shell /\ 0 \notin Slots /\ Displays \subseteq Owners
    BY Owning, Numbering
  <2>2. n \in Seq(Messages) /\ L \in Pairs /\ Engine(L, at, st) /\ Sound(L, at, st, n)
    BY DEF Grounds, Agreed
  <2> QED BY <2>1, <2>2, Queues, Fields
<1>2. at[o] = 0 /\ \A i \in Slots : <<o, i>> \notin L
  <2>1. at[o] = 0
    BY <1>1 DEF Engine
  <2>2. \A i \in Slots : <<o, i>> \in L => at[o] = i
    BY <1>1 DEF Engine
  <2> QED BY <2>1, <2>2, <1>1
<1>3. Engine(L, at, tt)
  <2>1. \A p \in Owners : tt[p] \in {"asked", "open"} => tt[p] = st[p]
    OBVIOUS
  <2>2. \A p \in Owners : tt[p] = "none" => tt[p] = st[p]
    OBVIOUS
  <2>3. \A p \in Owners : tt[p] \in {"asked", "open"} => at[p] \in Slots /\ <<p, at[p]>> \in L
    BY <2>1, <1>1 DEF Engine
  <2>4. \A p \in Owners : tt[p] = "none" => at[p] = 0
    BY <2>2, <1>1 DEF Engine
  <2>5. \A p \in Displays : tt[p] # "asked"
    <3> SUFFICES ASSUME NEW p \in Displays
                 PROVE  tt[p] # "asked"
      OBVIOUS
    <3>1. p \in Owners
      BY Owning
    <3>2. st[p] # "asked"
      BY <1>1 DEF Engine
    <3>3. tt[p] \in {"asked", "open"} => tt[p] = st[p]
      BY <2>1, <3>1
    <3> QED BY <3>2, <3>3
  <2> QED BY <2>3, <2>4, <2>5, <1>1 DEF Engine
<1>4. About(L, at, tt, m)
  BY <1>2 DEF About, Parting
<1>5. ASSUME NEW a \in 1..Len(n)
      PROVE  n[a].own # o /\ About(L, at, tt, n[a])
  <2>1. About(L, at, st, n[a]) /\ n[a].own \in Owners
    BY <1>1 DEF Sound
  <2>2. <<n[a].own, n[a].ch>> \in L => n[a].ch \in Slots
    BY <1>1 DEF Pairs
  <2>3. n[a].own # o
    BY <2>1, <2>2, <1>1, <1>2 DEF About
  <2> QED BY <2>1, <2>3 DEF About
<1> QED
  BY <1>3, <1>4, <1>5, Speaks DEF Parting

\* The server disconnects: it has no channels any more.
LEMMA Disconnects ==
    ASSUME NEW L, NEW H, NEW at, NEW st, NEW tt, NEW n, NEW k, NEW e,
           NEW m \in Messages, m.own = Shell, m.type = "DISCONNECT",
           Grounds(L, H, at, st, n, e), Agreed(L, H, at, st, n, e), Extends(k, n, m),
           \A o \in Owners : tt[o] = "gone"
    PROVE  Agreed(L, H, at, tt, k, e)
<1>1. /\ \A a \in 1..Len(n) : n[a] \in Messages /\ n[a].own \in Owners
      /\ Engine(L, at, st) /\ Sound(L, at, st, n)
  BY Queues, Fields DEF Grounds, Agreed
<1>2. Engine(L, at, tt) /\ About(L, at, tt, m)
  BY <1>1, Owning DEF Engine, About, Parting
<1>3. ASSUME NEW a \in 1..Len(n)
      PROVE  About(L, at, tt, n[a]) /\ (n[a].type = "X11_OPEN" => n[a].own # m.own)
  <2>1. About(L, at, st, n[a]) /\ n[a].own \in Owners
    BY <1>1 DEF Sound
  <2> QED BY <2>1, Owning DEF About
<1> QED
  BY <1>2, <1>3, Speaks

-----------------------------------------------------------------------------
(* The relation in a state *)

EngagedIn(c) == {p \in Owners \X Slots : c[p[2]].st # "FREE" /\ c[p[2]].own = p[1]}
PlacesIn(s) == [o \in Owners |-> s[o].slot]
StandingsIn(s) == [o \in Owners |-> s[o].st]
Held(a, t) == {p \in Owners \X Slots :
                  \/ p[1] = Shell /\ p[2] = a.channel
                  \/ p[1] = <<"sftp", a.opened>> /\ p[2] = a.sftpChannel
                  \/ p[1] \in Tunnels /\ t[p[1]].st = "tracked" /\ t[p[1]].channel = p[2]}

AChan == [st : {"FREE", "OPENING", "OPEN"}, own : Owners, win : Nat, out : Seq(Units),
          eof : BOOLEAN, close : BOOLEAN, esent : BOOLEAN, csent : BOOLEAN]
AServed == [st : SvStates, slot : 0..MaxSlots, got : Seq(Units), owes : Nat, eof : BOOLEAN,
            close : BOOLEAN, asked : Nat, accused : BOOLEAN, sent : 0..MaxBytes, ended : BOOLEAN]
\* (The socket is open only as long as the tunnel is in its list.)
ATunnel == {t \in [st : {"none", "tracked", "gone"}, channel : 0..MaxSlots, channelOpen : BOOLEAN,
                   connecting : BOOLEAN, localOpen : BOOLEAN, localClosed : BOOLEAN,
                   remoteClosed : BOOLEAN, closeRequested : BOOLEAN, fd : BOOLEAN,
                   outToLocal : Seq(Bytes)] : t.fd => t.st = "tracked"}
APeer == [st : {"none", "open", "shut", "gone"}, unread : Seq(Units), sent : Nat, got : Seq(Bytes),
          lost : SUBSET Units]
AnApp == {a \in [state : {"active", "ended"}, channel : 0..1, sftpChannel : 0..MaxSlots,
                 sftpClosing : BOOLEAN, sftpCore : BOOLEAN, sftpOut : Seq(Units), browser : Nat,
                 opened : 0..MaxSftp, listening : BOOLEAN, x11_active : BOOLEAN,
                 pendingIn : Seq(Units)] : a.browser \in {0, a.opened}}
\* (The switch has heard of nobody who is private.)
AHistory == [heard : SUBSET ({Shell} \cup Conns), shown : Seq(Bytes), typed : Nat, asked : [Browsers -> Nat],
             removed : SUBSET Tunnels, stale : BOOLEAN]

\* A world whose backlogs are within the limit.
Worlds == {w \in [chan : [Slots -> AChan], sv : [Owners -> AServed]] :
              \A i \in Slots : Len(w.chan[i].out) <= Backlog}

\* w became v, and every channel is whose it was, where it was, and no close was taken back.
Alike(v, w) ==
    /\ v \in Worlds
    /\ \A i \in Slots : /\ v.chan[i].own = w.chan[i].own
                        /\ v.chan[i].st = "FREE" <=> w.chan[i].st = "FREE"
                        /\ w.chan[i].close => v.chan[i].close
    /\ \A o \in Owners : v.sv[o].slot = w.sv[o].slot /\ v.sv[o].st = w.sv[o].st

LEMMA Pairing ==
    /\ \A c, o, i : <<o, i>> \in EngagedIn(c) <=>
          o \in Owners /\ i \in Slots /\ c[i].st # "FREE" /\ c[i].own = o
    /\ \A a, t, o, i : <<o, i>> \in Held(a, t) <=>
          /\ o \in Owners /\ i \in Slots
          /\ \/ o = Shell /\ i = a.channel
             \/ o = <<"sftp", a.opened>> /\ i = a.sftpChannel
             \/ o \in Tunnels /\ t[o].st = "tracked" /\ t[o].channel = i
    /\ \A c : EngagedIn(c) \in Pairs
    /\ \A a, t : Held(a, t) \in Pairs
    /\ \A s \in [Owners -> AServed] : PlacesIn(s) \in Places /\ StandingsIn(s) \in Standings
<1>1. \A c, o, i : <<o, i>> \in EngagedIn(c) <=>
          o \in Owners /\ i \in Slots /\ c[i].st # "FREE" /\ c[i].own = o
  BY DEF EngagedIn
<1>2. \A a, t, o, i : <<o, i>> \in Held(a, t) <=>
          /\ o \in Owners /\ i \in Slots
          /\ \/ o = Shell /\ i = a.channel
             \/ o = <<"sftp", a.opened>> /\ i = a.sftpChannel
             \/ o \in Tunnels /\ t[o].st = "tracked" /\ t[o].channel = i
  BY DEF Held
<1>3. \A c : EngagedIn(c) \in Pairs
  BY DEF EngagedIn, Pairs
<1>4. \A a, t : Held(a, t) \in Pairs
  BY DEF Held, Pairs
<1>5. \A s \in [Owners -> AServed] : PlacesIn(s) \in Places /\ StandingsIn(s) \in Standings
  BY DEF PlacesIn, StandingsIn, Places, Standings, AServed
<1> QED
  BY <1>1, <1>2, <1>3, <1>4, <1>5

\* The ids held, one at a time.
Holds(a, t, o, i) ==
    \/ o = Shell /\ i = a.channel
    \/ o = <<"sftp", a.opened>> /\ i = a.sftpChannel
    \/ o \in Tunnels /\ t[o].st = "tracked" /\ t[o].channel = i
LEMMA HeldBy ==
    ASSUME NEW a, NEW t, NEW o \in Owners, NEW i \in Slots
    PROVE  <<o, i>> \in Held(a, t) <=> Holds(a, t, o, i)
BY Pairing DEF Holds

LEMMA AlikeChain ==
    /\ \A w \in Worlds : Alike(w, w)
    /\ \A u, v, w : Alike(u, v) /\ Alike(v, w) => Alike(u, w)
BY DEF Alike

\* What is alike is the same to the relation.
LEMMA AlikeSame ==
    ASSUME NEW v, NEW w, Alike(v, w), w \in Worlds
    PROVE  /\ EngagedIn(v.chan) = EngagedIn(w.chan)
           /\ PlacesIn(v.sv) = PlacesIn(w.sv) /\ StandingsIn(v.sv) = StandingsIn(w.sv)
<1>1. EngagedIn(v.chan) = EngagedIn(w.chan)
  BY DEF Alike, EngagedIn
<1>2. PlacesIn(v.sv) = PlacesIn(w.sv) /\ StandingsIn(v.sv) = StandingsIn(w.sv)
  BY DEF Alike, PlacesIn, StandingsIn
<1> QED
  BY <1>1, <1>2

-----------------------------------------------------------------------------
(* What the engine is asked to do leaves every channel its owner's *)

LEMMA Limits == /\ Backlog \in Nat /\ SvWindow \in Nat /\ MaxSftp \in Nat /\ MaxBytes \in Nat
                /\ MaxConns \in Nat /\ MaxX11 \in Nat
BY SessionAssumption

LEMMA Smaller == \A a, b \in Nat : Min({a, b}) \in Nat /\ Min({a, b}) <= a /\ Min({a, b}) <= b
<1> SUFFICES ASSUME NEW a \in Nat, NEW b \in Nat
             PROVE  Min({a, b}) \in Nat /\ Min({a, b}) <= a /\ Min({a, b}) <= b
  OBVIOUS
<1>1. \E x \in {a, b} : \A y \in {a, b} : x <= y
  <2>1. CASE a <= b
    BY <2>1
  <2>2. CASE b <= a
    BY <2>2
  <2> QED BY <2>1, <2>2
<1>2. Min({a, b}) \in {a, b} /\ \A y \in {a, b} : Min({a, b}) <= y
  BY <1>1 DEF Min
<1> QED
  BY <1>2

LEMMA Parts ==
    ASSUME NEW S, NEW q \in Seq(S), NEW n \in Nat, n <= Len(q)
    PROVE  /\ SubSeq(q, 1, n) \in Seq(S) /\ Len(SubSeq(q, 1, n)) = n
           /\ SubSeq(q, n + 1, Len(q)) \in Seq(S) /\ Len(SubSeq(q, n + 1, Len(q))) = Len(q) - n
<1>1. Len(q) \in Nat /\ \A i \in 1..Len(q) : q[i] \in S
  BY LenProperties, ElementOfSeq
<1>2. SubSeq(q, 1, n) \in Seq(S) /\ Len(SubSeq(q, 1, n)) = n
  <2>1. \A i \in 1..n : q[i] \in S
    BY <1>1
  <2>2. SubSeq(q, 1, n) \in Seq(S) /\ Len(SubSeq(q, 1, n)) = IF 1 <= n THEN n - 1 + 1 ELSE 0
    BY <2>1, SubSeqProperties
  <2> QED BY <2>2
<1>3. SubSeq(q, n + 1, Len(q)) \in Seq(S) /\ Len(SubSeq(q, n + 1, Len(q))) = Len(q) - n
  <2>1. n + 1 \in Int /\ Len(q) \in Int /\ \A i \in (n + 1)..Len(q) : q[i] \in S
    BY <1>1
  <2>2. /\ SubSeq(q, n + 1, Len(q)) \in Seq(S)
        /\ Len(SubSeq(q, n + 1, Len(q))) = IF n + 1 <= Len(q) THEN Len(q) - (n + 1) + 1 ELSE 0
    BY <2>1, SubSeqProperties
  <2> QED BY <2>2, <1>1
<1> QED
  BY <1>2, <1>3

LEMMA FlushAlike ==
    ASSUME NEW w \in Worlds, NEW i \in Slots
    PROVE  /\ Alike(chan_flush(w, i), w)
           /\ \A j \in Slots : chan_flush(w, i).chan[j].close = w.chan[j].close
<1> DEFINE c == w.chan[i]
           n == IF Len(c.out) < c.win THEN Len(c.out) ELSE c.win
           done == n = Len(c.out)
           d == [c EXCEPT !.out = SubSeq(c.out, n + 1, Len(c.out)), !.win = c.win - n,
                          !.esent = c.esent \/ (done /\ c.eof), !.csent = done /\ c.close]
           s == w.sv[c.own]
           r == [s EXCEPT !.got = s.got \o SubSeq(c.out, 1, n), !.owes = s.owes + n,
                          !.eof = s.eof \/ (done /\ c.eof), !.close = done /\ c.close]
           v == [chan |-> [w.chan EXCEPT ![i] = d], sv |-> [w.sv EXCEPT ![c.own] = r]]
<1>1. w.chan \in [Slots -> AChan] /\ w.sv \in [Owners -> AServed] /\ c \in AChan
      /\ \A j \in Slots : Len(w.chan[j].out) <= Backlog
  BY DEF Worlds
<1>2. c.out \in Seq(Units) /\ c.win \in Nat /\ c.own \in Owners /\ Len(c.out) \in Nat
  BY <1>1, LenProperties DEF AChan
<1>3. n \in Nat /\ n <= Len(c.out) /\ n <= c.win
  BY <1>2
<1>4. /\ SubSeq(c.out, 1, n) \in Seq(Units) /\ SubSeq(c.out, n + 1, Len(c.out)) \in Seq(Units)
      /\ Len(SubSeq(c.out, n + 1, Len(c.out))) = Len(c.out) - n
  BY <1>2, <1>3, Parts
<1> HIDE DEF n
<1>5. d \in AChan /\ d.own = c.own /\ d.st = c.st /\ d.close = c.close /\ Len(d.out) <= Backlog
  <2>1. Len(c.out) - n <= Backlog /\ c.win - n \in Nat
    BY <1>1, <1>2, <1>3, Limits
  <2>2. d.out = SubSeq(c.out, n + 1, Len(c.out))
    BY <1>1 DEF AChan
  <2> QED BY <2>1, <2>2, <1>1, <1>4 DEF AChan
<1>6. r \in AServed /\ r.slot = s.slot /\ r.st = s.st /\ r.sent = s.sent
  <2>1. s \in AServed
    BY <1>1, <1>2
  <2>2. s.got \o SubSeq(c.out, 1, n) \in Seq(Units)
    <3>1. s.got \in Seq(Units)
      BY <2>1 DEF AServed
    <3> QED BY <3>1, <1>4, ConcatProperties
  <2>3. s.owes + n \in Nat
    <3>1. s.owes \in Nat
      BY <2>1 DEF AServed
    <3> QED BY <3>1, <1>3
  <2> DEFINE g == s.got \o SubSeq(c.out, 1, n)
             m == s.owes + n
             f == s.eof \/ (done /\ c.eof)
             h == done /\ c.close
  <2>4. f \in BOOLEAN /\ h \in BOOLEAN
    BY <1>1, <2>1 DEF AServed, AChan
  <2>5. r = [s EXCEPT !.got = g, !.owes = m, !.eof = f, !.close = h]
    OBVIOUS
  <2>6. g \in Seq(Units) /\ m \in Nat
    BY <2>2, <2>3
  <2> HIDE DEF g, m, f, h, s, r
  <2> QED BY <2>1, <2>4, <2>5, <2>6 DEF AServed
<1> HIDE DEF d, r
<1>7. v \in Worlds
  BY <1>1, <1>2, <1>5, <1>6 DEF Worlds
<1>8. Alike(v, w) /\ \A j \in Slots : v.chan[j].close = w.chan[j].close
  BY <1>1, <1>2, <1>5, <1>6, <1>7 DEF Alike
<1>9. chan_flush(w, i) = IF c.st # "OPEN" \/ c.csent THEN w ELSE v
  BY DEF chan_flush, n, d, r
<1> QED
  BY <1>8, <1>9, AlikeChain

\* A channel of w is touched, without its owner being changed.
LEMMA TouchAlike ==
    ASSUME NEW w \in Worlds, NEW i \in Slots, NEW d \in AChan, Len(d.out) <= Backlog,
           d.own = w.chan[i].own, d.st = "FREE" <=> w.chan[i].st = "FREE",
           w.chan[i].close => d.close
    PROVE  /\ Alike([w EXCEPT !.chan[i] = d], w)
           /\ [w EXCEPT !.chan[i] = d].chan[i] = d /\ [w EXCEPT !.chan[i] = d].sv = w.sv
           /\ \A j \in Slots \ {i} : [w EXCEPT !.chan[i] = d].chan[j] = w.chan[j]
<1> DEFINE v == [w EXCEPT !.chan[i] = d]
<1>1. w.chan \in [Slots -> AChan] /\ w.sv \in [Owners -> AServed]
      /\ \A j \in Slots : Len(w.chan[j].out) <= Backlog
  BY DEF Worlds
<1>2. v = [chan |-> [w.chan EXCEPT ![i] = d], sv |-> w.sv]
  BY DEF Worlds
<1>3. v.sv = w.sv /\ \A j \in Slots : v.chan[j] = IF j = i THEN d ELSE w.chan[j]
  BY <1>1, <1>2
<1>4. v \in Worlds
  BY <1>1, <1>2 DEF Worlds
<1>5. Alike(v, w)
  BY <1>3, <1>4 DEF Alike
<1> QED
  BY <1>3, <1>5

LEMMA RequestAlike ==
    ASSUME NEW w \in Worlds, NEW i \in 0..MaxSlots
    PROVE  Alike(ChannelRequest(w, i), w)
<1> DEFINE o == w.chan[i].own
           s == w.sv[o]
           a == [s EXCEPT !.accused = TRUE]
           b == [s EXCEPT !.asked = s.asked + 1]
<1>1. CASE ChannelRequest(w, i) = w
  BY <1>1, AlikeChain
<1>2. CASE i # 0 /\ ChannelRequest(w, i) # w
  <2>1. i \in Slots
    BY <1>2, Numbering
  <2>2. w.chan \in [Slots -> AChan] /\ w.sv \in [Owners -> AServed] /\ o \in Owners
    BY <2>1 DEF Worlds, AChan
  <2>3. s \in AServed /\ a \in AServed /\ b \in AServed
    <3>1. s \in AServed
      BY <2>2
    <3>2. s.asked + 1 \in Nat
      BY <3>1 DEF AServed
    <3>3. a \in AServed
      BY <3>1 DEF AServed
    <3>4. b \in AServed
      BY <3>1, <3>2 DEF AServed
    <3> QED BY <3>1, <3>3, <3>4
  <2>4. /\ a.slot = s.slot /\ a.st = s.st /\ a.sent = s.sent
        /\ b.slot = s.slot /\ b.st = s.st /\ b.sent = s.sent
    BY <2>3 DEF AServed
  <2>5. ChannelRequest(w, i) \in {[w EXCEPT !.sv[o] = a], [w EXCEPT !.sv[o] = b]}
    BY <1>2 DEF ChannelRequest
  <2> HIDE DEF a, b
  <2>6. ASSUME NEW r \in {a, b} PROVE Alike([w EXCEPT !.sv[o] = r], w)
    <3> DEFINE v == [w EXCEPT !.sv[o] = r]
    <3>1. v = [chan |-> w.chan, sv |-> [w.sv EXCEPT ![o] = r]]
      BY DEF Worlds
    <3>2. v.chan = w.chan /\ \A p \in Owners : v.sv[p] = IF p = o THEN r ELSE w.sv[p]
      BY <3>1, <2>2
    <3>3. v \in Worlds
      BY <3>1, <2>2, <2>3 DEF Worlds
    <3> QED BY <3>2, <3>3, <2>4 DEF Alike
  <2> QED BY <2>5, <2>6
<1> QED
  BY <1>1, <1>2 DEF ChannelRequest

LEMMA RoomFits ==
    ASSUME NEW w \in Worlds, NEW i \in 0..MaxSlots, NEW data \in Seq(Units)
    PROVE  /\ Room(w, i, data) \in Nat /\ Room(w, i, data) <= Len(data)
           /\ i # 0 => Len(w.chan[i].out) + Room(w, i, data) <= Backlog
<1>1. Len(data) \in Nat
  BY LenProperties
<1>2. CASE i = 0
  BY <1>1, <1>2 DEF Room
<1>3. CASE i # 0
  <2>1. w.chan[i] \in AChan /\ Len(w.chan[i].out) <= Backlog
    BY <1>3, Numbering DEF Worlds
  <2>2. Len(w.chan[i].out) \in Nat /\ Backlog - Len(w.chan[i].out) \in Nat
    BY <2>1, LenProperties, Limits DEF AChan
  <2> DEFINE m == Min({Len(data), Backlog - Len(w.chan[i].out)})
  <2>3. m \in Nat /\ m <= Len(data) /\ m <= Backlog - Len(w.chan[i].out)
    BY <1>1, <2>2, Smaller
  <2>4. Room(w, i, data) \in {0, m}
    BY <1>3 DEF Room
  <2> HIDE DEF m
  <2> QED BY <1>1, <2>1, <2>2, <2>3, <2>4, Limits
<1> QED
  BY <1>2, <1>3

LEMMA WriteAlike ==
    ASSUME NEW w \in Worlds, NEW i \in 0..MaxSlots, NEW data \in Seq(Units)
    PROVE  Alike(ssh_channel_write(w, i, data), w)
<1> DEFINE n == Room(w, i, data)
           c == w.chan[i]
           d == [c EXCEPT !.out = c.out \o SubSeq(data, 1, n)]
           v == [w EXCEPT !.chan[i] = d]
<1>1. n \in Nat /\ n <= Len(data) /\ (i # 0 => Len(c.out) + n <= Backlog)
  BY RoomFits
<1>2. CASE n = 0
  BY <1>2, AlikeChain DEF ssh_channel_write
<1>3. CASE n # 0
  <2>1. i \in Slots
    BY <1>3, Numbering DEF Room
  <2>2. c \in AChan /\ c.out \in Seq(Units) /\ SubSeq(data, 1, n) \in Seq(Units) /\ Len(SubSeq(data, 1, n)) = n
    BY <2>1, <1>1, Parts DEF Worlds, AChan
  <2> HIDE DEF n
  <2>3. c.out \o SubSeq(data, 1, n) \in Seq(Units) /\ Len(c.out \o SubSeq(data, 1, n)) = Len(c.out) + n
    BY <2>2, ConcatProperties
  <2>4. d \in AChan /\ d.own = c.own /\ d.st = c.st /\ d.close = c.close /\ Len(d.out) <= Backlog
    <3>1. d.out = c.out \o SubSeq(data, 1, n)
      BY <2>2 DEF AChan
    <3>2. Len(c.out) + n <= Backlog
      BY <1>1, <2>1, Numbering
    <3> QED BY <2>2, <2>3, <3>1, <3>2 DEF AChan
  <2> HIDE DEF d
  <2>5. Alike(v, w) /\ v \in Worlds
    BY <2>1, <2>4, TouchAlike DEF Alike
  <2>6. ssh_channel_write(w, i, data) = chan_flush(v, i)
    BY <1>3 DEF ssh_channel_write, d, n
  <2> HIDE DEF v
  <2> QED BY <2>1, <2>5, <2>6, FlushAlike, AlikeChain
<1> QED
  BY <1>2, <1>3

LEMMA EofAlike ==
    ASSUME NEW w \in Worlds, NEW i \in 0..MaxSlots
    PROVE  Alike(ssh_channel_eof(w, i), w)
<1> DEFINE c == w.chan[i]
           d == [c EXCEPT !.eof = TRUE]
           v == [w EXCEPT !.chan[i] = d]
<1>1. CASE i = 0 \/ w.chan[i].st = "FREE"
  BY <1>1, AlikeChain DEF ssh_channel_eof
<1>2. CASE ~(i = 0 \/ w.chan[i].st = "FREE")
  <2>1. i \in Slots /\ c \in AChan /\ Len(c.out) <= Backlog
    BY <1>2, Numbering DEF Worlds
  <2>2. d \in AChan /\ d.own = c.own /\ d.st = c.st /\ d.close = c.close /\ d.out = c.out
    BY <2>1 DEF AChan
  <2> HIDE DEF d
  <2>3. Alike(v, w) /\ v \in Worlds
    BY <2>1, <2>2, TouchAlike DEF Alike
  <2>4. ssh_channel_eof(w, i) = chan_flush(v, i)
    BY <1>2 DEF ssh_channel_eof, d
  <2> HIDE DEF v
  <2> QED BY <2>1, <2>3, <2>4, FlushAlike, AlikeChain
<1> QED
  BY <1>1, <1>2

\* And a channel in use is then to be closed.
LEMMA CloseAlike ==
    ASSUME NEW w \in Worlds, NEW i \in 0..MaxSlots
    PROVE  /\ Alike(ssh_channel_close(w, i), w)
           /\ i # 0 /\ w.chan[i].st # "FREE" => ssh_channel_close(w, i).chan[i].close
<1> DEFINE c == w.chan[i]
           d == [c EXCEPT !.close = TRUE]
           v == [w EXCEPT !.chan[i] = d]
<1>1. CASE i = 0 \/ w.chan[i].st = "FREE"
  BY <1>1, AlikeChain DEF ssh_channel_close
<1>2. CASE ~(i = 0 \/ w.chan[i].st = "FREE")
  <2>1. i \in Slots /\ c \in AChan /\ Len(c.out) <= Backlog
    BY <1>2, Numbering DEF Worlds
  <2>2. d \in AChan /\ d.own = c.own /\ d.st = c.st /\ d.close /\ d.out = c.out
    BY <2>1 DEF AChan
  <2> HIDE DEF d
  <2>3. Alike(v, w) /\ v \in Worlds /\ v.chan[i] = d
    BY <2>1, <2>2, TouchAlike DEF Alike
  <2>4. ssh_channel_close(w, i) = chan_flush(v, i)
    BY <1>2 DEF ssh_channel_close, d
  <2> HIDE DEF v
  <2> QED BY <2>1, <2>2, <2>3, <2>4, FlushAlike, AlikeChain
<1> QED
  BY <1>1, <1>2

LEMMA ConfirmAlike ==
    ASSUME NEW w \in Worlds, NEW i \in Slots
    PROVE  Alike(Confirmed(w, i), w)
BY FlushAlike, AlikeChain DEF Confirmed

-----------------------------------------------------------------------------
(* What the session object does with its own fields *)

\* a became b, which holds the same ids.
Steady(b, a) ==
    /\ b \in AnApp
    /\ b.state = a.state /\ b.channel = a.channel
    /\ b.sftpChannel = a.sftpChannel /\ b.opened = a.opened

LEMMA SteadyChain ==
    /\ \A a \in AnApp : Steady(a, a)
    /\ \A a, b, c : Steady(c, b) /\ Steady(b, a) => Steady(c, a)
BY DEF Steady

LEMMA SteadyPending ==
    ASSUME NEW a \in AnApp, NEW w \in Worlds
    PROVE  Steady(flushPending(a, w).app, a) /\ Alike(flushPending(a, w).w, w)
<1> DEFINE n == Room(w, a.channel, a.pendingIn)
           r == SubSeq(a.pendingIn, n + 1, Len(a.pendingIn))
           b == [a EXCEPT !.pendingIn = r]
<1>1. a.pendingIn \in Seq(Units) /\ a.channel \in 0..MaxSlots
  BY Numbering, SessionAssumption DEF AnApp
<1>2. n \in Nat /\ n <= Len(a.pendingIn)
  BY <1>1, RoomFits
<1> HIDE DEF n
<1>3. r \in Seq(Units)
  BY <1>1, <1>2, Parts
<1> HIDE DEF r
<1>4. Steady(b, a)
  BY <1>3 DEF Steady, AnApp
<1>5. flushPending(a, w) = [app |-> b, w |-> ssh_channel_write(w, a.channel, a.pendingIn)]
  BY DEF flushPending, r, n
<1> QED
  BY <1>1, <1>4, <1>5, WriteAlike

LEMMA SteadySftp ==
    ASSUME NEW a \in AnApp, NEW w \in Worlds
    PROVE  Steady(flushSFTP(a, w).app, a) /\ Alike(flushSFTP(a, w).w, w)
<1> DEFINE n == Room(w, a.sftpChannel, a.sftpOut)
           r == SubSeq(a.sftpOut, n + 1, Len(a.sftpOut))
           b == [a EXCEPT !.sftpOut = r]
<1>1. a.sftpOut \in Seq(Units) /\ a.sftpChannel \in 0..MaxSlots
  BY DEF AnApp
<1>2. n \in Nat /\ n <= Len(a.sftpOut)
  BY <1>1, RoomFits
<1> HIDE DEF n
<1>3. r \in Seq(Units)
  BY <1>1, <1>2, Parts
<1> HIDE DEF r
<1>4. Steady(b, a)
  BY <1>3 DEF Steady, AnApp
<1>5. flushSFTP(a, w) =
         IF ~a.sftpCore \/ a.sftpClosing THEN [app |-> a, w |-> w]
         ELSE [app |-> b, w |-> ssh_channel_write(w, a.sftpChannel, a.sftpOut)]
  BY DEF flushSFTP, r, n
<1> HIDE DEF b
<1>6. CASE ~a.sftpCore \/ a.sftpClosing
  BY <1>5, <1>6, SteadyChain, AlikeChain
<1>7. CASE ~(~a.sftpCore \/ a.sftpClosing)
  BY <1>1, <1>4, <1>5, <1>7, WriteAlike
<1> QED
  BY <1>6, <1>7

LEMMA SteadyClose ==
    ASSUME NEW a \in AnApp, NEW w \in Worlds
    PROVE  Steady(closeSFTPChannel(a, w).app, a) /\ Alike(closeSFTPChannel(a, w).w, w)
<1> DEFINE b == [a EXCEPT !.sftpClosing = TRUE]
<1>1. a.sftpChannel \in 0..MaxSlots /\ Steady(b, a)
  BY DEF Steady, AnApp
<1> HIDE DEF b
<1>2. closeSFTPChannel(a, w) =
         IF a.sftpChannel = 0 \/ a.sftpClosing THEN [app |-> a, w |-> w]
         ELSE [app |-> b, w |-> ssh_channel_close(w, a.sftpChannel)]
  BY DEF closeSFTPChannel, b
<1>3. CASE a.sftpChannel = 0 \/ a.sftpClosing
  BY <1>2, <1>3, SteadyChain, AlikeChain
<1>4. CASE ~(a.sftpChannel = 0 \/ a.sftpClosing)
  BY <1>1, <1>2, <1>4, CloseAlike
<1> QED
  BY <1>3, <1>4

LEMMA SteadyAsks ==
    ASSUME NEW a \in AnApp, NEW b \in Browsers, hist \in AHistory
    PROVE  Steady(Asks(a, b), a)
<1>1. hist.asked[b] + 1 \in Nat
  BY DEF AHistory
<1>2. Byte(b, hist.asked[b] + 1) \in Units
  BY <1>1, Owning DEF Byte, Units
<1>3. Append(a.sftpOut, Byte(b, hist.asked[b] + 1)) \in Seq(Units)
  BY <1>2 DEF AnApp
<1> QED
  BY <1>3 DEF Asks, Steady, AnApp

-----------------------------------------------------------------------------
(* The inductive invariant *)

\* A forwarded connection's channel has a tunnel, or is being closed, or its rule is removed.
Cared(c, H, R) ==
    \A o \in Conns, i \in Slots : c[i].st # "FREE" /\ c[i].own = o => <<o, i>> \in H \/ c[i].close \/ o \in R
\* Whom no channel has been asked for yet.
Unused(a, t, s) ==
    /\ \A k \in Conns : t[k].st = "none" => s[k].slot = 0
    /\ \A b \in 1..MaxSftp : b > a.opened => s[<<"sftp", b>>].slot = 0
Owned(a, t, w, n, e, R) ==
    /\ Agreed(EngagedIn(w.chan), Held(a, t), PlacesIn(w.sv), StandingsIn(w.sv), n, e)
    /\ Cared(w.chan, Held(a, t), R)
    /\ Unused(a, t, w.sv)
    /\ a.channel = 1 /\ (a.sftpChannel # 0 => a.opened > 0)

Types ==
    /\ app \in AnApp /\ tun \in [Tunnels -> ATunnel] /\ World \in Worlds
    /\ events \in Seq(Occurrences) /\ net \in Seq(Messages)
    /\ peer \in [Tunnels -> APeer] /\ hist \in AHistory
    /\ left \in Load /\ left.slots \in Slots /\ left.down <= MaxBytes
    /\ app.opened + left.sftp <= MaxSftp
Phases ==
    /\ phase \in {"recv", "handle", "pump"}
    /\ (phase = "handle") = (phase # "recv" /\ events # <<>>)
    /\ (phase = "pump") = (todo # {}) /\ todo \subseteq Tracked
Ownership == Owned(app, tun, World, net, events, hist.removed)
IInv == Types /\ Phases /\ (Active => Ownership)

\* Nothing changed for whoever holds an id, and nobody let one go.
LEMMA OwnedSteady ==
    ASSUME NEW a, NEW b, NEW t, NEW u, NEW w \in Worlds, NEW v, NEW n, NEW e, NEW R, NEW Q,
           Owned(a, t, w, n, e, R), Steady(b, a), Alike(v, w), R \subseteq Q,
           \A k \in Tunnels : u[k].st = t[k].st /\ u[k].channel = t[k].channel
    PROVE  Owned(b, u, v, n, e, Q)
<1>1. Held(b, u) = Held(a, t)
  BY DEF Held, Steady
<1>2. /\ EngagedIn(v.chan) = EngagedIn(w.chan)
      /\ PlacesIn(v.sv) = PlacesIn(w.sv) /\ StandingsIn(v.sv) = StandingsIn(w.sv)
  BY AlikeSame
<1>3. Cared(v.chan, Held(b, u), Q)
  BY <1>1 DEF Owned, Cared, Alike
<1>4. Unused(b, u, v.sv)
  <2>1. \A k \in Conns : k \in Tunnels /\ k \in Owners
    BY Owning
  <2>2. \A i \in 1..MaxSftp : <<"sftp", i>> \in Owners
    BY DEF Owners, Browsers
  <2> QED BY <2>1, <2>2 DEF Owned, Unused, Alike, Steady
<1> QED
  BY <1>1, <1>2, <1>3, <1>4 DEF Owned, Steady

\* find_free_chan() finds a free slot if there is one.
LEMMA FreeFound ==
    ASSUME Types
    PROVE  /\ find_free_chan \in 0..MaxSlots
           /\ find_free_chan # 0 => find_free_chan \in Slots /\ chan[find_free_chan].st = "FREE"
<1>1. FreeSlots \in SUBSET Nat /\ \A i \in FreeSlots : i \in Slots /\ chan[i].st = "FREE"
  <2>1. \A i \in FreeSlots : i \in 1..left.slots /\ chan[i].st = "FREE"
    BY DEF FreeSlots
  <2>2. left.slots \in 1..MaxSlots
    BY DEF Types, Slots
  <2> QED BY <2>1, <2>2, Numbering DEF Slots
<1>2. CASE FreeSlots = {}
  BY <1>2, Numbering DEF find_free_chan
<1>3. CASE FreeSlots # {}
  <2>1. \E x \in FreeSlots : \A y \in FreeSlots : x <= y
    BY <1>1, <1>3, Least
  <2>2. Min(FreeSlots) \in FreeSlots
    BY <2>1 DEF Min
  <2> QED BY <1>1, <1>3, <2>2, Numbering DEF find_free_chan
<1> QED
  BY <1>2, <1>3

\* The first of the connections that wait to be accepted.
LEMMA FirstWaiting ==
    ASSUME Waiting # {}
    PROVE  (CHOOSE first \in Waiting : \A other \in Waiting : first[2] <= other[2]) \in Waiting
<1> DEFINE N == {k[2] : k \in Waiting}
<1>1. Waiting \subseteq Conns /\ \A k \in Conns : k[2] \in Nat
  BY DEF Waiting, Conns
<1>2. N \in SUBSET Nat /\ N # {}
  BY <1>1
<1>3. PICK x \in N : \A y \in N : x <= y
  <2>1. PICK y : y \in N
    BY <1>2
  <2> HIDE DEF N
  <2> QED BY <1>2, <2>1, Least
<1>4. \E first \in Waiting : \A other \in Waiting : first[2] <= other[2]
  BY <1>3
<1> QED
  BY <1>4

LEMMA EmptyRecords ==
    /\ FreeChan \in AChan /\ NoServerEnd \in AServed /\ NoTunnel \in ATunnel /\ NoPeer \in APeer
<1>1. <<>> \in Seq(Units) /\ <<>> \in Seq(Bytes)
  BY EmptySeq
<1>2. FreeChan \in AChan
  BY <1>1, Owning DEF FreeChan, AChan
<1>3. NoServerEnd \in AServed
  BY <1>1, Numbering, Limits DEF NoServerEnd, AServed, SvStates
<1>4. NoTunnel \in ATunnel
  BY <1>1, Numbering DEF NoTunnel, ATunnel
<1>5. NoPeer \in APeer
  BY <1>1 DEF NoPeer, APeer
<1> QED
  BY <1>2, <1>3, <1>4, <1>5

\* A channel opened in a free slot, by an owner that has had none.
LEMMA OpenPlaced ==
    ASSUME NEW w \in Worlds, NEW i \in Slots, NEW o \in Owners, w.chan[i].st = "FREE"
    PROVE  /\ OpenChannel(w, i, o) \in Worlds
           /\ Placed(EngagedIn(OpenChannel(w, i, o).chan), EngagedIn(w.chan),
                     PlacesIn(OpenChannel(w, i, o).sv), PlacesIn(w.sv),
                     StandingsIn(OpenChannel(w, i, o).sv), StandingsIn(w.sv), o, i, "asked")
           /\ \A j \in Slots \ {i} : OpenChannel(w, i, o).chan[j] = w.chan[j]
           /\ OpenChannel(w, i, o).chan[i].own = o
           /\ \A p \in Owners \ {o} : OpenChannel(w, i, o).sv[p] = w.sv[p]
<1> DEFINE d == [FreeChan EXCEPT !.st = "OPENING", !.own = o]
           r == [w.sv[o] EXCEPT !.st = "asked", !.slot = i]
           v == OpenChannel(w, i, o)
<1>1. w.chan \in [Slots -> AChan] /\ w.sv \in [Owners -> AServed]
      /\ \A j \in Slots : Len(w.chan[j].out) <= Backlog
  BY DEF Worlds
<1>2. d \in AChan /\ d.st = "OPENING" /\ d.own = o /\ Len(d.out) <= Backlog
  <2>1. d \in AChan /\ d.st = "OPENING" /\ d.own = o
    BY EmptyRecords DEF AChan
  <2>2. d.out = <<>>
    BY DEF FreeChan
  <2> QED BY <2>1, <2>2, EmptySeq, Limits
<1>3. r \in AServed /\ r.st = "asked" /\ r.slot = i
  <2>1. w.sv[o] \in AServed /\ i \in 0..MaxSlots
    BY <1>1, Numbering
  <2> QED BY <2>1 DEF AServed, SvStates
<1>4. v = [chan |-> [w.chan EXCEPT ![i] = d], sv |-> [w.sv EXCEPT ![o] = r]]
  BY <1>1 DEF OpenChannel
<1> HIDE DEF d, r, v
<1>5. /\ \A j \in Slots : v.chan[j] = IF j = i THEN d ELSE w.chan[j]
      /\ \A p \in Owners : v.sv[p] = IF p = o THEN r ELSE w.sv[p]
  BY <1>1, <1>4
<1>6. v \in Worlds
  BY <1>1, <1>2, <1>3, <1>4 DEF Worlds
<1>7. \A p \in Owners, j \in Slots :
         <<p, j>> \in EngagedIn(v.chan) <=> <<p, j>> \in EngagedIn(w.chan) \/ (p = o /\ j = i)
  <2> SUFFICES ASSUME NEW p \in Owners, NEW j \in Slots
               PROVE  <<p, j>> \in EngagedIn(v.chan) <=> <<p, j>> \in EngagedIn(w.chan) \/ (p = o /\ j = i)
    OBVIOUS
  <2>1. /\ <<p, j>> \in EngagedIn(v.chan) <=> v.chan[j].st # "FREE" /\ v.chan[j].own = p
        /\ <<p, j>> \in EngagedIn(w.chan) <=> w.chan[j].st # "FREE" /\ w.chan[j].own = p
    BY Pairing
  <2> QED BY <2>1, <1>2, <1>5
<1>8. \A p \in Owners : /\ PlacesIn(v.sv)[p] = IF p = o THEN i ELSE PlacesIn(w.sv)[p]
                        /\ StandingsIn(v.sv)[p] = IF p = o THEN "asked" ELSE StandingsIn(w.sv)[p]
  BY <1>3, <1>5 DEF PlacesIn, StandingsIn
<1> QED
  BY <1>2, <1>5, <1>6, <1>7, <1>8 DEF Placed, v

LEMMA Worldly ==
    /\ World.chan = chan /\ World.sv = sv
    /\ \A w \in Worlds : Becomes(w) => World' = w
<1>1. ASSUME NEW w \in Worlds, Becomes(w) PROVE World' = w
  <2>1. w = [chan |-> w.chan, sv |-> w.sv]
    BY DEF Worlds
  <2> QED BY <2>1, <1>1 DEF World, Becomes
<1> QED
  BY <1>1 DEF World

LEMMA Begun == Init => IInv
<1> SUFFICES ASSUME Init PROVE IInv
  OBVIOUS
<1> DEFINE w == [chan |-> [i \in Slots |-> FreeChan], sv |-> [o \in Owners |-> NoServerEnd]]
           v == OpenChannel(w, 1, Shell)
<1>1. 1 \in Slots /\ Shell \in Owners
  BY Owning, SessionAssumption DEF Slots
<1>2. w \in Worlds /\ \A i \in Slots : w.chan[i] = FreeChan /\ w.chan[i].st = "FREE"
  <2>1. FreeChan.out = <<>> /\ FreeChan.st = "FREE"
    BY DEF FreeChan
  <2> QED BY <2>1, EmptyRecords, EmptySeq, Limits DEF Worlds
<1>3. \A o \in Owners : w.sv[o].slot = 0 /\ w.sv[o].st = "none"
  BY DEF NoServerEnd
<1>4. World = v /\ World \in Worlds
  <2>1. v \in Worlds
    BY <1>1, <1>2, OpenPlaced
  <2>2. v = [chan |-> v.chan, sv |-> v.sv]
    BY <2>1 DEF Worlds
  <2>3. chan = v.chan /\ sv = v.sv
    BY DEF Init
  <2> QED BY <2>1, <2>2, <2>3 DEF World
<1>5. Types
  <2>1. <<>> \in Seq(Units) /\ <<>> \in Seq(Bytes) /\ events \in Seq(Occurrences) /\ net \in Seq(Messages)
    BY EmptySeq DEF Init
  <2>2. app \in AnApp
    BY <2>1, Limits, Numbering DEF Init, AnApp
  <2>3. tun \in [Tunnels -> ATunnel] /\ peer \in [Tunnels -> APeer]
    BY EmptyRecords DEF Init
  <2>4. hist \in AHistory
    BY <2>1 DEF Init, AHistory
  <2>5. left \in Loads /\ left \in Load /\ left.slots \in 1..MaxSlots /\ left.down <= MaxBytes /\ left.sftp <= MaxSftp
    BY SessionAssumption DEF Init
  <2>6. app.opened = 0 /\ left.sftp \in Nat
    BY <2>5 DEF Init, Load
  <2> QED BY <2>1, <2>2, <2>3, <2>4, <2>5, <2>6, <1>4, Limits DEF Types, Slots
<1>6. Phases
  BY DEF Init, Phases
<1>7. Ownership
  <2> DEFINE L == EngagedIn(World.chan)
             H == Held(app, tun)
             at == PlacesIn(World.sv)
             st == StandingsIn(World.sv)
  <2>0. Placed(L, EngagedIn(w.chan), at, PlacesIn(w.sv), st, StandingsIn(w.sv), Shell, 1, "asked")
    <3> HIDE DEF w
    <3> QED BY <1>1, <1>2, <1>4, OpenPlaced
  <2>1. \A p \in Owners, j \in Slots : <<p, j>> \in L <=> p = Shell /\ j = 1
    <3>1. \A p \in Owners, j \in Slots : <<p, j>> \notin EngagedIn(w.chan)
      BY <1>2, Pairing
    <3> HIDE DEF w, L, at, st
    <3> QED BY <3>1, <2>0 DEF Placed
  <2>2. \A p \in Owners : at[p] = (IF p = Shell THEN 1 ELSE 0)
                          /\ st[p] = (IF p = Shell THEN "asked" ELSE "none")
    <3>1. \A p \in Owners : PlacesIn(w.sv)[p] = 0 /\ StandingsIn(w.sv)[p] = "none"
      BY <1>3 DEF PlacesIn, StandingsIn
    <3> HIDE DEF w, L, at, st
    <3> QED BY <3>1, <2>0 DEF Placed
  <2>3. \A p \in Owners, j \in Slots : <<p, j>> \in H <=> p = Shell /\ j = 1
    <3>1. app.channel = 1 /\ app.sftpChannel = 0 /\ \A k \in Tunnels : tun[k].st = "none"
      BY DEF Init, NoTunnel
    <3> SUFFICES ASSUME NEW p \in Owners, NEW j \in Slots
                 PROVE  <<p, j>> \in H <=> p = Shell /\ j = 1
      OBVIOUS
    <3>2. <<p, j>> \in H <=> \/ p = Shell /\ j = app.channel
                             \/ p = <<"sftp", app.opened>> /\ j = app.sftpChannel
                             \/ p \in Tunnels /\ tun[p].st = "tracked" /\ tun[p].channel = j
      BY Pairing
    <3>3. j # 0
      BY Numbering
    <3> HIDE DEF H
    <3> QED BY <3>1, <3>2, <3>3
  <2>4. events = <<>> /\ net = <<>> /\ Len(events) = 0 /\ Len(net) = 0
    BY EmptySeq DEF Init
  <2>5. Shell \notin Private /\ Private \subseteq Owners /\ Shell \notin Displays /\ Displays \subseteq Owners
    BY Owning
  <2>6. L \in Pairs /\ H \in Pairs
    BY Pairing
  <2>7. Cared(World.chan, H, hist.removed)
    <3>1. \A o \in Conns : o \in Owners /\ o # Shell
      BY Owning
    <3> QED BY <3>1, <2>1, Pairing DEF Cared
  <2>8. Unused(app, tun, World.sv)
    <3>1. \A o \in Conns \cup Browsers : o \in Owners /\ o # Shell
      BY Owning DEF Private
    <3>2. \A o \in Conns \cup Browsers : World.sv[o].slot = 0
      BY <3>1, <2>2 DEF PlacesIn
    <3>3. \A b \in 1..MaxSftp : <<"sftp", b>> \in Browsers
      BY DEF Browsers
    <3> QED BY <3>2, <3>3 DEF Unused
  <2> HIDE DEF L, H, at, st
  <2>9. Engine(L, at, st)
    BY <2>1, <2>2, <2>5, <1>1 DEF Engine
  <2>10. Sound(L, at, st, net) /\ Ordered(L, at, events)
    BY <2>4 DEF Sound, Ordered
  <2>11. Routed(L, H, at, events)
    BY <2>1, <2>2, <2>3, <2>4, <2>5 DEF Routed
  <2>12. app.channel = 1 /\ app.sftpChannel = 0
    BY DEF Init
  <2> QED BY <2>7, <2>8, <2>9, <2>10, <2>11, <2>12 DEF Ownership, Owned, Agreed, L, H, at, st
<1> QED
  BY <1>5, <1>6, <1>7 DEF IInv

-----------------------------------------------------------------------------
(* The user and the programs *)

LEMMA IdleFacts ==
    ASSUME IInv, Idle
    PROVE  /\ Types /\ Ownership /\ app.state = "active" /\ phase = "recv" /\ todo = {}
           /\ events = <<>> /\ Len(events) = 0
BY EmptySeq DEF IInv, Idle, Active, Phases

\* The loop's place stays right when it does not move, and no tunnel leaves its list.
LEMMA PhasesStay ==
    ASSUME Phases, phase' = phase, todo' = todo, events' = events, todo \subseteq Tracked'
    PROVE  Phases'
BY DEF Phases

LEMMA Spent ==
    ASSUME left \in Load,
           NEW what \in {"adds", "removes", "conns", "x11", "sftp", "asks", "bad"},
           Has(what), Spend(what)
    PROVE  /\ left' \in Load /\ left'.slots = left.slots /\ left'.down = left.down
           /\ left'.sftp \in Nat /\ left'.sftp <= left.sftp /\ left.sftp \in Nat
           /\ what = "sftp" => left'.sftp = left.sftp - 1
<1>1. left[what] \in Nat /\ left[what] - 1 \in Nat
  BY DEF Load, Has
<1>2. left' \in Load
  BY <1>1 DEF Load, Spend
<1>3. left'.slots = left.slots /\ left'.down = left.down
  BY DEF Load, Spend
<1>4. left'.sftp = IF what = "sftp" THEN left.sftp - 1 ELSE left.sftp
  BY DEF Load, Spend
<1>5. left.sftp \in Nat /\ left'.sftp \in Nat
  BY <1>2 DEF Load
<1> QED
  BY <1>2, <1>3, <1>4, <1>5

\* The session object and the engine did r, which keeps every id.
LEMMA Served ==
    ASSUME Types, Ownership, NEW r, AppBecomes(r), Steady(r.app, app), Alike(r.w, World),
           hist'.removed = hist.removed, tun' = tun, events' = events, net' = net
    PROVE  app' \in AnApp /\ World' \in Worlds /\ app'.opened = app.opened /\ Ownership'
<1>1. app' = r.app /\ World' = r.w /\ World' \in Worlds
  BY Worldly DEF AppBecomes, Alike
<1>2. Ownership'
  BY <1>1, OwnedSteady DEF Ownership, Types
<1> QED
  BY <1>1, <1>2 DEF Steady

\* Only the programs, and what is left of the workload, changed.
LEMMA LocalKeeps ==
    ASSUME IInv, Local, peer' \in [Tunnels -> APeer], left' \in Load,
           left'.slots = left.slots, left'.down = left.down, left'.sftp <= left.sftp
    PROVE  IInv'
<1>1. World' = World /\ Active' = Active /\ Tracked' = Tracked
  BY DEF Local, World, Active, Tracked
<1>2. Ownership' = Ownership
  BY <1>1 DEF Local, Ownership
<1>3. app.opened + left'.sftp <= MaxSftp
  <2>1. app.opened \in Nat /\ left.sftp \in Nat /\ left'.sftp \in Nat
    BY DEF IInv, Types, AnApp, Load
  <2> QED BY <2>1, Limits DEF IInv, Types
<1>4. Types'
  BY <1>1, <1>3 DEF IInv, Types, Local
<1>5. Phases'
  BY <1>1 DEF IInv, Phases, Local
<1> QED
  BY <1>1, <1>2, <1>4, <1>5 DEF IInv

LEMMA ProgramsKeep ==
    ASSUME IInv, Programs
    PROVE  IInv'
<1>1. PICK k \in Tunnels : Connect(k) \/ PeerSends(k) \/ PeerShuts(k) \/ PeerGoes(k)
  BY DEF Programs
<1>2. left \in Load /\ left.sftp \in Nat /\ peer \in [Tunnels -> APeer] /\ peer[k] \in APeer
  BY DEF IInv, Types, Load
<1>3. \A s \in {"open", "shut", "gone"} : [peer[k] EXCEPT !.st = s] \in APeer
  BY <1>2 DEF APeer
<1>4. CASE Connect(k)
  <2>1. peer' = [peer EXCEPT ![k] = [peer[k] EXCEPT !.st = "open"]]
    BY <1>4 DEF Connect
  <2>2. Local /\ Has("conns") /\ Spend("conns")
    BY <1>4 DEF Connect
  <2> QED BY <1>2, <1>3, <2>1, <2>2, Spent, LocalKeeps
<1>5. CASE PeerSends(k)
  <2> DEFINE p == [peer[k] EXCEPT !.sent = peer[k].sent + 1,
                                  !.unread = Append(peer[k].unread, Byte(k, peer[k].sent + 1))]
  <2>1. peer[k].sent + 1 \in Nat /\ peer[k].unread \in Seq(Units)
    BY <1>2 DEF APeer
  <2>2. Byte(k, peer[k].sent + 1) \in Units
    BY <2>1, Owning DEF Byte, Units
  <2>3. p \in APeer
    <3>1. Append(peer[k].unread, Byte(k, peer[k].sent + 1)) \in Seq(Units)
      BY <2>1, <2>2, Queues
    <3> QED BY <1>2, <2>1, <3>1 DEF APeer
  <2>4. peer' = [peer EXCEPT ![k] = p]
    BY <1>2, <1>5 DEF PeerSends
  <2>5. Local /\ left' = left
    BY <1>5 DEF PeerSends
  <2> HIDE DEF p
  <2> QED BY <1>2, <2>3, <2>4, <2>5, LocalKeeps
<1>6. CASE PeerShuts(k)
  <2>1. peer' = [peer EXCEPT ![k] = [peer[k] EXCEPT !.st = "shut"]]
    BY <1>6 DEF PeerShuts
  <2>2. Local /\ left' = left
    BY <1>6 DEF PeerShuts
  <2> QED BY <1>2, <1>3, <2>1, <2>2, LocalKeeps
<1>7. CASE PeerGoes(k)
  <2>1. peer' = [peer EXCEPT ![k] = [peer[k] EXCEPT !.st = "gone"]]
    BY <1>7 DEF PeerGoes
  <2>2. Local /\ Has("bad") /\ Spend("bad")
    BY <1>7 DEF PeerGoes
  <2> QED BY <1>2, <1>3, <2>1, <2>2, Spent, LocalKeeps
<1> QED
  BY <1>1, <1>4, <1>5, <1>6, <1>7

\* The user made the session object do r.
LEMMA UserKeeps ==
    ASSUME IInv, Idle, NEW r, AppBecomes(r), Steady(r.app, app), Alike(r.w, World),
           hist' \in AHistory, hist'.removed = hist.removed, Elsewhere, tun' = tun, left' \in Load,
           left'.slots = left.slots, left'.down = left.down, left'.sftp <= left.sftp
    PROVE  IInv'
<1>1. Types /\ Ownership /\ events' = events /\ net' = net /\ phase' = phase /\ todo' = todo /\ peer' = peer
  BY IdleFacts DEF Elsewhere
<1>2. app' \in AnApp /\ World' \in Worlds /\ app'.opened = app.opened /\ Ownership'
  BY <1>1, Served
<1>3. app'.opened + left'.sftp <= MaxSftp
  <2>1. app.opened \in Nat /\ left.sftp \in Nat /\ left'.sftp \in Nat
    BY <1>1 DEF Types, AnApp, Load
  <2> QED BY <1>1, <1>2, <2>1, Limits DEF Types
<1>4. Types'
  BY <1>1, <1>2, <1>3 DEF Types
<1>5. Tracked' = Tracked
  BY DEF Tracked
<1>6. Phases'
  BY <1>1, <1>5, PhasesStay DEF IInv, Phases
<1> QED
  BY <1>2, <1>4, <1>6 DEF IInv

LEMMA SendBytesKeeps ==
    ASSUME IInv, SendBytes
    PROVE  IInv'
<1> DEFINE u == Byte(Shell, hist.typed + 1)
           a == [app EXCEPT !.pendingIn = Append(app.pendingIn, u)]
           r == flushPending(a, World)
<1>1. Types /\ Idle /\ Elsewhere /\ tun' = tun /\ left' = left
  BY IdleFacts DEF SendBytes
<1>2. hist \in AHistory /\ hist.typed + 1 \in Nat
  BY <1>1 DEF Types, AHistory
<1>3. u \in Units
  BY <1>2, Owning DEF Byte, Units
<1> HIDE DEF u
<1>4. a \in AnApp /\ Steady(a, app)
  <2>1. app \in AnApp /\ app.pendingIn \in Seq(Units)
    BY <1>1 DEF Types, AnApp
  <2>2. Append(app.pendingIn, u) \in Seq(Units)
    BY <1>3, <2>1, Queues
  <2> QED BY <2>1, <2>2 DEF AnApp, Steady
<1>5. AppBecomes(r)
  BY DEF SendBytes, u
<1> HIDE DEF a
<1>6. Steady(r.app, app) /\ Alike(r.w, World)
  BY <1>1, <1>4, SteadyPending, SteadyChain DEF Types
<1>7. hist' = [hist EXCEPT !.typed = hist.typed + 1]
  BY DEF SendBytes
<1>8. hist' \in AHistory /\ hist'.removed = hist.removed
  BY <1>2, <1>7 DEF AHistory
<1> HIDE DEF r
<1>9. left \in Load /\ left.sftp \in Nat
  BY <1>1 DEF Types, Load
<1> QED
  BY <1>1, <1>5, <1>6, <1>8, <1>9, UserKeeps

LEMMA browserClosedKeeps ==
    ASSUME IInv, browserClosed
    PROVE  IInv'
<1> DEFINE a == [app EXCEPT !.browser = 0]
           r == closeSFTPChannel(a, World)
<1>1. Types /\ Idle /\ Elsewhere /\ tun' = tun /\ left' = left /\ hist' = hist
  BY IdleFacts DEF browserClosed
<1>2. a \in AnApp /\ Steady(a, app)
  BY <1>1 DEF Types, AnApp, Steady
<1>3. AppBecomes(r)
  BY DEF browserClosed
<1> HIDE DEF a
<1>4. Steady(r.app, app) /\ Alike(r.w, World)
  BY <1>1, <1>2, SteadyClose, SteadyChain DEF Types
<1> HIDE DEF r
<1>5. left \in Load /\ left.sftp \in Nat /\ hist \in AHistory
  BY <1>1 DEF Types, Load
<1> QED
  BY <1>1, <1>3, <1>4, <1>5, UserKeeps

LEMMA AskedTyped ==
    ASSUME hist \in AHistory, NEW b \in Browsers, Asked(b)
    PROVE  hist' \in AHistory /\ hist'.removed = hist.removed
<1>1. hist.asked \in [Browsers -> Nat] /\ hist.asked[b] + 1 \in Nat
  BY DEF AHistory
<1>2. hist' = [hist EXCEPT !.asked = [hist.asked EXCEPT ![b] = hist.asked[b] + 1]]
  BY DEF Asked, AHistory
<1>3. [hist.asked EXCEPT ![b] = hist.asked[b] + 1] \in [Browsers -> Nat]
  BY <1>1
<1> QED
  BY <1>2, <1>3 DEF AHistory

LEMMA SftpJobKeeps ==
    ASSUME IInv, SftpJob
    PROVE  IInv'
<1> DEFINE b == <<"sftp", app.browser>>
           a == Asks(app, b)
           r == flushSFTP(a, World)
<1>1. Types /\ Idle /\ Elsewhere /\ tun' = tun /\ left' = left
  BY IdleFacts DEF SftpJob
<1>2. b \in Browsers /\ Asked(b) /\ AppBecomes(r)
  BY DEF SftpJob, MayAsk
<1>3. hist \in AHistory /\ app \in AnApp /\ World \in Worlds
  BY <1>1 DEF Types
<1> HIDE DEF b
<1>4. Steady(a, app) /\ a \in AnApp
  BY <1>2, <1>3, SteadyAsks DEF Steady
<1> HIDE DEF a
<1>5. Steady(r.app, app) /\ Alike(r.w, World)
  BY <1>3, <1>4, SteadySftp, SteadyChain
<1> HIDE DEF r
<1>6. left \in Load /\ left.sftp \in Nat
  BY <1>1 DEF Types, Load
<1>7. hist' \in AHistory /\ hist'.removed = hist.removed
  BY <1>2, <1>3, AskedTyped
<1> QED
  BY <1>1, <1>2, <1>5, <1>6, <1>7, UserKeeps

LEMMA addForwardKeeps ==
    ASSUME IInv, addForward
    PROVE  IInv'
<1> DEFINE r == [app |-> app', w |-> World]
<1>1. Types /\ Idle /\ Elsewhere /\ tun' = tun /\ hist' = hist
  BY IdleFacts DEF addForward
<1>2. Steady(app', app)
  BY <1>1 DEF addForward, Types, AnApp, Steady
<1>3. AppBecomes(r) /\ Alike(World, World)
  BY <1>1, AlikeChain DEF addForward, AppBecomes, Becomes, World, Types
<1>4. /\ left' \in Load /\ left'.slots = left.slots /\ left'.down = left.down
      /\ left'.sftp <= left.sftp /\ hist \in AHistory
  BY <1>1, Spent DEF addForward, Types
<1> QED
  BY <1>1, <1>2, <1>3, <1>4, UserKeeps

LEMMA UntrackedTyped ==
    ASSUME NEW t \in ATunnel
    PROVE  Untracked(t) \in ATunnel /\ Untracked(t).st = "gone" /\ Untracked(t).channel = 0
BY Numbering DEF Untracked, ATunnel

\* Of an ended session only its types are left to keep.
LEMMA EndKeeps ==
    ASSUME Types, endWithMessage, hist' \in AHistory, left' \in Load, app.opened + left'.sftp <= MaxSftp,
           left'.slots = left.slots, left'.down = left.down
    PROVE  IInv'
<1>1. app' \in AnApp /\ app'.state = "ended" /\ app'.opened = app.opened
  <2>1. <<>> \in Seq(Units) /\ app \in AnApp
    BY EmptySeq DEF Types
  <2>2. app' = Ended(app)
    BY DEF endWithMessage
  <2>3. app' = [app EXCEPT !.state = "ended", !.channel = 0, !.sftpChannel = 0, !.sftpCore = FALSE,
                           !.sftpOut = <<>>, !.listening = FALSE]
    BY <2>2 DEF Ended
  <2>4. 0 \in 0..MaxSlots /\ 0 \in 0..1
    BY Numbering
  <2>5. app' \in AnApp
    <3> DEFINE q == <<>>
    <3>1. q \in Seq(Units)
      BY <2>1
    <3>2. app' = [app EXCEPT !.state = "ended", !.channel = 0, !.sftpChannel = 0, !.sftpCore = FALSE,
                           !.sftpOut = q, !.listening = FALSE]
      BY <2>3
    <3> HIDE DEF q
    <3> QED BY <2>1, <2>4, <3>1, <3>2 DEF AnApp
  <2> QED BY <2>1, <2>3, <2>5 DEF AnApp
<1>2. tun' \in [Tunnels -> ATunnel]
  BY UntrackedTyped DEF endWithMessage, Types
<1>3. World' = World
  BY DEF endWithMessage, World
<1>4. events' = <<>> /\ net' = <<>> /\ todo' = {} /\ phase' = "recv" /\ peer' = peer
  BY DEF endWithMessage
<1>5. events' \in Seq(Occurrences) /\ net' \in Seq(Messages)
  BY <1>4, EmptySeq
<1>6. Types'
  BY <1>1, <1>2, <1>3, <1>4, <1>5 DEF Types
<1>7. Phases'
  BY <1>4 DEF Phases
<1> QED
  BY <1>1, <1>6, <1>7 DEF IInv, Active

LEMMA EndsKeeps ==
    ASSUME IInv, Ends
    PROVE  IInv'
<1>1. Types /\ left \in Load /\ endWithMessage /\ hist' = hist /\ Has("bad") /\ Spend("bad")
  BY DEF IInv, Ends, Types
<1>2. /\ left' \in Load /\ left'.slots = left.slots /\ left'.down = left.down
      /\ left'.sftp \in Nat /\ left'.sftp <= left.sftp /\ left.sftp \in Nat
  BY <1>1, Spent
<1>3. app.opened + left'.sftp <= MaxSftp
  <2>1. app.opened \in Nat
    BY <1>1 DEF Types, AnApp
  <2> QED BY <1>1, <1>2, <2>1, Limits DEF Types
<1> QED
  BY <1>1, <1>2, <1>3, EndKeeps DEF Types

LEMMA GroundsHold ==
    ASSUME Types
    PROVE  Grounds(EngagedIn(World.chan), Held(app, tun), PlacesIn(World.sv), StandingsIn(World.sv),
                   net, events)
<1>1. World.sv \in [Owners -> AServed]
  BY DEF Types, Worlds
<1> QED
  BY <1>1, Pairing DEF Grounds, Types

LEMMA removeForwardKeeps ==
    ASSUME IInv, removeForward
    PROVE  IInv'
<1> DEFINE goes(k) == k \in Conns /\ (k \in Tracked \/ k \in Waiting)
           H == Held(app, tun)
           J == Held(app', tun')
<1>1. /\ Types /\ Ownership /\ todo = {} /\ events' = events /\ net' = net /\ phase' = phase
      /\ todo' = todo /\ peer' = peer /\ World' = World
  BY IdleFacts DEF removeForward, Elsewhere, World
<1>2. app' \in AnApp /\ Steady(app', app)
  BY <1>1 DEF removeForward, Types, AnApp, Steady
<1>3. tun' = [k \in Tunnels |-> IF goes(k) THEN Untracked(tun[k]) ELSE tun[k]]
  BY DEF removeForward
<1>4. hist' = [hist EXCEPT !.removed = hist.removed \cup (Tracked \cap Conns)]
  BY DEF removeForward
<1>5. hist' \in AHistory /\ hist'.removed = hist.removed \cup (Tracked \cap Conns)
  <2>1. hist \in AHistory /\ Tracked \subseteq Tunnels
    BY <1>1 DEF Types, Tracked
  <2> QED BY <1>4, <2>1 DEF AHistory
<1>6. /\ left' \in Load /\ left'.slots = left.slots /\ left'.down = left.down
      /\ left'.sftp \in Nat /\ left'.sftp <= left.sftp /\ left.sftp \in Nat
  BY <1>1, Spent DEF removeForward, Types
<1>7. Types'
  <2>1. tun' \in [Tunnels -> ATunnel]
    BY <1>1, <1>3, UntrackedTyped DEF Types
  <2>2. app'.opened + left'.sftp <= MaxSftp
    <3>1. app.opened \in Nat /\ app'.opened = app.opened
      BY <1>1, <1>2 DEF Types, AnApp, Steady
    <3> QED BY <1>1, <1>6, <3>1, Limits DEF Types
  <2> QED BY <1>1, <1>2, <1>5, <1>6, <2>1, <2>2 DEF Types
<1>8. Phases'
  BY <1>1, PhasesStay DEF IInv
<1>9. \A k \in Tunnels : /\ goes(k) => tun'[k].st = "gone"
                         /\ ~goes(k) => tun'[k] = tun[k]
  BY <1>1, <1>3, UntrackedTyped DEF Types
<1>10. \A o \in Owners, i \in Slots : <<o, i>> \in J <=> <<o, i>> \in H /\ ~goes(o)
  <2> SUFFICES ASSUME NEW o \in Owners, NEW i \in Slots
               PROVE  <<o, i>> \in J <=> <<o, i>> \in H /\ ~goes(o)
    OBVIOUS
  <2>1. app'.channel = app.channel /\ app'.sftpChannel = app.sftpChannel /\ app'.opened = app.opened
    BY <1>2 DEF Steady
  <2>2. <<o, i>> \in H <=> \/ o = Shell /\ i = app.channel
                           \/ o = <<"sftp", app.opened>> /\ i = app.sftpChannel
                           \/ o \in Tunnels /\ tun[o].st = "tracked" /\ tun[o].channel = i
    BY Pairing
  <2>6. <<o, i>> \in J <=> \/ o = Shell /\ i = app.channel
                           \/ o = <<"sftp", app.opened>> /\ i = app.sftpChannel
                           \/ o \in Tunnels /\ tun'[o].st = "tracked" /\ tun'[o].channel = i
    BY <2>1, Pairing
  <2>3. Shell \notin Conns /\ <<"sftp", app.opened>> \notin Conns
    BY DEF Conns, Shell
  <2>4. goes(o) => o \in Tunnels /\ tun[o].st \in {"tracked", "none"}
    BY Owning DEF Tracked, Waiting
  <2> HIDE DEF H, J, goes
  <2>5. goes(o) => o \in Conns
    BY DEF goes
  <2> QED BY <1>9, <2>2, <2>3, <2>4, <2>5, <2>6
<1>11. Ownership'
  <2>1. Agreed(EngagedIn(World.chan), J, PlacesIn(World.sv), StandingsIn(World.sv), net, events)
    <3>1. \A o \in Owners : goes(o) => o \notin Private
      BY Owning
    <3> HIDE DEF goes
    <3>2. \A o \in Owners, i \in Slots : /\ <<o, i>> \in J => <<o, i>> \in H
                                         /\ <<o, i>> \in H /\ o \in Private => <<o, i>> \in J
      BY <3>1, <1>10
    <3> HIDE DEF J
    <3> QED BY <3>2, <1>1, GroundsHold, Forgets DEF Ownership, Owned
  <2>2. Cared(World.chan, J, hist'.removed)
    <3> SUFFICES ASSUME NEW o \in Conns, NEW i \in Slots, World.chan[i].st # "FREE", World.chan[i].own = o
                 PROVE  <<o, i>> \in J \/ World.chan[i].close \/ o \in hist'.removed
      BY DEF Cared
    <3>1. <<o, i>> \in H \/ World.chan[i].close \/ o \in hist.removed
      BY <1>1 DEF Ownership, Owned, Cared
    <3>2. o \in Owners /\ o # Shell /\ o # <<"sftp", app.opened>>
      BY Owning DEF Conns
    <3>3. <<o, i>> \in H /\ goes(o) => o \in Tracked
      BY <3>2, Pairing DEF Tracked
    <3> HIDE DEF H, J
    <3> QED BY <3>1, <3>2, <3>3, <1>5, <1>10
  <2>3. Unused(app', tun', World.sv)
    <3>1. Unused(app, tun, World.sv) /\ app'.opened = app.opened
      BY <1>1, <1>2 DEF Ownership, Owned, Steady
    <3>2. \A k \in Conns : tun'[k].st = "none" => tun[k].st = "none"
      BY <1>9, Owning
    <3> QED BY <3>1, <3>2 DEF Unused
  <2>4. app'.channel = 1 /\ (app'.sftpChannel # 0 => app'.opened > 0)
    BY <1>1, <1>2 DEF Ownership, Owned, Steady
  <2> QED BY <1>1, <2>1, <2>2, <2>3, <2>4 DEF Ownership, Owned
<1> QED
  BY <1>7, <1>8, <1>11 DEF IInv

-----------------------------------------------------------------------------
(* Channels the application opens *)

LEMMA OwnedOpens ==
    ASSUME NEW a, NEW b, NEW t, NEW u, NEW w \in Worlds, NEW n \in Seq(Messages),
           NEW e \in Seq(Occurrences), NEW R, NEW o \in Owners, NEW i \in Slots, NEW v,
           Owned(a, t, w, n, e, R), Len(e) = 0, w.chan[i].st = "FREE", o \notin Displays,
           w.sv[o].slot = 0, v = OpenChannel(w, i, o), Unused(b, u, v.sv),
           b.channel = 1, b.sftpChannel # 0 => b.opened > 0,
           \A p \in Owners, j \in Slots :
              <<p, j>> \in Held(b, u) <=> <<p, j>> \in Held(a, t) \/ (p = o /\ j = i)
    PROVE  v \in Worlds /\ Owned(b, u, v, n, e, R)
<1> DEFINE L == EngagedIn(w.chan)
           M == EngagedIn(v.chan)
           H == Held(a, t)
           J == Held(b, u)
           at == PlacesIn(w.sv)
           bt == PlacesIn(v.sv)
           st == StandingsIn(w.sv)
           tt == StandingsIn(v.sv)
<1>1. /\ v \in Worlds /\ Placed(M, L, bt, at, tt, st, o, i, "asked")
      /\ \A j \in Slots \ {i} : v.chan[j] = w.chan[j]
      /\ v.chan[i].own = o
  BY OpenPlaced
<1>2. M \in Pairs /\ J \in Pairs /\ Grounds(L, H, at, st, n, e)
  <2>1. w.sv \in [Owners -> AServed]
    BY DEF Worlds
  <2> QED BY <2>1, Pairing DEF Grounds
<1>3. at[o] = 0 /\ \A p \in Owners : <<p, i>> \notin L
  BY Pairing DEF PlacesIn
<1>4. Agreed(L, H, at, st, n, e)
  BY DEF Owned
<1>5. Cared(v.chan, J, R)
  <2>1. Cared(w.chan, H, R)
    BY DEF Owned
  <2>2. \A p \in Conns : p \in Owners
    BY Owning
  <2> SUFFICES ASSUME NEW p \in Conns, NEW j \in Slots, v.chan[j].st # "FREE", v.chan[j].own = p
               PROVE  <<p, j>> \in J \/ v.chan[j].close \/ p \in R
    BY DEF Cared
  <2>3. CASE j = i
    BY <2>2, <2>3, <1>1
  <2>4. CASE j # i
    <3>1. <<p, j>> \in H \/ w.chan[j].close \/ p \in R
      BY <2>1, <2>4, <1>1 DEF Cared
    <3> QED BY <3>1, <2>2, <2>4, <1>1
  <2> QED BY <2>3, <2>4
<1>6. \A p \in Owners, j \in Slots : <<p, j>> \in J <=> <<p, j>> \in H \/ (p = o /\ j = i)
  OBVIOUS
<1> HIDE DEF L, M, H, J, at, bt, st, tt
<1>7. Agreed(M, J, bt, tt, n, e)
  BY <1>1, <1>2, <1>3, <1>4, <1>6, Opens
<1> QED
  BY <1>1, <1>5, <1>7 DEF Owned, M, J, bt, tt

LEMMA openFileBrowserKeeps ==
    ASSUME IInv, openFileBrowser
    PROVE  IInv'
<1> DEFINE n == app.opened + 1
           i == find_free_chan
           o == <<"sftp", n>>
           v == IF i = 0 THEN World ELSE OpenChannel(World, i, o)
<1>1. /\ Types /\ Ownership /\ todo = {} /\ events' = events /\ net' = net /\ phase' = phase
      /\ todo' = todo /\ peer' = peer /\ tun' = tun /\ hist' = hist /\ Len(events) = 0
      /\ app.sftpChannel = 0
  BY IdleFacts DEF openFileBrowser, Elsewhere
<1>2. /\ left' \in Load /\ left'.slots = left.slots /\ left'.down = left.down
      /\ left'.sftp \in Nat /\ left'.sftp = left.sftp - 1 /\ left.sftp \in Nat
  BY <1>1, Spent DEF openFileBrowser, Types
<1>3. app.opened \in Nat /\ n \in 1..MaxSftp /\ n > app.opened /\ n + left'.sftp <= MaxSftp
  <2>1. app.opened \in Nat /\ app.opened + left.sftp <= MaxSftp
    BY <1>1 DEF Types, AnApp
  <2> QED BY <1>2, <2>1, Limits
<1>4. o \in Browsers /\ o \in Owners /\ o \notin Displays /\ o \notin Conns /\ o # Shell
  BY <1>3, Owning DEF Browsers, Displays, Conns, Shell
<1>5. i \in 0..MaxSlots /\ (i # 0 => i \in Slots /\ World.chan[i].st = "FREE")
  BY <1>1, FreeFound DEF World
<1>6. app' = [app EXCEPT !.browser = n, !.opened = n, !.sftpChannel = i]
  BY DEF openFileBrowser, AppBecomes
<1>7. Becomes(v)
  BY DEF openFileBrowser, AppBecomes
<1> HIDE DEF i, n
<1>8. /\ app' \in AnApp /\ app'.state = app.state /\ app'.opened = n /\ app'.sftpChannel = i
      /\ app'.channel = app.channel
  <2>1. app \in AnApp /\ n \in Nat /\ n \in 0..MaxSftp
    BY <1>1, <1>3, Limits DEF Types
  <2> QED BY <2>1, <1>5, <1>6 DEF AnApp
<1>9. World.sv[o].slot = 0
  BY <1>1, <1>3 DEF Ownership, Owned, Unused
<1>10. app'.channel = 1 /\ app'.opened > 0
  BY <1>1, <1>3, <1>8 DEF Ownership, Owned
<1>11. \A p \in Owners, j \in Slots :
          <<p, j>> \in Held(app', tun') <=> <<p, j>> \in Held(app, tun) \/ (p = o /\ j = i)
  <2> SUFFICES ASSUME NEW p \in Owners, NEW j \in Slots
               PROVE  <<p, j>> \in Held(app', tun') <=> <<p, j>> \in Held(app, tun) \/ (p = o /\ j = i)
    OBVIOUS
  <2>1. <<p, j>> \in Held(app, tun) <=> Holds(app, tun, p, j)
    BY HeldBy
  <2>2. <<p, j>> \in Held(app', tun') <=> Holds(app', tun, p, j)
    BY <1>1, HeldBy
  <2>3. j # 0
    BY Numbering
  <2> QED BY <2>1, <2>2, <2>3, <1>1, <1>8 DEF Holds
<1>12. World' \in Worlds /\ Ownership'
  <2>1. CASE i = 0
    <3>1. World' = World
      BY <1>1, <1>7, <2>1, Worldly DEF Types
    <3>2. Held(app', tun') = Held(app, tun)
      <4>1. Held(app', tun') \in Pairs /\ Held(app, tun) \in Pairs
        BY Pairing
      <4>2. \A p \in Owners, j \in Slots : <<p, j>> \in Held(app', tun') <=> <<p, j>> \in Held(app, tun)
        BY <1>11, <2>1, Numbering
      <4> QED BY <4>1, <4>2 DEF Pairs
    <3>3. Unused(app', tun', World.sv)
      BY <1>1, <1>3, <1>8 DEF Ownership, Owned, Unused
    <3> QED BY <1>1, <1>8, <1>10, <3>1, <3>2, <3>3 DEF Ownership, Owned, Types
  <2>2. CASE i # 0
    <3>1. i \in Slots /\ v = OpenChannel(World, i, o) /\ World \in Worlds
      BY <1>1, <1>5, <2>2 DEF Types
    <3>2. v \in Worlds /\ \A p \in Owners \ {o} : v.sv[p] = World.sv[p]
      BY <1>4, <1>5, <3>1, OpenPlaced
    <3>3. World' = v
      BY <1>7, <3>2, Worldly
    <3>4. Unused(app', tun', v.sv)
      <4>1. Unused(app, tun, World.sv)
        BY <1>1 DEF Ownership, Owned
      <4>2. \A k \in Conns : k \in Owners /\ k # o
        BY <1>4, Owning
      <4>3. \A b \in 1..MaxSftp : b > n => <<"sftp", b>> \in Owners /\ <<"sftp", b>> # o /\ b > app.opened
        BY <1>3, Owning DEF Browsers, n
      <4> HIDE DEF v, o
      <4> QED BY <1>1, <1>8, <3>2, <4>1, <4>2, <4>3 DEF Unused
    <3> HIDE DEF v, o
    <3>5. /\ Owned(app, tun, World, net, events, hist.removed)
          /\ net \in Seq(Messages) /\ events \in Seq(Occurrences)
      BY <1>1 DEF Ownership, Types
    <3>6. World.chan[i].st = "FREE"
      BY <1>5, <2>2
    <3>7. Owned(app', tun', v, net, events, hist.removed)
      BY <1>1, <1>4, <1>9, <1>10, <1>11, <3>1, <3>4, <3>5, <3>6, OwnedOpens
    <3> QED BY <1>1, <3>2, <3>3, <3>7 DEF Ownership
  <2> QED BY <2>1, <2>2
<1>13. Types'
  BY <1>1, <1>2, <1>3, <1>8, <1>12 DEF Types
<1>14. Phases'
  BY <1>1, PhasesStay DEF IInv
<1> QED
  BY <1>12, <1>13, <1>14 DEF IInv

LEMMA PumpBeginsKeeps ==
    ASSUME IInv, PumpBegins
    PROVE  IInv'
<1> DEFINE p == flushPending(app, World)
           s == flushSFTP(p.app, p.w)
           k == CHOOSE first \in Waiting : \A other \in Waiting : first[2] <= other[2]
           i == find_free_chan
           new == [NoTunnel EXCEPT !.st = "tracked", !.channel = i, !.fd = TRUE, !.localOpen = TRUE]
<1>1. /\ Types /\ Ownership /\ events' = events /\ net' = net /\ peer' = peer /\ hist' = hist
      /\ left' = left /\ Active /\ events = <<>> /\ Len(events) = 0
  BY EmptySeq DEF PumpBegins, IInv
<1>2. app \in AnApp /\ World \in Worlds
  BY <1>1 DEF Types
<1>3. Steady(s.app, app) /\ Alike(s.w, World) /\ s = [app |-> s.app, w |-> s.w]
  <2>1. Steady(p.app, app) /\ Alike(p.w, World) /\ p.app \in AnApp /\ p.w \in Worlds
    BY <1>2, SteadyPending DEF Steady, Alike
  <2> HIDE DEF p
  <2>2. Steady(s.app, p.app) /\ Alike(s.w, p.w)
    BY <2>1, SteadySftp
  <2>3. s = [app |-> s.app, w |-> s.w]
    BY DEF flushSFTP
  <2> HIDE DEF s
  <2> QED BY <2>1, <2>2, <2>3, SteadyChain, AlikeChain
<1>4. s.app \in AnApp /\ s.w \in Worlds
  BY <1>3 DEF Steady, Alike
<1>5. Owned(s.app, tun, s.w, net, events, hist.removed)
  <2>1. Owned(app, tun, World, net, events, hist.removed)
    BY <1>1 DEF Ownership
  <2> HIDE DEF s
  <2> QED BY <2>1, <1>2, <1>3, OwnedSteady
<1>6. \/ /\ app.listening /\ Waiting # {}
         /\ AppBecomes(IF i = 0 THEN s ELSE [s EXCEPT !.w = OpenChannel(s.w, i, k)])
         /\ tun' = [tun EXCEPT ![k] = IF i = 0 THEN Untracked(tun[k]) ELSE new]
         /\ todo' = Tracked \cup (IF i = 0 THEN {} ELSE {k})
      \/ AppBecomes(s) /\ todo' = Tracked /\ tun' = tun
  BY DEF PumpBegins
<1> HIDE DEF s
\* The ids and the types, in each of the cases.
<1> DEFINE Fine == /\ app' \in AnApp /\ app'.state = app.state /\ app'.opened = app.opened
                   /\ World' \in Worlds /\ tun' \in [Tunnels -> ATunnel] /\ Ownership'
                   /\ todo' \subseteq Tracked'
<1>7. ASSUME AppBecomes(s), todo' = Tracked, tun' = tun
      PROVE  Fine
  <2>1. app' \in AnApp /\ World' \in Worlds /\ app'.opened = app.opened /\ Ownership'
    BY <1>1, <1>3, <1>7, Served
  <2>2. app'.state = app.state
    BY <1>3, <1>7 DEF AppBecomes, Steady
  <2>3. Tracked' = Tracked
    BY <1>7 DEF Tracked
  <2> QED BY <1>1, <1>7, <2>1, <2>2, <2>3 DEF Types
<1>8. ASSUME Waiting # {},
             AppBecomes(IF i = 0 THEN s ELSE [s EXCEPT !.w = OpenChannel(s.w, i, k)]),
             tun' = [tun EXCEPT ![k] = IF i = 0 THEN Untracked(tun[k]) ELSE new],
             todo' = Tracked \cup (IF i = 0 THEN {} ELSE {k})
      PROVE  Fine
  <2>1. k \in Waiting
    BY <1>8, FirstWaiting
  <2>2. i \in 0..MaxSlots /\ (i # 0 => i \in Slots /\ World.chan[i].st = "FREE")
    BY <1>1, FreeFound DEF World
  <2> HIDE DEF k, i
  <2>3. /\ k \in Conns /\ k \in Tunnels /\ k \in Owners /\ k \notin Displays /\ k \notin Browsers
        /\ k # Shell /\ tun[k].st = "none" /\ tun[k] \in ATunnel
    BY <1>1, <2>1, Owning DEF Waiting, Private, Types
  <2>4. app' = s.app /\ app'.channel = 1 /\ (app'.sftpChannel # 0 => app'.opened > 0)
    BY <1>3, <1>5, <1>8 DEF AppBecomes, Owned
  <2>5. Becomes(IF i = 0 THEN s.w ELSE OpenChannel(s.w, i, k))
    BY <1>3, <1>8 DEF AppBecomes
  <2>6. app'.state = app.state /\ app'.opened = app.opened
    BY <1>3, <2>4 DEF Steady
  <2>7. Unused(s.app, tun, s.w.sv)
    BY <1>5 DEF Owned
  <2>8. CASE i = 0
    <3>1. World' = s.w
      BY <1>4, <2>5, <2>8, Worldly
    <3>2. tun' \in [Tunnels -> ATunnel] /\ \A j \in Tunnels : tun'[j] = IF j = k THEN Untracked(tun[k]) ELSE tun[j]
      BY <1>1, <1>8, <2>3, <2>8, UntrackedTyped DEF Types
    <3>3. tun'[k].st = "gone"
      BY <2>3, <3>2, UntrackedTyped
    <3>4. Held(app', tun') = Held(s.app, tun)
      <4>1. Held(app', tun') \in Pairs /\ Held(s.app, tun) \in Pairs
        BY Pairing
      <4>2. \A o \in Owners, j \in Slots : Holds(app', tun', o, j) <=> Holds(s.app, tun, o, j)
        BY <2>3, <2>4, <3>2, <3>3 DEF Holds
      <4>3. \A o \in Owners, j \in Slots : <<o, j>> \in Held(app', tun') <=> <<o, j>> \in Held(s.app, tun)
        BY <4>2, HeldBy
      <4> QED BY <4>1, <4>3 DEF Pairs
    <3>5. Unused(app', tun', s.w.sv)
      <4>1. \A j \in Conns : tun'[j].st = "none" => tun[j].st = "none"
        BY <3>2, <3>3, Owning
      <4> QED BY <2>4, <2>7, <4>1 DEF Unused
    <3>6. Ownership'
      BY <1>1, <1>5, <2>4, <3>1, <3>4, <3>5 DEF Ownership, Owned
    <3>7. todo' \subseteq Tracked'
      BY <1>8, <2>3, <2>8, <3>2 DEF Tracked
    <3> QED BY <1>4, <2>4, <2>6, <3>1, <3>2, <3>6, <3>7
  <2>9. CASE i # 0
    <3> DEFINE v == OpenChannel(s.w, i, k)
    <3>1. i \in Slots /\ s.w.chan[i].st = "FREE"
      BY <1>3, <2>2, <2>9 DEF Alike
    <3>2. v \in Worlds /\ \A o \in Owners \ {k} : v.sv[o] = s.w.sv[o]
      BY <1>4, <2>3, <3>1, OpenPlaced
    <3>3. World' = v
      BY <2>5, <2>9, <3>2, Worldly
    <3>4. new \in ATunnel /\ new.st = "tracked" /\ new.channel = i
      BY <2>2, EmptyRecords DEF ATunnel
    <3> HIDE DEF new
    <3>5. tun' \in [Tunnels -> ATunnel] /\ \A j \in Tunnels : tun'[j] = IF j = k THEN new ELSE tun[j]
      BY <1>1, <1>8, <2>3, <2>9, <3>4 DEF Types
    <3>6. \A o \in Owners, j \in Slots :
             <<o, j>> \in Held(app', tun') <=> <<o, j>> \in Held(s.app, tun) \/ (o = k /\ j = i)
      <4> SUFFICES ASSUME NEW o \in Owners, NEW j \in Slots
                   PROVE  <<o, j>> \in Held(app', tun') <=> <<o, j>> \in Held(s.app, tun) \/ (o = k /\ j = i)
        OBVIOUS
      <4>1. k # <<"sftp", s.app.opened>>
        BY <2>3 DEF Conns
      <4>2. Holds(app', tun', o, j) <=> Holds(s.app, tun, o, j) \/ (o = k /\ j = i)
        BY <2>3, <2>4, <3>4, <3>5, <4>1 DEF Holds
      <4> QED BY <4>2, HeldBy
    <3>7. Unused(app', tun', v.sv)
      <4>1. \A j \in Conns : tun'[j].st = "none" => j # k /\ tun[j].st = "none" /\ j \in Owners
        BY <3>4, <3>5, Owning
      <4>2. \A b \in 1..MaxSftp : <<"sftp", b>> \in Owners /\ <<"sftp", b>> # k
        BY <2>3, Owning DEF Browsers
      <4> HIDE DEF v
      <4> QED BY <2>4, <2>7, <3>2, <4>1, <4>2 DEF Unused
    <3>8. s.w.sv[k].slot = 0
      BY <2>3, <2>7 DEF Unused
    <3>9. net \in Seq(Messages) /\ events \in Seq(Occurrences) /\ Len(events) = 0
      BY <1>1 DEF Types
    <3>10. v = OpenChannel(s.w, i, k)
      OBVIOUS
    <3> HIDE DEF v
    <3>11. Owned(app', tun', v, net, events, hist.removed)
      <4>1. s.w \in Worlds /\ k \in Owners /\ k \notin Displays
        BY <1>4, <2>3
      <4>2. app'.channel = 1 /\ (app'.sftpChannel # 0 => app'.opened > 0)
        BY <2>4
      <4> HIDE DEF Fine
      <4>3. ASSUME NEW a, NEW w, a = s.app, w = s.w
            PROVE  Owned(app', tun', v, net, events, hist.removed)
        <5>1. \A o \in Owners, j \in Slots :
                 <<o, j>> \in Held(app', tun') <=> <<o, j>> \in Held(a, tun) \/ (o = k /\ j = i)
          BY <3>6, <4>3
        <5>2. Owned(a, tun, w, net, events, hist.removed) /\ w \in Worlds /\ k \in Owners /\ k \notin Displays
          BY <1>5, <4>1, <4>3
        <5>3. w.sv[k].slot = 0 /\ w.chan[i].st = "FREE" /\ v = OpenChannel(w, i, k) /\ i \in Slots
          BY <3>1, <3>8, <3>10, <4>3
        <5> HIDE <4>3
        <5> QED BY <3>7, <3>9, <4>2, <5>1, <5>2, <5>3, OwnedOpens
      <4> QED BY <4>3
    <3>12. Ownership'
      BY <1>1, <3>3, <3>11 DEF Ownership
    <3>13. todo' \subseteq Tracked'
      BY <1>8, <2>3, <2>9, <3>4, <3>5 DEF Tracked
    <3> QED BY <1>4, <2>4, <2>6, <3>2, <3>3, <3>5, <3>12, <3>13
  <2> QED BY <2>8, <2>9
<1>9. Fine
  <2> HIDE DEF Fine
  <2> QED BY <1>6, <1>7, <1>8
<1>10. Types'
  BY <1>1, <1>9 DEF Types
<1>11. Phases'
  BY <1>1, <1>9 DEF Phases, PumpBegins
<1> QED
  BY <1>9, <1>10, <1>11 DEF IInv

-----------------------------------------------------------------------------
(* The turn of one tunnel *)

Turns == [t : ATunnel, p : APeer, w : Worlds, bad : 0..1]
\* x became y: the tunnel is in its list, with its channel, and no channel is lost.
Turned(y, x) ==
    /\ y \in Turns
    /\ y.t.st = x.t.st /\ y.t.channel = x.t.channel
    /\ Alike(y.w, x.w)
    /\ y.bad = x.bad \/ (y.bad = 1 /\ Has("bad"))

LEMMA TurnChain ==
    /\ \A x \in Turns : Turned(x, x)
    /\ \A x, y, z : Turned(z, y) /\ Turned(y, x) => Turned(z, x)
    /\ \A x \in Turns : x.t \in ATunnel /\ x.p \in APeer /\ x.w \in Worlds
<1>1. \A x \in Turns : x.t \in ATunnel /\ x.p \in APeer /\ x.w \in Worlds
  BY DEF Turns
<1>2. \A x \in Turns : Turned(x, x)
  BY <1>1, AlikeChain DEF Turned
<1>3. \A x, y, z : Turned(z, y) /\ Turned(y, x) => Turned(z, x)
  BY AlikeChain DEF Turned
<1> QED
  BY <1>1, <1>2, <1>3

LEMMA ConnectsTurn ==
    ASSUME NEW x \in Turns, NEW y \in Connects(x)
    PROVE  Turned(y, x)
<1> DEFINE a == [x EXCEPT !.t.connecting = FALSE, !.t.localOpen = TRUE, !.p.st = "open"]
           b == [x EXCEPT !.bad = 1, !.t.connecting = FALSE, !.t.localClosed = TRUE,
                          !.t.remoteClosed = TRUE]
           at == [x.t EXCEPT !.connecting = FALSE, !.localOpen = TRUE]
           ap == [x.p EXCEPT !.st = "open"]
           bt == [x.t EXCEPT !.connecting = FALSE, !.localClosed = TRUE, !.remoteClosed = TRUE]
<1>1. x.t \in ATunnel /\ x.p \in APeer /\ x.w \in Worlds
  BY TurnChain
<1>2. at \in ATunnel /\ at.st = x.t.st /\ at.channel = x.t.channel
  BY <1>1 DEF ATunnel
<1>3. ap \in APeer
  BY <1>1 DEF APeer
<1>4. bt \in ATunnel /\ bt.st = x.t.st /\ bt.channel = x.t.channel
  BY <1>1 DEF ATunnel
<1>5. a = [x EXCEPT !.t = at, !.p = ap]
  BY DEF Turns
<1>6. b = [x EXCEPT !.bad = 1, !.t = bt]
  BY DEF Turns
<1>7. y = x \/ y = a \/ (Has("bad") /\ y = b)
  BY DEF Connects
<1> HIDE DEF at, ap, bt, a, b
<1>8. Turned(a, x)
  <2>1. a \in Turns /\ a.t = at /\ a.w = x.w /\ a.bad = x.bad
    BY <1>2, <1>3, <1>5 DEF Turns
  <2> QED BY <2>1, <1>1, <1>2, AlikeChain DEF Turned
<1>9. Has("bad") => Turned(b, x)
  <2>1. b \in Turns /\ b.t = bt /\ b.w = x.w /\ b.bad = 1
    <3>1. 1 \in 0..1
      OBVIOUS
    <3>2. x = [t |-> x.t, p |-> x.p, w |-> x.w, bad |-> x.bad]
      BY DEF Turns
    <3>3. b = [t |-> bt, p |-> x.p, w |-> x.w, bad |-> 1]
      BY <1>6, <3>2
    <3> QED BY <1>1, <1>4, <3>1, <3>3 DEF Turns
  <2> QED BY <2>1, <1>1, <1>4, AlikeChain DEF Turned
<1> QED
  BY <1>7, <1>8, <1>9, TurnChain

LEMMA SendsTurn ==
    ASSUME NEW x \in Turns, NEW y \in Sends(x)
    PROVE  Turned(y, x)
<1> DEFINE out == x.t.outToLocal
           took(n) == [x EXCEPT !.t.outToLocal = SubSeq(out, n + 1, Len(out)),
                                !.p.got = IF x.p.st = "gone" THEN x.p.got ELSE x.p.got \o SubSeq(out, 1, n)]
           broken == [x EXCEPT !.t.localClosed = TRUE, !.t.remoteClosed = TRUE]
           bt == [x.t EXCEPT !.localClosed = TRUE, !.remoteClosed = TRUE]
<1>1. x.t \in ATunnel /\ x.p \in APeer /\ x.w \in Worlds
  BY TurnChain
<1>2. out \in Seq(Bytes) /\ x.p.got \in Seq(Bytes) /\ Len(out) \in Nat
  BY <1>1, LenProperties DEF ATunnel, APeer
<1>3. y = x \/ y = broken \/ \E n \in 0..Len(out) : y = took(n)
  BY DEF Sends
<1>4. Turned(broken, x)
  <2>1. bt \in ATunnel /\ bt.st = x.t.st /\ bt.channel = x.t.channel
    BY <1>1 DEF ATunnel
  <2>2. broken = [x EXCEPT !.t = bt]
    BY DEF Turns
  <2> HIDE DEF bt, broken
  <2>3. broken \in Turns /\ broken.t = bt /\ broken.w = x.w /\ broken.bad = x.bad
    BY <2>1, <2>2 DEF Turns
  <2> QED BY <2>1, <2>3, <1>1, AlikeChain DEF Turned
<1>5. ASSUME NEW n \in 0..Len(out) PROVE Turned(took(n), x)
  <2> DEFINE rest == SubSeq(out, n + 1, Len(out))
             more == IF x.p.st = "gone" THEN x.p.got ELSE x.p.got \o SubSeq(out, 1, n)
             nt == [x.t EXCEPT !.outToLocal = rest]
             np == [x.p EXCEPT !.got = more]
             z == took(n)
  <2>1. n \in Nat /\ n <= Len(out)
    BY <1>2
  <2>2. rest \in Seq(Bytes) /\ SubSeq(out, 1, n) \in Seq(Bytes)
    BY <1>2, <2>1, Parts
  <2>3. x.p.got \o SubSeq(out, 1, n) \in Seq(Bytes)
    BY <1>2, <2>2, ConcatProperties
  <2>4. more \in Seq(Bytes)
    BY <1>2, <2>3
  <2>5. z = [x EXCEPT !.t = nt, !.p = np]
    <3> HIDE DEF more, rest, out
    <3>1. z = [x EXCEPT !.t.outToLocal = rest, !.p.got = more]
      BY DEF more, rest, out
    <3> HIDE DEF z
    <3> QED BY <3>1 DEF Turns
  <2> HIDE DEF rest, more, out
  <2>6. nt \in ATunnel /\ nt.st = x.t.st /\ nt.channel = x.t.channel
    BY <1>1, <2>2 DEF ATunnel
  <2>7. np \in APeer
    BY <1>1, <2>4 DEF APeer
  <2> HIDE DEF nt, np, z
  <2>8. z \in Turns /\ z.t = nt /\ z.w = x.w /\ z.bad = x.bad
    BY <2>5, <2>6, <2>7 DEF Turns
  <2>9. Turned(z, x)
    BY <2>6, <2>8, <1>1, AlikeChain DEF Turned
  <2> QED BY <2>9 DEF z
<1> HIDE DEF took, broken
<1> QED
  BY <1>3, <1>4, <1>5, TurnChain

LEMMA Remade ==
    ASSUME NEW x \in Turns, NEW t \in ATunnel, NEW p \in APeer, NEW w,
           t.st = x.t.st, t.channel = x.t.channel, Alike(w, x.w)
    PROVE  Turned([t |-> t, p |-> p, w |-> w, bad |-> x.bad], x)
<1>1. w \in Worlds /\ x.bad \in 0..1
  BY DEF Alike, Turns
<1> QED
  BY <1>1 DEF Turned, Turns

LEMMA TurnParts ==
    ASSUME NEW x \in Turns
    PROVE  /\ \A t : [x EXCEPT !.t = t] = [t |-> t, p |-> x.p, w |-> x.w, bad |-> x.bad]
           /\ \A t, w : [x EXCEPT !.t = t, !.w = w] = [t |-> t, p |-> x.p, w |-> w, bad |-> x.bad]
           /\ \A p, w : [x EXCEPT !.p = p, !.w = w] = [t |-> x.t, p |-> p, w |-> w, bad |-> x.bad]
<1>1. x = [t |-> x.t, p |-> x.p, w |-> x.w, bad |-> x.bad]
  BY DEF Turns
<1>2. \A t : [x EXCEPT !.t = t] = [t |-> t, p |-> x.p, w |-> x.w, bad |-> x.bad]
  BY <1>1
<1>3. ASSUME NEW m, NEW n
      PROVE  [x EXCEPT !.t = m, !.w = n] = [t |-> m, p |-> x.p, w |-> n, bad |-> x.bad]
  <2>1. [x EXCEPT !.t = m] = [t |-> m, p |-> x.p, w |-> x.w, bad |-> x.bad]
    BY <1>2
  <2>2. [[t |-> m, p |-> x.p, w |-> x.w, bad |-> x.bad] EXCEPT !.w = n] =
           [t |-> m, p |-> x.p, w |-> n, bad |-> x.bad]
    OBVIOUS
  <2>3. [x EXCEPT !.t = m, !.w = n] = [[x EXCEPT !.t = m] EXCEPT !.w = n]
    OBVIOUS
  <2> QED BY <2>1, <2>2, <2>3
<1>4. ASSUME NEW m, NEW n
      PROVE  [x EXCEPT !.p = m, !.w = n] = [t |-> x.t, p |-> m, w |-> n, bad |-> x.bad]
  <2>1. [x EXCEPT !.p = m] = [t |-> x.t, p |-> m, w |-> x.w, bad |-> x.bad]
    BY <1>1
  <2>2. [[t |-> x.t, p |-> m, w |-> x.w, bad |-> x.bad] EXCEPT !.w = n] =
           [t |-> x.t, p |-> m, w |-> n, bad |-> x.bad]
    OBVIOUS
  <2>3. [x EXCEPT !.p = m, !.w = n] = [[x EXCEPT !.p = m] EXCEPT !.w = n]
    OBVIOUS
  <2> QED BY <2>1, <2>2, <2>3
<1> QED
  BY <1>2, <1>3, <1>4

LEMMA ReceivesTurn ==
    ASSUME NEW x \in Turns, NEW k \in Tunnels, NEW y \in Receives(x, k)
    PROVE  Turned(y, x)
<1> DEFINE i == x.t.channel
           lt == [x.t EXCEPT !.localClosed = TRUE]
           ct == [lt EXCEPT !.closeRequested = k \in Displays]
           n == Min({Len(x.p.unread), Backlog})
           buf == SubSeq(x.p.unread, 1, n)
           rest == SubSeq(x.p.unread, n + 1, Len(x.p.unread))
           over == x.p.lost \cup ToSet(SubSeq(buf, Room(x.w, i, buf) + 1, n))
           rp == [x.p EXCEPT !.unread = rest, !.lost = over]
           closed == [x EXCEPT !.t.localClosed = TRUE]
           reads == [x EXCEPT !.p.unread = rest, !.w = ssh_channel_write(x.w, i, buf), !.p.lost = over]
           ends == [closed EXCEPT !.w = ssh_channel_eof(x.w, i)]
           fails == [closed EXCEPT !.w = ssh_channel_close(x.w, i), !.t.closeRequested = k \in Displays]
<1>1. x.t \in ATunnel /\ x.p \in APeer /\ x.w \in Worlds /\ x = [t |-> x.t, p |-> x.p, w |-> x.w, bad |-> x.bad]
  BY TurnChain DEF Turns
<1>2. i \in 0..MaxSlots /\ x.p.unread \in Seq(Units) /\ x.p.lost \subseteq Units
  BY <1>1 DEF ATunnel, APeer
<1>15. buf \in Seq(Units) /\ rest \in Seq(Units) /\ over \subseteq Units
  <2>1. Len(x.p.unread) \in Nat
    BY <1>2, LenProperties
  <2>2. n \in Nat /\ n <= Len(x.p.unread)
    BY <2>1, Limits, Smaller
  <2> HIDE DEF n
  <2>3. buf \in Seq(Units) /\ Len(buf) = n /\ rest \in Seq(Units)
    BY <1>2, <2>2, Parts
  <2> HIDE DEF buf, rest, i
  <2>4. Room(x.w, i, buf) \in Nat /\ Room(x.w, i, buf) <= Len(buf)
    BY <1>1, <1>2, <2>3, RoomFits
  <2> DEFINE took == Room(x.w, i, buf)
             tail == SubSeq(buf, took + 1, n)
  <2> HIDE DEF took
  <2>5. tail \in Seq(Units)
    BY <2>3, <2>4, Parts DEF took
  <2> HIDE DEF tail
  <2>6. ToSet(tail) \subseteq Units
    BY <2>5, ElementOfSeq DEF ToSet
  <2> QED BY <1>2, <2>3, <2>6 DEF tail, took
<1>3. lt \in ATunnel /\ lt.st = x.t.st /\ lt.channel = x.t.channel
  BY <1>1 DEF ATunnel
<1>4. ct \in ATunnel /\ ct.st = x.t.st /\ ct.channel = x.t.channel
  <2>1. (k \in Displays) \in BOOLEAN
    OBVIOUS
  <2> HIDE DEF lt
  <2> QED BY <1>3, <2>1 DEF ATunnel
<1>5. rp \in APeer
  <2> HIDE DEF rest, over
  <2> QED BY <1>1, <1>15 DEF APeer
<1>6. closed = [t |-> lt, p |-> x.p, w |-> x.w, bad |-> x.bad]
  <2>1. closed = [x EXCEPT !.t = lt]
    BY DEF Turns
  <2> HIDE DEF closed, lt
  <2> QED BY <2>1, TurnParts
<1>7. reads = [t |-> x.t, p |-> rp, w |-> ssh_channel_write(x.w, i, buf), bad |-> x.bad]
  <2> DEFINE w == ssh_channel_write(x.w, i, buf)
  <2> HIDE DEF w, i, rest, over, buf
  <2>1. reads = [x EXCEPT !.p = rp, !.w = w]
    BY DEF Turns, w
  <2> HIDE DEF reads, rp
  <2>2. reads = [t |-> x.t, p |-> rp, w |-> w, bad |-> x.bad]
    BY <2>1, TurnParts
  <2> QED BY <2>2 DEF w
<1>8. ends = [t |-> lt, p |-> x.p, w |-> ssh_channel_eof(x.w, i), bad |-> x.bad]
  <2> HIDE DEF closed, lt, i
  <2> QED BY <1>6
<1>9. fails = [t |-> ct, p |-> x.p, w |-> ssh_channel_close(x.w, i), bad |-> x.bad]
  <2>1. closed = [t |-> lt, p |-> x.p, w |-> x.w, bad |-> x.bad]
    BY <1>6
  <2> DEFINE w == ssh_channel_close(x.w, i)
  <2> HIDE DEF closed, lt, i, w
  <2>2. fails = [closed EXCEPT !.w = w, !.t.closeRequested = k \in Displays]
    BY DEF w
  <2> HIDE DEF fails
  <2>3. fails = [t |-> ct, p |-> x.p, w |-> w, bad |-> x.bad]
    BY <2>1, <2>2
  <2> QED BY <2>3 DEF w
<1>10. y \in {x, closed, reads, ends, fails}
  BY DEF Receives
<1> HIDE DEF i, lt, ct, rp, closed, reads, ends, fails, buf, rest, over
<1>11. /\ Alike(ssh_channel_write(x.w, i, buf), x.w) /\ Alike(ssh_channel_eof(x.w, i), x.w)
       /\ Alike(ssh_channel_close(x.w, i), x.w) /\ Alike(x.w, x.w)
  BY <1>1, <1>2, <1>15, WriteAlike, EofAlike, CloseAlike, AlikeChain
<1>12. Turned(closed, x) /\ Turned(ends, x)
  BY <1>1, <1>3, <1>6, <1>8, <1>11, Remade
<1>13. Turned(reads, x)
  BY <1>1, <1>5, <1>7, <1>11, Remade
<1>14. Turned(fails, x)
  BY <1>1, <1>4, <1>9, <1>11, Remade
<1> QED
  BY <1>10, <1>12, <1>13, <1>14, TurnChain

LEMMA FinishX11Turn ==
    ASSUME NEW x \in Turns
    PROVE  Turned(FinishX11(x), x)
<1> DEFINE i == x.t.channel
           rt == [x.t EXCEPT !.closeRequested = TRUE]
           y == IF Over(x.t) /\ ~x.t.closeRequested
                THEN [x EXCEPT !.t.closeRequested = TRUE, !.w = ssh_channel_close(x.w, i)]
                ELSE x
           ft == [y.t EXCEPT !.fd = y.t.fd /\ ~y.t.closeRequested]
<1>1. x.t \in ATunnel /\ x.p \in APeer /\ x.w \in Worlds /\ x = [t |-> x.t, p |-> x.p, w |-> x.w, bad |-> x.bad]
  BY TurnChain DEF Turns
<1>2. i \in 0..MaxSlots
  BY <1>1 DEF ATunnel
<1>3. rt \in ATunnel /\ rt.st = x.t.st /\ rt.channel = x.t.channel
  BY <1>1 DEF ATunnel
<1>4. y = IF Over(x.t) /\ ~x.t.closeRequested
          THEN [t |-> rt, p |-> x.p, w |-> ssh_channel_close(x.w, i), bad |-> x.bad]
          ELSE x
  <2> DEFINE w == ssh_channel_close(x.w, i)
             z == [x EXCEPT !.t.closeRequested = TRUE, !.w = w]
  <2> HIDE DEF w
  <2>1. z = [x EXCEPT !.t = rt, !.w = w]
    BY DEF Turns
  <2>2. y = IF Over(x.t) /\ ~x.t.closeRequested THEN z ELSE x
    BY DEF w
  <2> HIDE DEF z, y, rt, i
  <2>3. z = [t |-> rt, p |-> x.p, w |-> w, bad |-> x.bad]
    BY <2>1, TurnParts
  <2> QED BY <2>2, <2>3 DEF w
<1> HIDE DEF i, rt
<1>5. Turned(y, x)
  <2> HIDE DEF y
  <2>1. Turned([t |-> rt, p |-> x.p, w |-> ssh_channel_close(x.w, i), bad |-> x.bad], x)
    BY <1>1, <1>2, <1>3, CloseAlike, Remade
  <2> QED BY <1>4, <2>1, TurnChain
<1>6. FinishX11(x) = [y EXCEPT !.t = ft]
  <2>1. FinishX11(x) = [y EXCEPT !.t.fd = y.t.fd /\ ~y.t.closeRequested]
    BY DEF FinishX11, i
  <2> HIDE DEF y
  <2>2. y \in Turns
    BY <1>5 DEF Turned
  <2> QED BY <2>1, <2>2 DEF Turns
<1> HIDE DEF y
<1>7. y.t \in ATunnel /\ y.p \in APeer /\ y.w \in Worlds /\ y = [t |-> y.t, p |-> y.p, w |-> y.w, bad |-> y.bad]
  BY <1>5, TurnChain DEF Turns, Turned
<1>8. ft \in ATunnel /\ ft.st = y.t.st /\ ft.channel = y.t.channel
  BY <1>7 DEF ATunnel
<1>9. FinishX11(x) = [t |-> ft, p |-> y.p, w |-> y.w, bad |-> y.bad]
  BY <1>6, <1>7
<1> HIDE DEF ft
<1>10. Turned(FinishX11(x), y)
  BY <1>5, <1>7, <1>8, <1>9, AlikeChain, Remade DEF Turned
<1> QED
  BY <1>5, <1>10, TurnChain

\* A forwarded connection that is over is forgotten, its channel is to be closed.
LEMMA FinishForwardTurn ==
    ASSUME NEW x \in Turns
    PROVE  \/ Turned(FinishForward(x), x)
           \/ /\ FinishForward(x) \in Turns
              /\ FinishForward(x).t.st = "gone"
              /\ Alike(FinishForward(x).w, x.w)
              /\ x.t.channel # 0 /\ x.w.chan[x.t.channel].st # "FREE" =>
                    FinishForward(x).w.chan[x.t.channel].close
              /\ FinishForward(x).bad = x.bad
<1> DEFINE v == ssh_channel_close(x.w, x.t.channel)
           y == [t |-> Untracked(x.t), p |-> x.p, w |-> v, bad |-> x.bad]
<1>1. x.t \in ATunnel /\ x.p \in APeer /\ x.w \in Worlds /\ x = [t |-> x.t, p |-> x.p, w |-> x.w, bad |-> x.bad]
  BY TurnChain DEF Turns
<1>2. x.t.channel \in 0..MaxSlots /\ x.bad \in 0..1
  BY <1>1 DEF ATunnel, Turns
<1>3. /\ Alike(v, x.w) /\ v \in Worlds
      /\ x.t.channel # 0 /\ x.w.chan[x.t.channel].st # "FREE" => v.chan[x.t.channel].close
  BY <1>1, <1>2, CloseAlike DEF Alike
<1>4. Untracked(x.t) \in ATunnel /\ Untracked(x.t).st = "gone"
  BY <1>1, UntrackedTyped
<1>5. FinishForward(x) = IF Over(x.t) THEN y ELSE x
  <2> DEFINE u == Untracked(x.t)
             z == [x EXCEPT !.t = u, !.w = v]
  <2>1. FinishForward(x) = IF Over(x.t) THEN z ELSE x
    BY DEF FinishForward
  <2>2. z = [x EXCEPT !.t = u, !.w = v]
    OBVIOUS
  <2> HIDE DEF u, v, z
  <2>3. z = [t |-> u, p |-> x.p, w |-> v, bad |-> x.bad]
    BY <2>2, TurnParts
  <2> QED BY <2>1, <2>3 DEF u
<1> HIDE DEF v
<1>6. y \in Turns /\ y.t.st = "gone" /\ y.w = v /\ y.bad = x.bad
  BY <1>1, <1>2, <1>3, <1>4 DEF Turns
<1> HIDE DEF y
<1> QED
  BY <1>3, <1>5, <1>6, TurnChain

\* A forwarded connection's tunnel is forgotten, its channel is to be closed.
LEMMA OwnedForgets ==
    ASSUME NEW k \in Conns, NEW u, NEW v, Types, Ownership, k \in Tracked, Alike(v, World),
           u \in [Tunnels -> ATunnel], u[k].st = "gone", \A j \in Tunnels \ {k} : u[j] = tun[j],
           tun[k].channel # 0 /\ World.chan[tun[k].channel].st # "FREE" => v.chan[tun[k].channel].close
    PROVE  Owned(app, u, v, net, events, hist.removed)
<1> DEFINE H == Held(app, tun)
           J == Held(app, u)
<1>1. World \in Worlds
  BY DEF Types
<1>2. /\ EngagedIn(v.chan) = EngagedIn(World.chan)
      /\ PlacesIn(v.sv) = PlacesIn(World.sv) /\ StandingsIn(v.sv) = StandingsIn(World.sv)
  BY <1>1, AlikeSame
<1>3. k \in Owners /\ k \in Tunnels /\ k \notin Private /\ k # Shell /\ k # <<"sftp", app.opened>>
      /\ tun[k].st = "tracked"
  BY Owning DEF Tracked, Conns
<1>4. \A o \in Owners, i \in Slots : /\ <<o, i>> \in J <=> <<o, i>> \in H /\ o # k
                                     /\ <<k, i>> \in H => i = tun[k].channel
  <2> SUFFICES ASSUME NEW o \in Owners, NEW i \in Slots
               PROVE  /\ <<o, i>> \in J <=> <<o, i>> \in H /\ o # k
                      /\ <<k, i>> \in H => i = tun[k].channel
    OBVIOUS
  <2>1. Holds(app, u, o, i) <=> Holds(app, tun, o, i) /\ o # k
    BY <1>3 DEF Holds
  <2>2. Holds(app, tun, k, i) => i = tun[k].channel
    BY <1>3 DEF Holds
  <2> QED BY <2>1, <2>2, <1>3, HeldBy
<1> HIDE DEF H, J
<1>5. Agreed(EngagedIn(v.chan), J, PlacesIn(v.sv), StandingsIn(v.sv), net, events)
  <2>1. /\ Agreed(EngagedIn(World.chan), H, PlacesIn(World.sv), StandingsIn(World.sv), net, events)
        /\ Grounds(EngagedIn(World.chan), H, PlacesIn(World.sv), StandingsIn(World.sv), net, events)
    BY GroundsHold DEF Ownership, Owned, H
  <2>2. \A o \in Owners, i \in Slots : /\ <<o, i>> \in J => <<o, i>> \in H
                                       /\ <<o, i>> \in H /\ o \in Private => <<o, i>> \in J
    BY <1>3, <1>4
  <2> QED BY <1>2, <2>1, <2>2, Forgets
<1>6. Cared(v.chan, J, hist.removed)
  <2> SUFFICES ASSUME NEW o \in Conns, NEW i \in Slots, v.chan[i].st # "FREE", v.chan[i].own = o
               PROVE  <<o, i>> \in J \/ v.chan[i].close \/ o \in hist.removed
    BY DEF Cared
  <2>1. /\ World.chan[i].st # "FREE" /\ World.chan[i].own = o
        /\ World.chan[i].close => v.chan[i].close
    BY DEF Alike
  <2>2. <<o, i>> \in H \/ World.chan[i].close \/ o \in hist.removed
    BY <2>1 DEF Ownership, Owned, Cared, H
  <2>3. o \in Owners /\ i # 0
    BY Owning, Numbering
  <2> QED BY <1>4, <2>1, <2>2, <2>3
<1>7. Unused(app, u, v.sv)
  <2>1. \A j \in Conns : j \in Owners /\ (u[j].st = "none" => tun[j].st = "none")
    BY <1>3, Owning
  <2>2. \A b \in 1..MaxSftp : <<"sftp", b>> \in Owners
    BY Owning DEF Browsers
  <2> QED BY <2>1, <2>2 DEF Ownership, Owned, Unused, Alike
<1> QED
  BY <1>5, <1>6, <1>7 DEF Ownership, Owned, J

LEMMA PumpKeeps ==
    ASSUME IInv, NEW k \in Tunnels, Pump(k)
    PROVE  IInv' /\ \E v : Alike(v, World) /\ Becomes(v)
<1> DEFINE x0 == [t |-> tun[k], p |-> peer[k], w |-> World, bad |-> 0]
<1>1. /\ Types /\ Ownership /\ Active /\ events' = events /\ net' = net /\ app' = app /\ hist' = hist
      /\ k \in todo /\ k \in Tracked
  BY DEF Pump, IInv, Phases
<1>2. x0 \in Turns /\ tun[k].st = "tracked"
  BY <1>1 DEF Types, Turns, Tracked
<1>3. PICK c \in Connects(x0) : \E s \in Sends(c) : \E r \in Receives(s, k) :
          LET x == IF k \in Conns THEN FinishForward(r) ELSE FinishX11(r)
          IN  /\ tun' = [tun EXCEPT ![k] = x.t]
              /\ peer' = [peer EXCEPT ![k] = x.p]
              /\ Becomes(x.w)
              /\ left' = [left EXCEPT !.bad = @ - x.bad]
  BY DEF Pump
<1>4. PICK s \in Sends(c) : \E r \in Receives(s, k) :
          LET x == IF k \in Conns THEN FinishForward(r) ELSE FinishX11(r)
          IN  /\ tun' = [tun EXCEPT ![k] = x.t]
              /\ peer' = [peer EXCEPT ![k] = x.p]
              /\ Becomes(x.w)
              /\ left' = [left EXCEPT !.bad = @ - x.bad]
  BY <1>3
<1>5. PICK r \in Receives(s, k) :
          LET x == IF k \in Conns THEN FinishForward(r) ELSE FinishX11(r)
          IN  /\ tun' = [tun EXCEPT ![k] = x.t]
              /\ peer' = [peer EXCEPT ![k] = x.p]
              /\ Becomes(x.w)
              /\ left' = [left EXCEPT !.bad = @ - x.bad]
  BY <1>4
<1> DEFINE x == IF k \in Conns THEN FinishForward(r) ELSE FinishX11(r)
<1>6. /\ tun' = [tun EXCEPT ![k] = x.t] /\ peer' = [peer EXCEPT ![k] = x.p]
      /\ Becomes(x.w) /\ left' = [left EXCEPT !.bad = left.bad - x.bad]
  BY <1>5
<1> HIDE DEF x0
<1>7. Turned(r, x0) /\ r \in Turns
  <2>1. Turned(c, x0) /\ c \in Turns
    BY <1>2, ConnectsTurn DEF Turned
  <2>2. Turned(s, c) /\ s \in Turns
    BY <2>1, SendsTurn DEF Turned
  <2>3. Turned(r, s)
    BY <2>2, ReceivesTurn
  <2> QED BY <2>1, <2>2, <2>3, TurnChain DEF Turned
<1>8. /\ x0.t = tun[k] /\ x0.w = World /\ x0.bad = 0
  BY DEF x0
<1>9. \/ Turned(x, x0)
      \/ /\ k \in Conns /\ x \in Turns /\ x.t.st = "gone" /\ Alike(x.w, World)
         /\ tun[k].channel # 0 /\ World.chan[tun[k].channel].st # "FREE" => x.w.chan[tun[k].channel].close
         /\ x.bad = 0 \/ Has("bad")
  <2>1. CASE k \in Conns
    <3>1. CASE Turned(FinishForward(r), r)
      BY <2>1, <3>1, <1>7, TurnChain
    <3>2. CASE /\ FinishForward(r) \in Turns
               /\ FinishForward(r).t.st = "gone"
               /\ Alike(FinishForward(r).w, r.w)
               /\ r.t.channel # 0 /\ r.w.chan[r.t.channel].st # "FREE" =>
                     FinishForward(r).w.chan[r.t.channel].close
               /\ FinishForward(r).bad = r.bad
      <4>1. x = FinishForward(r)
        BY <2>1
      <4> HIDE DEF x
      <4>2. r.t.channel = tun[k].channel /\ Alike(r.w, World) /\ (r.bad = 0 \/ Has("bad"))
        BY <1>7, <1>8 DEF Turned
      <4>3. Alike(x.w, World)
        BY <3>2, <4>1, <4>2, AlikeChain
      <4>4. tun[k].channel # 0 => tun[k].channel \in Slots
        BY <1>1, Numbering DEF Types, ATunnel
      <4>5. tun[k].channel # 0 /\ World.chan[tun[k].channel].st # "FREE" => r.w.chan[tun[k].channel].st # "FREE"
        BY <4>2, <4>4 DEF Alike
      <4> QED BY <2>1, <3>2, <4>1, <4>2, <4>3, <4>5
    <3> QED BY <3>1, <3>2, <1>7, FinishForwardTurn
  <2>2. CASE k \notin Conns
    BY <2>2, <1>7, FinishX11Turn, TurnChain
  <2> QED BY <2>1, <2>2
<1> HIDE DEF x
<1>10. x \in Turns /\ x.t \in ATunnel /\ x.p \in APeer /\ x.w \in Worlds /\ (x.bad = 0 \/ Has("bad"))
       /\ Alike(x.w, World) /\ x.bad \in 0..1
  <2>1. x \in Turns /\ (x.bad = 0 \/ Has("bad")) /\ Alike(x.w, World)
    BY <1>8, <1>9 DEF Turned
  <2> QED BY <2>1, TurnChain DEF Turns
<1>11. World' = x.w /\ World' \in Worlds
  BY <1>6, <1>10, Worldly
<1>12. tun' \in [Tunnels -> ATunnel] /\ tun'[k] = x.t /\ (\A j \in Tunnels \ {k} : tun'[j] = tun[j])
       /\ peer' \in [Tunnels -> APeer]
  BY <1>1, <1>6, <1>10 DEF Types
<1>13. left' \in Load /\ left'.slots = left.slots /\ left'.down = left.down /\ left'.sftp = left.sftp
  <2>1. left.bad - x.bad \in Nat
    <3>1. left["bad"] \in Nat
      BY <1>1 DEF Types, Load
    <3> QED BY <3>1, <1>10 DEF Has
  <2> QED BY <1>1, <1>6, <2>1 DEF Types, Load
<1>14. Ownership'
  <2>1. CASE Turned(x, x0)
    <3>1. \A j \in Tunnels : tun'[j].st = tun[j].st /\ tun'[j].channel = tun[j].channel
      BY <1>8, <1>12, <2>1 DEF Turned
    <3>2. Steady(app, app) /\ World \in Worlds /\ Owned(app, tun, World, net, events, hist.removed)
      BY <1>1, SteadyChain DEF Types, Ownership
    <3>3. Owned(app, tun', x.w, net, events, hist.removed)
      BY <1>10, <3>1, <3>2, OwnedSteady
    <3> QED BY <1>1, <1>11, <3>3 DEF Ownership
  <2>2. CASE /\ k \in Conns /\ x.t.st = "gone"
             /\ tun[k].channel # 0 /\ World.chan[tun[k].channel].st # "FREE" => x.w.chan[tun[k].channel].close
    <3>1. Owned(app, tun', x.w, net, events, hist.removed)
      BY <1>1, <1>10, <1>12, <2>2, OwnedForgets
    <3> QED BY <1>1, <1>11, <3>1 DEF Ownership
  <2> QED BY <1>9, <2>1, <2>2
<1>15. Types'
  BY <1>1, <1>11, <1>12, <1>13 DEF Types
<1>16. Phases'
  <2>1. todo' = todo \ {k} /\ phase' = (IF todo' = {} THEN "recv" ELSE "pump") /\ phase = "pump"
    BY DEF Pump
  <2>2. todo' \subseteq Tracked'
    BY <1>1, <1>12, <2>1 DEF IInv, Phases, Tracked
  <2> QED BY <1>1, <2>1, <2>2 DEF IInv, Phases
<1>17. \E v : Alike(v, World) /\ Becomes(v)
  BY <1>6, <1>10
<1> QED
  BY <1>14, <1>15, <1>16, <1>17 DEF IInv

-----------------------------------------------------------------------------
(* The server *)

\* The server did something about its ends of channels, and sent m.
LEMMA RemoteKeeps ==
    ASSUME IInv, Idle, Remote, NEW m \in Messages, net' = Append(net, m),
           sv' \in [Owners -> AServed], \A o \in Owners : sv'[o].slot = sv[o].slot,
           left' \in Load, left'.slots = left.slots, left'.down = left.down, left'.sftp = left.sftp,
           Agreed(EngagedIn(chan), Held(app, tun), PlacesIn(sv), StandingsIn(sv'), net', events)
    PROVE  IInv'
<1>1. Types /\ Ownership
  BY IdleFacts
<1>2. /\ app' = app /\ tun' = tun /\ chan' = chan /\ events' = events /\ phase' = phase
      /\ todo' = todo /\ peer' = peer /\ hist' = hist
  BY DEF Remote
<1>3. World' = [chan |-> chan, sv |-> sv'] /\ World = [chan |-> chan, sv |-> sv]
  BY <1>2 DEF World
<1>4. World' \in Worlds
  BY <1>1, <1>3 DEF Types, Worlds
<1>5. net' \in Seq(Messages)
  BY <1>1, Queues DEF Types
<1>6. Types'
  BY <1>1, <1>2, <1>4, <1>5 DEF Types
<1>7. Tracked' = Tracked
  BY <1>2 DEF Tracked
<1>8. Phases'
  BY <1>2, <1>7, PhasesStay DEF IInv, Phases
<1>9. Ownership'
  <2>1. PlacesIn(sv') = PlacesIn(sv)
    BY DEF PlacesIn
  <2>2. Unused(app, tun, sv')
    <3>1. Unused(app, tun, sv)
      BY <1>1, <1>3 DEF Ownership, Owned
    <3>2. (\A k \in Conns : k \in Owners) /\ \A b \in 1..MaxSftp : <<"sftp", b>> \in Owners
      BY Owning DEF Browsers
    <3> QED BY <3>1, <3>2 DEF Unused
  <2>3. Cared(chan, Held(app, tun), hist.removed) /\ app.channel = 1 /\ (app.sftpChannel # 0 => app.opened > 0)
    BY <1>1, <1>3 DEF Ownership, Owned
  <2>4. Owned(app, tun, [chan |-> chan, sv |-> sv'], net', events, hist.removed)
    BY <2>1, <2>2, <2>3 DEF Owned
  <2> QED BY <1>2, <1>3, <2>4 DEF Ownership
<1> QED
  BY <1>6, <1>8, <1>9 DEF IInv

\* It spoke on o's channel, which is now r to it.
LEMMA SaysKeeps ==
    ASSUME IInv, Idle, Remote, left' = left, NEW o \in Owners, NEW type \in MsgTypes, NEW n \in Nat,
           NEW r \in AServed, SvSends(o, type, n), sv' = [sv EXCEPT ![o] = r],
           type \notin {"X11_OPEN", "DISCONNECT"}, type # "WINDOW_ADJ" => n <= MaxBytes,
           sv[o].st \in {"asked", "open"}, r.slot = sv[o].slot, r.st # "none",
           r.st = "asked" => sv[o].st = "asked", type \in Parting => r.st \notin {"asked", "open"},
           type = "OPEN_FAIL" => sv[o].st = "asked"
    PROVE  IInv'
<1> DEFINE L == EngagedIn(chan)
           H == Held(app, tun)
           at == PlacesIn(sv)
           st == StandingsIn(sv)
           tt == StandingsIn(sv')
           m == Msg(type, sv[o].slot, o, n)
<1>1. Types /\ Ownership /\ left \in Load /\ net \in Seq(Messages)
  BY IdleFacts DEF Types
<1>2. World.chan = chan /\ World.sv = sv /\ sv \in [Owners -> AServed]
  BY <1>1 DEF World, Types, Worlds
<1>3. sv[o].slot \in 0..MaxSlots
  BY <1>2 DEF AServed
<1>4. m \in Messages /\ m.own = o /\ m.ch = at[o] /\ m.type = type
  BY <1>3 DEF Msg, Messages, PlacesIn
<1>5. net' = Append(net, m) /\ Extends(net', net, m)
  BY <1>1, <1>4, Queues DEF SvSends
<1>6. sv' \in [Owners -> AServed] /\ \A p \in Owners : sv'[p] = IF p = o THEN r ELSE sv[p]
  BY <1>2
<1>7. \A p \in Owners : sv'[p].slot = sv[p].slot
  BY <1>6
<1>8. st[o] = sv[o].st /\ tt[o] = r.st /\ \A p \in Owners \ {o} : tt[p] = st[p]
  BY <1>6 DEF StandingsIn
<1>9. Grounds(L, H, at, st, net, events) /\ Agreed(L, H, at, st, net, events)
  BY <1>1, <1>2, GroundsHold DEF Ownership, Owned
<1>10. sv[o].st = "asked" => o \notin Displays
  BY <1>8, <1>9 DEF Agreed, Engine
<1> HIDE DEF L, H, at, st, tt, m
<1>11. Agreed(L, H, at, tt, net', events)
  BY <1>4, <1>5, <1>8, <1>9, <1>10, Converses
<1> QED
  BY <1>1, <1>4, <1>5, <1>6, <1>7, <1>11, RemoteKeeps DEF L, H, at, tt

LEMMA ServerKeeps ==
    ASSUME IInv, NEW o \in Owners,
           \/ SvAnswersOpen(o) \/ SvData(o) \/ SvEof(o) \/ SvCloses(o) \/ SvReads(o) \/ SvReplies(o)
    PROVE  IInv'
<1>1. Types /\ left.down \in Nat /\ left.down <= MaxBytes
  BY DEF IInv, Types, Load
<1>2. sv \in [Owners -> AServed] /\ sv[o] \in AServed
  BY <1>1 DEF World, Types, Worlds
<1>3. 0 <= MaxBytes /\ 0 \in Nat
  BY Limits
<1>4. CASE SvAnswersOpen(o)
  <2>1. Idle /\ sv[o].st = "asked" /\ left' = left /\ Remote
    BY <1>4 DEF SvAnswersOpen
  <2>2. CASE SvSends(o, "OPEN_CONFIRM", 0) /\ sv' = [sv EXCEPT ![o].st = "open"]
    <3> DEFINE r == [sv[o] EXCEPT !.st = "open"]
    <3>1. r \in AServed /\ r.st = "open" /\ r.slot = sv[o].slot
      BY <1>2 DEF AServed, SvStates
    <3>2. sv' = [sv EXCEPT ![o] = r]
      BY <2>2
    <3> HIDE DEF r
    <3> QED BY <1>3, <2>1, <2>2, <3>1, <3>2, SaysKeeps DEF MsgTypes, Parting
  <2>3. CASE SvSends(o, "OPEN_FAIL", 0) /\ sv' = [sv EXCEPT ![o].st = "refused"]
    <3> DEFINE r == [sv[o] EXCEPT !.st = "refused"]
    <3>1. r \in AServed /\ r.st = "refused" /\ r.slot = sv[o].slot
      BY <1>2 DEF AServed, SvStates
    <3>2. sv' = [sv EXCEPT ![o] = r]
      BY <2>3
    <3> HIDE DEF r
    <3> QED BY <1>3, <2>1, <2>3, <3>1, <3>2, SaysKeeps DEF MsgTypes, Parting
  <2> QED BY <1>4, <2>2, <2>3 DEF SvAnswersOpen
<1>5. CASE SvData(o)
  <2>1. Idle /\ sv[o].st = "open" /\ left' = left /\ Remote /\ SvSends(o, "DATA", sv[o].sent + 1)
    BY <1>5 DEF SvData, SvOpen
  <2>2. sv[o].sent + 1 \in Nat /\ sv[o].sent + 1 <= MaxBytes
    <3>1. sv[o].sent \in Nat /\ sv[o].sent < left.down
      BY <1>2, <1>5, Limits DEF AServed, SvData
    <3> QED BY <1>1, <3>1, Limits
  <2> DEFINE r == [sv[o] EXCEPT !.sent = sv[o].sent + 1]
  <2>3. r \in AServed /\ r.st = "open" /\ r.slot = sv[o].slot
    <3>1. sv[o].sent + 1 \in 0..MaxBytes
      BY <2>2, Limits
    <3> QED BY <1>2, <2>1, <3>1 DEF AServed
  <2>4. sv' = [sv EXCEPT ![o] = r]
    BY <1>5 DEF SvData
  <2> HIDE DEF r
  <2> QED BY <2>1, <2>2, <2>3, <2>4, SaysKeeps DEF MsgTypes, Parting
<1>6. CASE SvEof(o)
  <2>1. Idle /\ sv[o].st = "open" /\ left' = left /\ Remote /\ SvSends(o, "EOF", 0)
    BY <1>6 DEF SvEof, SvOpen
  <2> DEFINE r == [sv[o] EXCEPT !.ended = TRUE]
  <2>2. r \in AServed /\ r.st = "open" /\ r.slot = sv[o].slot
    BY <1>2, <2>1 DEF AServed
  <2>3. sv' = [sv EXCEPT ![o] = r]
    BY <1>6 DEF SvEof
  <2> HIDE DEF r
  <2> QED BY <1>3, <2>1, <2>2, <2>3, SaysKeeps DEF MsgTypes, Parting
<1>7. CASE SvCloses(o)
  <2>1. Idle /\ sv[o].st = "open" /\ left' = left /\ Remote /\ SvSends(o, "CLOSE", 0)
    BY <1>7 DEF SvCloses, SvOpen
  <2> DEFINE r == [sv[o] EXCEPT !.st = "closed"]
  <2>2. r \in AServed /\ r.st = "closed" /\ r.slot = sv[o].slot
    BY <1>2, <2>1 DEF AServed, SvStates
  <2>3. sv' = [sv EXCEPT ![o] = r]
    BY <1>7 DEF SvCloses
  <2> HIDE DEF r
  <2> QED BY <1>3, <2>1, <2>2, <2>3, SaysKeeps DEF MsgTypes, Parting
<1>8. CASE SvReads(o)
  <2>1. Idle /\ sv[o].st = "open" /\ left' = left /\ Remote /\ SvSends(o, "WINDOW_ADJ", sv[o].owes)
    BY <1>8 DEF SvReads, SvOpen
  <2> DEFINE r == [sv[o] EXCEPT !.owes = 0]
  <2>2. r \in AServed /\ r.st = "open" /\ r.slot = sv[o].slot /\ sv[o].owes \in Nat
    BY <1>2, <1>3, <2>1 DEF AServed
  <2>3. sv' = [sv EXCEPT ![o] = r]
    BY <1>8 DEF SvReads
  <2> HIDE DEF r
  <2> QED BY <2>1, <2>2, <2>3, SaysKeeps DEF MsgTypes, Parting
<1>9. CASE SvReplies(o)
  <2>1. /\ Idle /\ sv[o].st = "open" /\ left' = left /\ Remote
        /\ SvSends(o, "SUCCESS", 0) \/ SvSends(o, "FAILURE", 0)
    BY <1>9 DEF SvReplies, SvOpen
  <2> DEFINE r == [sv[o] EXCEPT !.asked = sv[o].asked - 1]
  <2>2. r \in AServed /\ r.st = "open" /\ r.slot = sv[o].slot
    <3>1. sv[o].asked - 1 \in Nat
      <4>1. sv[o].asked \in Nat /\ sv[o].asked > 0
        BY <1>2, <1>9 DEF AServed, SvReplies
      <4> QED BY <4>1
    <3> QED BY <1>2, <2>1, <3>1 DEF AServed
  <2>3. sv' = [sv EXCEPT ![o] = r]
    BY <1>9 DEF SvReplies
  <2> HIDE DEF r
  <2>4. CASE SvSends(o, "SUCCESS", 0)
    BY <1>3, <2>1, <2>2, <2>3, <2>4, SaysKeeps DEF MsgTypes, Parting
  <2>5. CASE SvSends(o, "FAILURE", 0)
    BY <1>3, <2>1, <2>2, <2>3, <2>5, SaysKeeps DEF MsgTypes, Parting
  <2> QED BY <2>1, <2>4, <2>5
<1> QED
  BY <1>4, <1>5, <1>6, <1>7, <1>8, <1>9

LEMMA SvOpensX11Keeps ==
    ASSUME IInv, NEW o \in Owners, SvOpensX11(o)
    PROVE  IInv'
<1> DEFINE L == EngagedIn(chan)
           H == Held(app, tun)
           at == PlacesIn(sv)
           st == StandingsIn(sv)
           tt == StandingsIn(sv')
           m == Msg("X11_OPEN", 0, o, 0)
           r == [sv[o] EXCEPT !.st = "asked here"]
<1>1. Idle /\ o \in Displays /\ sv[o].st = "none" /\ Has("x11") /\ Spend("x11") /\ Remote
  BY DEF SvOpensX11
<1>2. Types /\ Ownership /\ left \in Load /\ net \in Seq(Messages)
  BY <1>1, IdleFacts DEF Types
<1>3. World.chan = chan /\ World.sv = sv /\ sv \in [Owners -> AServed] /\ sv[o] \in AServed
  BY <1>2 DEF World, Types, Worlds
<1>4. m \in Messages /\ m.own = o /\ m.type = "X11_OPEN"
  BY Numbering, Limits DEF Msg, Messages, MsgTypes
<1>5. net' = Append(net, m) /\ Extends(net', net, m)
  BY <1>2, <1>4, Queues DEF SvOpensX11
<1>6. r \in AServed /\ r.st = "asked here" /\ r.slot = sv[o].slot
  BY <1>3 DEF AServed, SvStates
<1>7. sv' = [sv EXCEPT ![o] = r]
  BY DEF SvOpensX11
<1> HIDE DEF r
<1>8. /\ sv' \in [Owners -> AServed] /\ \A p \in Owners : sv'[p] = IF p = o THEN r ELSE sv[p]
  BY <1>3, <1>6, <1>7
<1>9. \A p \in Owners : sv'[p].slot = sv[p].slot
  BY <1>6, <1>8
<1>10. st[o] = "none" /\ tt[o] = "asked here" /\ \A p \in Owners \ {o} : tt[p] = st[p]
  BY <1>1, <1>6, <1>8 DEF StandingsIn
<1>11. Grounds(L, H, at, st, net, events) /\ Agreed(L, H, at, st, net, events)
  BY <1>2, <1>3, GroundsHold DEF Ownership, Owned
<1>12. left' \in Load /\ left'.slots = left.slots /\ left'.down = left.down /\ left'.sftp = left.sftp
  <2>1. left["x11"] - 1 \in Nat
    BY <1>1, <1>2 DEF Has, Load
  <2> QED BY <1>1, <1>2, <2>1 DEF Spend, Load
<1> HIDE DEF L, H, at, st, tt, m
<1>13. Agreed(L, H, at, tt, net', events)
  BY <1>1, <1>4, <1>5, <1>10, <1>11, Begins
<1> QED
  BY <1>1, <1>4, <1>5, <1>8, <1>9, <1>12, <1>13, RemoteKeeps DEF L, H, at, tt

LEMMA SvDisconnectsKeeps ==
    ASSUME IInv, SvDisconnects
    PROVE  IInv'
<1> DEFINE L == EngagedIn(chan)
           H == Held(app, tun)
           at == PlacesIn(sv)
           st == StandingsIn(sv)
           tt == StandingsIn(sv')
           m == Msg("DISCONNECT", 0, Shell, 0)
<1>1. Idle /\ Remote /\ left' = left
  BY DEF SvDisconnects
<1>2. Types /\ Ownership /\ left \in Load /\ net \in Seq(Messages)
  BY <1>1, IdleFacts DEF Types
<1>3. World.chan = chan /\ World.sv = sv /\ sv \in [Owners -> AServed]
  BY <1>2 DEF World, Types, Worlds
<1>4. m \in Messages /\ m.own = Shell /\ m.type = "DISCONNECT"
  BY Owning, Numbering, Limits DEF Msg, Messages, MsgTypes
<1>5. net' = Append(net, m) /\ Extends(net', net, m)
  BY <1>2, <1>4, Queues DEF SvDisconnects
<1>6. sv' = [o \in Owners |-> [sv[o] EXCEPT !.accused = FALSE, !.st = "gone"]]
  BY DEF SvDisconnects
<1>7. ASSUME NEW o \in Owners
      PROVE  LET r == [sv[o] EXCEPT !.accused = FALSE, !.st = "gone"]
             IN  r \in AServed /\ r.slot = sv[o].slot /\ r.st = "gone"
  <2>1. sv[o] \in AServed
    BY <1>3
  <2> QED BY <2>1 DEF AServed, SvStates
<1>8. sv' \in [Owners -> AServed] /\ \A o \in Owners : sv'[o].slot = sv[o].slot /\ sv'[o].st = "gone"
  BY <1>6, <1>7
<1>9. \A o \in Owners : tt[o] = "gone"
  BY <1>8 DEF StandingsIn
<1>10. Grounds(L, H, at, st, net, events) /\ Agreed(L, H, at, st, net, events)
  BY <1>2, <1>3, GroundsHold DEF Ownership, Owned
<1> HIDE DEF L, H, at, st, tt, m
<1>11. Agreed(L, H, at, tt, net', events)
  BY <1>4, <1>5, <1>9, <1>10, Disconnects
<1> QED
  BY <1>1, <1>2, <1>4, <1>5, <1>8, <1>11, RemoteKeeps DEF L, H, at, tt

-----------------------------------------------------------------------------
(* The events *)

LEMMA HeadFacts ==
    ASSUME IInv, Active, events # <<>>, NEW e, e = Head(events)
    PROVE  /\ Types /\ Ownership /\ e = events[1] /\ e \in Occurrences /\ e.own \in Owners
           /\ Len(events) > 0 /\ Drops(Tail(events), events) /\ Tail(events) \in Seq(Occurrences)
           /\ Named(PlacesIn(sv), e)
           /\ \A o \in Owners, i \in Slots : <<o, i>> \in Held(app, tun) /\ i = e.ch => o = e.own
           /\ e.own \in Private => <<e.own, e.ch>> \in Held(app, tun) \/ e.type = "X11_OPEN"
           /\ e.type \in Final => \A i \in Slots : <<e.own, i>> \notin EngagedIn(chan)
           /\ \A o \in Owners, i \in Slots : <<o, i>> \in Held(app, tun) => PlacesIn(sv)[o] = i
<1> DEFINE L == EngagedIn(chan)
           H == Held(app, tun)
           at == PlacesIn(sv)
<1>1. Types /\ Ownership
  BY DEF IInv
<1>2. /\ e = events[1] /\ e \in Occurrences /\ Len(events) > 0 /\ Drops(Tail(events), events)
      /\ Tail(events) \in Seq(Occurrences) /\ events \in Seq(Occurrences)
  BY <1>1, Queues DEF Types
<1>3. L \in Pairs /\ H \in Pairs
  BY Pairing
<1>4. Ordered(L, at, events) /\ Routed(L, H, at, events)
  BY <1>1 DEF Ownership, Owned, Agreed, World
<1>5. e.type \in Final => \A i \in Slots : <<e.own, i>> \notin L
  <2>1. 1 \in 1..Len(events)
    BY <1>2, Queues
  <2> QED BY <1>2, <1>4, <2>1 DEF Ordered
<1>6. \A o \in Owners, i \in Slots : <<o, i>> \in H => at[o] = i
  BY <1>4 DEF Routed
<1> HIDE DEF L, H, at
<1>7. /\ Named(at, e) /\ e.own \in Owners
      /\ \A o \in Owners, i \in Slots : <<o, i>> \in H /\ i = e.ch => o = e.own
      /\ e.own \in Private => <<e.own, e.ch>> \in H \/ e.type = "X11_OPEN"
  BY <1>2, <1>3, <1>4, Heads
<1> QED
  BY <1>1, <1>2, <1>5, <1>6, <1>7 DEF L, H, at

\* The event was taken, and the ids held are what it says.
LEMMA TakenKeeps ==
    ASSUME IInv, Active, phase \in {"recv", "handle"}, events # <<>>, Taken, net' = net, todo' = todo,
           peer' \in [Tunnels -> APeer], hist' \in AHistory, hist'.removed = hist.removed,
           left' \in Load, left'.slots = left.slots, left'.down = left.down, left'.sftp = left.sftp,
           app' \in AnApp, app'.opened = app.opened, app'.channel = app.channel,
           app'.sftpChannel # 0 => app.sftpChannel # 0,
           tun' \in [Tunnels -> ATunnel], \A k \in Conns : tun'[k].st = "none" => tun[k].st = "none",
           Alike(World', World), Settles(Held(app', tun'), Held(app, tun), Head(events)),
           \A k \in Conns, i \in Slots : <<k, i>> \in Held(app, tun) /\ <<k, i>> \in EngagedIn(chan) =>
              <<k, i>> \in Held(app', tun')
    PROVE  IInv'
<1> DEFINE L == EngagedIn(World.chan)
           H == Held(app, tun)
           J == Held(app', tun')
           at == PlacesIn(World.sv)
           st == StandingsIn(World.sv)
           e == Head(events)
<1>1. /\ Types /\ Ownership /\ e = events[1] /\ Len(events) > 0 /\ Drops(Tail(events), events)
      /\ Tail(events) \in Seq(Occurrences)
  BY HeadFacts
<1>2. events' = Tail(events) /\ phase' = IF Tail(events) = <<>> THEN "recv" ELSE "handle"
  BY DEF Taken
<1>3. World \in Worlds /\ World' \in Worlds
  BY <1>1 DEF Types, Alike
<1>4. EngagedIn(World'.chan) = L /\ PlacesIn(World'.sv) = at /\ StandingsIn(World'.sv) = st
  BY <1>3, AlikeSame
<1>5. Agreed(L, H, at, st, net, events) /\ Grounds(L, H, at, st, net, events) /\ J \in Pairs
  BY <1>1, GroundsHold, Pairing DEF Ownership, Owned
<1>6. Settles(J, H, events[1])
  BY <1>1
<1> HIDE DEF L, H, J, at, st, e
<1>7. Agreed(L, J, at, st, net, events')
  BY <1>1, <1>2, <1>5, <1>6, Learns
<1>8. Cared(World'.chan, J, hist'.removed)
  <2> SUFFICES ASSUME NEW o \in Conns, NEW i \in Slots, World'.chan[i].st # "FREE", World'.chan[i].own = o
               PROVE  <<o, i>> \in J \/ World'.chan[i].close \/ o \in hist'.removed
    BY DEF Cared
  <2>1. /\ World.chan[i].st # "FREE" /\ World.chan[i].own = o /\ World.chan = chan
        /\ World.chan[i].close => World'.chan[i].close
    BY DEF Alike, World
  <2>2. <<o, i>> \in H \/ World.chan[i].close \/ o \in hist.removed
    BY <1>1, <2>1 DEF Ownership, Owned, Cared, H
  <2>3. <<o, i>> \in EngagedIn(chan)
    BY <2>1, Pairing, Owning
  <2> QED BY <2>1, <2>2, <2>3 DEF H, J
<1>9. Unused(app', tun', World'.sv)
  <2>1. Unused(app, tun, World.sv)
    BY <1>1 DEF Ownership, Owned
  <2>2. (\A k \in Conns : k \in Owners) /\ \A b \in 1..MaxSftp : <<"sftp", b>> \in Owners
    BY Owning DEF Browsers
  <2> QED BY <2>1, <2>2 DEF Unused, Alike
<1>10. Ownership'
  <2>1. app'.channel = 1 /\ (app'.sftpChannel # 0 => app'.opened > 0)
    BY <1>1 DEF Ownership, Owned
  <2>2. Owned(app', tun', World', net, events', hist'.removed)
    BY <1>4, <1>7, <1>8, <1>9, <2>1 DEF Owned, J
  <2> QED BY <2>2 DEF Ownership
<1>11. Types'
  BY <1>1, <1>2, <1>3 DEF Types
<1>12. Phases'
  <2>1. todo = {}
    BY DEF IInv, Phases
  <2> QED BY <1>2, <2>1 DEF Phases
<1> QED
  BY <1>10, <1>11, <1>12 DEF IInv

LEMMA TunnelEventKeeps ==
    ASSUME IInv, Active, phase \in {"recv", "handle"}, events # <<>>, NEW e, e = Head(events),
           NEW k \in TunnelsOf(e.ch), k \in Displays => e.type # "X11_OPEN", TunnelEvent(e, k)
    PROVE  IInv'
<1> DEFINE t == tun[k]
           u == CASE e.type = "OPEN" -> [t EXCEPT !.channelOpen = TRUE]
                  [] e.type = "OPEN_FAILED" -> IF k \in Conns THEN Untracked(t) ELSE t
                  [] e.type = "DATA" -> [t EXCEPT !.outToLocal = Append(t.outToLocal, e.byte)]
                  [] e.type = "EOF" -> [t EXCEPT !.remoteClosed = TRUE]
                  [] e.type = "CLOSE" -> Untracked(t)
                  [] OTHER -> t
           H == Held(app, tun)
           J == Held(app', tun')
<1>1. /\ Types /\ Ownership /\ e \in Occurrences /\ e.own \in Owners /\ Named(PlacesIn(sv), e)
      /\ e.type \in Final => \A i \in Slots : <<e.own, i>> \notin EngagedIn(chan)
  BY HeadFacts
<1>2. k \in Tunnels /\ k \in Owners /\ t.st = "tracked" /\ t.channel = e.ch /\ e.ch # 0
  BY Owning DEF TunnelsOf, Tracked
<1>3. t \in ATunnel /\ e.ch \in Slots /\ e.byte \in Bytes /\ e.type \in EventTypes
  <2>1. e.ch \in 0..MaxSlots /\ e.byte \in Bytes /\ e.type \in EventTypes
    BY <1>1 DEF Occurrences
  <2> QED BY <1>1, <1>2, <2>1, Numbering DEF Types
<1>4. k = e.own
  <2>1. <<k, e.ch>> \in Held(app, tun)
    BY <1>2, <1>3, HeldBy DEF Holds
  <2> QED BY <1>2, <1>3, <2>1, HeadFacts
<1>5. e.type # "X11_OPEN" /\ (e.type = "OPEN_FAILED" => k \in Conns)
  BY <1>1, <1>2, <1>4, Owning DEF Named
<1>6. /\ u \in ATunnel
      /\ e.type \in Final => u.st = "gone"
      /\ e.type \notin Final => u.st = t.st /\ u.channel = t.channel
  <2>1. CASE e.type \in Final
    BY <1>3, <1>5, <2>1, UntrackedTyped DEF Final
  <2>2. CASE e.type = "DATA"
    <3>1. u = [t EXCEPT !.outToLocal = Append(t.outToLocal, e.byte)]
      BY <2>2
    <3>2. Append(t.outToLocal, e.byte) \in Seq(Bytes)
      BY <1>3, Queues DEF ATunnel
    <3> HIDE DEF u, t
    <3> QED BY <1>3, <2>2, <3>1, <3>2 DEF ATunnel, Final
  <2>3. CASE e.type = "OPEN"
    <3>1. u = [t EXCEPT !.channelOpen = TRUE]
      BY <2>3
    <3> HIDE DEF u, t
    <3> QED BY <1>3, <2>3, <3>1 DEF ATunnel, Final
  <2>4. CASE e.type = "EOF"
    <3>1. u = [t EXCEPT !.remoteClosed = TRUE]
      BY <2>4
    <3> HIDE DEF u, t
    <3> QED BY <1>3, <2>4, <3>1 DEF ATunnel, Final
  <2>5. CASE e.type \notin Final \cup {"DATA", "OPEN", "EOF"}
    BY <1>3, <2>5 DEF Final
  <2> QED BY <2>1, <2>2, <2>3, <2>4, <2>5
<1>7. tun' = [tun EXCEPT ![k] = u]
  BY DEF TunnelEvent
<1>8. /\ Taken /\ net' = net /\ todo' = todo /\ peer' = peer /\ hist' = hist /\ left' = left
      /\ app' = app /\ chan' = chan /\ sv' = sv
  BY DEF TunnelEvent, Keep
<1> HIDE DEF u, t
<1>9. tun' \in [Tunnels -> ATunnel] /\ tun'[k] = u /\ \A j \in Tunnels \ {k} : tun'[j] = tun[j]
  BY <1>1, <1>2, <1>6, <1>7 DEF Types
<1>10. \A o \in Owners, i \in Slots : <<o, i>> \in J <=> <<o, i>> \in H /\ (e.type \in Final => o # e.own)
  <2> SUFFICES ASSUME NEW o \in Owners, NEW i \in Slots
               PROVE  Holds(app, tun', o, i) <=> Holds(app, tun, o, i) /\ (e.type \in Final => o # e.own)
    BY <1>8, HeldBy
  <2>1. k # Shell /\ k # <<"sftp", app.opened>>
    BY <1>2 DEF Tunnels, Conns, Displays, Shell
  <2> QED BY <1>2, <1>4, <1>6, <1>9, <2>1 DEF Holds, t
<1>11. Settles(J, H, Head(events))
  BY <1>5, <1>10 DEF Settles
<1>12. \A j \in Conns, i \in Slots : <<j, i>> \in H /\ <<j, i>> \in EngagedIn(chan) => <<j, i>> \in J
  BY <1>1, <1>10, Owning
<1>13. \A j \in Conns : tun'[j].st = "none" => tun[j].st = "none"
  BY <1>2, <1>6, <1>9, Owning DEF t
<1>14. World' = World /\ Alike(World', World)
  BY <1>1, <1>8, AlikeChain DEF World, Types
<1>15. left' \in Load /\ app' \in AnApp /\ hist' \in AHistory /\ peer' \in [Tunnels -> APeer]
  BY <1>1, <1>8 DEF Types
<1> QED
  BY <1>8, <1>9, <1>11, <1>12, <1>13, <1>14, <1>15, TakenKeeps

LEMMA SpentBad ==
    ASSUME left \in Load, Has("bad"), Spend("bad")
    PROVE  /\ left' \in Load /\ left'.slots = left.slots /\ left'.down = left.down
           /\ left'.sftp = left.sftp
<1>1. left["bad"] - 1 \in Nat
  BY DEF Has, Load
<1> QED
  BY <1>1 DEF Spend, Load

LEMMA DisplayApart == \A k \in Displays : k # Shell /\ \A b : k # <<"sftp", b>>
<1>1. ASSUME NEW k \in Displays, NEW b
      PROVE  k # Shell /\ k # <<"sftp", b>>
  BY DEF Displays, Shell
<1> QED
  BY <1>1

LEMMA DialDisplayKeeps ==
    ASSUME IInv, Active, phase \in {"recv", "handle"}, events # <<>>, NEW e, e = Head(events),
           e.type = "X11_OPEN", DialDisplay(e)
    PROVE  IInv'
<1> DEFINE k == e.own
           H == Held(app, tun)
           J == Held(app', tun')
<1>1. /\ Types /\ Ownership /\ e \in Occurrences /\ Named(PlacesIn(sv), e)
      /\ \A o \in Owners, i \in Slots : <<o, i>> \in H => PlacesIn(sv)[o] = i
  BY HeadFacts
<1>2. k \in Displays /\ k \in Tunnels /\ k \in Owners /\ e.ch \in Slots /\ e.ch = PlacesIn(sv)[k]
  BY <1>1, Owning DEF Named
<1>3. PICK how \in {"now", "in progress", "failed"} :
        /\ how = "failed" => Has("bad")
        /\ tun' = [tun EXCEPT ![e.own] =
              [NoTunnel EXCEPT !.st = "tracked", !.channel = e.ch, !.channelOpen = TRUE,
                               !.fd = how # "failed", !.connecting = how = "in progress",
                               !.localOpen = how = "now", !.localClosed = how = "failed",
                               !.remoteClosed = how = "failed"]]
        /\ peer' = [peer EXCEPT ![e.own].st = IF how = "now" THEN "open" ELSE @]
        /\ IF how = "failed" THEN Spend("bad") ELSE UNCHANGED left
        /\ Taken /\ UNCHANGED <<net, todo, hist, app, chan, sv>>
  BY DEF DialDisplay
<1> DEFINE u == [NoTunnel EXCEPT !.st = "tracked", !.channel = e.ch, !.channelOpen = TRUE,
                               !.fd = how # "failed", !.connecting = how = "in progress",
                               !.localOpen = how = "now", !.localClosed = how = "failed",
                               !.remoteClosed = how = "failed"]
<1>4. u \in ATunnel /\ u.st = "tracked" /\ u.channel = e.ch
  <2>1. e.ch \in 0..MaxSlots
    BY <1>2, Numbering
  <2> DEFINE f == how # "failed"
             g == how = "in progress"
             h == how = "now"
             x == how = "failed"
             none == <<>>
  <2>2. f \in BOOLEAN /\ g \in BOOLEAN /\ h \in BOOLEAN /\ x \in BOOLEAN
    OBVIOUS
  <2>3. u = [st |-> "tracked", channel |-> e.ch, channelOpen |-> TRUE, connecting |-> g,
             localOpen |-> h, localClosed |-> x, remoteClosed |-> x, closeRequested |-> FALSE,
             fd |-> f, outToLocal |-> none]
    <3>1. u = [NoTunnel EXCEPT !.st = "tracked", !.channel = e.ch, !.channelOpen = TRUE,
                               !.fd = f, !.connecting = g, !.localOpen = h,
                               !.localClosed = x, !.remoteClosed = x]
      OBVIOUS
    <3>2. NoTunnel = [st |-> "none", channel |-> 0, channelOpen |-> FALSE, connecting |-> FALSE,
                      localOpen |-> FALSE, localClosed |-> FALSE, remoteClosed |-> FALSE,
                      closeRequested |-> FALSE, fd |-> FALSE, outToLocal |-> none]
      BY DEF NoTunnel
    <3> HIDE DEF f, g, h, x, u, none
    <3> QED BY <3>1, <3>2
  <2>4. none \in Seq(Bytes)
    BY EmptySeq
  <2> HIDE DEF f, g, h, x, u, none
  <2> QED BY <2>1, <2>2, <2>3, <2>4 DEF ATunnel
<1>5. tun' = [tun EXCEPT ![k] = u]
  BY <1>3
<1> HIDE DEF u
<1>6. tun' \in [Tunnels -> ATunnel] /\ tun'[k] = u /\ \A j \in Tunnels \ {k} : tun'[j] = tun[j]
  BY <1>1, <1>2, <1>4, <1>5 DEF Types
<1>7. peer' \in [Tunnels -> APeer]
  <2> DEFINE s == IF how = "now" THEN "open" ELSE peer[k].st
  <2>1. peer \in [Tunnels -> APeer] /\ peer[k] \in APeer
    BY <1>1, <1>2 DEF Types
  <2>2. s \in {"none", "open", "shut", "gone"}
    BY <2>1 DEF APeer
  <2>3. peer' = [peer EXCEPT ![k] = [peer[k] EXCEPT !.st = s]]
    BY <1>3, <2>1
  <2> HIDE DEF s
  <2>4. [peer[k] EXCEPT !.st = s] \in APeer
    BY <2>1, <2>2 DEF APeer
  <2> QED BY <2>1, <2>3, <2>4
<1>8. /\ left' \in Load /\ left'.slots = left.slots /\ left'.down = left.down
      /\ left'.sftp = left.sftp
  BY <1>1, <1>3, SpentBad DEF Types
<1>9. /\ Taken /\ net' = net /\ todo' = todo /\ hist' = hist /\ app' = app /\ chan' = chan /\ sv' = sv
  BY <1>3
<1>10. \A o \in Owners, i \in Slots :
          <<o, i>> \in J <=> IF o = k THEN i = e.ch ELSE <<o, i>> \in H
  <2> SUFFICES ASSUME NEW o \in Owners, NEW i \in Slots
               PROVE  Holds(app, tun', o, i) <=> IF o = k THEN i = e.ch ELSE Holds(app, tun, o, i)
    BY <1>9, HeldBy
  <2>1. k # Shell /\ k # <<"sftp", app.opened>>
    BY <1>2, DisplayApart
  <2> HIDE DEF k
  <2> QED BY <1>2, <1>4, <1>6, <2>1 DEF Holds
<1>11. Settles(J, H, e)
  <2>1. e.type \notin Final
    BY DEF Final
  <2>2. \A i \in Slots : <<k, i>> \in H => i = e.ch
    BY <1>1, <1>2
  <2> HIDE DEF H, J
  <2> QED BY <1>2, <1>10, <2>1, <2>2 DEF Settles
<1>12. \A j \in Conns, i \in Slots : <<j, i>> \in H /\ <<j, i>> \in EngagedIn(chan) => <<j, i>> \in J
  <2>1. \A j \in Conns : j \in Owners /\ j # k
    BY <1>2, Owning
  <2> QED BY <1>10, <2>1
<1>13. \A j \in Conns : tun'[j].st = "none" => tun[j].st = "none"
  <2>1. \A j \in Conns : j \in Tunnels /\ j # k
    BY <1>2, Owning
  <2> QED BY <1>6, <2>1
<1>14. World' = World /\ Alike(World', World)
  BY <1>1, <1>9, AlikeChain DEF World, Types
<1>15. app' \in AnApp /\ hist' \in AHistory
  BY <1>1, <1>9 DEF Types
<1> QED
  BY <1>6, <1>7, <1>8, <1>9, <1>11, <1>12, <1>13, <1>14, <1>15, TakenKeeps

LEMMA Answers ==
    ASSUME NEW r, AppBecomes(r), Steady(r.app, app), Alike(r.w, World)
    PROVE  Steady(app', app) /\ Alike(World', World)
BY Worldly DEF AppBecomes, Alike

\* Whatever the engine does with an event of the file browser's channel that does not end it.
LEMMA SftpStays ==
    ASSUME Types, NEW e, SftpEvent(e), e.type \notin Final,
           <<"sftp", app.opened>> \in Browsers
    PROVE  /\ Steady(app', app) /\ Alike(World', World)
           /\ hist' \in AHistory /\ hist'.removed = hist.removed
           /\ left' \in Load /\ left'.slots = left.slots /\ left'.down = left.down
           /\ left'.sftp = left.sftp
<1> DEFINE b == <<"sftp", app.opened>>
           Goal == /\ Steady(app', app) /\ Alike(World', World)
                   /\ hist' \in AHistory /\ hist'.removed = hist.removed
                   /\ left' \in Load /\ left'.slots = left.slots /\ left'.down = left.down
                   /\ left'.sftp = left.sftp
<1>1. app \in AnApp /\ World \in Worlds /\ hist \in AHistory /\ left \in Load
  BY DEF Types
<1>2. Steady(app, app) /\ Alike(World, World) /\ app.sftpChannel \in 0..MaxSlots
  BY <1>1, SteadyChain, AlikeChain DEF AnApp
<1>3. ASSUME NEW r, AppBecomes(r), Steady(r.app, app), Alike(r.w, World), UNCHANGED <<hist, left>>
      PROVE  Goal
  BY <1>1, <1>3, Answers
<1>4. ASSUME NEW r, AppBecomes(r), Steady(r.app, app), Alike(r.w, World), Asked(b), left' = left
      PROVE  Goal
  BY <1>1, <1>4, Answers, AskedTyped
<1>5. ASSUME NEW r, AppBecomes(r), Steady(r.app, app), Alike(r.w, World), hist' = hist, Has("bad"), Spend("bad")
      PROVE  Goal
  BY <1>1, <1>5, Answers, SpentBad
<1>6. Steady(closeSFTPChannel(app, World).app, app) /\ Alike(closeSFTPChannel(app, World).w, World)
  BY <1>1, SteadyClose
<1>7. Steady(flushSFTP(app, World).app, app) /\ Alike(flushSFTP(app, World).w, World)
  BY <1>1, SteadySftp
<1>8. ASSUME NEW a, Steady(a, app)
      PROVE  /\ Steady(flushSFTP(Asks(a, b), World).app, app)
             /\ Alike(flushSFTP(Asks(a, b), World).w, World)
  <2>1. Steady(Asks(a, b), a) /\ Asks(a, b) \in AnApp
    BY <1>1, <1>8, SteadyAsks DEF Steady
  <2> QED BY <1>1, <1>8, <2>1, SteadySftp, SteadyChain
<1>9. Steady([app EXCEPT !.sftpCore = TRUE], app)
  BY <1>1 DEF Steady, AnApp
<1> DEFINE here == [app |-> app, w |-> World]
           asks == [app EXCEPT !.sftpCore = TRUE]
<1>10. \/ e.type = "OPEN" /\ AppBecomes([here EXCEPT !.w = ChannelRequest(World, app.sftpChannel)])
          /\ UNCHANGED <<hist, left>>
       \/ AppBecomes(closeSFTPChannel(app, World)) /\ UNCHANGED <<hist, left>>
       \/ AppBecomes(flushSFTP(Asks(asks, b), World)) /\ Asked(b) /\ UNCHANGED left
       \/ AppBecomes(flushSFTP(app, World)) /\ UNCHANGED <<hist, left>>
       \/ AppBecomes(flushSFTP(Asks(app, b), World)) /\ Asked(b) /\ UNCHANGED left
       \/ Has("bad") /\ AppBecomes(closeSFTPChannel(app, World)) /\ Spend("bad") /\ UNCHANGED hist
       \/ UNCHANGED <<app, chan, sv, hist, left>>
  BY DEF SftpEvent, Final
<1> SUFFICES Goal
  OBVIOUS
<1> HIDE DEF Goal
<1>11. CASE AppBecomes([here EXCEPT !.w = ChannelRequest(World, app.sftpChannel)]) /\ UNCHANGED <<hist, left>>
  <2> DEFINE r == [here EXCEPT !.w = ChannelRequest(World, app.sftpChannel)]
  <2>1. r.app = app /\ r.w = ChannelRequest(World, app.sftpChannel)
    OBVIOUS
  <2>2. Alike(ChannelRequest(World, app.sftpChannel), World)
    BY <1>1, <1>2, RequestAlike
  <2> HIDE DEF r
  <2> QED BY <1>2, <1>3, <1>11, <2>1, <2>2 DEF r
<1>12. CASE AppBecomes(closeSFTPChannel(app, World)) /\ UNCHANGED <<hist, left>>
  <2> QED BY <1>3, <1>6, <1>12
<1>13. CASE AppBecomes(flushSFTP(Asks(asks, b), World)) /\ Asked(b) /\ UNCHANGED left
  <2> HIDE DEF asks, b
  <2> QED BY <1>4, <1>8, <1>9, <1>13 DEF asks
<1>14. CASE AppBecomes(flushSFTP(app, World)) /\ UNCHANGED <<hist, left>>
  <2> QED BY <1>3, <1>7, <1>14
<1>15. CASE AppBecomes(flushSFTP(Asks(app, b), World)) /\ Asked(b) /\ UNCHANGED left
  <2> HIDE DEF b
  <2> QED BY <1>2, <1>4, <1>8, <1>15
<1>16. CASE Has("bad") /\ AppBecomes(closeSFTPChannel(app, World)) /\ Spend("bad") /\ UNCHANGED hist
  <2> QED BY <1>5, <1>6, <1>16
<1>17. CASE UNCHANGED <<app, chan, sv, hist, left>>
  BY <1>1, <1>2, <1>17 DEF World, Goal
<1> QED
  BY <1>10, <1>11, <1>12, <1>13, <1>14, <1>15, <1>16, <1>17

\* An event that ends it: its id is forgotten.
LEMMA SftpEnds ==
    ASSUME Types, NEW e, SftpEvent(e), e.type \in Final
    PROVE  /\ app' \in AnApp /\ app'.state = app.state /\ app'.channel = app.channel
           /\ app'.opened = app.opened /\ app'.sftpChannel = 0
           /\ Alike(World', World) /\ hist' \in AHistory /\ hist'.removed = hist.removed /\ left' = left
<1> DEFINE here == [app |-> app, w |-> World]
           none == <<>>
           a == [app EXCEPT !.sftpChannel = 0]
           c == [app EXCEPT !.sftpChannel = 0, !.sftpClosing = FALSE, !.sftpCore = FALSE, !.sftpOut = none]
<1>1. app \in AnApp /\ World \in Worlds /\ Alike(World, World) /\ 0 \in 0..MaxSlots /\ none \in Seq(Units)
  BY AlikeChain, Numbering, EmptySeq DEF Types
<1>2. left' = left /\ Becomes(World) /\ app' \in {a, c}
      /\ \E f \in BOOLEAN : hist' = [hist EXCEPT !.stale = f]
  BY <1>1 DEF SftpEvent, Final, AppBecomes, AnApp
<1>6. hist' \in AHistory /\ hist'.removed = hist.removed
  BY <1>2 DEF Types, AHistory
<1>3. Alike(World', World)
  BY <1>1, <1>2, Worldly
<1> HIDE DEF none
<1>4. /\ a \in AnApp /\ a.state = app.state /\ a.channel = app.channel /\ a.opened = app.opened
      /\ a.sftpChannel = 0
  BY <1>1 DEF AnApp
<1>5. /\ c \in AnApp /\ c.state = app.state /\ c.channel = app.channel /\ c.opened = app.opened
      /\ c.sftpChannel = 0
  BY <1>1 DEF AnApp
<1> HIDE DEF a, c
<1> QED
  BY <1>2, <1>3, <1>4, <1>5, <1>6

LEMMA SftpEventKeeps ==
    ASSUME IInv, Active, phase \in {"recv", "handle"}, events # <<>>, NEW e, e = Head(events),
           e.type # "X11_OPEN", app.sftpChannel # 0, e.ch = app.sftpChannel, SftpEvent(e)
    PROVE  IInv'
<1> DEFINE b == <<"sftp", app.opened>>
           H == Held(app, tun)
           J == Held(app', tun')
<1>1. /\ Types /\ Ownership /\ e \in Occurrences /\ e.own \in Owners
      /\ \A o \in Owners, i \in Slots : <<o, i>> \in H /\ i = e.ch => o = e.own
  BY HeadFacts
<1>2. app.sftpChannel \in Slots /\ b \in Browsers /\ b \in Owners
  <2>1. app.sftpChannel \in 0..MaxSlots /\ app.opened \in 0..MaxSftp /\ app.opened > 0
    BY <1>1 DEF Types, AnApp, Ownership, Owned
  <2>2. b \in Browsers
    BY <2>1, Limits DEF Browsers
  <2> QED BY <2>1, <2>2, Numbering, Owning
<1>3. e.own = b
  <2>1. <<b, e.ch>> \in H
    BY <1>2, HeldBy DEF Holds
  <2> HIDE DEF H, b
  <2> QED BY <1>1, <1>2, <2>1
<1>4. Taken /\ tun' = tun /\ net' = net /\ todo' = todo /\ peer' = peer
  BY DEF SftpEvent
<1>5. /\ app' \in AnApp /\ app'.channel = app.channel /\ app'.opened = app.opened
      /\ app'.sftpChannel = (IF e.type \in Final THEN 0 ELSE app.sftpChannel)
      /\ Alike(World', World) /\ hist' \in AHistory /\ hist'.removed = hist.removed
      /\ left' \in Load /\ left'.slots = left.slots /\ left'.down = left.down
      /\ left'.sftp = left.sftp
  <2>1. CASE e.type \in Final
    BY <1>1, <2>1, SftpEnds DEF Types
  <2>2. CASE e.type \notin Final
    BY <1>1, <1>2, <2>2, SftpStays DEF Steady
  <2> QED BY <2>1, <2>2
<1>6. \A o \in Owners, i \in Slots : <<o, i>> \in J <=> <<o, i>> \in H /\ (e.type \in Final => o # b)
  <2> SUFFICES ASSUME NEW o \in Owners, NEW i \in Slots
               PROVE  Holds(app', tun, o, i) <=> Holds(app, tun, o, i) /\ (e.type \in Final => o # b)
    BY <1>4, HeldBy
  <2>1. b # Shell /\ b \notin Tunnels /\ 0 # i
    BY <1>2, Owning, Numbering
  <2> QED BY <1>5, <2>1 DEF Holds
<1>7. Settles(J, H, e)
  <2> HIDE DEF J, H, b
  <2> QED BY <1>3, <1>6 DEF Settles
<1>8. \A k \in Conns, i \in Slots : <<k, i>> \in H => <<k, i>> \in J
  <2>1. \A k \in Conns : k \in Owners /\ k # b
    BY <1>2, Owning
  <2> QED BY <1>6, <2>1
<1>9. peer' \in [Tunnels -> APeer] /\ tun' \in [Tunnels -> ATunnel]
  BY <1>1, <1>4 DEF Types
<1> QED
  BY <1>4, <1>5, <1>7, <1>8, <1>9, TakenKeeps

\* What reaches the shell's switch is an event of somebody who is not private.
LEMMA SwitchHears ==
    ASSUME IInv, Active, events # <<>>, NEW e, e = Head(events), ForwardOf(e) = {},
           e.type # "X11_OPEN", DisplayOf(e) = {}, ~(app.sftpChannel # 0 /\ e.ch = app.sftpChannel)
    PROVE  /\ e.own \in {Shell} \cup Conns
           /\ Hears(e) \in AHistory /\ Hears(e).removed = hist.removed
           /\ \A s \in Seq(Bytes) : [Hears(e) EXCEPT !.shown = s] \in AHistory
                                    /\ [Hears(e) EXCEPT !.shown = s].removed = hist.removed
           /\ Hears(e).shown = hist.shown /\ hist.shown \in Seq(Bytes)
<1>1. /\ Types /\ e.own \in Owners
      /\ e.own \in Private => <<e.own, e.ch>> \in Held(app, tun)
  BY HeadFacts
<1>2. e.own \notin Private
  <2> SUFFICES ASSUME e.own \in Private
               PROVE  FALSE
    OBVIOUS
  <2> DEFINE o == e.own
             i == e.ch
  <2>1. o \in Owners /\ i \in Slots
    BY <1>1, Pairing
  <2>2. i # 0 /\ o # Shell /\ (o \in Tunnels => o \in Displays)
    BY <2>1, Numbering, Owning
  <2>3. Holds(app, tun, o, i)
    BY <1>1, <2>1, HeldBy
  <2>4. o \in Tunnels /\ tun[o].st = "tracked" /\ tun[o].channel = i
    BY <2>2, <2>3 DEF Holds
  <2>5. o \in DisplayOf(e)
    BY <2>2, <2>4 DEF DisplayOf, TunnelsOf, Tracked
  <2> QED BY <2>5
<1>3. e.own \in {Shell} \cup Conns
  BY <1>1, <1>2, Owning
<1>4. hist \in AHistory
  BY <1>1 DEF Types
<1>5. Hears(e) = [hist EXCEPT !.heard = hist.heard \cup {e.own}]
  BY DEF Hears
<1>6. hist.heard \cup {e.own} \in SUBSET ({Shell} \cup Conns)
  BY <1>3, <1>4 DEF AHistory
<1> DEFINE h == hist.heard \cup {e.own}
<1>7. Hears(e) = [hist EXCEPT !.heard = h] /\ h \in SUBSET ({Shell} \cup Conns)
  BY <1>5, <1>6
<1> HIDE DEF h
<1>8. /\ Hears(e) \in AHistory /\ Hears(e).removed = hist.removed
      /\ Hears(e).shown = hist.shown /\ hist.shown \in Seq(Bytes)
  BY <1>4, <1>7 DEF AHistory
<1>9. \A s \in Seq(Bytes) : [Hears(e) EXCEPT !.shown = s] \in AHistory
                            /\ [Hears(e) EXCEPT !.shown = s].removed = Hears(e).removed
  BY <1>8 DEF AHistory
<1> QED
  BY <1>3, <1>8, <1>9

LEMMA ShellEventKeeps ==
    ASSUME IInv, Active, phase \in {"recv", "handle"}, events # <<>>, NEW e, e = Head(events),
           ForwardOf(e) = {}, e.type # "X11_OPEN", DisplayOf(e) = {},
           ~(app.sftpChannel # 0 /\ e.ch = app.sftpChannel), ShellEvent(e)
    PROVE  IInv'
<1> DEFINE H == Held(app, tun)
<1>1. Types /\ e \in Occurrences
  BY HeadFacts
<1>2. /\ Hears(e) \in AHistory /\ Hears(e).removed = hist.removed
      /\ \A s \in Seq(Bytes) : [Hears(e) EXCEPT !.shown = s] \in AHistory
                               /\ [Hears(e) EXCEPT !.shown = s].removed = hist.removed
      /\ Hears(e).shown = hist.shown /\ hist.shown \in Seq(Bytes)
  BY SwitchHears
<1>3. CASE e.type \in {"CLOSE", "OPEN_FAILED", "DISCONNECT"}
  <2>1. endWithMessage /\ hist' = Hears(e) /\ left' = left
    BY <1>3 DEF ShellEvent
  <2>2. left \in Load /\ app.opened + left.sftp <= MaxSftp
    BY <1>1 DEF Types
  <2> QED BY <1>1, <1>2, <2>1, <2>2, EndKeeps
<1>4. CASE e.type \notin {"CLOSE", "OPEN_FAILED", "DISCONNECT"}
  <2>1. Taken /\ tun' = tun /\ net' = net /\ todo' = todo /\ peer' = peer /\ left' = left
    BY <1>4 DEF ShellEvent
  <2>2. app \in AnApp /\ World \in Worlds /\ app.channel \in 0..MaxSlots
    <3>1. app \in AnApp /\ World \in Worlds
      BY <1>1 DEF Types
    <3>2. app.channel \in 0..1
      BY <3>1 DEF AnApp
    <3>3. MaxSlots \in Nat \ {0}
      BY SessionAssumption
    <3> QED BY <3>1, <3>2, <3>3
  <2>3. Steady(app', app) /\ Alike(World', World)
    <3>1. CASE e.type = "OPEN"
      <4> DEFINE r == [app |-> app', w |-> ChannelRequest(World, app.channel)]
                 x == left.x11 > 0
      <4>1. Becomes(ChannelRequest(World, app.channel)) /\ app' = [app EXCEPT !.x11_active = x]
        BY <1>4, <3>1 DEF ShellEvent
      <4>2. x \in BOOLEAN
        OBVIOUS
      <4> HIDE DEF x
      <4>3. Steady(app', app)
        BY <2>2, <4>1, <4>2 DEF Steady, AnApp
      <4>4. Alike(ChannelRequest(World, app.channel), World)
        BY <2>2, RequestAlike
      <4>5. Alike(World', World)
        BY <4>1, <4>4, Worldly DEF Alike
      <4> QED BY <4>3, <4>5
    <3>2. CASE e.type # "OPEN"
      <4>1. app' = app /\ chan' = chan /\ sv' = sv
        BY <1>4, <3>2 DEF ShellEvent
      <4> QED BY <2>2, <4>1, SteadyChain, AlikeChain DEF World
    <3> QED BY <3>1, <3>2
  <2>4. hist' \in AHistory /\ hist'.removed = hist.removed
    <3>1. CASE e.type = "DATA"
      <4> DEFINE s == Append(hist.shown, e.byte)
      <4>1. e.byte \in Bytes
        BY <1>1 DEF Occurrences
      <4>2. s \in Seq(Bytes)
        BY <1>2, <4>1, Queues
      <4>3. hist' = [Hears(e) EXCEPT !.shown = s]
        BY <1>2, <1>4, <3>1 DEF ShellEvent
      <4> QED BY <1>2, <4>2, <4>3
    <3>2. CASE e.type # "DATA"
      BY <1>2, <1>4, <3>2 DEF ShellEvent
    <3> QED BY <3>1, <3>2
  <2>5. /\ app' \in AnApp /\ app'.channel = app.channel /\ app'.opened = app.opened
        /\ app'.sftpChannel = app.sftpChannel
    BY <2>3 DEF Steady
  <2>6. Held(app', tun') = H
    BY <2>1, <2>5 DEF Held
  <2>7. Settles(H, H, e)
    <3>1. e.type \notin Final
      BY <1>4 DEF Final
    <3> HIDE DEF H
    <3> QED BY <3>1 DEF Settles
  <2>8. /\ left' \in Load /\ left'.slots = left.slots /\ left'.down = left.down
        /\ left'.sftp = left.sftp /\ peer' \in [Tunnels -> APeer] /\ tun' \in [Tunnels -> ATunnel]
    BY <1>1, <2>1 DEF Types
  <2> QED BY <2>1, <2>3, <2>4, <2>5, <2>6, <2>7, <2>8, TakenKeeps
<1> QED
  BY <1>3, <1>4

LEMMA HandleKeeps ==
    ASSUME IInv, Handle
    PROVE  IInv'
<1> DEFINE e == Head(events)
<1>1. Active /\ phase \in {"recv", "handle"} /\ events # <<>>
  BY DEF Handle
<1>2. \/ \E k \in ForwardOf(e) : TunnelEvent(e, k)
      \/ ForwardOf(e) = {} /\ e.type = "X11_OPEN" /\ DialDisplay(e)
      \/ e.type # "X11_OPEN" /\ \E k \in DisplayOf(e) : TunnelEvent(e, k)
      \/ e.type # "X11_OPEN" /\ app.sftpChannel # 0 /\ e.ch = app.sftpChannel /\ SftpEvent(e)
      \/ ForwardOf(e) = {} /\ e.type # "X11_OPEN" /\ DisplayOf(e) = {}
         /\ ~(app.sftpChannel # 0 /\ e.ch = app.sftpChannel) /\ ShellEvent(e)
  BY DEF Handle
<1>4. ASSUME NEW k \in ForwardOf(e), TunnelEvent(e, k)
      PROVE  IInv'
  <2>1. k \in TunnelsOf(e.ch) /\ k \notin Displays
    BY <1>4, Owning DEF ForwardOf
  <2> QED BY <1>1, <1>4, <2>1, TunnelEventKeeps
<1>5. ASSUME NEW k \in DisplayOf(e), e.type # "X11_OPEN", TunnelEvent(e, k)
      PROVE  IInv'
  <2>1. k \in TunnelsOf(e.ch)
    BY <1>5 DEF DisplayOf
  <2> QED BY <1>1, <1>5, <2>1, TunnelEventKeeps
<1>6. ASSUME e.type = "X11_OPEN", DialDisplay(e)
      PROVE  IInv'
  BY <1>1, <1>6, DialDisplayKeeps
<1>7. ASSUME e.type # "X11_OPEN", app.sftpChannel # 0, e.ch = app.sftpChannel, SftpEvent(e)
      PROVE  IInv'
  BY <1>1, <1>7, SftpEventKeeps
<1>8. ASSUME ForwardOf(e) = {}, e.type # "X11_OPEN", DisplayOf(e) = {},
             ~(app.sftpChannel # 0 /\ e.ch = app.sftpChannel), ShellEvent(e)
      PROVE  IInv'
  BY <1>1, <1>8, ShellEventKeeps
<1> HIDE DEF e
<1> QED
  BY <1>2, <1>4, <1>5, <1>6, <1>7, <1>8

-----------------------------------------------------------------------------
(* The messages *)

Received == UNCHANGED <<app, tun, phase, todo, peer, hist, left>>

\* The first message, and the relation it is delivered in.
LEMMA ReceiveFacts ==
    ASSUME IInv, Receive, NEW m, m = Head(net)
    PROVE  /\ Types /\ Ownership /\ Active /\ phase = "recv" /\ Received
           /\ m = net[1] /\ m \in Messages /\ m.own \in Owners /\ m.ch \in 0..MaxSlots /\ Len(net) > 0
           /\ net' \in Seq(Messages) /\ Drops(net', net)
           /\ Grounds(EngagedIn(chan), Held(app, tun), PlacesIn(sv), StandingsIn(sv), net, events)
           /\ Agreed(EngagedIn(chan), Held(app, tun), PlacesIn(sv), StandingsIn(sv), net, events)
           /\ About(EngagedIn(chan), PlacesIn(sv), StandingsIn(sv), m)
           /\ chan \in [Slots -> AChan] /\ sv \in [Owners -> AServed]
           /\ \A v \in Occurrences :
                 Push(<<v>>) => Extends(events', events, v) /\ events' \in Seq(Occurrences)
<1> DEFINE L == EngagedIn(chan)
           H == Held(app, tun)
           at == PlacesIn(sv)
           st == StandingsIn(sv)
<1>1. Types /\ Ownership /\ Active /\ phase = "recv" /\ Received
  BY DEF IInv, Receive, Received
<1>2. /\ net \in Seq(Messages) /\ net # <<>> /\ net' = Tail(net) /\ events \in Seq(Occurrences)
      /\ World \in Worlds
  BY <1>1 DEF Types, Receive
<1>3. /\ m = net[1] /\ m \in Messages /\ Len(net) > 0 /\ net' \in Seq(Messages) /\ Drops(net', net)
  BY <1>2, Queues
<1>4. m.own \in Owners /\ m.ch \in 0..MaxSlots
  BY <1>3, Fields
<1>5. chan \in [Slots -> AChan] /\ sv \in [Owners -> AServed]
  BY <1>2 DEF Worlds, World
<1>6. Grounds(L, H, at, st, net, events) /\ Agreed(L, H, at, st, net, events)
  BY <1>1, GroundsHold, Worldly DEF Ownership, Owned
<1> HIDE DEF L, H, at, st
<1>7. About(L, at, st, m)
  BY <1>2, <1>3, <1>6, Foremost DEF Agreed
<1>8. \A v \in Occurrences :
         Push(<<v>>) => Extends(events', events, v) /\ events' \in Seq(Occurrences)
  BY <1>2, Queues DEF Push
<1> QED
  BY <1>1, <1>3, <1>4, <1>5, <1>6, <1>7, <1>8 DEF L, H, at, st

\* Of what a message does, what the invariant is about.
LEMMA ReceivedKeeps ==
    ASSUME IInv, Active, phase = "recv", Received,
           net' \in Seq(Messages), events' \in Seq(Occurrences), World' \in Worlds,
           Agreed(EngagedIn(chan'), Held(app, tun), PlacesIn(sv'), StandingsIn(sv'), net', events'),
           \A j \in Slots : chan'[j].st # "FREE" /\ chan'[j].own \in Conns =>
              /\ chan[j].st # "FREE" /\ chan[j].own = chan'[j].own
              /\ chan[j].close => chan'[j].close,
           \A o \in Owners \ Displays : sv'[o].slot = sv[o].slot
    PROVE  IInv'
<1>1. /\ Types /\ Ownership /\ app' = app /\ tun' = tun /\ phase' = phase /\ todo' = todo /\ peer' = peer
      /\ hist' = hist /\ left' = left
  BY DEF IInv, Received
<1>2. World.chan = chan /\ World.sv = sv /\ World'.chan = chan' /\ World'.sv = sv'
  BY DEF World
<1>3. Types'
  BY <1>1 DEF Types
<1>4. Phases'
  BY <1>1 DEF Phases, IInv, Tracked
<1>5. Cared(chan', Held(app, tun), hist.removed)
  <2>1. Cared(chan, Held(app, tun), hist.removed)
    BY <1>1, <1>2 DEF Ownership, Owned
  <2> QED BY <2>1 DEF Cared
<1>6. Unused(app, tun, sv')
  <2>1. Unused(app, tun, sv)
    BY <1>1, <1>2 DEF Ownership, Owned
  <2>2. \A k \in Conns : k \in Owners \ Displays
    BY Owning
  <2>3. \A b \in 1..MaxSftp : <<"sftp", b>> \in Owners \ Displays
    BY Owning DEF Browsers
  <2> QED BY <2>1, <2>2, <2>3 DEF Unused
<1>7. Ownership'
  <2>1. app.channel = 1 /\ (app.sftpChannel # 0 => app.opened > 0)
    BY <1>1 DEF Ownership, Owned
  <2>2. Owned(app', tun', World', net', events', hist'.removed)
    BY <1>1, <1>2, <1>5, <1>6, <2>1 DEF Owned
  <2> QED BY <2>2 DEF Ownership
<1> QED
  BY <1>3, <1>4, <1>7 DEF IInv

\* The channels stay whose they are.
LEMMA AlikeKeeps ==
    ASSUME IInv, Receive, Alike(World', World), events' \in Seq(Occurrences),
           Agreed(EngagedIn(chan), Held(app, tun), PlacesIn(sv), StandingsIn(sv), net', events')
    PROVE  IInv'
<1>1. /\ Types /\ Active /\ phase = "recv" /\ Received /\ net' \in Seq(Messages)
  BY ReceiveFacts
<1>2. World.chan = chan /\ World.sv = sv /\ World'.chan = chan' /\ World'.sv = sv'
  BY DEF World
<1>3. World \in Worlds /\ World' \in Worlds
  BY <1>1 DEF Types, Alike
<1>4. /\ EngagedIn(chan') = EngagedIn(chan)
      /\ PlacesIn(sv') = PlacesIn(sv) /\ StandingsIn(sv') = StandingsIn(sv)
  BY <1>2, <1>3, AlikeSame
<1>5. /\ \A j \in Slots : /\ chan'[j].own = chan[j].own /\ (chan'[j].st = "FREE" <=> chan[j].st = "FREE")
                          /\ chan[j].close => chan'[j].close
      /\ \A o \in Owners : sv'[o].slot = sv[o].slot
  BY <1>2 DEF Alike
<1> QED
  BY <1>1, <1>3, <1>4, <1>5, ReceivedKeeps

LEMMA EngagedBy ==
    ASSUME NEW c, NEW o \in Owners, NEW i \in Slots
    PROVE  <<o, i>> \in EngagedIn(c) <=> c[i].st # "FREE" /\ c[i].own = o
BY Pairing

\* The channel of the message is free from now on.
LEMMA FreedKeeps ==
    ASSUME IInv, Receive, NEW m, m = Head(net), m.type \in Parting,
           NEW v \in Occurrences, Push(<<v>>), v.own = m.own, v.ch = m.ch,
           v.type \in Final, v.type = "OPEN_FAILED" => m.type = "OPEN_FAIL",
           chan' = [chan EXCEPT ![m.ch] = FreeChan], sv' \in [Owners -> AServed],
           \A o \in Owners : sv'[o].slot = sv[o].slot /\ sv'[o].st = sv[o].st
    PROVE  IInv'
<1> DEFINE L == EngagedIn(chan)
           M == EngagedIn(chan')
           H == Held(app, tun)
           at == PlacesIn(sv)
           st == StandingsIn(sv)
           i == m.ch
<1>1. /\ Types /\ Active /\ phase = "recv" /\ Received /\ m = net[1] /\ m.own \in Owners /\ Len(net) > 0
      /\ net' \in Seq(Messages) /\ Drops(net', net)
      /\ Grounds(L, H, at, st, net, events) /\ Agreed(L, H, at, st, net, events)
      /\ About(L, at, st, m) /\ chan \in [Slots -> AChan]
      /\ Extends(events', events, v) /\ events' \in Seq(Occurrences)
  BY ReceiveFacts
<1>2. m.type \notin {"X11_OPEN", "DISCONNECT"} /\ v.type \notin {"X11_OPEN", "DISCONNECT"}
  BY DEF Parting, Final
<1>3. <<m.own, i>> \in L /\ L \in Pairs /\ M \in Pairs /\ i \in Slots
  BY <1>1, <1>2, Pairing DEF About
<1>4. FreeChan \in AChan /\ FreeChan.st = "FREE" /\ Len(FreeChan.out) <= Backlog
  BY EmptyRecords, EmptySeq, Limits DEF FreeChan
<1>5. chan' \in [Slots -> AChan] /\ \A j \in Slots : chan'[j] = IF j = i THEN FreeChan ELSE chan[j]
  BY <1>1, <1>3, <1>4
<1>6. World' \in Worlds
  <2>1. World' = [chan |-> chan', sv |-> sv'] /\ World \in Worlds /\ World.chan = chan
    BY <1>1 DEF World, Types
  <2>2. \A j \in Slots : Len(chan'[j].out) <= Backlog
    BY <1>4, <1>5, <2>1 DEF Worlds
  <2> QED BY <1>5, <2>1, <2>2 DEF Worlds
<1>7. Leaves(M, L, v)
  <2> SUFFICES ASSUME NEW o \in Owners, NEW j \in Slots
               PROVE  <<o, j>> \in M <=> <<o, j>> \in L /\ o # m.own
    BY DEF Leaves
  <2>1. <<o, j>> \in M <=> chan'[j].st # "FREE" /\ chan'[j].own = o
    <3>1. ASSUME NEW c, c = chan'
          PROVE  <<o, j>> \in EngagedIn(c) <=> c[j].st # "FREE" /\ c[j].own = o
      BY EngagedBy
    <3> QED BY <3>1
  <2>4. <<o, j>> \in L <=> chan[j].st # "FREE" /\ chan[j].own = o
    BY EngagedBy
  <2>3. chan[i].own = m.own
    BY <1>3, Pairing
  <2>2. <<m.own, j>> \in L => j = i
    BY <1>1, <1>3 DEF Agreed, Engine
  <2> HIDE DEF i, L, M
  <2> QED BY <1>4, <1>5, <2>1, <2>2, <2>3, <2>4
<1>8. PlacesIn(sv') = at /\ StandingsIn(sv') = st
  BY DEF PlacesIn, StandingsIn
<1> HIDE DEF L, M, H, at, st
<1>9. (v.type \in Final) = (net[1].type \in Parting)
  BY <1>1
<1>10. Agreed(M, H, at, st, net', events')
  BY <1>1, <1>2, <1>3, <1>7, <1>9, Occurs
<1>11. \A j \in Slots : chan'[j].st # "FREE" => chan'[j] = chan[j]
  BY <1>4, <1>5
<1> QED
  BY <1>1, <1>6, <1>8, <1>10, <1>11, ReceivedKeeps DEF L, M, H, at, st

LEMMA EventTyped ==
    ASSUME NEW type \in EventTypes, NEW i \in 0..MaxSlots, NEW o \in Owners, NEW b \in Bytes
    PROVE  /\ Event(type, i, o, b) \in Occurrences
           /\ Event(type, i, o, b).type = type /\ Event(type, i, o, b).ch = i
           /\ Event(type, i, o, b).own = o
BY DEF Event, Occurrences
LEMMA NoByteTyped == NoByte \in Bytes
BY Limits, Owning DEF NoByte, Bytes

\* A channel of the server's, when no slot is free.
LEMMA RefusesKeeps ==
    ASSUME IInv, Receive, NEW m, m = Head(net), sv' = [sv EXCEPT ![m.own].st = "refused"],
           UNCHANGED <<chan, events>>, m.type = "X11_OPEN"
    PROVE  IInv'
<1> DEFINE L == EngagedIn(chan)
           H == Held(app, tun)
           at == PlacesIn(sv)
           st == StandingsIn(sv)
           tt == StandingsIn(sv')
           r == [sv[m.own] EXCEPT !.st = "refused"]
<1>1. /\ Types /\ Active /\ phase = "recv" /\ Received /\ m.own \in Owners /\ Len(net) > 0
      /\ net' \in Seq(Messages) /\ Drops(net', net)
      /\ Grounds(L, H, at, st, net, events) /\ Agreed(L, H, at, st, net, events)
      /\ sv \in [Owners -> AServed]
  BY ReceiveFacts
<1>2. sv[m.own] \in AServed /\ sv' = [sv EXCEPT ![m.own] = r]
  BY <1>1
<1>3. r \in AServed /\ r.slot = sv[m.own].slot /\ r.st = "refused"
  BY <1>2 DEF AServed, SvStates
<1> HIDE DEF r
<1>4. /\ sv' \in [Owners -> AServed]
      /\ \A o \in Owners : sv'[o].slot = sv[o].slot /\ (sv'[o].st = sv[o].st \/ sv'[o].st = "refused")
  BY <1>1, <1>2, <1>3
<1>5. PlacesIn(sv') = at /\ \A o \in Owners : tt[o] = st[o] \/ tt[o] = "refused"
  BY <1>4 DEF PlacesIn, StandingsIn
<1>6. World' \in Worlds /\ events' \in Seq(Occurrences)
  BY <1>1, <1>4 DEF World, Worlds, Types
<1> HIDE DEF L, H, at, st, tt
<1>7. Agreed(L, H, at, tt, net', events)
  BY <1>1, <1>5, Passes
<1>8. Agreed(EngagedIn(chan'), Held(app, tun), PlacesIn(sv'), StandingsIn(sv'), net', events')
  BY <1>5, <1>7 DEF L, H, tt
<1>9. \A j \in Slots : chan'[j] = chan[j]
  OBVIOUS
<1> QED
  BY <1>1, <1>4, <1>6, <1>8, <1>9, ReceivedKeeps

\* A channel of the server's, in a slot that is free.
LEMMA AcceptsKeeps ==
    ASSUME IInv, Receive, NEW m, m = Head(net), m.type = "X11_OPEN",
           NEW f \in Slots, chan[f].st = "FREE",
           chan' = [chan EXCEPT ![f] = [FreeChan EXCEPT !.st = "OPEN", !.own = m.own, !.win = SvWindow]],
           sv' = [sv EXCEPT ![m.own] = [sv[m.own] EXCEPT !.st = "open", !.slot = f]],
           Push(<<Event("X11_OPEN", f, m.own, NoByte)>>)
    PROVE  IInv'
<1> DEFINE L == EngagedIn(chan)
           M == EngagedIn(chan')
           H == Held(app, tun)
           at == PlacesIn(sv)
           st == StandingsIn(sv)
           bt == PlacesIn(sv')
           tt == StandingsIn(sv')
           v == Event("X11_OPEN", f, m.own, NoByte)
           d == [FreeChan EXCEPT !.st = "OPEN", !.own = m.own, !.win = SvWindow]
           r == [sv[m.own] EXCEPT !.st = "open", !.slot = f]
<1>1. f \in 0..MaxSlots /\ v \in Occurrences /\ v.type = "X11_OPEN" /\ v.ch = f /\ v.own = m.own
  <2>1. m.own \in Owners /\ f \in 0..MaxSlots
    BY ReceiveFacts, Numbering
  <2>2. "X11_OPEN" \in EventTypes
    BY DEF EventTypes
  <2> QED BY <2>1, <2>2, EventTyped, NoByteTyped
<1> HIDE DEF v
<1>2. /\ Types /\ Active /\ phase = "recv" /\ Received /\ m = net[1] /\ m.own \in Owners /\ Len(net) > 0
      /\ net' \in Seq(Messages) /\ Drops(net', net)
      /\ Grounds(L, H, at, st, net, events) /\ Agreed(L, H, at, st, net, events)
      /\ About(L, at, st, m) /\ chan \in [Slots -> AChan] /\ sv \in [Owners -> AServed]
      /\ Extends(events', events, v) /\ events' \in Seq(Occurrences)
  BY <1>1, ReceiveFacts DEF v
<1>3. d \in AChan /\ d.st = "OPEN" /\ d.own = m.own /\ Len(d.out) <= Backlog
  <2>1. d \in AChan /\ d.st = "OPEN" /\ d.own = m.own
    BY <1>2, EmptyRecords, Limits DEF AChan
  <2>2. d.out = <<>>
    BY DEF FreeChan
  <2> QED BY <2>1, <2>2, EmptySeq, Limits
<1>4. r \in AServed /\ r.st = "open" /\ r.slot = f
  <2>1. sv[m.own] \in AServed
    BY <1>2
  <2> QED BY <1>1, <2>1 DEF AServed, SvStates
<1>5. chan' = [chan EXCEPT ![f] = d] /\ sv' = [sv EXCEPT ![m.own] = r]
  OBVIOUS
<1> HIDE DEF d, r
<1>6. /\ chan' \in [Slots -> AChan] /\ \A j \in Slots : chan'[j] = IF j = f THEN d ELSE chan[j]
      /\ sv' \in [Owners -> AServed] /\ \A o \in Owners : sv'[o] = IF o = m.own THEN r ELSE sv[o]
  BY <1>2, <1>3, <1>4, <1>5
<1>7. World' \in Worlds
  <2>1. World' = [chan |-> chan', sv |-> sv'] /\ World \in Worlds /\ World.chan = chan
    BY <1>2 DEF World, Types
  <2>2. \A j \in Slots : Len(chan'[j].out) <= Backlog
    BY <1>3, <1>6, <2>1 DEF Worlds
  <2> QED BY <1>6, <2>1, <2>2 DEF Worlds
<1>8. L \in Pairs /\ M \in Pairs /\ \A p \in Owners : <<p, f>> \notin L
  BY Pairing
<1>9. Placed(M, L, bt, at, tt, st, v.own, f, "open")
  <2>1. \A p \in Owners, j \in Slots : <<p, j>> \in M <=> <<p, j>> \in L \/ (p = m.own /\ j = f)
    <3> SUFFICES ASSUME NEW p \in Owners, NEW j \in Slots
                 PROVE  <<p, j>> \in M <=> <<p, j>> \in L \/ (p = m.own /\ j = f)
      OBVIOUS
    <3>1. <<p, j>> \in M <=> chan'[j].st # "FREE" /\ chan'[j].own = p
      <4>1. ASSUME NEW c, c = chan'
            PROVE  <<p, j>> \in EngagedIn(c) <=> c[j].st # "FREE" /\ c[j].own = p
        BY EngagedBy
      <4> QED BY <4>1
    <3>2. <<p, j>> \in L <=> chan[j].st # "FREE" /\ chan[j].own = p
      BY EngagedBy
    <3> HIDE DEF L, M
    <3> QED BY <1>3, <1>6, <3>1, <3>2
  <2>2. \A p \in Owners : /\ bt[p] = IF p = m.own THEN f ELSE at[p]
                          /\ tt[p] = IF p = m.own THEN "open" ELSE st[p]
    BY <1>4, <1>6 DEF PlacesIn, StandingsIn
  <2> HIDE DEF L, M, at, bt, st, tt
  <2> QED BY <1>1, <2>1, <2>2 DEF Placed
<1> HIDE DEF L, M, H, at, bt, st, tt
<1>10. Agreed(M, H, bt, tt, net', events')
  BY <1>1, <1>2, <1>8, <1>9, Arrives
<1>11. m.own \in Displays
  BY <1>2 DEF About
<1>12. \A j \in Slots : chan'[j].st # "FREE" /\ chan'[j].own \in Conns => chan'[j] = chan[j]
  BY <1>3, <1>6, <1>11, Owning
<1>13. \A o \in Owners \ Displays : sv'[o] = sv[o]
  BY <1>6, <1>11
<1> QED
  BY <1>2, <1>7, <1>10, <1>12, <1>13, ReceivedKeeps DEF M, H, bt, tt

\* A message that makes event v of a channel which goes on.
LEMMA GoesOnKeeps ==
    ASSUME IInv, Receive, NEW m, m = Head(net), m.type \notin Parting, m.type \notin {"X11_OPEN", "DISCONNECT"},
           NEW v \in Occurrences, Push(<<v>>), v.own = m.own, v.ch = m.ch,
           v.type \notin Final, v.type \notin {"X11_OPEN", "DISCONNECT"}, Alike(World', World)
    PROVE  IInv'
<1> DEFINE L == EngagedIn(chan)
           H == Held(app, tun)
           at == PlacesIn(sv)
           st == StandingsIn(sv)
<1>1. /\ m = net[1] /\ Len(net) > 0 /\ Drops(net', net)
      /\ Grounds(L, H, at, st, net, events) /\ Agreed(L, H, at, st, net, events)
      /\ Extends(events', events, v) /\ events' \in Seq(Occurrences)
  BY ReceiveFacts
<1>2. L \in Pairs /\ v.type # "OPEN_FAILED"
  BY Pairing DEF Final
<1> HIDE DEF L, H, at, st
<1>3. Leaves(L, L, v)
  BY DEF Leaves
<1>4. (v.type \in Final) = (net[1].type \in Parting)
  BY <1>1
<1>5. Agreed(L, H, at, st, net', events')
  BY <1>1, <1>2, <1>3, <1>4, Occurs
<1> QED
  BY <1>1, <1>5, AlikeKeeps DEF L, H, at, st

\* A message that makes no event of a channel which goes on; the server's last word.
LEMMA PassesKeeps ==
    ASSUME IInv, Receive, events' = events, Alike(World', World)
    PROVE  IInv'
<1> DEFINE L == EngagedIn(chan)
           H == Held(app, tun)
           at == PlacesIn(sv)
           st == StandingsIn(sv)
<1>1. /\ Len(net) > 0 /\ Drops(net', net) /\ events \in Seq(Occurrences)
      /\ Grounds(L, H, at, st, net, events) /\ Agreed(L, H, at, st, net, events)
  BY ReceiveFacts DEF Types
<1> HIDE DEF L, H, at, st
<1>2. Agreed(L, H, at, st, net', events)
  BY <1>1, Passes
<1> QED
  BY <1>1, <1>2, AlikeKeeps DEF L, H, at, st

LEMMA BreakingKeeps ==
    ASSUME IInv, Receive, NEW m, m = Head(net), m.type = "DISCONNECT",
           Push(<<Event("DISCONNECT", 0, m.own, NoByte)>>), UNCHANGED <<chan, sv>>
    PROVE  IInv'
<1> DEFINE L == EngagedIn(chan)
           H == Held(app, tun)
           at == PlacesIn(sv)
           st == StandingsIn(sv)
           v == Event("DISCONNECT", 0, m.own, NoByte)
<1>1. v \in Occurrences /\ v.type = "DISCONNECT" /\ v.ch = 0 /\ v.own = m.own
  <2>1. m.own \in Owners /\ 0 \in 0..MaxSlots
    BY ReceiveFacts, Numbering
  <2>2. "DISCONNECT" \in EventTypes
    BY DEF EventTypes
  <2> QED BY <2>1, <2>2, EventTyped, NoByteTyped
<1> HIDE DEF v
<1>2. /\ Types /\ Len(net) > 0 /\ Drops(net', net) /\ About(L, at, st, m)
      /\ Grounds(L, H, at, st, net, events) /\ Agreed(L, H, at, st, net, events)
      /\ Extends(events', events, v) /\ events' \in Seq(Occurrences)
  BY <1>1, ReceiveFacts DEF v
<1>3. v.own = Shell
  BY <1>1, <1>2 DEF About
<1> HIDE DEF L, H, at, st
<1>4. Agreed(L, H, at, st, net', events')
  BY <1>1, <1>2, <1>3, Breaking
<1>5. Alike(World', World)
  BY <1>2, AlikeChain DEF World, Types
<1> QED
  BY <1>2, <1>4, <1>5, AlikeKeeps DEF L, H, at, st

\* The server's answer to an OPEN, and its room: the channel is whose it was.
LEMMA ConfirmedAlike ==
    ASSUME World \in Worlds, NEW i \in Slots, chan[i].st # "FREE"
    PROVE  Alike(Confirmed([chan |-> [chan EXCEPT ![i] = [@ EXCEPT !.st = "OPEN", !.win = SvWindow]],
                            sv |-> sv], i), World)
<1> DEFINE d == [chan[i] EXCEPT !.st = "OPEN", !.win = SvWindow]
           w == [World EXCEPT !.chan[i] = d]
<1>1. /\ World.chan = chan /\ World = [chan |-> chan, sv |-> sv] /\ i \in 0..MaxSlots
      /\ chan[i] \in AChan /\ Len(chan[i].out) <= Backlog
  BY Worldly, Numbering DEF World, Worlds
<1>2. d \in AChan /\ d.own = chan[i].own /\ d.st = "OPEN" /\ d.close = chan[i].close
      /\ d.out = chan[i].out
  BY <1>1, Limits DEF AChan
<1>3. w = [chan |-> [chan EXCEPT ![i] = [@ EXCEPT !.st = "OPEN", !.win = SvWindow]], sv |-> sv]
  BY <1>1
<1> HIDE DEF d
<1>4. Alike(w, World) /\ w \in Worlds
  BY <1>1, <1>2, TouchAlike DEF Alike
<1> HIDE DEF w
<1>5. Alike(Confirmed(w, i), World)
  BY <1>1, <1>4, ConfirmAlike, AlikeChain
<1> QED
  BY <1>3, <1>5

LEMMA AdjustedAlike ==
    ASSUME World \in Worlds, NEW i \in Slots, chan[i].st # "FREE", NEW n \in Nat
    PROVE  Alike(chan_flush([World EXCEPT !.chan[i].win = @ + n], i), World)
<1> DEFINE d == [chan[i] EXCEPT !.win = chan[i].win + n]
           w == [World EXCEPT !.chan[i] = d]
<1>1. /\ World.chan = chan /\ World = [chan |-> chan, sv |-> sv] /\ i \in 0..MaxSlots
      /\ chan[i] \in AChan /\ Len(chan[i].out) <= Backlog
  BY Worldly, Numbering DEF World, Worlds
<1>2. d \in AChan /\ d.own = chan[i].own /\ d.st = chan[i].st /\ d.close = chan[i].close
      /\ d.out = chan[i].out
  <2>1. chan[i].win + n \in Nat
    BY <1>1 DEF AChan
  <2> QED BY <1>1, <2>1 DEF AChan
<1>3. w = [World EXCEPT !.chan[i].win = @ + n]
  BY <1>1
<1> HIDE DEF d
<1>4. Alike(w, World) /\ w \in Worlds
  BY <1>1, <1>2, TouchAlike DEF Alike
<1> HIDE DEF w
<1>5. Alike(chan_flush(w, i), World)
  BY <1>1, <1>4, FlushAlike, AlikeChain
<1> QED
  BY <1>3, <1>5

LEMMA ReceiveKeeps ==
    ASSUME IInv, Receive
    PROVE  IInv'
<1> DEFINE m == Head(net)
           i == m.ch
           open == [chan EXCEPT ![i] = [@ EXCEPT !.st = "OPEN", !.win = SvWindow]]
<1>1. /\ Types /\ m \in Messages /\ m.own \in Owners /\ m.ch \in 0..MaxSlots
      /\ About(EngagedIn(chan), PlacesIn(sv), StandingsIn(sv), m)
      /\ chan \in [Slots -> AChan] /\ sv \in [Owners -> AServed]
  BY ReceiveFacts
<1>2. World \in Worlds /\ World.chan = chan /\ World.sv = sv /\ World = [chan |-> chan, sv |-> sv]
  BY <1>1 DEF Types, World
<1>3. m.type \notin {"X11_OPEN", "DISCONNECT"} =>
         i \in Slots /\ chan[i].st # "FREE" /\ chan[i].own = m.own /\ chan[i] \in AChan
         /\ Len(chan[i].out) <= Backlog
  <2>1. m.type \notin {"X11_OPEN", "DISCONNECT"} => <<m.own, i>> \in EngagedIn(chan)
    BY <1>1 DEF About
  <2> QED BY <1>1, <1>2, <2>1, Pairing DEF Worlds
<1>4. CASE m.type = "X11_OPEN" /\ find_free_chan = 0
  BY <1>4, RefusesKeeps DEF Receive
<1>5. CASE m.type = "X11_OPEN" /\ find_free_chan # 0
  <2>1. find_free_chan \in Slots /\ chan[find_free_chan].st = "FREE"
    BY <1>1, <1>5, FreeFound
  <2>2. /\ chan' = [chan EXCEPT ![find_free_chan] =
                      [FreeChan EXCEPT !.st = "OPEN", !.own = m.own, !.win = SvWindow]]
        /\ sv' = [sv EXCEPT ![m.own] = [sv[m.own] EXCEPT !.st = "open", !.slot = find_free_chan]]
        /\ Push(<<Event("X11_OPEN", find_free_chan, m.own, NoByte)>>)
    BY <1>5 DEF Receive
  <2> HIDE DEF m
  <2> QED BY <1>5, <2>1, <2>2, AcceptsKeeps DEF m
<1>6. CASE m.type = "DISCONNECT"
  BY <1>6, BreakingKeeps DEF Receive
<1>7. CASE m.type \notin {"X11_OPEN", "DISCONNECT"}
  <2>1. i \in Slots /\ i \in 0..MaxSlots /\ chan[i].st # "FREE" /\ chan[i] \in AChan
        /\ Len(chan[i].out) <= Backlog
    BY <1>1, <1>3, <1>7
  <2>2. \/ /\ m.type = "OPEN_CONFIRM"
           /\ Push(<<Event("OPEN", i, m.own, NoByte)>>)
           /\ Becomes(Confirmed([chan |-> open, sv |-> sv], i))
        \/ /\ m.type = "OPEN_FAIL"
           /\ Push(<<Event("OPEN_FAILED", i, m.own, NoByte)>>)
           /\ chan' = [chan EXCEPT ![i] = FreeChan]
           /\ UNCHANGED sv
        \/ /\ m.type = "WINDOW_ADJ"
           /\ Becomes(chan_flush([World EXCEPT !.chan[i].win = @ + m.n], i))
           /\ UNCHANGED events
        \/ /\ m.type \in {"DATA", "EOF", "SUCCESS", "FAILURE"}
           /\ Push(<<Event(m.type, i, m.own, <<m.own, m.n>>)>>)
           /\ UNCHANGED <<chan, sv>>
        \/ /\ m.type = "CLOSE"
           /\ Push(<<Event("CLOSE", i, m.own, NoByte)>>)
           /\ chan' = [chan EXCEPT ![i] = FreeChan]
           /\ sv' = [sv EXCEPT ![m.own].close = TRUE]
    BY <1>7, <2>1 DEF Receive
  <2>3. ASSUME NEW type \in EventTypes, NEW b \in Bytes
        PROVE  /\ Event(type, i, m.own, b) \in Occurrences
               /\ Event(type, i, m.own, b).type = type /\ Event(type, i, m.own, b).ch = i
               /\ Event(type, i, m.own, b).own = m.own
    BY <1>1, <2>1, EventTyped
  <2>4. CASE /\ m.type = "OPEN_CONFIRM"
             /\ Push(<<Event("OPEN", i, m.own, NoByte)>>)
             /\ Becomes(Confirmed([chan |-> open, sv |-> sv], i))
    <3> DEFINE v == Event("OPEN", i, m.own, NoByte)
    <3>6. Alike(World', World)
      <4>1. Alike(Confirmed([chan |-> open, sv |-> sv], i), World)
        <5> HIDE DEF i
        <5> QED BY <1>2, <2>1, ConfirmedAlike
      <4>2. Becomes(Confirmed([chan |-> open, sv |-> sv], i))
        BY <2>4
      <4> HIDE DEF open, i
      <4> QED BY <4>1, <4>2, Worldly DEF Alike
    <3>7. v \in Occurrences /\ v.type = "OPEN" /\ v.ch = i /\ v.own = m.own
      <4>1. "OPEN" \in EventTypes
        BY DEF EventTypes
      <4> QED BY <2>3, <4>1, NoByteTyped
    <3>8. Push(<<v>>) /\ m.type \notin Parting /\ v.type \notin Final
          /\ v.type \notin {"X11_OPEN", "DISCONNECT"}
      BY <2>4, <3>7 DEF Parting, Final
    <3> HIDE DEF v
    <3> QED BY <1>7, <3>6, <3>7, <3>8, GoesOnKeeps
  <2>5. CASE /\ m.type = "OPEN_FAIL"
             /\ Push(<<Event("OPEN_FAILED", i, m.own, NoByte)>>)
             /\ chan' = [chan EXCEPT ![i] = FreeChan]
             /\ UNCHANGED sv
    <3> DEFINE v == Event("OPEN_FAILED", i, m.own, NoByte)
    <3>1. v \in Occurrences /\ v.type = "OPEN_FAILED" /\ v.ch = i /\ v.own = m.own
      <4>1. "OPEN_FAILED" \in EventTypes
        BY DEF EventTypes
      <4> QED BY <2>3, <4>1, NoByteTyped
    <3>2. Push(<<v>>) /\ m.type \in Parting /\ v.type \in Final
      BY <2>5, <3>1 DEF Parting, Final
    <3>3. sv' \in [Owners -> AServed] /\ \A o \in Owners : sv'[o].slot = sv[o].slot /\ sv'[o].st = sv[o].st
      BY <1>1, <2>5
    <3> HIDE DEF v
    <3> QED BY <2>5, <3>1, <3>2, <3>3, FreedKeeps
  <2>6. CASE /\ m.type = "WINDOW_ADJ"
             /\ Becomes(chan_flush([World EXCEPT !.chan[i].win = @ + m.n], i))
             /\ UNCHANGED events
    <3>5. m.n \in Nat /\ events' = events
      BY <1>1, <2>6 DEF Messages
    <3>6. Alike(World', World)
      <4> HIDE DEF m
      <4> QED BY <1>2, <2>1, <2>6, <3>5, AdjustedAlike, Worldly DEF Alike
    <3> QED BY <3>5, <3>6, PassesKeeps
  <2>7. CASE /\ m.type \in {"DATA", "EOF", "SUCCESS", "FAILURE"}
             /\ Push(<<Event(m.type, i, m.own, <<m.own, m.n>>)>>)
             /\ UNCHANGED <<chan, sv>>
    <3> DEFINE b == <<m.own, m.n>>
               v == Event(m.type, i, m.own, b)
    <3>1. b \in Bytes
      <4>1. m.n \in 0..MaxBytes
        BY <1>1, <2>7, Limits DEF Messages
      <4> QED BY <1>1, <4>1 DEF Bytes
    <3> HIDE DEF b
    <3>2. v \in Occurrences /\ v.type = m.type /\ v.ch = i /\ v.own = m.own
      <4>1. m.type \in EventTypes
        BY <2>7 DEF EventTypes
      <4> QED BY <2>3, <3>1, <4>1
    <3>3. Push(<<v>>) /\ m.type \notin Parting /\ v.type \notin Final
          /\ v.type \notin {"X11_OPEN", "DISCONNECT"}
      BY <2>7, <3>2 DEF Parting, Final, b
    <3>4. Alike(World', World)
      BY <1>2, <2>7, AlikeChain DEF World
    <3> HIDE DEF v
    <3> QED BY <1>7, <3>2, <3>3, <3>4, GoesOnKeeps
  <2>8. CASE /\ m.type = "CLOSE"
             /\ Push(<<Event("CLOSE", i, m.own, NoByte)>>)
             /\ chan' = [chan EXCEPT ![i] = FreeChan]
             /\ sv' = [sv EXCEPT ![m.own].close = TRUE]
    <3> DEFINE v == Event("CLOSE", i, m.own, NoByte)
               r == [sv[m.own] EXCEPT !.close = TRUE]
    <3>1. v \in Occurrences /\ v.type = "CLOSE" /\ v.ch = i /\ v.own = m.own
      <4>1. "CLOSE" \in EventTypes
        BY DEF EventTypes
      <4> QED BY <2>3, <4>1, NoByteTyped
    <3>2. Push(<<v>>) /\ m.type \in Parting /\ v.type \in Final /\ v.type # "OPEN_FAILED"
      BY <2>8, <3>1 DEF Parting, Final
    <3>3. sv' \in [Owners -> AServed] /\ \A o \in Owners : sv'[o].slot = sv[o].slot /\ sv'[o].st = sv[o].st
      <4>1. sv[m.own] \in AServed /\ sv' = [sv EXCEPT ![m.own] = r]
        BY <1>1, <2>8
      <4>2. r \in AServed /\ r.slot = sv[m.own].slot /\ r.st = sv[m.own].st
        BY <4>1 DEF AServed
      <4> HIDE DEF r
      <4> QED BY <1>1, <4>1, <4>2
    <3> HIDE DEF v
    <3> QED BY <2>8, <3>1, <3>2, <3>3, FreedKeeps
  <2> QED BY <2>2, <2>4, <2>5, <2>6, <2>7, <2>8
<1> QED
  BY <1>4, <1>5, <1>6, <1>7

-----------------------------------------------------------------------------
(* The invariant of the session *)

LEMMA Stutters ==
    ASSUME IInv, vars' = vars
    PROVE  IInv'
<1>1. /\ app' = app /\ tun' = tun /\ chan' = chan /\ events' = events /\ phase' = phase /\ todo' = todo
      /\ net' = net /\ sv' = sv /\ peer' = peer /\ hist' = hist /\ left' = left
  BY DEF vars
<1>2. World' = World /\ Active' = Active /\ Tracked' = Tracked
  BY <1>1 DEF World, Active, Tracked
<1>3. Ownership' = Ownership
  BY <1>1, <1>2 DEF Ownership
<1>4. Types'
  BY <1>1, <1>2 DEF IInv, Types
<1>5. Phases'
  BY <1>1, <1>2 DEF IInv, Phases
<1> QED
  BY <1>2, <1>3, <1>4, <1>5 DEF IInv

LEMMA NextKeeps ==
    ASSUME IInv, Next
    PROVE  IInv'
<1>1. CASE App
  BY <1>1, ReceiveKeeps, HandleKeeps, PumpBeginsKeeps, PumpKeeps DEF App
<1>2. CASE User
  BY <1>2, SendBytesKeeps, openFileBrowserKeeps, browserClosedKeeps, SftpJobKeeps, addForwardKeeps,
     removeForwardKeeps, EndsKeeps DEF User
<1>3. CASE Programs
  BY <1>3, ProgramsKeep
<1>4. CASE Server
  BY <1>4, ServerKeeps, SvOpensX11Keeps, SvDisconnectsKeeps DEF Server
<1> QED
  BY <1>1, <1>2, <1>3, <1>4 DEF Next

\* In every state the fields are what they are declared to be, the loop is where it may be,
\* and, as long as the session lasts, the engine's table, the ids the application holds, the
\* server's messages and the events not taken agree on whose every channel is (Ownership).
THEOREM SessionInvariant == Spec => []IInv
<1>1. IInv /\ [Next]_vars => IInv'
  BY NextKeeps, Stutters
<1> QED
  BY <1>1, Begun, PTL DEF Spec

-----------------------------------------------------------------------------
(* Whom a browser's close is heard by *)

\* As long as no sftpClosing is left from a channel refused, a browser's channel that is
\* being closed, or whose window is gone, has had its close asked for.
Answered(a, c, stale) ==
    ~stale => /\ a.sftpClosing => a.sftpChannel # 0
              /\ a.sftpChannel # 0 /\ (a.sftpClosing \/ a.browser = 0) =>
                    LET i == a.sftpChannel
                    IN  c[i].st = "FREE" \/ c[i].own # <<"sftp", a.opened>> \/ c[i].close
BrowserAnswered == Active => Answered(app, chan, hist.stale)

SameBrowser(b, a) == /\ b.sftpChannel = a.sftpChannel /\ b.sftpClosing = a.sftpClosing
                     /\ b.browser = a.browser /\ b.opened = a.opened
\* Of table c came d: a channel in use is a tunnel's, or was its owner's before, and no
\* close was taken back.
Kept(d, c) == \A i \in Slots : \/ d[i].st = "FREE" \/ d[i].own \in Tunnels
                               \/ c[i].st # "FREE" /\ d[i].own = c[i].own /\ (c[i].close => d[i].close)

LEMMA NoTunnels == \A n : <<"sftp", n>> \notin Tunnels
BY DEF Tunnels, Conns, Displays

LEMMA AlikeKept ==
    ASSUME NEW v, NEW w, Alike(v, w)
    PROVE  Kept(v.chan, w.chan)
BY DEF Alike, Kept

LEMMA KeptAnswers ==
    ASSUME NEW a, NEW b, NEW c, NEW d, NEW f, a.sftpChannel \in 0..MaxSlots,
           SameBrowser(b, a), Kept(d, c), Answered(a, c, f)
    PROVE  Answered(b, d, f)
<1>1. a.sftpChannel # 0 => a.sftpChannel \in Slots
  BY Numbering
<1> QED
  BY <1>1, NoTunnels DEF Answered, Kept, SameBrowser

\* After closeSFTPChannel a browser without a window, too, has had its close asked for.
LEMMA CloseAnswers ==
    ASSUME NEW a \in AnApp, NEW w \in Worlds, NEW f,
           ~f => /\ a.sftpClosing => a.sftpChannel # 0
                 /\ a.sftpClosing =>
                       LET i == a.sftpChannel
                       IN  w.chan[i].st = "FREE" \/ w.chan[i].own # <<"sftp", a.opened>> \/ w.chan[i].close
    PROVE  Answered(closeSFTPChannel(a, w).app, closeSFTPChannel(a, w).w.chan, f)
<1> DEFINE b == [a EXCEPT !.sftpClosing = TRUE]
           i == a.sftpChannel
           v == ssh_channel_close(w, i)
<1>1. i \in 0..MaxSlots
  BY DEF AnApp
<1>2. b.sftpChannel = i /\ b.sftpClosing /\ b.opened = a.opened
  BY DEF AnApp
<1>3. closeSFTPChannel(a, w) = IF i = 0 \/ a.sftpClosing THEN [app |-> a, w |-> w] ELSE [app |-> b, w |-> v]
  BY DEF closeSFTPChannel
<1>4. i # 0 /\ w.chan[i].st # "FREE" => v.chan[i].close
  BY <1>1, CloseAlike
<1>5. i # 0 /\ w.chan[i].st = "FREE" => v.chan[i].st = "FREE"
  <2>1. Alike(v, w) /\ (i # 0 => i \in Slots)
    BY <1>1, CloseAlike, Numbering
  <2> QED BY <2>1 DEF Alike
<1> HIDE DEF b, v
<1>6. CASE i = 0 \/ a.sftpClosing
  BY <1>3, <1>6 DEF Answered
<1>7. CASE ~(i = 0 \/ a.sftpClosing)
  BY <1>2, <1>3, <1>4, <1>5, <1>7 DEF Answered
<1> QED
  BY <1>6, <1>7

LEMMA FlushesSame ==
    ASSUME NEW a \in AnApp, NEW w
    PROVE  SameBrowser(flushSFTP(a, w).app, a) /\ SameBrowser(flushPending(a, w).app, a)
<1>1. \A r : SameBrowser([a EXCEPT !.sftpOut = r], a) /\ SameBrowser([a EXCEPT !.pendingIn = r], a)
  BY DEF SameBrowser, AnApp
<1>2. SameBrowser(a, a)
  BY DEF SameBrowser
<1> QED
  BY <1>1, <1>2 DEF flushSFTP, flushPending

LEMMA SameChain ==
    ASSUME NEW a, NEW b, NEW c, SameBrowser(c, b), SameBrowser(b, a)
    PROVE  SameBrowser(c, a)
BY DEF SameBrowser

\* What leaves the browser's fields as they are, and no close taken back.
LEMMA AnsweredStays ==
    ASSUME IInv, BrowserAnswered, Active, SameBrowser(app', app), Kept(chan', chan),
           hist'.stale = hist.stale
    PROVE  BrowserAnswered'
<1>1. app.sftpChannel \in 0..MaxSlots
  BY DEF IInv, Types, AnApp
<1>2. Answered(app, chan, hist.stale)
  BY DEF BrowserAnswered
<1>3. Answered(app', chan', hist.stale)
  BY <1>1, <1>2, KeptAnswers
<1> QED
  BY <1>3 DEF BrowserAnswered

\* The engine is told something by the application, about no browser's close.
LEMMA AnsweredServes ==
    ASSUME IInv, BrowserAnswered, Active, NEW r, AppBecomes(r), SameBrowser(r.app, app),
           Alike(r.w, World), hist'.stale = hist.stale
    PROVE  BrowserAnswered'
<1>1. Kept(r.w.chan, chan) /\ app' = r.app /\ chan' = r.w.chan
  BY AlikeKept, Worldly DEF AppBecomes, Becomes
<1> QED
  BY <1>1, AnsweredStays

LEMMA AnsweredRests ==
    ASSUME IInv, BrowserAnswered, app' = app, chan' = chan, hist'.stale = hist.stale
    PROVE  BrowserAnswered'
BY DEF BrowserAnswered, Active

LEMMA SameKept == Kept(chan, chan)
BY DEF Kept

LEMMA AsksSame ==
    ASSUME NEW a \in AnApp, NEW b
    PROVE  SameBrowser(Asks(a, b), a)
BY DEF Asks, SameBrowser, AnApp

LEMMA EndAnswers ==
    ASSUME app \in AnApp, endWithMessage
    PROVE  BrowserAnswered'
<1>1. app'.state = "ended"
  BY DEF endWithMessage, Ended, AnApp
<1> QED
  BY <1>1 DEF BrowserAnswered, Active

LEMMA StaleAsked ==
    ASSUME hist \in AHistory, NEW b \in Browsers, Asked(b)
    PROVE  hist'.stale = hist.stale
BY DEF Asked, AHistory

LEMMA UserAnswered ==
    ASSUME IInv, BrowserAnswered, User
    PROVE  BrowserAnswered'
<1>1. app \in AnApp /\ World \in Worlds /\ hist \in AHistory /\ World.chan = chan
  BY Worldly DEF IInv, Types
<1>2. CASE SendBytes
  <2> DEFINE a == [app EXCEPT !.pendingIn = Append(app.pendingIn, Byte(Shell, hist.typed + 1))]
             r == flushPending(a, World)
  <2>1. Active /\ AppBecomes(r) /\ hist'.stale = hist.stale
    BY <1>1, <1>2 DEF SendBytes, Idle, AHistory
  <2>2. a \in AnApp /\ SameBrowser(a, app)
    <3>1. hist.typed + 1 \in Nat /\ app.pendingIn \in Seq(Units)
      BY <1>1 DEF AHistory, AnApp
    <3>2. Byte(Shell, hist.typed + 1) \in Units
      BY <3>1, Owning DEF Byte, Units
    <3>3. Append(app.pendingIn, Byte(Shell, hist.typed + 1)) \in Seq(Units)
      BY <3>1, <3>2, Queues
    <3> QED BY <1>1, <3>3 DEF AnApp, SameBrowser
  <2> HIDE DEF a
  <2>3. SameBrowser(r.app, app) /\ Alike(r.w, World)
    BY <1>1, <2>2, FlushesSame, SteadyPending, SameChain
  <2> HIDE DEF r
  <2> QED BY <2>1, <2>3, AnsweredServes
<1>3. CASE openFileBrowser
  <2>1. /\ Active /\ app.sftpChannel = 0 /\ app'.browser = app.opened + 1
        /\ app'.sftpClosing = app.sftpClosing /\ hist' = hist
    <3> DEFINE a == [app EXCEPT !.browser = app.opened + 1, !.opened = app.opened + 1,
                                !.sftpChannel = find_free_chan]
    <3>1. app' = a /\ Active /\ app.sftpChannel = 0 /\ hist' = hist
      BY <1>3 DEF openFileBrowser, AppBecomes, Idle
    <3>2. a.browser = app.opened + 1 /\ a.sftpClosing = app.sftpClosing
      BY <1>1 DEF AnApp
    <3> QED BY <3>1, <3>2
  <2>2. app'.browser # 0
    BY <1>1, <2>1, Limits DEF AnApp
  <2>3. hist'.stale \/ ~app'.sftpClosing
    BY <2>1 DEF BrowserAnswered, Answered
  <2> QED BY <2>2, <2>3 DEF BrowserAnswered, Answered
<1>4. CASE browserClosed
  <2> DEFINE a == [app EXCEPT !.browser = 0]
             r == closeSFTPChannel(a, World)
  <2>1. Active /\ app' = r.app /\ chan' = r.w.chan /\ hist' = hist
    BY <1>4 DEF browserClosed, AppBecomes, Becomes, Idle
  <2>2. a \in AnApp /\ a.sftpChannel = app.sftpChannel /\ a.sftpClosing = app.sftpClosing
        /\ a.opened = app.opened
    BY <1>1 DEF AnApp
  <2> HIDE DEF a
  <2>3. Answered(r.app, r.w.chan, hist.stale)
    BY <1>1, <2>1, <2>2, CloseAnswers DEF BrowserAnswered, Answered
  <2> HIDE DEF r
  <2> QED BY <2>1, <2>3 DEF BrowserAnswered
<1>5. CASE SftpJob
  <2> DEFINE b == <<"sftp", app.browser>>
             a == Asks(app, b)
             r == flushSFTP(a, World)
  <2>1. Active /\ AppBecomes(r) /\ b \in Browsers /\ Asked(b)
    BY <1>5 DEF SftpJob, Idle, MayAsk
  <2>2. hist'.stale = hist.stale
    BY <1>1, <2>1, StaleAsked
  <2> HIDE DEF b
  <2>3. a \in AnApp /\ SameBrowser(a, app)
    BY <1>1, <2>1, AsksSame, SteadyAsks DEF Steady
  <2> HIDE DEF a
  <2>4. SameBrowser(r.app, app) /\ Alike(r.w, World)
    BY <1>1, <2>3, FlushesSame, SteadySftp, SameChain
  <2> HIDE DEF r
  <2> QED BY <2>1, <2>2, <2>4, AnsweredServes
<1>6. CASE addForward
  <2>1. Active /\ SameBrowser(app', app) /\ chan' = chan /\ hist' = hist
    BY <1>1, <1>6 DEF addForward, Idle, SameBrowser, AnApp
  <2> QED BY <2>1, AnsweredStays, SameKept
<1>7. CASE removeForward
  <2>1. Active /\ SameBrowser(app', app) /\ chan' = chan /\ hist'.stale = hist.stale
    BY <1>1, <1>7 DEF removeForward, Idle, SameBrowser, AnApp, AHistory
  <2> QED BY <2>1, AnsweredStays, SameKept
<1>8. CASE Ends
  BY <1>1, <1>8, EndAnswers DEF Ends
<1> QED
  BY <1>2, <1>3, <1>4, <1>5, <1>6, <1>7, <1>8 DEF User

LEMMA SftpAnswered ==
    ASSUME IInv, BrowserAnswered, Active, NEW e, SftpEvent(e), <<"sftp", app.opened>> \in Browsers
    PROVE  BrowserAnswered'
<1> DEFINE b == <<"sftp", app.opened>>
           here == [app |-> app, w |-> World]
           asks == [app EXCEPT !.sftpCore = TRUE]
           none == <<>>
           refused == [app EXCEPT !.sftpChannel = 0]
           gone == [app EXCEPT !.sftpChannel = 0, !.sftpClosing = FALSE, !.sftpCore = FALSE, !.sftpOut = none]
<1>1. /\ app \in AnApp /\ World \in Worlds /\ hist \in AHistory /\ World.chan = chan
      /\ Answered(app, chan, hist.stale) /\ SameBrowser(app, app) /\ app.sftpChannel \in 0..MaxSlots
  BY Worldly DEF IInv, Types, BrowserAnswered, SameBrowser, AnApp
<1>2. \/ AppBecomes([here EXCEPT !.w = ChannelRequest(World, app.sftpChannel)]) /\ hist' = hist
      \/ AppBecomes([here EXCEPT !.app.sftpChannel = 0]) /\ hist' = [hist EXCEPT !.stale = app.sftpClosing]
      \/ AppBecomes(closeSFTPChannel(app, World)) /\ hist' = hist
      \/ AppBecomes(flushSFTP(Asks(asks, b), World)) /\ Asked(b)
      \/ AppBecomes(flushSFTP(app, World)) /\ hist' = hist
      \/ AppBecomes(flushSFTP(Asks(app, b), World)) /\ Asked(b)
      \/ AppBecomes([here EXCEPT !.app = gone]) /\ hist' = [hist EXCEPT !.stale = FALSE]
      \/ UNCHANGED <<app, chan, hist>>
  BY DEF SftpEvent
<1>3. CASE AppBecomes([here EXCEPT !.w = ChannelRequest(World, app.sftpChannel)]) /\ hist' = hist
  <2> DEFINE r == [here EXCEPT !.w = ChannelRequest(World, app.sftpChannel)]
  <2>1. r.app = app /\ r.w = ChannelRequest(World, app.sftpChannel)
    OBVIOUS
  <2>2. Alike(ChannelRequest(World, app.sftpChannel), World)
    BY <1>1, RequestAlike
  <2> HIDE DEF r
  <2> QED BY <1>1, <1>3, <2>1, <2>2, AnsweredServes DEF r
<1>4. CASE AppBecomes([here EXCEPT !.app.sftpChannel = 0]) /\ hist' = [hist EXCEPT !.stale = app.sftpClosing]
  <2>1. app' = refused
    BY <1>4 DEF AppBecomes
  <2>2. app'.sftpChannel = 0 /\ app'.sftpClosing = app.sftpClosing
    BY <1>1, <2>1 DEF AnApp
  <2>3. hist'.stale = app.sftpClosing
    BY <1>1, <1>4 DEF AHistory
  <2> QED BY <2>2, <2>3 DEF BrowserAnswered, Answered
<1>5. CASE AppBecomes(closeSFTPChannel(app, World)) /\ hist' = hist
  <2> DEFINE r == closeSFTPChannel(app, World)
  <2>1. Answered(r.app, r.w.chan, hist.stale)
    BY <1>1, CloseAnswers DEF Answered
  <2>2. app' = r.app /\ chan' = r.w.chan /\ hist' = hist
    BY <1>5 DEF AppBecomes, Becomes
  <2> HIDE DEF r
  <2> QED BY <2>1, <2>2 DEF BrowserAnswered
<1>6. ASSUME NEW a, a \in AnApp, SameBrowser(a, app),
             AppBecomes(flushSFTP(a, World)), hist'.stale = hist.stale
      PROVE  BrowserAnswered'
  <2> DEFINE r == flushSFTP(a, World)
  <2>1. SameBrowser(r.app, app)
    BY <1>6, FlushesSame, SameChain
  <2>2. Alike(r.w, World)
    BY <1>1, <1>6, SteadySftp
  <2> HIDE DEF r
  <2> QED BY <1>6, <2>1, <2>2, AnsweredServes DEF r
<1>7. asks \in AnApp /\ SameBrowser(asks, app)
  BY <1>1 DEF AnApp, SameBrowser
<1>8. ASSUME NEW a, a \in AnApp, SameBrowser(a, app)
      PROVE  Asks(a, b) \in AnApp /\ SameBrowser(Asks(a, b), app)
  BY <1>1, <1>8, AsksSame, SteadyAsks, SameChain DEF Steady
<1> HIDE DEF b, here, asks
<1>9. CASE AppBecomes(flushSFTP(Asks(asks, b), World)) /\ Asked(b)
  <2>1. hist'.stale = hist.stale
    BY <1>1, <1>9, StaleAsked DEF b
  <2> QED BY <1>6, <1>7, <1>8, <1>9, <2>1
<1>10. CASE AppBecomes(flushSFTP(app, World)) /\ hist' = hist
  BY <1>1, <1>6, <1>10
<1>11. CASE AppBecomes(flushSFTP(Asks(app, b), World)) /\ Asked(b)
  <2>1. hist'.stale = hist.stale
    BY <1>1, <1>11, StaleAsked DEF b
  <2> QED BY <1>1, <1>6, <1>8, <1>11, <2>1
<1>12. CASE AppBecomes([here EXCEPT !.app = gone]) /\ hist' = [hist EXCEPT !.stale = FALSE]
  <2>1. app' = gone
    BY <1>12 DEF AppBecomes, here
  <2> HIDE DEF none
  <2>2. app'.sftpChannel = 0 /\ ~app'.sftpClosing
    BY <1>1, <2>1 DEF AnApp
  <2> QED BY <2>2 DEF BrowserAnswered, Answered
<1>13. CASE UNCHANGED <<app, chan, hist>>
  BY <1>13, AnsweredRests
<1> QED
  BY <1>2, <1>3, <1>4, <1>5, <1>9, <1>10, <1>11, <1>12, <1>13

LEMMA HandleAnswered ==
    ASSUME IInv, BrowserAnswered, Handle
    PROVE  BrowserAnswered'
<1> DEFINE e == Head(events)
<1>1. app \in AnApp /\ World \in Worlds /\ hist \in AHistory /\ World.chan = chan /\ Active
  BY Worldly DEF IInv, Types, Handle
<1>2. \/ \E k \in Tunnels : TunnelEvent(e, k)
      \/ DialDisplay(e)
      \/ app.sftpChannel # 0 /\ SftpEvent(e)
      \/ ShellEvent(e)
  BY DEF Handle, ForwardOf, DisplayOf, Conns, Displays, Tunnels
<1> HIDE DEF e
<1>3. CASE (\E k \in Tunnels : TunnelEvent(e, k)) \/ DialDisplay(e)
  <2>1. app' = app /\ chan' = chan /\ hist' = hist
    BY <1>3 DEF TunnelEvent, DialDisplay, Keep
  <2> QED BY <2>1, AnsweredRests
<1>4. CASE app.sftpChannel # 0 /\ SftpEvent(e)
  <2>1. app.opened > 0 /\ app.opened \in 0..MaxSftp
    BY <1>1, <1>4 DEF IInv, Ownership, Owned, AnApp
  <2>2. <<"sftp", app.opened>> \in Browsers
    BY <2>1, Limits DEF Browsers
  <2> QED BY <1>1, <1>4, <2>2, SftpAnswered
<1>5. CASE ShellEvent(e)
  <2>1. \A s : Hears(e).stale = hist.stale /\ [Hears(e) EXCEPT !.shown = s].stale = hist.stale
    BY <1>1 DEF Hears, AHistory
  <2>2. CASE endWithMessage
    BY <1>1, <2>2, EndAnswers
  <2>3. CASE ~endWithMessage
    <3>1. hist'.stale = hist.stale
      BY <1>5, <2>1, <2>3 DEF ShellEvent
    <3>2. \/ Becomes(ChannelRequest(World, app.channel)) /\ app' = [app EXCEPT !.x11_active = left.x11 > 0]
          \/ app' = app /\ chan' = chan
      BY <1>5, <2>3 DEF ShellEvent
    <3>3. CASE app' = app /\ chan' = chan
      BY <3>1, <3>3, AnsweredRests
    <3>4. CASE Becomes(ChannelRequest(World, app.channel)) /\ app' = [app EXCEPT !.x11_active = left.x11 > 0]
      <4>1. app.channel \in 0..MaxSlots
        BY <1>1, Numbering, SessionAssumption DEF AnApp
      <4>2. Kept(chan', chan)
        BY <1>1, <3>4, <4>1, RequestAlike, AlikeKept DEF Becomes
      <4>3. SameBrowser(app', app)
        BY <1>1, <3>4 DEF SameBrowser, AnApp
      <4> QED BY <1>1, <3>1, <4>2, <4>3, AnsweredStays
    <3> QED BY <3>2, <3>3, <3>4
  <2> QED BY <2>2, <2>3
<1> QED
  BY <1>2, <1>3, <1>4, <1>5

LEMMA PumpsAnswered ==
    ASSUME IInv, BrowserAnswered, PumpBegins \/ \E k \in Tunnels : Pump(k)
    PROVE  BrowserAnswered'
<1>1. /\ app \in AnApp /\ World \in Worlds /\ World.chan = chan /\ chan \in [Slots -> AChan]
      /\ Types /\ Active
  BY Worldly DEF IInv, Types, PumpBegins, Pump, Worlds
<1>2. CASE PumpBegins
  <2> DEFINE p == flushPending(app, World)
             s == flushSFTP(p.app, p.w)
             k == CHOOSE first \in Waiting : \A other \in Waiting : first[2] <= other[2]
             i == find_free_chan
  <2>1. p.app \in AnApp /\ p.w \in Worlds /\ SameBrowser(p.app, app) /\ Alike(p.w, World)
    BY <1>1, FlushesSame, SteadyPending DEF Steady, Alike
  <2>2. s.w \in Worlds /\ SameBrowser(s.app, app) /\ Alike(s.w, World)
    <3> HIDE DEF p
    <3>1. SameBrowser(s.app, p.app) /\ Alike(s.w, p.w)
      BY <2>1, FlushesSame, SteadySftp
    <3> HIDE DEF s
    <3> QED BY <2>1, <3>1, SameChain, AlikeChain DEF Alike
  <2>3. /\ hist' = hist
        /\ \/ AppBecomes(s)
           \/ /\ Waiting # {} /\ i # 0
              /\ AppBecomes([s EXCEPT !.w = OpenChannel(s.w, i, k)])
    BY <1>2 DEF PumpBegins
  <2>4. s = [app |-> s.app, w |-> s.w]
    BY DEF flushSFTP
  <2> HIDE DEF s
  <2>5. CASE AppBecomes(s)
    BY <1>1, <2>2, <2>3, <2>5, AnsweredServes
  <2>6. CASE Waiting # {} /\ i # 0 /\ AppBecomes([s EXCEPT !.w = OpenChannel(s.w, i, k)])
    <3>1. k \in Waiting
      BY <2>6, FirstWaiting
    <3>2. i \in Slots /\ chan[i].st = "FREE"
      BY <1>1, <2>6, FreeFound
    <3> HIDE DEF k, i
    <3>3. k \in Owners /\ k \in Tunnels
      BY <3>1, Owning DEF Waiting, Tunnels
    <3>4. app' = s.app /\ chan' = OpenChannel(s.w, i, k).chan
      BY <2>4, <2>6 DEF AppBecomes, Becomes
    <3>5. s.w.chan[i].st = "FREE"
      BY <1>1, <2>2, <3>2 DEF Alike
    <3>6. /\ \A j \in Slots \ {i} : OpenChannel(s.w, i, k).chan[j] = s.w.chan[j]
          /\ OpenChannel(s.w, i, k).chan[i].own = k
      BY <2>2, <3>2, <3>3, <3>5, OpenPlaced
    <3>7. Kept(chan', chan)
      BY <1>1, <2>2, <3>3, <3>4, <3>6, AlikeKept DEF Kept
    <3> QED BY <1>1, <2>2, <2>3, <3>4, <3>7, AnsweredStays
  <2> QED BY <2>3, <2>5, <2>6
<1>3. ASSUME NEW k \in Tunnels, Pump(k) PROVE BrowserAnswered'
  <2>1. app' = app /\ hist' = hist /\ \E v : Alike(v, World) /\ Becomes(v)
    BY <1>3, PumpKeeps DEF Pump
  <2>2. Kept(chan', chan)
    BY <1>1, <2>1, AlikeKept DEF Becomes
  <2>3. SameBrowser(app', app)
    BY <2>1 DEF SameBrowser
  <2> QED BY <1>1, <2>1, <2>2, <2>3, AnsweredStays
<1> QED
  BY <1>2, <1>3

LEMMA ReceiveAnswered ==
    ASSUME IInv, BrowserAnswered, Receive
    PROVE  BrowserAnswered'
<1> DEFINE m == Head(net)
           i == m.ch
           open == [chan EXCEPT ![i] = [@ EXCEPT !.st = "OPEN", !.win = SvWindow]]
<1>1. /\ Types /\ Active /\ m \in Messages /\ m.own \in Owners
      /\ About(EngagedIn(chan), PlacesIn(sv), StandingsIn(sv), m)
      /\ chan \in [Slots -> AChan] /\ app' = app /\ hist' = hist
  BY ReceiveFacts DEF Received
<1>2. World \in Worlds /\ World.chan = chan
  BY <1>1, Worldly DEF Types
<1>3. ASSUME NEW v, Alike(v, World), Becomes(v) PROVE Kept(chan', chan)
  BY <1>2, <1>3, AlikeKept DEF Becomes
<1>4. ASSUME NEW j \in Slots, NEW d, chan' = [chan EXCEPT ![j] = d], d.st = "FREE" \/ d.own \in Tunnels
      PROVE  Kept(chan', chan)
  BY <1>1, <1>4 DEF Kept
<1>5. Kept(chan', chan)
  <2>1. CASE chan' = chan
    BY <2>1, SameKept
  <2>2. CASE m.type = "X11_OPEN" /\ find_free_chan # 0
    <3> DEFINE d == [FreeChan EXCEPT !.st = "OPEN", !.own = m.own, !.win = SvWindow]
    <3>1. find_free_chan \in Slots
      BY <1>1, <2>2, FreeFound
    <3>2. chan' = [chan EXCEPT ![find_free_chan] = d]
      BY <2>2 DEF Receive
    <3>3. m.own \in Tunnels
      BY <1>1, <2>2 DEF About, Tunnels
    <3>4. d.own \in Tunnels
      BY <3>3 DEF FreeChan
    <3> HIDE DEF d
    <3> QED BY <1>4, <3>1, <3>2, <3>4
  <2>3. CASE m.type \notin {"X11_OPEN", "DISCONNECT"} /\ chan' # chan
    <3>1. i \in Slots /\ chan[i].st # "FREE"
      BY <1>1, <2>3, Pairing DEF About
    <3>2. \/ /\ m.type = "OPEN_CONFIRM"
             /\ Becomes(Confirmed([chan |-> open, sv |-> sv], i))
          \/ chan' = [chan EXCEPT ![i] = FreeChan]
          \/ Becomes(chan_flush([World EXCEPT !.chan[i].win = @ + m.n], i))
      BY <2>3, <3>1 DEF Receive
    <3>3. FreeChan.st = "FREE"
      BY DEF FreeChan
    <3>4. /\ Alike(Confirmed([chan |-> open, sv |-> sv], i), World)
          /\ Alike(chan_flush([World EXCEPT !.chan[i].win = @ + m.n], i), World)
      <4>1. m.n \in Nat
        BY <1>1 DEF Messages
      <4> HIDE DEF m, i
      <4> QED BY <1>2, <3>1, <4>1, ConfirmedAlike, AdjustedAlike
    <3> HIDE DEF m, open
    <3> QED BY <1>3, <1>4, <3>1, <3>2, <3>3, <3>4
  <2> QED BY <2>1, <2>2, <2>3 DEF Receive
<1>6. SameBrowser(app', app)
  BY <1>1 DEF SameBrowser
<1> QED
  BY <1>1, <1>5, <1>6, AnsweredStays

\* The close of a browser is always heard, unless sftpClosing is left from a channel refused.
LEMMA BrowserHeard == Spec => []BrowserAnswered
<1>1. Init => BrowserAnswered
  BY DEF Init, BrowserAnswered, Answered
<1>2. IInv /\ BrowserAnswered /\ [Next]_vars => BrowserAnswered'
  <2> SUFFICES ASSUME IInv, BrowserAnswered, [Next]_vars PROVE BrowserAnswered'
    OBVIOUS
  <2>1. CASE App
    BY <2>1, ReceiveAnswered, HandleAnswered, PumpsAnswered DEF App
  <2>2. CASE User
    BY <2>2, UserAnswered
  <2>3. CASE Programs
    <3>1. app' = app /\ chan' = chan /\ hist' = hist
      BY <2>3 DEF Programs, Connect, PeerSends, PeerShuts, PeerGoes, Local
    <3> QED BY <3>1, AnsweredRests
  <2>4. CASE Server
    <3>1. app' = app /\ chan' = chan /\ hist' = hist
      BY <2>4 DEF Server, SvDisconnects, SvAnswersOpen, SvData, SvEof, SvCloses, SvReads, SvReplies,
         SvOpensX11, Remote
    <3> QED BY <3>1, AnsweredRests
  <2>5. CASE UNCHANGED vars
    BY <2>5, AnsweredRests DEF vars
  <2> QED BY <2>1, <2>2, <2>3, <2>4, <2>5 DEF Next
<1> QED
  BY <1>1, <1>2, SessionInvariant, PTL DEF Spec

-----------------------------------------------------------------------------
(* What the invariants say of the owners *)

LEMMA Typed ==
    ASSUME IInv
    PROVE  TypeOK
<1>1. Types /\ Phases
  BY DEF IInv
<1>2. /\ app.state \in {"active", "ended"}
      /\ app.channel \in 0..1 /\ app.sftpChannel \in 0..MaxSlots
      /\ app.browser \in {0, app.opened} /\ app.opened \in 0..MaxSftp
  BY <1>1 DEF Types, AnApp
<1>3. ASSUME NEW k \in Tunnels
      PROVE  /\ tun[k].st \in {"none", "tracked", "gone"}
             /\ tun[k].channel \in 0..MaxSlots
             /\ tun[k].outToLocal \in Seq(Bytes)
             /\ peer[k].st \in {"none", "open", "shut", "gone"}
  <2>1. tun[k] \in ATunnel /\ peer[k] \in APeer
    BY <1>1 DEF Types
  <2> QED BY <2>1 DEF ATunnel, APeer
<1>4. ASSUME NEW i \in Slots
      PROVE  /\ chan[i].st \in {"FREE", "OPENING", "OPEN"} /\ chan[i].own \in Owners
             /\ chan[i].win \in Nat /\ Len(chan[i].out) <= Backlog
  <2>1. chan[i] \in AChan /\ Len(chan[i].out) <= Backlog
    BY <1>1 DEF Types, Worlds, World
  <2> QED BY <2>1 DEF AChan
<1>5. events \in Seq([type : EventTypes, ch : 0..MaxSlots, own : Owners, byte : Bytes \cup {NoByte}])
  <2>1. Bytes \cup {NoByte} = Bytes
    BY NoByteTyped
  <2> QED BY <1>1, <2>1 DEF Types, Occurrences
<1>6. hist.heard \subseteq Owners
  BY <1>1, Owning DEF Types, AHistory
<1> QED
  BY <1>1, <1>2, <1>3, <1>4, <1>5, <1>6 DEF TypeOK, Phases

LEMMA Current ==
    ASSUME IInv, Active, NEW o \in Owners, NEW i \in Slots, Holds(app, tun, o, i)
    PROVE  (chan[i].st # "FREE" /\ chan[i].own = o) \/ Leaving(o)
<1>1. Routed(EngagedIn(chan), Held(app, tun), PlacesIn(sv), events)
  BY Worldly DEF IInv, Ownership, Owned, Agreed
<1>2. <<o, i>> \in EngagedIn(chan) \/ Told(events, Len(events), o)
  BY <1>1, HeldBy DEF Routed
<1>3. Told(events, Len(events), o) => Leaving(o)
  BY DEF Told, Leaving, Final
<1> QED
  BY <1>2, <1>3, Pairing

LEMMA AllCurrent ==
    ASSUME IInv
    PROVE  IdsCurrent
<1> SUFFICES ASSUME Active
             PROVE  /\ app.channel # 0 => \/ chan[app.channel].st # "FREE" /\ chan[app.channel].own = Shell
                                          \/ Leaving(Shell)
                    /\ app.sftpChannel # 0 =>
                          \/ chan[app.sftpChannel].st # "FREE"
                             /\ chan[app.sftpChannel].own = <<"sftp", app.opened>>
                          \/ Leaving(<<"sftp", app.opened>>)
                    /\ \A k \in Tracked : tun[k].channel # 0 =>
                          \/ chan[tun[k].channel].st # "FREE" /\ chan[tun[k].channel].own = k
                          \/ Leaving(k)
  BY DEF IdsCurrent
<1>1. Types /\ app.channel = 1 /\ (app.sftpChannel # 0 => app.opened > 0)
  BY DEF IInv, Ownership, Owned
<1>2. Shell \in Owners /\ app.channel \in Slots
  BY <1>1, Owning, SessionAssumption DEF Slots
<1>3. ASSUME app.sftpChannel # 0
      PROVE  <<"sftp", app.opened>> \in Owners /\ app.sftpChannel \in Slots
  <2>1. app.sftpChannel \in 0..MaxSlots /\ app.opened \in 0..MaxSftp /\ app.opened > 0
    BY <1>1, <1>3 DEF Types, AnApp
  <2>2. <<"sftp", app.opened>> \in Browsers
    BY <2>1, Limits DEF Browsers
  <2> QED BY <1>3, <2>1, <2>2, Numbering, Owning
<1>4. ASSUME NEW k \in Tracked, tun[k].channel # 0
      PROVE  k \in Owners /\ tun[k].channel \in Slots /\ k \in Tunnels /\ tun[k].st = "tracked"
  <2>1. k \in Tunnels /\ tun[k] \in ATunnel /\ tun[k].st = "tracked"
    BY <1>1 DEF Types, Tracked
  <2>2. tun[k].channel \in 0..MaxSlots
    BY <2>1 DEF ATunnel
  <2> QED BY <1>4, <2>1, <2>2, Numbering, Owning
<1>5. (chan[app.channel].st # "FREE" /\ chan[app.channel].own = Shell) \/ Leaving(Shell)
  BY <1>2, Current DEF Holds
<1>6. ASSUME app.sftpChannel # 0
      PROVE  \/ chan[app.sftpChannel].st # "FREE" /\ chan[app.sftpChannel].own = <<"sftp", app.opened>>
             \/ Leaving(<<"sftp", app.opened>>)
  BY <1>3, <1>6, Current DEF Holds
<1>7. ASSUME NEW k \in Tracked, tun[k].channel # 0
      PROVE  \/ chan[tun[k].channel].st # "FREE" /\ chan[tun[k].channel].own = k
             \/ Leaving(k)
  BY <1>4, <1>7, Current DEF Holds
<1> QED
  BY <1>5, <1>6, <1>7

LEMMA Cares ==
    ASSUME IInv, BrowserAnswered
    PROVE  NoOrphans
<1> SUFFICES ASSUME NEW i \in Slots, NEW o, o = chan[i].own, Active, chan[i].st # "FREE"
             PROVE  \/ chan[i].close
                    \/ o = Shell \/ o \in hist.removed
                    \/ /\ o \in Browsers /\ o[2] = app.opened /\ app.sftpChannel = i
                       /\ hist.stale \/ (app.browser # 0 /\ ~app.sftpClosing)
                    \/ o \in Tunnels /\ tun[o].st = "tracked" /\ tun[o].channel = i
                    \/ \E n \in 1..Len(events) : events[n].type = "X11_OPEN" /\ events[n].own = o
  BY DEF NoOrphans
<1>1. /\ World.chan = chan /\ Routed(EngagedIn(chan), Held(app, tun), PlacesIn(sv), events)
      /\ Cared(chan, Held(app, tun), hist.removed) /\ chan \in [Slots -> AChan]
  BY Worldly DEF IInv, Ownership, Owned, Agreed, Types, Worlds
<1>2. o \in Owners
  BY <1>1 DEF AChan
<1>3. <<o, i>> \in EngagedIn(chan)
  BY <1>2, EngagedBy
<1>4. CASE o \in Conns
  <2>1. <<o, i>> \in Held(app, tun) \/ chan[i].close \/ o \in hist.removed
    BY <1>1, <1>4 DEF Cared
  <2>2. o # Shell /\ o # <<"sftp", app.opened>>
    BY <1>4 DEF Conns, Shell
  <2>3. <<o, i>> \in Held(app, tun) => Holds(app, tun, o, i)
    BY <1>2, HeldBy
  <2>4. Holds(app, tun, o, i) => o \in Tunnels /\ tun[o].st = "tracked" /\ tun[o].channel = i
    BY <2>2 DEF Holds
  <2> QED BY <2>1, <2>3, <2>4
<1>5. CASE o \in Private
  <2>1. <<o, i>> \in Held(app, tun) \/ Comes(events, Len(events), o)
    BY <1>1, <1>3, <1>5 DEF Routed
  <2>2. ASSUME <<o, i>> \in Held(app, tun)
        PROVE  \/ o \in Browsers /\ o[2] = app.opened /\ app.sftpChannel = i
                  /\ o = <<"sftp", app.opened>>
               \/ o \in Tunnels /\ tun[o].st = "tracked" /\ tun[o].channel = i
    <3>1. o # Shell /\ (o \in Displays => o # <<"sftp", app.opened>>)
      BY <1>5, Owning, DisplayApart
    <3>2. Holds(app, tun, o, i)
      BY <1>2, <2>2, HeldBy
    <3> QED BY <1>5, <3>1, <3>2, Owning DEF Holds
  <2>3. ASSUME o = <<"sftp", app.opened>>, app.sftpChannel = i
        PROVE  chan[i].close \/ hist.stale \/ (app.browser # 0 /\ ~app.sftpClosing)
    <3>1. app.sftpChannel # 0
      BY <2>3, Numbering
    <3> QED BY <2>3, <3>1 DEF BrowserAnswered, Answered
  <2> QED BY <2>1, <2>2, <2>3 DEF Comes
<1> QED
  BY <1>2, <1>4, <1>5, Owning

\* The application and the engine always agree on whose every channel is; every channel and
\* every socket has someone to close it, but for a browser's channel under a sftpClosing left
\* by a browser the server refused; and the shell's switch never sees an event of the file
\* browser's channel nor of an X11 channel (a forwarded connection's it may), however many
\* tunnels and browsers there are, however the server's messages, the user, the programs and
\* the loop interleave.
THEOREM OwnersAlwaysAgree == Spec => []OwnersAgree
<1>1. IInv /\ BrowserAnswered => OwnersAgree
  <2> SUFFICES ASSUME IInv, BrowserAnswered
               PROVE  OwnersAgree
    OBVIOUS
  <2>1. TypeOK /\ IdsCurrent /\ NoOrphans
    BY Typed, AllCurrent, Cares
  <2>2. tun \in [Tunnels -> ATunnel] /\ hist \in AHistory
    BY DEF IInv, Types
  <2>3. SocketsOwned
    BY <2>2 DEF SocketsOwned, ATunnel
  <2>4. hist.heard \subseteq {Shell} \cup Conns
    BY <2>2 DEF AHistory
  <2> QED BY <2>1, <2>3, <2>4 DEF OwnersAgree
<1> QED
  BY <1>1, SessionInvariant, BrowserHeard, PTL

=============================================================================
