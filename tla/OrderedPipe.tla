---------------------------- MODULE OrderedPipe ----------------------------
(***************************************************************************)
(* What the transport promises the layers above it: a pipe.  Messages are  *)
(* numbered as they are accepted, and come out at the other end in that    *)
(* order, each exactly once, until the pipe is cut; a cut may take with it *)
(* the messages last accepted, never one that precedes a delivered one.    *)
(***************************************************************************)
EXTENDS Integers

VARIABLES accepted,    \* messages accepted so far
          transit,     \* the numbers of those not yet delivered
          delivered,   \* messages delivered so far
          cut          \* nothing more is accepted

vars == <<accepted, transit, delivered, cut>>

Init == accepted = 0 /\ transit = {} /\ delivered = 0 /\ cut = FALSE

Accept ==
    /\ ~cut
    /\ accepted' = accepted + 1
    /\ transit' = transit \cup {accepted + 1}
    /\ UNCHANGED <<delivered, cut>>

Deliver ==
    /\ delivered + 1 \in transit
    /\ transit' = transit \ {delivered + 1}
    /\ delivered' = delivered + 1
    /\ UNCHANGED <<accepted, cut>>

Cut ==
    /\ cut' = TRUE
    /\ \E n \in 0..accepted : transit' = {m \in transit : m <= n}
    /\ UNCHANGED <<accepted, delivered>>

Next == Accept \/ Deliver \/ Cut

Safety == Init /\ [][Next]_vars
Delivery == WF_vars(~cut /\ Deliver)

Spec == Safety /\ Delivery
=============================================================================
