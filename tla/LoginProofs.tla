---------------------------- MODULE LoginProofs ----------------------------
(***************************************************************************)
(* Proof that a seed once used does not stay: what the seed file holds has *)
(* been credited to no pool, for every number of programs and starts,      *)
(* whatever the connections of the main program do meanwhile, except while *)
(* a program is about to replace it, or where that failed.                 *)
(* And that nothing is typed in vain: in a session that goes on, what is   *)
(* yet to be answered is in one place only (LoginInv), so a password is    *)
(* asked for only when it can be sent, and the server has one request to   *)
(* answer; for any hosts files, servers, methods, programs and starts.     *)
(***************************************************************************)
EXTENDS Login, SequenceTheorems, TLAPS

PStates == {"off", "load", "save", "write", "panel", "up"}
PRecord == [pc : PStates, credited : 0..512, saves : 0..2, tool : BOOLEAN]

\* What SeedTypeOK says of one program.
Fit(r) == /\ r \in PRecord
          /\ r.pc \in {"save", "write", "up"} => r.credited >= SSH_RNG_MIN_BITS
          /\ r.pc \in {"save", "write"} => r.saves > 0

\* A step of one program keeps SeedTypeOK when its own record stays right.
LEMMA OneStep ==
    ASSUME SeedTypeOK, NEW p \in Procs, NEW r, Becomes(p, r), Fit(r),
           seed' \in Files, spoilt' \in BOOLEAN, starts' \in 0..MaxStarts
    PROVE  SeedTypeOK' /\ \A q \in Procs : proc'[q] = IF q = p THEN r ELSE proc[q]
<1>1. proc \in [Procs -> PRecord]
  BY DEF SeedTypeOK, PRecord, PStates
<1>2. proc' = [proc EXCEPT ![p] = r]
  BY DEF Becomes
<1>3. \A q \in Procs : proc'[q] = IF q = p THEN r ELSE proc[q]
  BY <1>1, <1>2
<1>4. proc' \in [Procs -> PRecord]
  BY <1>1, <1>2 DEF Fit
<1>5. \A q \in Procs : /\ proc'[q].pc \in {"save", "write", "up"} => Ready(q)'
                       /\ proc'[q].pc \in {"save", "write"} => proc'[q].saves > 0
  BY <1>3 DEF SeedTypeOK, Fit, Ready
<1> QED
  BY <1>3, <1>4, <1>5 DEF SeedTypeOK, PRecord, PStates

\* A record with one of its fields replaced.
LEMMA SetPc ==
    ASSUME NEW r \in PRecord, NEW c \in PStates
    PROVE  /\ [r EXCEPT !.pc = c] \in PRecord /\ [r EXCEPT !.pc = c].pc = c
           /\ [r EXCEPT !.pc = c].credited = r.credited /\ [r EXCEPT !.pc = c].saves = r.saves
BY DEF PRecord

\* Likewise.
LEMMA SetSaves ==
    ASSUME NEW r \in PRecord, NEW n \in 0..2
    PROVE  /\ [r EXCEPT !.saves = n] \in PRecord /\ [r EXCEPT !.saves = n].saves = n
           /\ [r EXCEPT !.saves = n].credited = r.credited /\ [r EXCEPT !.saves = n].pc = r.pc
BY DEF PRecord

\* Likewise.
LEMMA SetCredited ==
    ASSUME NEW r \in PRecord, NEW k \in 0..512
    PROVE  /\ [r EXCEPT !.credited = k] \in PRecord /\ [r EXCEPT !.credited = k].credited = k
           /\ [r EXCEPT !.credited = k].saves = r.saves /\ [r EXCEPT !.credited = k].pc = r.pc
BY DEF PRecord

\* Likewise.
LEMMA SetTool ==
    ASSUME NEW r \in PRecord, NEW b \in BOOLEAN
    PROVE  /\ [r EXCEPT !.tool = b] \in PRecord
           /\ [r EXCEPT !.tool = b].credited = r.credited
           /\ [r EXCEPT !.tool = b].saves = r.saves /\ [r EXCEPT !.tool = b].pc = r.pc
BY DEF PRecord

\* Replacing the seed n times, or going on.
LEMMA SavingFits ==
    ASSUME NEW r \in PRecord, r.credited >= SSH_RNG_MIN_BITS, NEW n \in 0..2
    PROVE  /\ Fit(Saving(r, n)) /\ Saving(r, n).pc \in {"save", "up"}
           /\ n > 0 => Saving(r, n).pc = "save"
<1>0. "save" \in PStates /\ "up" \in PStates
  BY DEF PStates
<1>1. CASE n = 0
  BY <1>0, <1>1, SetPc DEF Saving, Fit
<1>2. CASE n # 0
  <2> DEFINE a == [r EXCEPT !.pc = "save"]
             b == [a EXCEPT !.saves = n]
  <2>1. a \in PRecord /\ a.pc = "save" /\ a.credited = r.credited
    BY <1>0, SetPc
  <2>2. Saving(r, n) = b
    BY <1>2 DEF Saving
  <2> HIDE DEF a
  <2>3. b \in PRecord /\ b.saves = n /\ b.pc = "save" /\ b.credited = r.credited
    BY <2>1, SetSaves
  <2> HIDE DEF b
  <2> QED
    BY <2>2, <2>3, <1>2 DEF Fit
<1> QED
  BY <1>1, <1>2

-----------------------------------------------------------------------------
(* One program *)

\* A program starts: its pool is fresh, the file is as it was.
LEMMA LaunchStep ==
    ASSUME SeedTypeOK, SeedFresh, SeedAssumption, NEW p \in Procs,
           NEW tool \in BOOLEAN, NEW urandom, Launch(p, tool, urandom)
    PROVE  SeedTypeOK' /\ SeedFresh'
<1> DEFINE r == [Off EXCEPT !.pc = "load", !.tool = tool,
                            !.credited = Credited(0, IF urandom THEN 256 ELSE 0)]
<1>1. Becomes(p, r) /\ UNCHANGED <<seed, spoilt>> /\ proc[p].pc = "off"
      /\ starts > 0 /\ starts' = starts - 1
  BY DEF Launch
<1>2. Fit(r) /\ r.pc = "load"
  <2> DEFINE k == Credited(0, IF urandom THEN 256 ELSE 0)
             a == [Off EXCEPT !.pc = "load"]
             b == [a EXCEPT !.tool = tool]
             c == [b EXCEPT !.credited = k]
  <2>1. Off \in PRecord /\ Off.saves = 0 /\ "load" \in PStates
    BY DEF PRecord, PStates, Off
  <2>2. k \in 0..512
    BY DEF Credited
  <2>3. r = c
    OBVIOUS
  <2>4. a \in PRecord /\ a.pc = "load"
    BY <2>1, SetPc
  <2> HIDE DEF a, k
  <2>5. b \in PRecord /\ b.pc = "load"
    BY <2>4, SetTool
  <2> HIDE DEF b
  <2>6. c \in PRecord /\ c.pc = "load"
    BY <2>2, <2>5, SetCredited
  <2> HIDE DEF c
  <2> QED
    BY <2>3, <2>6 DEF Fit
<1> HIDE DEF r
<1>3. seed' \in Files /\ spoilt' \in BOOLEAN /\ starts' \in 0..MaxStarts
  BY <1>1 DEF SeedTypeOK, SeedAssumption
<1>4. SeedTypeOK' /\ \A q \in Procs : proc'[q] = IF q = p THEN r ELSE proc[q]
  BY <1>1, <1>2, <1>3, OneStep
<1> QED
  BY <1>1, <1>4 DEF SeedFresh

\* Whoever takes the seed is about to replace it.
LEMMA LoadStep ==
    ASSUME SeedTypeOK, SeedFresh, NEW p \in Procs, ssh_rng_load_seed(p)
    PROVE  SeedTypeOK' /\ SeedFresh'
<1> DEFINE r == [proc[p] EXCEPT !.credited = Credited(@, IF Loads(p) THEN 256 ELSE 0)]
           ready == r.credited >= SSH_RNG_MIN_BITS
           n == Replacements(p, ready)
<1>1. /\ proc[p].pc = "load" /\ seed' = [seed EXCEPT !.spent = @ \/ Loads(p)]
      /\ Becomes(p, CASE ready -> Saving(r, n)
                      [] ~ready /\ r.tool -> Off
                      [] OTHER -> [r EXCEPT !.pc = "panel"])
      /\ UNCHANGED <<spoilt, starts>>
  BY DEF ssh_rng_load_seed
<1>2. proc[p] \in PRecord /\ proc[p].credited \in 0..512
  BY DEF SeedTypeOK, PRecord, PStates
<1>3. r \in PRecord /\ (Loads(p) => ready)
  <2>1. Credited(proc[p].credited, IF Loads(p) THEN 256 ELSE 0) \in 0..512
    BY <1>2 DEF Credited
  <2>2. Loads(p) => Credited(proc[p].credited, IF Loads(p) THEN 256 ELSE 0) >= 256
    BY <1>2 DEF Credited
  <2>3. r.credited = Credited(proc[p].credited, IF Loads(p) THEN 256 ELSE 0)
    BY <1>2 DEF PRecord
  <2> QED
    BY <1>2, <2>1, <2>2, <2>3 DEF PRecord, SSH_RNG_MIN_BITS
<1>4. n \in 0..2 /\ (Loads(p) => n > 0)
  BY DEF Replacements
<1>5. seed' \in Files /\ (~Loads(p) => seed' = seed)
  BY <1>1, Zenon DEF SeedTypeOK, Files
<1>6. spoilt' \in BOOLEAN /\ starts' \in 0..MaxStarts
  BY <1>1 DEF SeedTypeOK
<1> HIDE DEF r, n
<1>7. CASE ready
  <2>1. Becomes(p, Saving(r, n))
    BY <1>1, <1>7
  <2>2. Fit(Saving(r, n)) /\ (Loads(p) => Saving(r, n).pc = "save")
    BY <1>3, <1>4, <1>7, SavingFits
  <2>3. SeedTypeOK' /\ \A q \in Procs : proc'[q] = IF q = p THEN Saving(r, n) ELSE proc[q]
    BY <2>1, <2>2, <1>5, <1>6, OneStep
  <2>4. Loads(p) => proc'[p].pc = "save"
    BY <2>2, <2>3
  <2>5. \A q \in Procs : proc[q].pc = "save" => proc'[q].pc = "save"
    BY <2>3, <1>1
  <2> QED
    BY <2>3, <2>4, <2>5, <1>1, <1>5 DEF SeedFresh
<1>8. CASE ~ready
  <2>1. PICK t : t \in {Off, [r EXCEPT !.pc = "panel"]} /\ Becomes(p, t)
    BY <1>1, <1>8
  <2>2. Fit(t) /\ t.pc \in {"off", "panel"}
    <3>1. Off \in PRecord /\ Off.pc = "off" /\ "panel" \in PStates
      BY DEF PRecord, PStates, Off
    <3>2. [r EXCEPT !.pc = "panel"] \in PRecord /\ [r EXCEPT !.pc = "panel"].pc = "panel"
      BY <3>1, <1>3, SetPc
    <3> QED
      BY <2>1, <3>1, <3>2 DEF Fit
  <2>3. SeedTypeOK' /\ \A q \in Procs : proc'[q] = IF q = p THEN t ELSE proc[q]
    BY <2>1, <2>2, <1>5, <1>6, OneStep
  <2>4. \A q \in Procs : proc[q].pc = "save" => proc'[q].pc = "save"
    BY <2>3, <1>1
  <2>5. seed' = seed
    BY <1>3, <1>5, <1>8
  <2> QED
    BY <2>3, <2>4, <2>5, <1>1 DEF SeedFresh
<1> QED
  BY <1>7, <1>8

\* The file is emptied; or it cannot be, which is remembered.
LEMMA SaveStep ==
    ASSUME SeedTypeOK, SeedFresh, NEW p \in Procs, NEW opens \in BOOLEAN,
           ssh_rng_save_seed(p, opens)
    PROVE  SeedTypeOK' /\ SeedFresh'
<1>1. /\ proc[p] \in PRecord /\ proc[p].pc = "save" /\ proc[p].saves \in 1..2
      /\ proc[p].credited >= SSH_RNG_MIN_BITS
      /\ seed \in Files /\ spoilt \in BOOLEAN /\ starts \in 0..MaxStarts /\ starts' = starts
  BY DEF SeedTypeOK, PRecord, PStates, ssh_rng_save_seed, Ready
<1>2. CASE opens
  <2>1. /\ seed' = [bytes |-> "short", spent |-> FALSE] /\ UNCHANGED spoilt
        /\ Becomes(p, [proc[p] EXCEPT !.pc = "write"])
    BY <1>2 DEF ssh_rng_save_seed
  <2>2. Fit([proc[p] EXCEPT !.pc = "write"])
    BY <1>1 DEF Fit, PRecord, PStates
  <2>3. seed' \in Files /\ seed'.bytes = "short"
    BY <2>1 DEF Files
  <2>4. SeedTypeOK'
    BY <2>1, <2>2, <2>3, <1>1, OneStep
  <2> QED
    BY <2>3, <2>4 DEF SeedFresh
<1>3. CASE ~opens
  <2>1. spoilt' = TRUE /\ Becomes(p, Saving(proc[p], proc[p].saves - 1)) /\ UNCHANGED seed
    BY <1>3 DEF ssh_rng_save_seed, Saved
  <2>2. Fit(Saving(proc[p], proc[p].saves - 1))
    BY <1>1, SavingFits
  <2>3. SeedTypeOK'
    BY <2>1, <2>2, <1>1, OneStep
  <2> QED
    BY <2>1, <2>3 DEF SeedFresh
<1> QED
  BY <1>2, <1>3

\* Fresh bytes are written, or too few to count.
LEMMA WriteStep ==
    ASSUME SeedTypeOK, SeedFresh, NEW p \in Procs, NEW whole \in BOOLEAN, fwrite(p, whole)
    PROVE  SeedTypeOK' /\ SeedFresh'
<1>1. /\ proc[p] \in PRecord /\ proc[p].pc = "write" /\ proc[p].saves \in 1..2
      /\ proc[p].credited >= SSH_RNG_MIN_BITS
      /\ seed \in Files /\ spoilt \in BOOLEAN /\ starts \in 0..MaxStarts /\ starts' = starts
      /\ Becomes(p, Saving(proc[p], proc[p].saves - 1))
  BY DEF SeedTypeOK, PRecord, PStates, fwrite, Ready, Saved
<1>2. Fit(Saving(proc[p], proc[p].saves - 1))
  BY <1>1, SavingFits
<1>3. \/ seed' = [bytes |-> "whole", spent |-> FALSE] /\ spoilt' = FALSE
      \/ UNCHANGED <<seed, spoilt>>
  BY DEF fwrite
<1>4. seed' \in Files /\ spoilt' \in BOOLEAN
  <2>1. [bytes |-> "whole", spent |-> FALSE] \in Files
    BY DEF Files
  <2> QED
    BY <2>1, <1>1, <1>3
<1>5. /\ SeedTypeOK'
      /\ \A q \in Procs : proc'[q] = IF q = p THEN Saving(proc[p], proc[p].saves - 1) ELSE proc[q]
  BY <1>1, <1>2, <1>4, OneStep
<1>6. \A q \in Procs : proc[q].pc = "save" => proc'[q].pc = "save"
  BY <1>1, <1>5
<1> QED
  BY <1>3, <1>5, <1>6 DEF SeedFresh

\* The mouse has been moved enough; or a connection is over.
LEMMA AgainStep ==
    ASSUME SeedTypeOK, SeedFresh, NEW p \in Procs, entropyReady(p) \/ endWithMessage(p)
    PROVE  SeedTypeOK' /\ SeedFresh'
<1>1. /\ proc[p] \in PRecord /\ proc[p].pc \in {"panel", "up"}
      /\ proc[p].pc = "up" => proc[p].credited >= SSH_RNG_MIN_BITS
      /\ seed \in Files /\ spoilt \in BOOLEAN /\ starts \in 0..MaxStarts
      /\ UNCHANGED <<seed, spoilt, starts>>
  BY DEF SeedTypeOK, PRecord, PStates, entropyReady, endWithMessage, Ready
<1>2. PICK r : Becomes(p, r) /\ Fit(r) /\ r.pc = "save"
  <2>1. CASE entropyReady(p)
    <3> DEFINE r == [proc[p] EXCEPT !.credited = SSH_RNG_MIN_BITS, !.pc = "save", !.saves = 1]
    <3>1. Becomes(p, r)
      BY <2>1 DEF entropyReady
    <3>2. Fit(r) /\ r.pc = "save"
      <4> DEFINE a == [proc[p] EXCEPT !.credited = SSH_RNG_MIN_BITS]
                 b == [a EXCEPT !.pc = "save"]
                 c == [b EXCEPT !.saves = 1]
      <4>1. "save" \in PStates /\ SSH_RNG_MIN_BITS \in 0..512 /\ 1 \in 0..2
        BY DEF PStates, SSH_RNG_MIN_BITS
      <4>2. r = c
        OBVIOUS
      <4>3. a \in PRecord /\ a.credited = SSH_RNG_MIN_BITS
        BY <1>1, <4>1, SetCredited
      <4> HIDE DEF a
      <4>4. b \in PRecord /\ b.pc = "save" /\ b.credited = SSH_RNG_MIN_BITS
        BY <4>1, <4>3, SetPc
      <4> HIDE DEF b
      <4>5. c \in PRecord /\ c.pc = "save" /\ c.credited = SSH_RNG_MIN_BITS /\ c.saves = 1
        BY <4>1, <4>4, SetSaves
      <4> HIDE DEF c
      <4> QED
        BY <4>1, <4>2, <4>5 DEF Fit
    <3> QED
      BY <3>1, <3>2
  <2>2. CASE endWithMessage(p)
    <3>1. Becomes(p, Saving(proc[p], 1)) /\ proc[p].pc = "up"
      BY <2>2 DEF endWithMessage
    <3>2. Fit(Saving(proc[p], 1)) /\ Saving(proc[p], 1).pc = "save"
      BY <1>1, <3>1, SavingFits
    <3> QED
      BY <3>1, <3>2
  <2> QED
    BY <2>1, <2>2
<1>3. SeedTypeOK' /\ \A q \in Procs : proc'[q] = IF q = p THEN r ELSE proc[q]
  BY <1>1, <1>2, OneStep
<1> QED
  BY <1>1, <1>2, <1>3 DEF SeedFresh

\* A program that dies before it has replaced the seed it took spoils the file.
LEMMA KilledStep ==
    ASSUME SeedTypeOK, SeedFresh, NEW p \in Procs, Killed(p)
    PROVE  SeedTypeOK' /\ SeedFresh'
<1>1. /\ Becomes(p, Off) /\ UNCHANGED <<seed, starts>>
      /\ spoilt' = (spoilt \/ proc[p].pc = "save")
  BY DEF Killed
<1>2. Fit(Off)
  BY DEF Fit, PRecord, PStates, Off
<1>3. seed' \in Files /\ spoilt' \in BOOLEAN /\ starts' \in 0..MaxStarts
  BY <1>1 DEF SeedTypeOK
<1>4. SeedTypeOK' /\ \A q \in Procs : proc'[q] = IF q = p THEN Off ELSE proc[q]
  BY <1>1, <1>2, <1>3, OneStep
<1>5. CASE proc[p].pc = "save"
  BY <1>1, <1>4, <1>5 DEF SeedFresh
<1>6. CASE proc[p].pc # "save"
  <2>1. \A q \in Procs : proc[q].pc = "save" => proc'[q].pc = "save"
    BY <1>4, <1>6
  <2>2. spoilt => spoilt'
    BY <1>1
  <2> QED
    BY <1>1, <1>4, <2>1, <2>2 DEF SeedFresh
<1> QED
  BY <1>5, <1>6

-----------------------------------------------------------------------------
(* The theorem *)

\* What the whole system does to the pools and the file is what some program does.
LEMMA LoginIsSeeding ==
    ASSUME LoginAssumption, SeedTypeOK, Next
    PROVE  \/ UNCHANGED seedVars
           \/ \E p \in Procs :
                 \/ \E tool \in BOOLEAN : \E urandom : Launch(p, tool, urandom)
                 \/ Seeding(p) \/ endWithMessage(p) \/ Killed(p)
<1>1. Main \in Procs
  BY DEF LoginAssumption, Main
<1>2. CASE ssh_input \/ beginConnect \/ SvAnswers \/ SvSays
  BY <1>2 DEF ssh_input, beginConnect, SvAnswers, SvSays
<1>3. CASE processEvents \/ lost
  <2>1. UNCHANGED seedVars \/ endWithMessage(Main) \/ Killed(Main)
    BY <1>3 DEF processEvents, lost, handleHostKey, handleAuth, authOk, goodbye, Took, End
  <2> QED
    BY <1>1, <2>1
<1>4. CASE Programs
  <2>1. PICK p \in Procs : \/ Launch(p, p # Main \/ world.client # "app", world.urandom)
                           \/ Seeding(p) \/ Killed(p)
    BY <1>4 DEF Programs
  <2>2. (p # Main \/ world.client # "app") \in BOOLEAN
    OBVIOUS
  <2> QED
    BY <2>1, <2>2
<1>5. CASE MainKilled
  BY <1>1, <1>5 DEF MainKilled
<1> QED
  BY <1>2, <1>3, <1>4, <1>5 DEF Next

\* Both invariants are kept by every step.
LEMMA SeedStep ==
    LoginAssumption /\ SeedAssumption /\ SeedTypeOK /\ SeedFresh /\ [Next]_vars
        => SeedTypeOK' /\ SeedFresh'
<1> SUFFICES ASSUME LoginAssumption, SeedAssumption, SeedTypeOK, SeedFresh, [Next]_vars
             PROVE  SeedTypeOK' /\ SeedFresh'
  OBVIOUS
<1>1. CASE UNCHANGED seedVars
  BY <1>1 DEF seedVars, SeedTypeOK, SeedFresh, Ready
<1>2. ASSUME NEW p \in Procs,
             \/ \E tool \in BOOLEAN : \E urandom : Launch(p, tool, urandom)
             \/ Seeding(p) \/ endWithMessage(p) \/ Killed(p)
      PROVE  SeedTypeOK' /\ SeedFresh'
  <2>1. CASE \E tool \in BOOLEAN : \E urandom : Launch(p, tool, urandom)
    BY <2>1, LaunchStep
  <2>2. CASE Seeding(p)
    BY <2>2, LoadStep, SaveStep, WriteStep, AgainStep DEF Seeding
  <2>3. CASE endWithMessage(p) \/ Killed(p)
    BY <2>3, AgainStep, KilledStep
  <2> QED
    BY <1>2, <2>1, <2>2, <2>3
<1>3. CASE UNCHANGED vars
  BY <1>1, <1>3 DEF vars
<1> QED
  BY <1>1, <1>2, <1>3, LoginIsSeeding

\* The first file holds a seed nobody has used, or none.
LEMMA SeedStart == LoginAssumption /\ Init => SeedTypeOK /\ SeedFresh
<1> SUFFICES ASSUME LoginAssumption, Init PROVE SeedTypeOK /\ SeedFresh
  OBVIOUS
<1>1. /\ proc = [p \in Procs |-> Off] /\ seed \in Files /\ ~seed.spent
      /\ spoilt = FALSE /\ starts \in 0..MaxStarts
  BY DEF Init, SeedInit, LoginAssumption
<1>2. Off \in PRecord /\ Off.pc = "off"
  BY DEF Off, PRecord, PStates
<1>3. proc \in [Procs -> PRecord] /\ \A p \in Procs : proc[p].pc = "off"
  BY <1>1, <1>2
<1> QED
  BY <1>1, <1>3 DEF SeedTypeOK, SeedFresh, PRecord, PStates

\* In every state, for any number of programs, starts and connections: a seed that is
\* still in its file has been credited to no pool, except while the program that took it
\* is about to replace it, or when that failed.
THEOREM SeedAlwaysFresh == Spec => []SeedFresh
<1>1. LoginAssumption /\ SeedAssumption
  BY LoginAssumption, SeedAssumption
<1> QED
  BY <1>1, SeedStart, SeedStep, PTL DEF Spec

-----------------------------------------------------------------------------
(* Nothing is typed in vain *)

\* What a handler works on, and what it has changed of the session.
Works == [s : Sessions, up : Seq(Messages)]
Fields == {"st", "reading", "dec", "ok", "first", "auth", "pending", "authOk", "closed",
           "evs", "key", "pw", "kbdTries", "vain", "unheard"}
Same(r, t, fs) == \A f \in Fields \ fs : r[f] = t[f]

\* What LoginInv says of a session with what is under way.
Rightly(t, u, d) ==
    /\ ~t.vain /\ Len(u) <= 1
    /\ t.st = "handshake" /\ ~t.closed => InTurn(t, u, d) /\ Exchanged(t, d)

-----------------------------------------------------------------------------
(* Sequences of messages, or of events *)

\* What the first of a sequence is, and the rest.
LEMMA TailAre ==
    ASSUME NEW S, NEW q \in Seq(S), q # <<>>, NEW kinds
    PROVE  /\ q[1] \in S /\ Tail(q) \in Seq(S)
           /\ None(q, kinds) => None(Tail(q), kinds) /\ q[1].t \notin kinds
           /\ AtMostOne(q, kinds) => AtMostOne(Tail(q), kinds)
           /\ AtMostOne(q, kinds) /\ q[1].t \in kinds => None(Tail(q), kinds)
<1>1. /\ Len(q) \in Nat /\ Len(q) > 0 /\ Tail(q) \in Seq(S) /\ Len(Tail(q)) = Len(q) - 1
      /\ \A k \in 1..Len(Tail(q)) : Tail(q)[k] = q[k + 1]
  OBVIOUS
<1>2. 1 \in 1..Len(q) /\ q[1] \in S
  BY <1>1
<1>3. \A k \in Are(Tail(q), kinds) : k + 1 \in Are(q, kinds) /\ k \in Nat /\ k > 0
  BY <1>1 DEF Are
<1>4. q[1].t \in kinds => 1 \in Are(q, kinds)
  BY <1>2 DEF Are
<1>5. None(q, kinds) => None(Tail(q), kinds) /\ q[1].t \notin kinds
  BY <1>3, <1>4 DEF None
<1>6. AtMostOne(q, kinds) => AtMostOne(Tail(q), kinds)
  <2> SUFFICES ASSUME AtMostOne(q, kinds),
                      NEW j \in Are(Tail(q), kinds), NEW k \in Are(Tail(q), kinds)
               PROVE  j = k
    BY DEF AtMostOne
  <2>1. j + 1 = k + 1 /\ j \in Nat /\ k \in Nat
    BY <1>3 DEF AtMostOne
  <2> QED
    BY <2>1
<1>7. AtMostOne(q, kinds) /\ q[1].t \in kinds => None(Tail(q), kinds)
  <2> SUFFICES ASSUME AtMostOne(q, kinds), q[1].t \in kinds, NEW k \in Are(Tail(q), kinds)
               PROVE  FALSE
    BY DEF None
  <2>1. 1 \in Are(q, kinds) /\ k + 1 \in Are(q, kinds) /\ k > 0 /\ k \in Nat
    BY <1>3, <1>4
  <2>2. k + 1 = 1
    BY <2>1 DEF AtMostOne
  <2> QED
    BY <2>1, <2>2
<1> QED
  BY <1>1, <1>2, <1>5, <1>6, <1>7

\* One more at the end.
LEMMA AppendAre ==
    ASSUME NEW S, NEW q \in Seq(S), NEW e \in S, NEW kinds
    PROVE  /\ Append(q, e) \in Seq(S)
           /\ None(q, kinds) /\ e.t \notin kinds => None(Append(q, e), kinds)
           /\ AtMostOne(q, kinds) /\ e.t \notin kinds => AtMostOne(Append(q, e), kinds)
           /\ None(q, kinds) => AtMostOne(Append(q, e), kinds)
<1>1. /\ Len(q) \in Nat /\ Append(q, e) \in Seq(S) /\ Len(Append(q, e)) = Len(q) + 1
      /\ \A k \in 1..Len(q) : Append(q, e)[k] = q[k]
      /\ Append(q, e)[Len(q) + 1] = e
  OBVIOUS
<1>2. \A k \in Are(Append(q, e), kinds) :
         k \in Are(q, kinds) \/ (k = Len(q) + 1 /\ e.t \in kinds)
  <2> SUFFICES ASSUME NEW k \in 1..(Len(q) + 1), Append(q, e)[k].t \in kinds
               PROVE  k \in Are(q, kinds) \/ (k = Len(q) + 1 /\ e.t \in kinds)
    BY <1>1 DEF Are
  <2>1. CASE k \in 1..Len(q)
    BY <1>1, <2>1 DEF Are
  <2>2. CASE k = Len(q) + 1
    BY <1>1, <2>2
  <2> QED
    BY <1>1, <2>1, <2>2
<1> QED
  BY <1>1, <1>2 DEF None, AtMostOne

\* None of many kinds is none of fewer; and none is at most one.
LEMMA FewerAre ==
    ASSUME NEW q, NEW kinds, NEW some \in SUBSET kinds
    PROVE  /\ None(q, kinds) => None(q, some) /\ AtMostOne(q, some)
           /\ AtMostOne(q, kinds) => AtMostOne(q, some)
BY DEF None, AtMostOne, Are

\* An empty sequence has none.
LEMMA EmptyAre == \A kinds : None(<<>>, kinds) /\ AtMostOne(<<>>, kinds)
BY DEF None, AtMostOne, Are

-----------------------------------------------------------------------------
(* What the handlers make of a session *)

\* The messages and events the code makes.
LEMMA Made ==
    /\ \A t \in Requests \cup Answers \cup {"KEX_REPLY", "NEWKEYS", "BANNER", "DISCONNECT"} :
          Msg(t) \in Messages /\ Msg(t).t = t
    /\ \A t \in Refusals \cup {"HOSTKEY", "AUTH_OK", "ERROR", "DISCONNECT"} :
          Event(t) \in Events /\ Event(t).t = t
<1>1. {} \in Methods /\ "none" \in Keys
  BY DEF Methods, Keys
<1>2. ASSUME NEW t \in Requests \cup Answers \cup {"KEX_REPLY", "NEWKEYS", "BANNER", "DISCONNECT"}
      PROVE  Msg(t) \in Messages /\ Msg(t).t = t
  BY <1>1 DEF Msg, Messages
<1>3. ASSUME NEW t \in Refusals \cup {"HOSTKEY", "AUTH_OK", "ERROR", "DISCONNECT"}
      PROVE  Event(t) \in Events /\ Event(t).t = t
  BY <1>1 DEF Event, Events
<1> QED
  BY <1>2, <1>3

\* An event is added at the end.
LEMMA Pushed ==
    ASSUME NEW t \in Sessions, NEW e \in Events
    PROVE  /\ Push(t, e) \in Sessions /\ Same(Push(t, e), t, {"evs"})
           /\ Push(t, e).evs = Append(t.evs, e) /\ Append(t.evs, e) \in Seq(Events)
<1>1. t.evs \in Seq(Events)
  BY DEF Sessions
<1>2. Append(t.evs, e) \in Seq(Events)
  BY <1>1
<1> QED
  BY <1>2 DEF Push, Sessions, Same, Fields

\* A work with another state of the login.
LEMMA AuthSet ==
    ASSUME NEW w \in Works, NEW a \in {"WAIT_HOSTKEY", "IN_PROGRESS"}
    PROVE  LET v == [w EXCEPT !.s.auth = a] IN
           v \in Works /\ Same(v.s, w.s, {"auth"}) /\ v.s.auth = a /\ v.up = w.up
<1> DEFINE t == [w.s EXCEPT !.auth = a]
<1>1. w.s \in Sessions /\ w.up \in Seq(Messages)
  BY DEF Works
<1>2. t \in Sessions /\ Same(t, w.s, {"auth"}) /\ t.auth = a
  BY <1>1 DEF Sessions, Same, Fields
<1>3. [w EXCEPT !.s = t] = [s |-> t, up |-> w.up]
  BY DEF Works
<1> QED
  BY <1>1, <1>2, <1>3 DEF Works

\* A work with the exchange done.
LEMMA FirstSet ==
    ASSUME NEW w \in Works
    PROVE  LET v == [w EXCEPT !.s.first = TRUE] IN
           v \in Works /\ Same(v.s, w.s, {"first"}) /\ v.s.first = TRUE /\ v.up = w.up
<1> DEFINE t == [w.s EXCEPT !.first = TRUE]
<1>1. w.s \in Sessions /\ w.up \in Seq(Messages)
  BY DEF Works
<1>2. t \in Sessions /\ Same(t, w.s, {"first"}) /\ t.first = TRUE
  BY <1>1 DEF Sessions, Same, Fields
<1>3. \A x : [w EXCEPT !.s = x] = [s |-> x, up |-> w.up]
  BY DEF Works
<1>4. [w EXCEPT !.s = t] = [s |-> t, up |-> w.up]
  BY <1>3
<1> QED
  BY <1>1, <1>2, <1>4 DEF Works

\* A message is sent unless the connection is closed.
LEMMA Sent ==
    ASSUME NEW w \in Works, NEW m \in Messages
    PROVE  /\ Send(w, m) \in Works /\ Send(w, m).s = w.s
           /\ Send(w, m).up = IF w.s.closed THEN w.up ELSE Append(w.up, m)
<1>1. Append(w.up, m) \in Seq(Messages)
  BY DEF Works
<1> QED
  BY <1>1 DEF Send, Works

\* A request is sent and noted, unless it is none that could be.
LEMMA Requested ==
    ASSUME NEW w \in Works, NEW m \in Requests \ {"SERVICE_REQUEST"}
    PROVE  LET r == send_request(w, m) IN
           /\ r \in Works /\ Same(r.s, w.s, {"pending"}) /\ r.s.pending # Nothing
           /\ r.up = IF w.s.closed THEN w.up ELSE Append(w.up, Msg(m))
<1> DEFINE v == Send(w, Msg(m))
           r == [v EXCEPT !.s.pending = Pending(m)]
<1>1. v \in Works /\ v.s = w.s /\ v.up = IF w.s.closed THEN w.up ELSE Append(w.up, Msg(m))
  BY Made, Sent
<1>2. Pending(m) \in {"none", "password", "publickey", "keyboard-intera"}
  BY DEF Pending, Requests
<1>3. Nothing \notin {"none", "password", "publickey", "keyboard-intera"}
  BY DEF Nothing
<1> HIDE DEF v
<1>4. r.s = [v.s EXCEPT !.pending = Pending(m)] /\ r.up = v.up /\ r = [s |-> r.s, up |-> r.up]
  BY <1>1 DEF Works
<1>5. v.s \in Sessions /\ v.up \in Seq(Messages)
  BY <1>1 DEF Works
<1>6. /\ [v.s EXCEPT !.pending = Pending(m)] \in Sessions
      /\ Same([v.s EXCEPT !.pending = Pending(m)], v.s, {"pending"})
      /\ [v.s EXCEPT !.pending = Pending(m)].pending = Pending(m)
  BY <1>2, <1>5 DEF Sessions, Same, Fields
<1>7. send_request(w, m) = r
  BY DEF send_request, v
<1> HIDE DEF r
<1> QED
  BY <1>1, <1>2, <1>3, <1>4, <1>5, <1>6, <1>7 DEF Works

\* The login begins with a request for the service.
LEMMA Begun ==
    ASSUME NEW w \in Works
    PROVE  LET r == ssh_auth_begin(w) IN
           /\ r \in Works /\ Same(r.s, w.s, {"auth"}) /\ r.s.auth = "SERVICE_SENT"
           /\ r.up = IF w.s.closed THEN w.up ELSE Append(w.up, Msg("SERVICE_REQUEST"))
<1> DEFINE v == Send(w, Msg("SERVICE_REQUEST"))
           r == [v EXCEPT !.s.auth = "SERVICE_SENT"]
<1>0. "SERVICE_REQUEST" \in Requests
  BY DEF Requests
<1>1. /\ v \in Works /\ v.s = w.s
      /\ v.up = IF w.s.closed THEN w.up ELSE Append(w.up, Msg("SERVICE_REQUEST"))
  BY <1>0, Made, Sent
<1> HIDE DEF v
<1>4. r.s = [v.s EXCEPT !.auth = "SERVICE_SENT"] /\ r.up = v.up /\ r = [s |-> r.s, up |-> r.up]
  BY <1>1 DEF Works
<1>5. v.s \in Sessions /\ v.up \in Seq(Messages)
  BY <1>1 DEF Works
<1>6. /\ [v.s EXCEPT !.auth = "SERVICE_SENT"] \in Sessions
      /\ Same([v.s EXCEPT !.auth = "SERVICE_SENT"], v.s, {"auth"})
      /\ [v.s EXCEPT !.auth = "SERVICE_SENT"].auth = "SERVICE_SENT"
  BY <1>5 DEF Sessions, Same, Fields
<1>7. ssh_auth_begin(w) = r
  BY DEF ssh_auth_begin, v
<1> HIDE DEF r
<1> QED
  BY <1>1, <1>4, <1>5, <1>6, <1>7 DEF Works

-----------------------------------------------------------------------------
(* Messages taken in *)

\* A message fewer to come leaves everything in its place.
LEMMA Removed ==
    ASSUME NEW t \in Sessions, NEW u \in Seq(Messages), NEW d \in Seq(Messages), d # <<>>
    PROVE  /\ InTurn(t, u, d) => InTurn(t, u, Tail(d))
           /\ Exchanged(t, d) => Exchanged(t, Tail(d))
<1>1. \A kinds : /\ None(d, kinds) => None(Tail(d), kinds)
                 /\ AtMostOne(d, kinds) => AtMostOne(Tail(d), kinds)
  BY TailAre
<1>2. \A requests, answers :
         Asked(u, d, requests, answers) => Asked(u, Tail(d), requests, answers)
  BY <1>1 DEF Asked
<1>3. Idle(u, d) => Idle(u, Tail(d))
  BY <1>1 DEF Idle
<1>4. InTurn(t, u, d) => InTurn(t, u, Tail(d))
  BY <1>2, <1>3 DEF InTurn
<1>5. Exchanged(t, d) => Exchanged(t, Tail(d))
  BY <1>1 DEF Exchanged
<1> QED
  BY <1>4, <1>5

\* The fields that the answers are about, and the events of refusals.
LEMMA Unmoved ==
    ASSUME NEW t \in Sessions, NEW r \in Sessions, NEW u, NEW d,
           \A f \in {"auth", "pending", "first", "dec", "ok", "authOk"} : r[f] = t[f],
           None(t.evs, Refusals) => None(r.evs, Refusals),
           AtMostOne(t.evs, Refusals) => AtMostOne(r.evs, Refusals)
    PROVE  /\ InTurn(t, u, d) => InTurn(r, u, d)
           /\ Exchanged(t, d) => Exchanged(r, d)
<1>1. /\ r.auth = t.auth /\ r.pending = t.pending /\ r.first = t.first /\ r.dec = t.dec
      /\ r.ok = t.ok /\ r.authOk = t.authOk
  OBVIOUS
<1> QED
  BY <1>1 DEF InTurn, Exchanged

\* Where an answer comes in, no request is on its way, and no other answer.
LEMMA WhoAnswers ==
    ASSUME NEW t \in Sessions, NEW u \in Seq(Messages), NEW d \in Seq(Messages), d # <<>>,
           InTurn(t, u, d), d[1].t \in Answers
    PROVE  /\ Idle(u, Tail(d)) /\ None(t.evs, Refusals)
           /\ t.auth = IF d[1].t = "SERVICE_ACCEPT" THEN "SERVICE_SENT" ELSE "IN_PROGRESS"
           /\ d[1].t # "SERVICE_ACCEPT" => t.pending # Nothing
<1> DEFINE accept == {"SERVICE_ACCEPT"}
           others == Answers \ {"SERVICE_ACCEPT"}
<1>1. \A kinds : /\ None(d, kinds) => d[1].t \notin kinds /\ None(Tail(d), kinds)
                 /\ AtMostOne(d, kinds) /\ d[1].t \in kinds => None(Tail(d), kinds)
  BY TailAre
<1>2. ~None(d, Answers)
  BY <1>1
<1>3. t.auth \in {"SERVICE_SENT", "IN_PROGRESS"} /\ (t.auth = "IN_PROGRESS" => t.pending # Nothing)
  BY <1>2 DEF InTurn, Idle, Sessions
<1>4. None(t.evs, Refusals)
  BY <1>3 DEF InTurn
<1>5. CASE t.auth = "SERVICE_SENT"
  <2>1. Asked(u, d, {"SERVICE_REQUEST"}, accept)
    BY <1>5 DEF InTurn
  <2>2. d[1].t = "SERVICE_ACCEPT" /\ u = <<>> /\ None(Tail(d), accept) /\ None(Tail(d), Answers \ accept)
    BY <2>1, <1>1, <1>2 DEF Asked
  <2>3. None(Tail(d), Answers)
    BY <2>2 DEF None, Are
  <2> QED
    BY <1>4, <1>5, <2>2, <2>3 DEF Idle
<1>6. CASE t.auth = "IN_PROGRESS"
  <2>1. Asked(u, d, Requests \ {"SERVICE_REQUEST"}, others)
    BY <1>3, <1>6 DEF InTurn
  <2>2. None(d, Answers \ others) /\ AtMostOne(d, others) /\ (u # <<>> => None(d, Answers))
    BY <2>1 DEF Asked
  <2>3. d[1].t \in others /\ u = <<>> /\ None(Tail(d), others) /\ None(Tail(d), Answers \ others)
    BY <2>2, <1>1, <1>2
  <2>4. None(Tail(d), Answers)
    BY <2>3 DEF None, Are
  <2> QED
    BY <1>3, <1>4, <1>6, <2>3, <2>4 DEF Idle
<1> QED
  BY <1>3, <1>5, <1>6

\* What a handler has changed of a session it may change by a message.
Heard == {"auth", "pending", "first", "authOk", "closed", "evs", "unheard"}
HandledWell(r, w, d) ==
    /\ r \in Works /\ Same(r.s, w.s, Heard)
    /\ Rightly(r.s, r.up, d)

\* The service accepted, the first request is made.
LEMMA ReadAccept ==
    ASSUME NEW w \in Works, NEW d \in Seq(Messages), d # <<>>, ~w.s.closed, w.s.st = "handshake",
           Rightly(w.s, w.up, d), d[1].t = "SERVICE_ACCEPT"
    PROVE  HandledWell(ssh_auth_dispatch(w, d[1]), w, Tail(d))
<1>1. w.s \in Sessions /\ w.up \in Seq(Messages) /\ InTurn(w.s, w.up, d) /\ Exchanged(w.s, d)
  BY DEF Works, Rightly
<1>2. Idle(w.up, Tail(d)) /\ None(w.s.evs, Refusals) /\ w.s.auth = "SERVICE_SENT"
  BY <1>1, WhoAnswers DEF Answers
<1> DEFINE v == [w EXCEPT !.s.auth = "IN_PROGRESS"]
           r == send_request(v, "none")
<1>3. /\ v \in Works /\ Same(v.s, w.s, {"auth"}) /\ v.s.auth = "IN_PROGRESS" /\ v.up = w.up
  BY AuthSet
<1>4. ssh_auth_dispatch(w, d[1]) = r
  BY <1>2 DEF ssh_auth_dispatch
<1> HIDE DEF v
<1>5. "none" \in Requests \ {"SERVICE_REQUEST"} /\ Msg("none") \in Messages /\ Msg("none").t = "none"
  BY Made DEF Requests
<1>6. /\ r \in Works /\ Same(r.s, v.s, {"pending"}) /\ r.s.pending # Nothing
      /\ r.up = IF v.s.closed THEN v.up ELSE Append(v.up, Msg("none"))
  BY <1>3, <1>5, Requested
<1> HIDE DEF r
<1>7. Same(r.s, w.s, {"auth", "pending"}) /\ r.s.auth = "IN_PROGRESS" /\ ~r.s.closed
  BY <1>3, <1>6 DEF Same, Fields
<1>8. Len(r.up) = 1 /\ r.up[1].t = "none" /\ r.up # <<>>
  <2>1. r.up = Append(<<>>, Msg("none"))
    BY <1>2, <1>3, <1>6, <1>7 DEF Idle, Same, Fields
  <2> QED
    BY <2>1, <1>5
<1>9. /\ r.s.evs = w.s.evs /\ r.s.vain = w.s.vain /\ r.s.first = w.s.first /\ r.s.dec = w.s.dec
      /\ r.s.ok = w.s.ok /\ r.s.authOk = w.s.authOk
  BY <1>7 DEF Same, Fields
<1>10. Asked(r.up, Tail(d), Requests \ {"SERVICE_REQUEST"}, Answers \ {"SERVICE_ACCEPT"})
  <2>1. None(Tail(d), Answers) /\ Tail(d) \in Seq(Messages)
    BY <1>2, TailAre DEF Idle
  <2>2. /\ None(Tail(d), Answers \ (Answers \ {"SERVICE_ACCEPT"}))
        /\ AtMostOne(Tail(d), Answers \ {"SERVICE_ACCEPT"})
    BY <2>1, FewerAre
  <2> QED
    BY <1>5, <1>8, <2>1, <2>2 DEF Asked
<1>11. InTurn(r.s, r.up, Tail(d))
  BY <1>2, <1>6, <1>7, <1>9, <1>10 DEF InTurn
<1>12. Exchanged(r.s, Tail(d))
  <2>1. Exchanged(w.s, Tail(d))
    BY <1>1, Removed
  <2> QED
    BY <1>2, <1>7, <1>9, <2>1 DEF Exchanged
<1>13. Same(r.s, w.s, Heard)
  BY <1>7 DEF Same, Heard
<1>14. ~r.s.vain /\ Len(r.up) <= 1
  BY <1>8, <1>9 DEF Rightly
<1>15. HandledWell(r, w, Tail(d))
  BY <1>6, <1>11, <1>12, <1>13, <1>14 DEF HandledWell, Rightly
<1> QED
  BY <1>4, <1>15

\* A refusal makes an event of itself, and no request is under way any more; likewise a
\* question where a password was asked about.
LEMMA ReadRefusal ==
    ASSUME NEW w \in Works, NEW d \in Seq(Messages), d # <<>>, ~w.s.closed, w.s.st = "handshake",
           Rightly(w.s, w.up, d), d[1].t \in Answers \ {"SERVICE_ACCEPT"},
           NEW e \in Events, e.t \in Refusals, NEW t \in Sessions,
           Same(t, w.s, {"evs", "pending"}), t.pending = Nothing, t.evs = Append(w.s.evs, e)
    PROVE  HandledWell([w EXCEPT !.s = t], w, Tail(d))
<1>1. w.s \in Sessions /\ w.up \in Seq(Messages) /\ InTurn(w.s, w.up, d) /\ Exchanged(w.s, d)
  BY DEF Works, Rightly
<1>2. Idle(w.up, Tail(d)) /\ None(w.s.evs, Refusals) /\ w.s.auth = "IN_PROGRESS"
  BY <1>1, WhoAnswers DEF Answers
<1>3. [w EXCEPT !.s = t] = [s |-> t, up |-> w.up]
  BY DEF Works
<1>4. AtMostOne(t.evs, Refusals)
  BY <1>1, <1>2, AppendAre DEF Sessions
<1>5. /\ t.auth = w.s.auth /\ t.first = w.s.first /\ t.dec = w.s.dec /\ t.ok = w.s.ok
      /\ t.authOk = w.s.authOk /\ t.vain = w.s.vain
  BY DEF Same, Fields
<1>6. InTurn(t, w.up, Tail(d))
  BY <1>2, <1>4, <1>5 DEF InTurn
<1>7. Exchanged(t, Tail(d))
  <2>1. Exchanged(w.s, Tail(d))
    BY <1>1, Removed
  <2> QED
    BY <1>5, <2>1 DEF Exchanged
<1>8. Same(t, w.s, Heard) /\ ~t.vain /\ Len(w.up) <= 1
  BY <1>5 DEF Same, Heard, Rightly
<1> QED
  BY <1>1, <1>3, <1>6, <1>7, <1>8 DEF HandledWell, Rightly, Works

\* The login is done.
LEMMA ReadSuccess ==
    ASSUME NEW w \in Works, NEW d \in Seq(Messages), d # <<>>, ~w.s.closed, w.s.st = "handshake",
           Rightly(w.s, w.up, d), d[1].t = "SUCCESS"
    PROVE  HandledWell(ssh_auth_dispatch(w, d[1]), w, Tail(d))
<1> DEFINE e == Event("AUTH_OK")
           t == [Push(w.s, e) EXCEPT !.pending = Nothing, !.authOk = TRUE, !.auth = "DONE"]
           r == [w EXCEPT !.s = t]
<1>1. w.s \in Sessions /\ w.up \in Seq(Messages) /\ InTurn(w.s, w.up, d) /\ Exchanged(w.s, d)
  BY DEF Works, Rightly
<1>2. Idle(w.up, Tail(d)) /\ None(w.s.evs, Refusals) /\ w.s.auth = "IN_PROGRESS"
  BY <1>1, WhoAnswers DEF Answers
<1>3. e \in Events /\ e.t \notin Refusals
  BY Made DEF Refusals
<1>4. ssh_auth_dispatch(w, d[1]) = r
  BY DEF ssh_auth_dispatch
<1> HIDE DEF e
<1>5. /\ Push(w.s, e) \in Sessions /\ Same(Push(w.s, e), w.s, {"evs"})
      /\ Push(w.s, e).evs = Append(w.s.evs, e)
  BY <1>1, <1>3, Pushed
<1>6. /\ t \in Sessions /\ Same(t, Push(w.s, e), {"pending", "authOk", "auth"})
      /\ t.pending = Nothing /\ t.authOk = TRUE /\ t.auth = "DONE"
  BY <1>5 DEF Sessions, Same, Fields
<1>7. r = [s |-> t, up |-> w.up]
  BY DEF Works
<1> HIDE DEF t, r
<1>8. /\ Same(t, w.s, {"evs", "pending", "authOk", "auth"})
      /\ t.evs = Append(w.s.evs, e)
  BY <1>5, <1>6 DEF Same, Fields
<1>9. None(t.evs, Refusals)
  BY <1>1, <1>2, <1>3, <1>8, AppendAre DEF Sessions
<1>10. t.first = w.s.first /\ t.dec = w.s.dec /\ t.ok = w.s.ok /\ t.vain = w.s.vain
  BY <1>8 DEF Same, Fields
<1>11. InTurn(t, w.up, Tail(d))
  BY <1>2, <1>6, <1>9 DEF InTurn
<1>12. Exchanged(t, Tail(d))
  <2>1. Exchanged(w.s, Tail(d))
    BY <1>1, Removed
  <2> QED
    BY <1>2, <1>6, <1>10, <2>1 DEF Exchanged
<1>13. Same(t, w.s, Heard) /\ ~t.vain /\ Len(w.up) <= 1
  BY <1>8, <1>10 DEF Same, Heard, Rightly
<1>14. HandledWell(r, w, Tail(d))
  BY <1>1, <1>6, <1>7, <1>11, <1>12, <1>13 DEF HandledWell, Rightly, Works
<1> QED
  BY <1>4, <1>14

\* What is no answer, or a question nobody asks, changes nothing that an answer is about.
LEMMA ReadNothing ==
    ASSUME NEW w \in Works, NEW d \in Seq(Messages), d # <<>>, ~w.s.closed, w.s.st = "handshake",
           Rightly(w.s, w.up, d), NEW t \in Sessions,
           \/ Same(t, w.s, {"unheard"})
           \/ \E e \in Events :
                 e.t \notin Refusals /\ t.evs = Append(w.s.evs, e) /\ Same(t, w.s, {"evs"})
    PROVE  HandledWell([w EXCEPT !.s = t], w, Tail(d))
<1>1. /\ w.s \in Sessions /\ w.up \in Seq(Messages) /\ InTurn(w.s, w.up, d)
      /\ Exchanged(w.s, d) /\ w.s.evs \in Seq(Events)
  BY DEF Works, Rightly, Sessions
<1>2. Same(t, w.s, {"unheard", "evs"})
  BY DEF Same
<1>3. \A f \in {"auth", "pending", "first", "dec", "ok", "authOk"} : t[f] = w.s[f]
  BY <1>2 DEF Same, Fields
<1>4. /\ None(w.s.evs, Refusals) => None(t.evs, Refusals)
      /\ AtMostOne(w.s.evs, Refusals) => AtMostOne(t.evs, Refusals)
  <2>1. CASE Same(t, w.s, {"unheard"})
    BY <2>1 DEF Same, Fields
  <2>2. CASE \E e \in Events : e.t \notin Refusals /\ t.evs = Append(w.s.evs, e)
    BY <1>1, <2>2, AppendAre
  <2> QED
    BY <2>1, <2>2
<1>5. InTurn(t, w.up, Tail(d)) /\ Exchanged(t, Tail(d))
  <2>1. InTurn(w.s, w.up, Tail(d)) /\ Exchanged(w.s, Tail(d))
    BY <1>1, Removed
  <2> QED
    BY <1>1, <1>3, <1>4, <2>1, Unmoved
<1>6. Same(t, w.s, Heard) /\ ~t.vain /\ Len(w.up) <= 1
  BY <1>2 DEF Same, Heard, Rightly, Fields
<1>7. [w EXCEPT !.s = t] = [s |-> t, up |-> w.up]
  BY DEF Works
<1> QED
  BY <1>1, <1>5, <1>6, <1>7 DEF HandledWell, Rightly, Works

\* The exchange is over: the login begins, or waits for the user.
LEMMA ReadNewKeys ==
    ASSUME NEW w \in Works, NEW d \in Seq(Messages), d # <<>>, ~w.s.closed, w.s.st = "handshake",
           Rightly(w.s, w.up, d), d[1].t = "NEWKEYS"
    PROVE  HandledWell(kex_finished(w), w, Tail(d))
<1> DEFINE v == [w EXCEPT !.s.first = TRUE]
<1>1. w.s \in Sessions /\ w.up \in Seq(Messages) /\ InTurn(w.s, w.up, d) /\ Exchanged(w.s, d)
  BY DEF Works, Rightly
<1>2. v \in Works /\ Same(v.s, w.s, {"first"}) /\ v.s.first = TRUE /\ v.up = w.up
  BY FirstSet
<1>5. ~w.s.first /\ w.s.auth = "NONE" /\ None(Tail(d), {"NEWKEYS"})
  <2>1. ~None(d, {"NEWKEYS"}) /\ (AtMostOne(d, {"NEWKEYS"}) => None(Tail(d), {"NEWKEYS"}))
    BY TailAre
  <2> QED
    BY <1>1, <2>1 DEF Exchanged
<1>6. /\ Idle(w.up, d) /\ None(w.s.evs, Refusals) /\ w.s.pending = Nothing
      /\ (w.s.dec => w.s.ok) /\ w.s.authOk = FALSE
  BY <1>1, <1>5 DEF InTurn, Exchanged, Sessions
<1>7. Idle(w.up, Tail(d))
  BY <1>6, TailAre DEF Idle
<1>8. kex_finished(w) = IF w.s.dec THEN ssh_auth_begin(v) ELSE [v EXCEPT !.s.auth = "WAIT_HOSTKEY"]
  <2>1. w.s.dec \in BOOLEAN /\ w.s.ok \in BOOLEAN
    BY <1>1 DEF Sessions
  <2> QED
    BY <1>6, <2>1 DEF kex_finished
<1> HIDE DEF v
<1>9. PICK r \in Works : /\ kex_finished(w) = r /\ Same(r.s, v.s, {"auth"})
                         /\ \/ r.s.auth = "WAIT_HOSTKEY" /\ r.up = w.up
                            \/ /\ r.s.auth = "SERVICE_SENT"
                               /\ r.up = Append(<<>>, Msg("SERVICE_REQUEST"))
  <2>1. CASE w.s.dec
    <3>1. ~v.s.closed /\ v.up = <<>>
      BY <1>2, <1>6 DEF Same, Fields, Idle
    <3>2. LET r == ssh_auth_begin(v) IN
             /\ r \in Works /\ Same(r.s, v.s, {"auth"}) /\ r.s.auth = "SERVICE_SENT"
             /\ r.up = IF v.s.closed THEN v.up ELSE Append(v.up, Msg("SERVICE_REQUEST"))
      BY <1>2, Begun
    <3> QED
      BY <2>1, <1>8, <3>1, <3>2
  <2>2. CASE ~w.s.dec
    <3>1. LET r == [v EXCEPT !.s.auth = "WAIT_HOSTKEY"] IN
             /\ r \in Works /\ Same(r.s, v.s, {"auth"}) /\ r.s.auth = "WAIT_HOSTKEY"
             /\ r.up = v.up
      BY <1>2, AuthSet
    <3> QED
      BY <2>2, <1>2, <1>8, <3>1
  <2> QED
    BY <2>1, <2>2
<1>10. Same(r.s, w.s, {"first", "auth"}) /\ r.s.first = TRUE
  BY <1>2, <1>9 DEF Same, Fields
<1>11. /\ r.s.evs = w.s.evs /\ r.s.vain = w.s.vain /\ r.s.dec = w.s.dec /\ r.s.ok = w.s.ok
       /\ r.s.authOk = w.s.authOk /\ r.s.pending = w.s.pending
  BY <1>10 DEF Same, Fields
<1>12. Exchanged(r.s, Tail(d))
  <2>1. None(Tail(d), {"NEWKEYS"}) /\ AtMostOne(Tail(d), {"NEWKEYS"})
    BY <1>5, FewerAre
  <2> QED
    BY <1>6, <1>9, <1>10, <1>11, <2>1 DEF Exchanged
<1>13. InTurn(r.s, r.up, Tail(d)) /\ Len(r.up) <= 1
  <2>1. CASE r.s.auth = "WAIT_HOSTKEY" /\ r.up = w.up
    BY <2>1, <1>6, <1>7, <1>11 DEF InTurn, Idle
  <2>2. CASE r.s.auth = "SERVICE_SENT" /\ r.up = Append(<<>>, Msg("SERVICE_REQUEST"))
    <3>1. Msg("SERVICE_REQUEST") \in Messages /\ Msg("SERVICE_REQUEST").t = "SERVICE_REQUEST"
      BY Made DEF Requests
    <3>2. Len(r.up) = 1 /\ r.up[1].t = "SERVICE_REQUEST"
      BY <2>2, <3>1
    <3>3. /\ None(Tail(d), Answers) /\ None(Tail(d), Answers \ {"SERVICE_ACCEPT"})
          /\ AtMostOne(Tail(d), {"SERVICE_ACCEPT"})
      BY <1>7, FewerAre DEF Idle, Answers
    <3>4. Asked(r.up, Tail(d), {"SERVICE_REQUEST"}, {"SERVICE_ACCEPT"})
      BY <3>2, <3>3 DEF Asked
    <3> QED
      BY <2>2, <3>2, <3>4, <1>6, <1>11 DEF InTurn
  <2> QED
    BY <1>9, <2>1, <2>2
<1>14. Same(r.s, w.s, Heard)
  BY <1>10 DEF Same, Heard
<1> QED
  BY <1>9, <1>11, <1>12, <1>13, <1>14 DEF HandledWell, Rightly

\* Whatever message comes in, everything is in its place afterwards.
LEMMA Reads ==
    ASSUME NEW w \in Works, NEW d \in Seq(Messages), d # <<>>, w.s.st = "handshake",
           d[1].t \notin Requests, Rightly(w.s, w.up, d)
    PROVE  HandledWell(handle_packet(w, d[1]), w, Tail(d))
<1> DEFINE m == d[1]
<1>1. m \in Messages
  BY TailAre
<1>2. w.s \in Sessions
  BY DEF Works
<1>3. CASE w.s.closed
  <2>1. handle_packet(w, m) = w
    BY <1>3 DEF handle_packet
  <2> QED
    BY <1>3, <2>1 DEF HandledWell, Rightly, Same
<1>4. CASE ~w.s.closed
  <2>1. CASE m.t = "DISCONNECT"
    <3> DEFINE t == [Push(w.s, Event("DISCONNECT")) EXCEPT !.closed = TRUE]
    <3>1. handle_packet(w, m) = [w EXCEPT !.s = t]
      BY <1>4, <2>1 DEF handle_packet
    <3>2. /\ Push(w.s, Event("DISCONNECT")) \in Sessions
          /\ Same(Push(w.s, Event("DISCONNECT")), w.s, {"evs"})
      BY <1>2, Made, Pushed
    <3>3. t \in Sessions /\ Same(t, Push(w.s, Event("DISCONNECT")), {"closed"}) /\ t.closed = TRUE
      BY <3>2 DEF Sessions, Same, Fields
    <3> HIDE DEF t
    <3>4. Same(t, w.s, Heard) /\ t.vain = w.s.vain
      BY <3>2, <3>3 DEF Same, Heard, Fields
    <3>5. [w EXCEPT !.s = t] = [s |-> t, up |-> w.up]
      BY DEF Works
    <3>6. HandledWell([w EXCEPT !.s = t], w, Tail(d))
      BY <3>3, <3>4, <3>5 DEF HandledWell, Rightly, Works
    <3> QED
      BY <3>1, <3>6
  <2>2. CASE m.t = "KEX_REPLY"
    <3> DEFINE e == [Event("HOSTKEY") EXCEPT !.key = m.key]
               t == Push(w.s, e)
    <3>1. handle_packet(w, m) = [w EXCEPT !.s = t]
      BY <1>4, <2>2 DEF handle_packet
    <3>2. e \in Events /\ e.t \notin Refusals
      <4>1. Event("HOSTKEY") \in Events /\ Event("HOSTKEY").t = "HOSTKEY" /\ m.key \in Keys
        BY <1>1, Made DEF Messages
      <4> QED
        BY <4>1 DEF Events, Refusals
    <3> HIDE DEF e
    <3>3. t \in Sessions /\ t.evs = Append(w.s.evs, e) /\ Same(t, w.s, {"evs"})
      BY <1>2, <3>2, Pushed
    <3> HIDE DEF t
    <3>4. HandledWell([w EXCEPT !.s = t], w, Tail(d))
      BY <1>4, <3>2, <3>3, ReadNothing
    <3> QED
      BY <3>1, <3>4
  <2>3. CASE m.t = "NEWKEYS"
    BY <1>4, <2>3, ReadNewKeys DEF handle_packet
  <2>4. CASE m.t \notin {"DISCONNECT", "KEX_REPLY", "NEWKEYS"}
    <3>1. handle_packet(w, m) = ssh_auth_dispatch(w, m)
      BY <1>4, <2>4 DEF handle_packet
    <3>2. CASE m.t = "SERVICE_ACCEPT"
      BY <1>4, <3>1, <3>2, ReadAccept
    <3>3. CASE m.t = "BANNER"
      <4>1. ssh_auth_dispatch(w, m) = w
        BY <3>3 DEF ssh_auth_dispatch
      <4>2. InTurn(w.s, w.up, Tail(d)) /\ Exchanged(w.s, Tail(d))
        BY <1>2, <1>4, Removed DEF Rightly, Works
      <4> QED
        BY <3>1, <4>1, <4>2 DEF HandledWell, Rightly, Same
    <3>4. CASE m.t = "FAILURE"
      <4> DEFINE e == [Event(IF w.s.pending = "none" THEN "AUTH_NEEDED" ELSE "AUTH_FAILED")
                       EXCEPT !.methods = m.methods]
                 t == Push(Failed(w.s), e)
      <4>1. ssh_auth_dispatch(w, m) = [w EXCEPT !.s = t]
        BY <3>4 DEF ssh_auth_dispatch
      <4>2. e \in Events /\ e.t \in Refusals
        <5>1. PICK x \in Refusals :
                 e = [Event(x) EXCEPT !.methods = m.methods]
          BY DEF Refusals
        <5>2. Event(x) \in Events /\ Event(x).t = x /\ m.methods \in Methods
          BY <1>1, Made DEF Messages
        <5> HIDE DEF e
        <5> QED
          BY <5>1, <5>2 DEF Events
      <4> HIDE DEF e
      <4>3. /\ Failed(w.s) \in Sessions /\ Same(Failed(w.s), w.s, {"pending"})
            /\ Failed(w.s).pending = Nothing /\ Failed(w.s).evs = w.s.evs
        BY <1>2 DEF Failed, Sessions, Same, Fields
      <4>4. t \in Sessions /\ Same(t, Failed(w.s), {"evs"}) /\ t.evs = Append(w.s.evs, e)
        BY <4>2, <4>3, Pushed
      <4>5. Same(t, w.s, {"evs", "pending"}) /\ t.pending = Nothing
        BY <4>3, <4>4 DEF Same, Fields
      <4> HIDE DEF t
      <4>6. m.t \in Answers \ {"SERVICE_ACCEPT"}
        BY <3>4 DEF Answers
      <4>7. HandledWell([w EXCEPT !.s = t], w, Tail(d))
        BY <1>4, <4>2, <4>4, <4>5, <4>6, ReadRefusal
      <4> QED
        BY <3>1, <4>1, <4>7
    <3>5. CASE m.t = "SUCCESS"
      BY <1>4, <3>1, <3>5, ReadSuccess
    <3>6. CASE m.t = "INFO" /\ w.s.pending = "password"
      <4> DEFINE e == [Event("AUTH_FAILED") EXCEPT !.code = 2]
                 t == [Push(w.s, e) EXCEPT !.pending = Nothing]
      <4>1. ssh_auth_dispatch(w, m) = [w EXCEPT !.s = t]
        BY <3>6 DEF ssh_auth_dispatch
      <4>2. e \in Events /\ e.t \in Refusals
        <5>1. Event("AUTH_FAILED") \in Events /\ Event("AUTH_FAILED").t = "AUTH_FAILED"
          BY Made DEF Refusals
        <5> QED
          BY <5>1 DEF Events, Refusals
      <4> HIDE DEF e
      <4>3. /\ Push(w.s, e) \in Sessions /\ Same(Push(w.s, e), w.s, {"evs"})
            /\ Push(w.s, e).evs = Append(w.s.evs, e)
        BY <1>2, <4>2, Pushed
      <4>4. t \in Sessions /\ Same(t, Push(w.s, e), {"pending"}) /\ t.pending = Nothing
        BY <4>3 DEF Sessions, Same, Fields
      <4>5. Same(t, w.s, {"evs", "pending"}) /\ t.evs = Append(w.s.evs, e)
        BY <4>3, <4>4 DEF Same, Fields
      <4> HIDE DEF t
      <4>6. m.t \in Answers \ {"SERVICE_ACCEPT"}
        BY <3>6 DEF Answers
      <4>7. HandledWell([w EXCEPT !.s = t], w, Tail(d))
        BY <1>4, <4>2, <4>4, <4>5, <4>6, ReadRefusal
      <4> QED
        BY <3>1, <4>1, <4>7
    <3>7. CASE m.t = "INFO" /\ w.s.pending # "password"
      <4> DEFINE t == [w.s EXCEPT !.unheard = TRUE]
      <4>1. ssh_auth_dispatch(w, m) = [w EXCEPT !.s = t]
        BY <3>7 DEF ssh_auth_dispatch
      <4>2. t \in Sessions /\ Same(t, w.s, {"unheard"})
        BY <1>2 DEF Sessions, Same, Fields
      <4> HIDE DEF t
      <4>3. HandledWell([w EXCEPT !.s = t], w, Tail(d))
        BY <1>4, <4>2, ReadNothing
      <4> QED
        BY <3>1, <4>1, <4>3
    <3>8. m.t \in {"SERVICE_ACCEPT", "BANNER", "FAILURE", "SUCCESS", "INFO"}
      BY <1>1, <2>4 DEF Messages, Requests, Answers
    <3> QED
      BY <3>2, <3>3, <3>4, <3>5, <3>6, <3>7, <3>8
  <2> QED
    BY <2>1, <2>2, <2>3, <2>4
<1> QED
  BY <1>3, <1>4

-----------------------------------------------------------------------------
(* Events answered *)

\* An event is done with.
LEMMA EventTaken ==
    ASSUME NEW t \in Sessions, t.evs # <<>>
    PROVE  LET r == [t EXCEPT !.evs = Tail(@)] IN
           /\ r \in Sessions /\ Same(r, t, {"evs"}) /\ r.evs = Tail(t.evs)
           /\ None(t.evs, Refusals) => None(r.evs, Refusals)
           /\ AtMostOne(t.evs, Refusals) => AtMostOne(r.evs, Refusals)
           /\ AtMostOne(t.evs, Refusals) /\ t.evs[1].t \in Refusals => None(r.evs, Refusals)
<1>1. t.evs \in Seq(Events)
  BY DEF Sessions
<1>2. /\ Tail(t.evs) \in Seq(Events)
      /\ None(t.evs, Refusals) => None(Tail(t.evs), Refusals)
      /\ AtMostOne(t.evs, Refusals) => AtMostOne(Tail(t.evs), Refusals)
      /\ AtMostOne(t.evs, Refusals) /\ t.evs[1].t \in Refusals => None(Tail(t.evs), Refusals)
  BY <1>1, TailAre
<1> DEFINE r == [t EXCEPT !.evs = Tail(@)]
<1>3. r \in Sessions /\ Same(r, t, {"evs"}) /\ r.evs = Tail(t.evs)
  BY <1>2 DEF Sessions, Same, Fields
<1> HIDE DEF r
<1>4. /\ r \in Sessions /\ Same(r, t, {"evs"}) /\ r.evs = Tail(t.evs)
      /\ None(t.evs, Refusals) => None(r.evs, Refusals)
      /\ AtMostOne(t.evs, Refusals) => AtMostOne(r.evs, Refusals)
      /\ AtMostOne(t.evs, Refusals) /\ t.evs[1].t \in Refusals => None(r.evs, Refusals)
  BY <1>2, <1>3
<1> QED
  BY <1>4 DEF r

\* Everything is in its place as long as it is for the fields it is about.
LEMMA StillRightly ==
    ASSUME NEW t \in Sessions, NEW r \in Sessions, NEW u, NEW d,
           \A f \in {"st", "closed", "vain", "auth", "pending", "first", "dec", "ok", "authOk"} :
              r[f] = t[f],
           None(t.evs, Refusals) => None(r.evs, Refusals),
           AtMostOne(t.evs, Refusals) => AtMostOne(r.evs, Refusals),
           Rightly(t, u, d)
    PROVE  Rightly(r, u, d)
<1>1. /\ \A f \in {"auth", "pending", "first", "dec", "ok", "authOk"} : r[f] = t[f]
      /\ r.st = t.st /\ r.closed = t.closed /\ r.vain = t.vain
  OBVIOUS
<1>2. CASE ~(t.st = "handshake" /\ ~t.closed)
  BY <1>1, <1>2 DEF Rightly
<1>3. CASE t.st = "handshake" /\ ~t.closed
  <2>1. InTurn(t, u, d) /\ Exchanged(t, d)
    BY <1>3 DEF Rightly
  <2>2. InTurn(r, u, d) /\ Exchanged(r, d)
    BY <1>1, <2>1, Unmoved
  <2> QED
    BY <1>1, <2>2 DEF Rightly
<1> QED
  BY <1>2, <1>3

\* What the answer to an event leaves: the session goes on, without the event.
Answered(r, w, fs, d) ==
    LET t == [r.s EXCEPT !.evs = Tail(@)] IN
    /\ t \in Sessions /\ r.up \in Seq(Messages) /\ Rightly(t, r.up, d)
    /\ Same(t, w.s, fs \cup {"evs"})

\* An event is answered by doing nothing.
LEMMA NoAnswer ==
    ASSUME NEW w \in Works, NEW d, w.s.evs # <<>>, Rightly(w.s, w.up, d)
    PROVE  Answered(w, w, {}, d)
<1>1. w.s \in Sessions /\ w.up \in Seq(Messages)
  BY DEF Works
<1> DEFINE t == [w.s EXCEPT !.evs = Tail(@)]
<1>2. /\ t \in Sessions /\ Same(t, w.s, {"evs"})
      /\ None(w.s.evs, Refusals) => None(t.evs, Refusals)
      /\ AtMostOne(w.s.evs, Refusals) => AtMostOne(t.evs, Refusals)
  BY <1>1, EventTaken
<1> HIDE DEF t
<1>3. Rightly(t, w.up, d)
  <2>1. \A f \in {"st", "closed", "vain", "auth", "pending", "first", "dec", "ok", "authOk"} :
           t[f] = w.s[f]
    BY <1>2 DEF Same, Fields
  <2> QED
    BY <1>1, <1>2, <2>1, StillRightly
<1> QED
  BY <1>1, <1>2, <1>3 DEF Answered, Same, t

\* A refusal is answered with the next request, which can be made: nothing else is under way.
LEMMA NextRequest ==
    ASSUME NEW w \in Works, NEW d \in Seq(Messages), w.s.evs # <<>>, w.s.evs[1].t \in Refusals,
           w.s.st = "handshake", Rightly(w.s, w.up, d), NEW m \in Requests \ {"SERVICE_REQUEST"}
    PROVE  /\ ssh_auth(w, m) \in Works /\ Same(ssh_auth(w, m).s, w.s, {"pending"})
           /\ Answered(ssh_auth(w, m), w, {"pending"}, d)
           /\ ~w.s.closed => can_auth(w.s)
<1>1. w.s \in Sessions /\ w.up \in Seq(Messages) /\ w.s.evs \in Seq(Events)
  BY DEF Works, Sessions
<1>2. CASE w.s.closed
  <2>1. ssh_auth(w, m) = w
    <3> DEFINE x == [w.s EXCEPT !.vain = w.s.vain \/ ~w.s.closed]
    <3>1. ssh_auth(w, m) = [w EXCEPT !.s = x]
      BY <1>2 DEF ssh_auth, can_auth
    <3>2. w.s.vain \in BOOLEAN /\ (w.s.vain \/ ~w.s.closed) = w.s.vain
      BY <1>1, <1>2 DEF Sessions
    <3>3. x = w.s
      BY <1>1, <3>2 DEF Sessions
    <3> HIDE DEF x
    <3>4. w = [s |-> w.s, up |-> w.up]
      BY DEF Works
    <3> QED
      BY <3>1, <3>3, <3>4
  <2> QED
    BY <1>2, <2>1, NoAnswer DEF Answered, Same
<1>3. CASE ~w.s.closed
  <2>1. InTurn(w.s, w.up, d) /\ Exchanged(w.s, d)
    BY <1>3 DEF Rightly
  <2>2. ~None(w.s.evs, Refusals)
    BY <1>1, TailAre
  <2>3. /\ w.s.auth = "IN_PROGRESS" /\ w.s.pending = Nothing /\ Idle(w.up, d)
        /\ AtMostOne(w.s.evs, Refusals) /\ ~w.s.authOk
    BY <1>1, <2>1, <2>2 DEF InTurn, Exchanged, Sessions
  <2>4. can_auth(w.s)
    BY <1>3, <2>3 DEF can_auth
  <2> DEFINE r == send_request(w, m)
             t == [r.s EXCEPT !.evs = Tail(@)]
  <2>5. ssh_auth(w, m) = r
    BY <2>4 DEF ssh_auth
  <2>6. /\ r \in Works /\ Same(r.s, w.s, {"pending"}) /\ r.s.pending # Nothing
        /\ r.up = Append(<<>>, Msg(m))
    BY <1>3, <2>3, Requested DEF Idle
  <2> HIDE DEF r
  <2>7. r.s \in Sessions /\ r.up \in Seq(Messages) /\ r.s.evs = w.s.evs
    BY <2>6 DEF Works, Same, Fields
  <2>8. t \in Sessions /\ Same(t, r.s, {"evs"}) /\ None(t.evs, Refusals)
    BY <2>3, <2>7, EventTaken
  <2> HIDE DEF t
  <2>9. Same(t, w.s, {"pending", "evs"}) /\ t.pending = r.s.pending
    BY <2>6, <2>8 DEF Same, Fields
  <2>10. /\ t.auth = w.s.auth /\ t.first = w.s.first /\ t.dec = w.s.dec /\ t.ok = w.s.ok
         /\ t.authOk = w.s.authOk /\ t.vain = w.s.vain
    BY <2>9 DEF Same, Fields
  <2>11. Len(r.up) = 1 /\ r.up[1].t = m
    <3>1. Msg(m) \in Messages /\ Msg(m).t = m
      BY Made
    <3> QED
      BY <2>6, <3>1
  <2>12. Asked(r.up, d, Requests \ {"SERVICE_REQUEST"}, Answers \ {"SERVICE_ACCEPT"})
    <3>1. /\ None(d, Answers) /\ None(d, Answers \ (Answers \ {"SERVICE_ACCEPT"}))
          /\ AtMostOne(d, Answers \ {"SERVICE_ACCEPT"})
      BY <2>3, FewerAre DEF Idle
    <3> QED
      BY <2>11, <3>1 DEF Asked
  <2>13. InTurn(t, r.up, d)
    BY <2>3, <2>6, <2>8, <2>9, <2>10, <2>12 DEF InTurn
  <2>14. Exchanged(t, d)
    BY <2>1, <2>10 DEF Exchanged
  <2>15. Rightly(t, r.up, d)
    BY <2>10, <2>11, <2>13, <2>14 DEF Rightly
  <2>16. Answered(r, w, {"pending"}, d)
    BY <2>7, <2>8, <2>9, <2>15 DEF Answered, t
  <2> QED
    BY <2>4, <2>5, <2>6, <2>16
<1> QED
  BY <1>2, <1>3

\* The host's key is accepted or not; if the exchange waits for it, the login begins.
LEMMA KeyAnswer ==
    ASSUME NEW w \in Works, NEW d \in Seq(Messages), w.s.evs # <<>>, w.s.st = "handshake",
           Rightly(w.s, w.up, d), NEW accept \in BOOLEAN
    PROVE  Answered(ssh_hostkey_accept(w, accept), w, {"dec", "ok", "auth", "closed"}, d)
<1> DEFINE t == [w.s EXCEPT !.dec = TRUE, !.ok = accept]
           v == [w EXCEPT !.s.dec = TRUE, !.s.ok = accept]
           fs == {"dec", "ok", "auth", "closed"}
<1>1. /\ w.s \in Sessions /\ w.up \in Seq(Messages) /\ w.s.evs \in Seq(Events)
      /\ w.s.dec \in BOOLEAN
  BY DEF Works, Sessions
<1>2. t \in Sessions /\ Same(t, w.s, {"dec", "ok"}) /\ t.dec = TRUE /\ t.ok = accept
  BY <1>1 DEF Sessions, Same, Fields
<1>3. v = [s |-> t, up |-> w.up]
  <2>1. v = [[w EXCEPT !.s = [w.s EXCEPT !.dec = TRUE]]
             EXCEPT !.s = [[w.s EXCEPT !.dec = TRUE] EXCEPT !.ok = accept]]
    BY DEF Works
  <2>2. \A x, y : [[w EXCEPT !.s = x] EXCEPT !.s = y] = [s |-> y, up |-> w.up]
    <3>1. \A x : [w EXCEPT !.s = x] = [s |-> x, up |-> w.up]
      BY DEF Works
    <3>2. \A x, y : [[s |-> x, up |-> w.up] EXCEPT !.s = y] = [s |-> y, up |-> w.up]
      OBVIOUS
    <3> QED
      BY <3>1, <3>2
  <2>3. t = [[w.s EXCEPT !.dec = TRUE] EXCEPT !.ok = accept]
    OBVIOUS
  <2> QED
    BY <2>1, <2>2, <2>3
<1>4. v \in Works /\ v.s = t /\ v.up = w.up
  BY <1>1, <1>2, <1>3 DEF Works
<1>5. t.evs = w.s.evs /\ t.vain = w.s.vain /\ t.st = w.s.st /\ t.closed = w.s.closed
      /\ t.auth = w.s.auth /\ t.pending = w.s.pending /\ t.first = w.s.first /\ t.authOk = w.s.authOk
  BY <1>2 DEF Same, Fields
<1>6. CASE w.s.dec
  <2>1. ssh_hostkey_accept(w, accept) = w
    BY <1>6 DEF ssh_hostkey_accept
  <2> QED
    BY <2>1, NoAnswer DEF Answered, Same
<1>7. CASE ~w.s.dec /\ ~accept
  <2> DEFINE p == Push(t, Event("ERROR"))
             q == [p EXCEPT !.closed = TRUE]
             z == [q EXCEPT !.evs = Tail(@)]
             r == [v EXCEPT !.s = q]
  <2>1. ssh_hostkey_accept(w, accept) = r
    BY <1>3, <1>7 DEF ssh_hostkey_accept
  <2>2. p \in Sessions /\ Same(p, t, {"evs"}) /\ p.evs = Append(t.evs, Event("ERROR"))
    BY <1>2, Made, Pushed
  <2>3. p.evs # <<>>
    <3>1. Event("ERROR") \in Events
      BY Made
    <3>2. Len(Append(w.s.evs, Event("ERROR"))) = Len(w.s.evs) + 1 /\ Len(w.s.evs) \in Nat
      BY <1>1, <3>1
    <3> QED
      BY <2>2, <3>2, <1>5
  <2> HIDE DEF p
  <2>4. q \in Sessions /\ Same(q, p, {"closed"}) /\ q.closed = TRUE /\ q.evs = p.evs
    BY <2>2 DEF Sessions, Same, Fields
  <2> HIDE DEF q
  <2>5. z \in Sessions /\ Same(z, q, {"evs"})
    BY <2>3, <2>4, EventTaken
  <2> HIDE DEF z, v
  <2>6. r = [s |-> q, up |-> w.up]
    BY <1>4 DEF Works
  <2> HIDE DEF r
  <2>7. Same(z, w.s, fs \cup {"evs"}) /\ z.closed = TRUE /\ z.vain = w.s.vain
    BY <1>2, <2>2, <2>4, <2>5 DEF Same, Fields
  <2>8. Rightly(z, w.up, d)
    BY <2>7 DEF Rightly
  <2>9. Answered(r, w, fs, d)
    BY <1>1, <2>5, <2>6, <2>7, <2>8 DEF Answered, z
  <2> QED
    BY <2>1, <2>9
<1>8. CASE ~w.s.dec /\ accept /\ ~(w.s.first /\ w.s.auth = "WAIT_HOSTKEY")
  <2>1. ssh_hostkey_accept(w, accept) = v
    BY <1>8 DEF ssh_hostkey_accept
  <2> HIDE DEF t, v
  <2>2. Rightly(t, w.up, d)
    <3>1. t.dec = TRUE /\ t.ok = TRUE
      BY <1>2, <1>8
    <3>2. InTurn(w.s, w.up, d) => InTurn(t, w.up, d)
      BY <1>5 DEF InTurn
    <3>3. Exchanged(w.s, d) => Exchanged(t, d)
      BY <1>5, <3>1 DEF Exchanged
    <3> QED
      BY <1>5, <3>2, <3>3 DEF Rightly
  <2>3. Answered(v, v, {}, d)
    BY <1>4, <1>5, <2>2, NoAnswer
  <2>4. Answered(v, w, fs, d)
    BY <1>2, <1>4, <2>3 DEF Answered, Same
  <2> QED
    BY <2>1, <2>4
<1>9. CASE ~w.s.dec /\ accept /\ w.s.first /\ w.s.auth = "WAIT_HOSTKEY"
  <2> DEFINE r == ssh_auth_begin(v)
             z == [r.s EXCEPT !.evs = Tail(@)]
  <2>1. ssh_hostkey_accept(w, accept) = r
    BY <1>9 DEF ssh_hostkey_accept
  <2> HIDE DEF t, v
  <2>2. /\ r \in Works /\ Same(r.s, t, {"auth"}) /\ r.s.auth = "SERVICE_SENT"
        /\ r.up = IF t.closed THEN w.up ELSE Append(w.up, Msg("SERVICE_REQUEST"))
    BY <1>4, Begun
  <2> HIDE DEF r
  <2>3. r.s \in Sessions /\ r.up \in Seq(Messages) /\ r.s.evs = w.s.evs
    BY <1>5, <2>2 DEF Works, Same, Fields
  <2>4. /\ z \in Sessions /\ Same(z, r.s, {"evs"})
        /\ None(w.s.evs, Refusals) => None(z.evs, Refusals)
    BY <2>3, EventTaken
  <2> HIDE DEF z
  <2>5. Same(z, w.s, fs \cup {"evs"}) /\ Same(z, t, {"auth", "evs"}) /\ z.auth = "SERVICE_SENT"
    BY <1>2, <2>2, <2>4 DEF Same, Fields
  <2>6. /\ z.vain = w.s.vain /\ z.st = w.s.st /\ z.closed = w.s.closed /\ z.pending = w.s.pending
        /\ z.first = w.s.first /\ z.authOk = w.s.authOk /\ z.dec = TRUE /\ z.ok = TRUE
    BY <1>2, <1>5, <1>9, <2>5 DEF Same, Fields
  <2>7. Rightly(z, r.up, d)
    <3>1. CASE w.s.closed
      BY <3>1, <1>5, <2>2, <2>6 DEF Rightly
    <3>2. CASE ~w.s.closed
      <4>1. InTurn(w.s, w.up, d) /\ Exchanged(w.s, d)
        BY <3>2 DEF Rightly
      <4>2. Idle(w.up, d) /\ None(w.s.evs, Refusals) /\ w.s.pending = Nothing
        BY <1>9, <4>1 DEF InTurn
      <4>3. Msg("SERVICE_REQUEST") \in Messages /\ Msg("SERVICE_REQUEST").t = "SERVICE_REQUEST"
        BY Made DEF Requests
      <4>4. r.up = Append(<<>>, Msg("SERVICE_REQUEST"))
        BY <1>5, <2>2, <3>2, <4>2 DEF Idle
      <4>5. Len(r.up) = 1 /\ r.up[1].t = "SERVICE_REQUEST"
        BY <4>3, <4>4
      <4>6. /\ None(d, Answers) /\ None(d, Answers \ {"SERVICE_ACCEPT"})
            /\ AtMostOne(d, {"SERVICE_ACCEPT"})
        <5>1. Answers \ {"SERVICE_ACCEPT"} \in SUBSET Answers /\ {"SERVICE_ACCEPT"} \in SUBSET Answers
          BY DEF Answers
        <5> QED
          BY <4>2, <5>1, FewerAre DEF Idle
      <4>7. Asked(r.up, d, {"SERVICE_REQUEST"}, {"SERVICE_ACCEPT"})
        BY <4>5, <4>6 DEF Asked
      <4>8. InTurn(z, r.up, d)
        BY <2>4, <2>5, <2>6, <4>2, <4>7 DEF InTurn
      <4>9. Exchanged(z, d)
        BY <1>9, <2>5, <2>6, <4>1 DEF Exchanged
      <4> QED
        BY <2>6, <4>5, <4>8, <4>9 DEF Rightly
    <3> QED
      BY <3>1, <3>2
  <2>8. Answered(r, w, fs, d)
    BY <2>3, <2>4, <2>5, <2>7 DEF Answered, z
  <2> QED
    BY <2>1, <2>8
<1> QED
  BY <1>6, <1>7, <1>8, <1>9

-----------------------------------------------------------------------------
(* The steps *)

\* What LoginInv says besides the pools and the file, of the next state.
LEMMA Kept ==
    ASSUME LoginInv, SeedTypeOK', UNCHANGED world,
           s' \in Sessions, up' \in Seq(Messages), down' \in Seq(Messages),
           None(down', Requests), Rightly(s', up', down'),
           s'.pw \in 0..Tries(world.client).pw, s'.kbdTries \in 0..Tries(world.client).kbd,
           faults' \in 0..MaxFaults, rounds' \in 0..MaxRounds,
           s'.st \in {"handshake", "active"} => proc'[Main].pc = "up"
    PROVE  LoginInv'
<1>1. /\ s'.st \in {"none", "handshake", "active", "ended"}
      /\ s'.auth \in {"NONE", "WAIT_HOSTKEY", "SERVICE_SENT", "IN_PROGRESS", "DONE"}
      /\ s'.pending \in {Nothing, "none", "password", "publickey", "keyboard-intera"}
  BY DEF Sessions
<1>2. world' \in Worlds
  BY DEF LoginInv
<1>3. TypeOK'
  BY <1>1 DEF TypeOK
<1> QED
  BY <1>2, <1>3 DEF LoginInv, Rightly

\* What LoginInv says of this state, taken apart.
LEMMA Has ==
    ASSUME LoginInv
    PROVE  /\ s \in Sessions /\ up \in Seq(Messages) /\ down \in Seq(Messages)
           /\ None(down, Requests) /\ Rightly(s, up, down) /\ world \in Worlds
           /\ s.pw \in 0..Tries(world.client).pw /\ s.kbdTries \in 0..Tries(world.client).kbd
           /\ faults \in 0..MaxFaults /\ rounds \in 0..MaxRounds /\ SeedTypeOK
           /\ s.st \in {"handshake", "active"} => proc[Main].pc = "up"
           /\ W \in Works /\ W.s = s /\ W.up = up
BY DEF LoginInv, TypeOK, Rightly, Works, W

\* A message is taken in.
LEMMA InputStep ==
    ASSUME LoginInv, SeedTypeOK', ssh_input
    PROVE  LoginInv'
<1> DEFINE w == handle_packet(W, down[1])
<1>1. PICK more \in BOOLEAN : s' = [w.s EXCEPT !.reading = more] /\ up' = w.up
  BY DEF ssh_input
<1>2. /\ s.st = "handshake" /\ down # <<>> /\ down' = Tail(down)
      /\ UNCHANGED <<seedVars, world, hosts, rounds, connects, faults, trusted>>
  BY DEF ssh_input
<1>3. down[1].t \notin Requests /\ Tail(down) \in Seq(Messages) /\ None(Tail(down), Requests)
  BY <1>2, Has, TailAre
<1>4. HandledWell(w, W, Tail(down))
  BY <1>2, <1>3, Has, Reads
<1> HIDE DEF w
<1>5. w.s \in Sessions /\ w.up \in Seq(Messages) /\ Same(w.s, s, Heard) /\ Rightly(w.s, w.up, Tail(down))
  BY <1>4, Has DEF HandledWell, Works
<1>6. s' \in Sessions /\ Same(s', w.s, {"reading"})
  BY <1>1, <1>5 DEF Sessions, Same, Fields
<1>7. /\ \A f \in {"st", "closed", "vain", "auth", "pending", "first", "dec", "ok", "authOk"} :
            s'[f] = w.s[f]
      /\ s'.evs = w.s.evs
  BY <1>6 DEF Same, Fields
<1>8. Rightly(s', up', down')
  BY <1>1, <1>2, <1>5, <1>6, <1>7, StillRightly
<1>9. s'.pw = s.pw /\ s'.kbdTries = s.kbdTries /\ s'.st = s.st
  BY <1>5, <1>6 DEF Same, Fields, Heard
<1> QED
  BY <1>1, <1>2, <1>3, <1>5, <1>6, <1>8, <1>9, Has, Kept DEF seedVars

\* An event answered, however the session and the files go on.
LEMMA AnsweredStep ==
    ASSUME LoginInv, SeedTypeOK', UNCHANGED world,
           NEW r, NEW w \in Works, NEW fs \in SUBSET (Fields \ {"st", "pw", "kbdTries"}),
           Took(r), Answered(r, w, fs, down), w.s.st = s.st,
           w.s.pw \in 0..Tries(world.client).pw, w.s.kbdTries \in 0..Tries(world.client).kbd,
           faults' \in 0..MaxFaults, UNCHANGED rounds
    PROVE  LoginInv'
<1>1. /\ s' = [r.s EXCEPT !.evs = Tail(@)] /\ up' = r.up /\ down' = down /\ proc' = proc
  BY DEF Took, seedVars
<1>2. /\ s' \in Sessions /\ up' \in Seq(Messages) /\ Rightly(s', up', down)
      /\ Same(s', w.s, fs \cup {"evs"})
  BY <1>1 DEF Answered
<1>3. s'.pw = w.s.pw /\ s'.kbdTries = w.s.kbdTries /\ s'.st = s.st
  BY <1>2 DEF Same, Fields
<1> QED
  BY <1>1, <1>2, <1>3, Has, Kept

\* The verdict on the host's key, and the user's.
LEMMA HostKeyStep ==
    ASSUME LoginInv, SeedTypeOK', handleHostKey
    PROVE  LoginInv'
<1>1. s.st = "handshake" /\ s.evs # <<>> /\ UNCHANGED <<world, rounds, connects>>
  BY DEF handleHostKey, First
<1>2. PICK accept \in BOOLEAN : Took(ssh_hostkey_accept(W, accept))
  BY DEF handleHostKey
<1>3. faults' \in 0..MaxFaults
  <2>1. faults' = faults \/ (faults' = faults + 1 /\ faults < MaxFaults)
    BY DEF handleHostKey
  <2> QED
    BY <2>1, Has, LoginAssumption DEF LoginAssumption
<1>4. Answered(ssh_hostkey_accept(W, accept), W, {"dec", "ok", "auth", "closed"}, down)
  BY <1>1, Has, KeyAnswer
<1>5. {"dec", "ok", "auth", "closed"} \in SUBSET (Fields \ {"st", "pw", "kbdTries"})
  BY DEF Fields
<1> QED
  BY <1>1, <1>2, <1>3, <1>4, <1>5, Has, AnsweredStep

\* The work with another count of tries, or the key tried.
LEMMA Counted ==
    ASSUME NEW w \in Works, NEW d, Rightly(w.s, w.up, d), NEW t \in Sessions,
           Same(t, w.s, {"key", "pw", "kbdTries"})
    PROVE  /\ [w EXCEPT !.s = t] \in Works /\ [w EXCEPT !.s = t].s = t
           /\ [w EXCEPT !.s = t].up = w.up /\ Rightly(t, w.up, d)
           /\ t.evs = w.s.evs /\ t.st = w.s.st
<1>1. w.s \in Sessions /\ w.up \in Seq(Messages)
  BY DEF Works
<1>2. [w EXCEPT !.s = t] = [s |-> t, up |-> w.up]
  BY DEF Works
<1>3. /\ \A f \in {"st", "closed", "vain", "auth", "pending", "first", "dec", "ok", "authOk"} :
            t[f] = w.s[f]
      /\ t.evs = w.s.evs
  BY DEF Same, Fields
<1>4. Rightly(t, w.up, d)
  BY <1>1, <1>3, StillRightly
<1> QED
  BY <1>1, <1>2, <1>3, <1>4 DEF Works

\* A public key is offered, or cannot be.
LEMMA KeyTried ==
    ASSUME LoginInv, SeedTypeOK', s.st = "handshake", s.evs # <<>>, s.evs[1].t \in Refusals,
           Took(ssh_auth_publickey([W EXCEPT !.s.key = 1])),
           UNCHANGED <<world, faults, rounds>>
    PROVE  LoginInv'
<1> DEFINE t == [s EXCEPT !.key = 1]
           w == [W EXCEPT !.s = t]
<1>1. t \in Sessions /\ Same(t, s, {"key", "pw", "kbdTries"}) /\ t.pw = s.pw /\ t.kbdTries = s.kbdTries
  BY Has DEF Sessions, Same, Fields
<1>2. w = [W EXCEPT !.s.key = 1]
  BY Has
<1> HIDE DEF t
<1>3. /\ w \in Works /\ w.s = t /\ w.up = up /\ Rightly(t, up, down)
      /\ t.evs = s.evs /\ t.st = s.st
  <2>1. W \in Works /\ W.s = s /\ W.up = up /\ Rightly(W.s, W.up, down)
    BY Has
  <2>2. t \in Sessions /\ Same(t, W.s, {"key", "pw", "kbdTries"})
    BY <1>1, <2>1
  <2>3. /\ w \in Works /\ w.s = t /\ w.up = W.up /\ Rightly(t, W.up, down)
        /\ t.evs = W.s.evs /\ t.st = W.s.st
    BY <2>1, <2>2, Counted
  <2> QED
    BY <2>1, <2>3
<1> HIDE DEF w
<1>4. "publickey" \in Requests \ {"SERVICE_REQUEST"}
  BY DEF Requests
<1>5. PICK r : Took(r) /\ Answered(r, w, {"pending"}, down)
  <2>1. CASE world.key = "useless"
    <3>1. Answered(w, w, {}, down)
      BY <1>3, NoAnswer
    <3>2. Answered(w, w, {"pending"}, down)
      BY <3>1 DEF Answered, Same
    <3>3. Took(w)
      BY <1>2, <2>1 DEF ssh_auth_publickey
    <3> QED
      BY <3>2, <3>3
  <2>2. CASE world.key # "useless"
    <3>1. Took(ssh_auth(w, "publickey"))
      BY <1>2, <2>2 DEF ssh_auth_publickey
    <3>2. Answered(ssh_auth(w, "publickey"), w, {"pending"}, down)
      BY <1>3, <1>4, Has, NextRequest
    <3> QED
      BY <3>1, <3>2
  <2> QED
    BY <2>1, <2>2
<1>6. {"pending"} \in SUBSET (Fields \ {"st", "pw", "kbdTries"})
  BY DEF Fields
<1> QED
  BY <1>1, <1>3, <1>5, <1>6, Has, AnsweredStep

\* Keyboard-interactive is asked for.
LEMMA KbdTried ==
    ASSUME LoginInv, SeedTypeOK', s.st = "handshake", s.evs # <<>>, s.evs[1].t \in Refusals,
           s.kbdTries < Tries(world.client).kbd,
           Took(ssh_auth_kbdint_start([W EXCEPT !.s.kbdTries = @ + 1])),
           UNCHANGED <<world, faults, rounds>>
    PROVE  LoginInv'
<1> DEFINE t == [s EXCEPT !.kbdTries = s.kbdTries + 1]
           w == [W EXCEPT !.s = t]
<1>0. s.kbdTries \in Nat /\ Tries(world.client).kbd \in Nat
  <2>1. world.client \in {"app", "stepssh", "stepscp"}
    BY Has, LoginAssumption DEF LoginAssumption
  <2> QED
    BY <2>1, Has DEF Tries
<1>1. /\ t \in Sessions /\ Same(t, s, {"key", "pw", "kbdTries"}) /\ t.pw = s.pw
      /\ t.kbdTries = s.kbdTries + 1
  <2>1. s \in Sessions /\ s.kbdTries + 1 \in Nat
    BY <1>0, Has
  <2> QED
    BY <2>1 DEF Sessions, Same, Fields
<1>2. w = [W EXCEPT !.s.kbdTries = @ + 1]
  BY Has
<1> HIDE DEF t
<1>3. /\ w \in Works /\ w.s = t /\ w.up = up /\ Rightly(t, up, down)
      /\ t.evs = s.evs /\ t.st = s.st
  <2>1. W \in Works /\ W.s = s /\ W.up = up /\ Rightly(W.s, W.up, down)
    BY Has
  <2>2. t \in Sessions /\ Same(t, W.s, {"key", "pw", "kbdTries"})
    BY <1>1, <2>1
  <2>3. /\ w \in Works /\ w.s = t /\ w.up = W.up /\ Rightly(t, W.up, down)
        /\ t.evs = W.s.evs /\ t.st = W.s.st
    BY <2>1, <2>2, Counted
  <2> QED
    BY <2>1, <2>3
<1> HIDE DEF w
<1>4. "keyboard-interactive" \in Requests \ {"SERVICE_REQUEST"}
  BY DEF Requests
<1>5. Took(ssh_auth(w, "keyboard-interactive"))
  BY <1>2 DEF ssh_auth_kbdint_start
<1>6. Answered(ssh_auth(w, "keyboard-interactive"), w, {"pending"}, down)
  BY <1>3, <1>4, Has, NextRequest
<1>7. {"pending"} \in SUBSET (Fields \ {"st", "pw", "kbdTries"})
  BY DEF Fields
<1>8. t.kbdTries \in 0..Tries(world.client).kbd
  BY <1>0, <1>1
<1> QED
  BY <1>1, <1>3, <1>5, <1>6, <1>7, <1>8, Has, AnsweredStep

\* A password is asked for, and sent: no request is under way, and the server waits for one.
LEMMA PasswordTried ==
    ASSUME LoginInv, SeedTypeOK', s.st = "handshake", s.evs # <<>>, s.evs[1].t \in Refusals,
           s.pw < Tries(world.client).pw,
           Took(ssh_auth_password([W EXCEPT !.s.pw = @ + 1])),
           UNCHANGED <<world, faults, rounds>>
    PROVE  LoginInv'
<1> DEFINE t == [s EXCEPT !.pw = s.pw + 1]
           w == [W EXCEPT !.s = t]
<1>0. s.pw \in Nat /\ Tries(world.client).pw \in Nat
  <2>1. world.client \in {"app", "stepssh", "stepscp"}
    BY Has, LoginAssumption DEF LoginAssumption
  <2> QED
    BY <2>1, Has DEF Tries
<1>1. /\ t \in Sessions /\ Same(t, s, {"key", "pw", "kbdTries"}) /\ t.kbdTries = s.kbdTries
      /\ t.pw = s.pw + 1
  <2>1. s \in Sessions /\ s.pw + 1 \in Nat
    BY <1>0, Has
  <2> QED
    BY <2>1 DEF Sessions, Same, Fields
<1>2. w = [W EXCEPT !.s.pw = @ + 1]
  BY Has
<1> HIDE DEF t
<1>3. /\ w \in Works /\ w.s = t /\ w.up = up /\ Rightly(t, up, down)
      /\ t.evs = s.evs /\ t.st = s.st
  <2>1. W \in Works /\ W.s = s /\ W.up = up /\ Rightly(W.s, W.up, down)
    BY Has
  <2>2. t \in Sessions /\ Same(t, W.s, {"key", "pw", "kbdTries"})
    BY <1>1, <2>1
  <2>3. /\ w \in Works /\ w.s = t /\ w.up = W.up /\ Rightly(t, W.up, down)
        /\ t.evs = W.s.evs /\ t.st = W.s.st
    BY <2>1, <2>2, Counted
  <2> QED
    BY <2>1, <2>3
<1> HIDE DEF w
<1>4. "password" \in Requests \ {"SERVICE_REQUEST"}
  BY DEF Requests
<1>5. Took(ssh_auth(w, "password"))
  BY <1>2 DEF ssh_auth_password
<1>6. Answered(ssh_auth(w, "password"), w, {"pending"}, down)
  BY <1>3, <1>4, Has, NextRequest
<1>7. {"pending"} \in SUBSET (Fields \ {"st", "pw", "kbdTries"})
  BY DEF Fields
<1>8. t.pw \in 0..Tries(world.client).pw
  BY <1>0, <1>1
<1> QED
  BY <1>1, <1>3, <1>5, <1>6, <1>7, <1>8, Has, AnsweredStep

\* A session that has not begun, or is over.
LEMMA FreshSession ==
    ASSUME NEW c \in {"none", "handshake", "ended"}
    PROVE  LET t == [NewSession EXCEPT !.st = c] IN
           /\ t \in Sessions /\ t.st = c /\ t.pw = 0 /\ t.kbdTries = 0 /\ ~t.vain
           /\ t.auth = "NONE" /\ t.pending = Nothing /\ t.evs = <<>>
           /\ ~t.first /\ ~t.dec /\ ~t.authOk
<1>1. <<>> \in Seq(Events)
  OBVIOUS
<1>2. NewSession \in Sessions
  BY <1>1 DEF NewSession, Sessions
<1> DEFINE t == [NewSession EXCEPT !.st = c]
<1>3. t \in Sessions /\ t.st = c /\ Same(t, NewSession, {"st"})
  BY <1>2 DEF Sessions, Same, Fields
<1> HIDE DEF t
<1>4. /\ NewSession.pw = 0 /\ NewSession.kbdTries = 0 /\ NewSession.vain = FALSE
      /\ NewSession.auth = "NONE" /\ NewSession.pending = Nothing /\ NewSession.evs = <<>>
      /\ NewSession.first = FALSE /\ NewSession.dec = FALSE /\ NewSession.authOk = FALSE
  BY DEF NewSession
<1>5. /\ t \in Sessions /\ t.st = c /\ t.pw = 0 /\ t.kbdTries = 0 /\ ~t.vain
      /\ t.auth = "NONE" /\ t.pending = Nothing /\ t.evs = <<>>
      /\ ~t.first /\ ~t.dec /\ ~t.authOk
  BY <1>3, <1>4 DEF Same, Fields
<1> QED
  BY <1>5 DEF t

\* There is no session to begin with.
LEMMA NoSession == NewSession = [NewSession EXCEPT !.st = "none"]
<1>1. NewSession \in Sessions /\ NewSession.st = "none"
  <2>1. <<>> \in Seq(Events)
    OBVIOUS
  <2> QED
    BY <2>1 DEF NewSession, Sessions
<1>2. \A t \in Sessions : t.st = "none" => t = [t EXCEPT !.st = "none"]
  BY DEF Sessions
<1> QED
  BY <1>1, <1>2

\* How often a client tries.
LEMMA TriesCount ==
    ASSUME NEW w \in Worlds
    PROVE  Tries(w.client).pw \in Nat /\ Tries(w.client).kbd \in Nat
<1>1. w.client \in {"app", "stepssh", "stepscp"}
  BY LoginAssumption DEF LoginAssumption
<1> QED
  BY <1>1 DEF Tries

\* The session is gone, with all that was under way.
LEMMA Gone ==
    ASSUME LoginInv, SeedTypeOK', NEW c \in {"none", "ended"},
           s' = [NewSession EXCEPT !.st = c], up' = <<>>, down' = <<>>,
           UNCHANGED <<world, faults, rounds>>
    PROVE  LoginInv'
<1>1. s' \in Sessions /\ s'.st = c /\ s'.pw = 0 /\ s'.kbdTries = 0 /\ ~s'.vain
  BY FreshSession
<1>2. Rightly(s', up', down')
  BY <1>1 DEF Rightly
<1>3. up' \in Seq(Messages) /\ down' \in Seq(Messages) /\ None(down', Requests)
  BY EmptyAre
<1>4. world \in Worlds
  BY Has
<1>5. s'.pw \in 0..Tries(world.client).pw /\ s'.kbdTries \in 0..Tries(world.client).kbd
  BY <1>1, <1>4, TriesCount
<1> QED
  BY <1>1, <1>2, <1>3, <1>5, Has, Kept

\* The methods in turn.
LEMMA AuthStep ==
    ASSUME LoginInv, SeedTypeOK', handleAuth
    PROVE  LoginInv'
<1>1. /\ s.st = "handshake" /\ s.evs # <<>> /\ s.evs[1].t \in Refusals
      /\ UNCHANGED <<world, faults, rounds>>
  BY DEF handleAuth, First, Refusals
<1>2. \/ Took(ssh_auth_publickey([W EXCEPT !.s.key = 1]))
      \/ s.pw < Tries(world.client).pw /\ Took(ssh_auth_password([W EXCEPT !.s.pw = @ + 1]))
      \/ /\ s.kbdTries < Tries(world.client).kbd
         /\ Took(ssh_auth_kbdint_start([W EXCEPT !.s.kbdTries = @ + 1]))
      \/ End
  BY DEF handleAuth, TryPassword, TryKbd
<1>3. CASE End
  BY <1>1, <1>3, Gone DEF End
<1> QED
  BY <1>1, <1>2, <1>3, KeyTried, KbdTried, PasswordTried

\* The login is done.
LEMMA AuthOkStep ==
    ASSUME LoginInv, SeedTypeOK', authOk
    PROVE  LoginInv'
<1> DEFINE t == [s EXCEPT !.st = "active"]
           z == [t EXCEPT !.evs = Tail(@)]
<1>1. s.st = "handshake" /\ s.evs # <<>> /\ UNCHANGED <<world, faults, rounds, down, seedVars>>
  BY DEF authOk, First, Took
<1>2. s' = z /\ up' = up
  <2>1. [W EXCEPT !.s.st = "active"] = [s |-> t, up |-> up]
    BY DEF W
  <2> QED
    BY <2>1 DEF authOk, Took
<1>3. t \in Sessions /\ Same(t, s, {"st"}) /\ t.st = "active" /\ t.evs = s.evs
  BY Has DEF Sessions, Same, Fields
<1> HIDE DEF t
<1>4. z \in Sessions /\ Same(z, t, {"evs"})
  BY <1>1, <1>3, EventTaken
<1> HIDE DEF z
<1>5. z.st = "active" /\ z.vain = s.vain /\ z.pw = s.pw /\ z.kbdTries = s.kbdTries
  BY <1>3, <1>4 DEF Same, Fields
<1>6. Rightly(z, up, down)
  BY <1>5, Has DEF Rightly
<1> QED
  BY <1>1, <1>2, <1>4, <1>5, <1>6, Has, Kept DEF seedVars

\* A connection: the server's key is on its way, and nothing is asked.
LEMMA ConnectStep ==
    ASSUME LoginInv, SeedTypeOK', beginConnect
    PROVE  LoginInv'
<1>1. /\ Running(Main) /\ up' = <<>> /\ UNCHANGED <<seedVars, world, hosts, rounds, faults, trusted>>
  BY DEF beginConnect
<1>2. PICK key \in world.svKeys :
         \/ /\ s' = [NewSession EXCEPT !.st = "handshake"]
            /\ down' = <<[Msg("KEX_REPLY") EXCEPT !.key = key], Msg("NEWKEYS")>>
         \/ s' = [NewSession EXCEPT !.st = "ended"] /\ down' = <<>>
  BY DEF beginConnect
<1>3. CASE s' = [NewSession EXCEPT !.st = "ended"] /\ down' = <<>>
  BY <1>1, <1>3, Gone
<1>4. CASE /\ s' = [NewSession EXCEPT !.st = "handshake"]
           /\ down' = <<[Msg("KEX_REPLY") EXCEPT !.key = key], Msg("NEWKEYS")>>
  <2> DEFINE a == [Msg("KEX_REPLY") EXCEPT !.key = key]
             b == Msg("NEWKEYS")
  <2>1. a \in Messages /\ a.t = "KEX_REPLY" /\ b \in Messages /\ b.t = "NEWKEYS"
    <3>1. Msg("KEX_REPLY") \in Messages /\ Msg("KEX_REPLY").t = "KEX_REPLY"
          /\ b \in Messages /\ b.t = "NEWKEYS"
      BY Made
    <3>2. key \in Keys
      BY Has DEF Keys
    <3> QED
      BY <3>1, <3>2 DEF Messages
  <2> HIDE DEF a, b
  <2>2. down' \in Seq(Messages) /\ Len(down') = 2 /\ down'[1] = a /\ down'[2] = b
    BY <1>4, <2>1 DEF a, b
  <2>3. None(down', Requests) /\ None(down', Answers) /\ AtMostOne(down', {"NEWKEYS"})
    <3>1. \A k \in 1..Len(down') : down'[k].t \in {"KEX_REPLY", "NEWKEYS"}
                                   /\ (down'[k].t = "NEWKEYS" => k = 2)
      BY <2>1, <2>2
    <3> QED
      BY <3>1 DEF None, AtMostOne, Are, Requests, Answers
  <2>4. /\ s' \in Sessions /\ s'.st = "handshake" /\ s'.pw = 0 /\ s'.kbdTries = 0 /\ ~s'.vain
        /\ s'.auth = "NONE" /\ s'.pending = Nothing /\ s'.evs = <<>>
        /\ ~s'.first /\ ~s'.dec /\ ~s'.authOk
    BY <1>4, FreshSession
  <2>5. InTurn(s', up', down')
    <3>1. None(s'.evs, Refusals)
      BY <2>4, EmptyAre
    <3> QED
      BY <1>1, <2>3, <2>4, <3>1 DEF InTurn, Idle
  <2>6. Exchanged(s', down')
    BY <2>3, <2>4 DEF Exchanged
  <2>7. Rightly(s', up', down')
    BY <1>1, <2>4, <2>5, <2>6 DEF Rightly
  <2>8. s'.pw \in 0..Tries(world.client).pw /\ s'.kbdTries \in 0..Tries(world.client).kbd
    BY <2>4, Has, TriesCount
  <2>9. up' \in Seq(Messages) /\ proc'[Main].pc = "up"
    BY <1>1 DEF Running, seedVars
  <2> QED
    BY <1>1, <2>2, <2>3, <2>4, <2>7, <2>8, <2>9, Has, Kept
<1> QED
  BY <1>2, <1>3, <1>4

\* The programs' pools and file; the session's own program is up and goes on.
LEMMA ProgramsStep ==
    ASSUME LoginInv, SeedTypeOK', Programs
    PROVE  LoginInv'
<1>1. UNCHANGED <<world, hosts, s, up, down, rounds, connects, faults, trusted>>
  BY DEF Programs
<1>2. PICK p \in Procs : \/ Launch(p, p # Main \/ world.client # "app", world.urandom)
                         \/ Seeding(p)
                         \/ p # Main /\ Killed(p)
  BY DEF Programs
<1>3. proc[Main].pc = "up" => proc'[Main].pc = "up"
  <2>1. PICK r : Becomes(p, r)
    BY <1>2 DEF Launch, Seeding, ssh_rng_load_seed, ssh_rng_save_seed, fwrite, entropyReady, Killed
  <2>2. p = Main => proc[p].pc # "up"
    BY <1>2 DEF Launch, Seeding, ssh_rng_load_seed, ssh_rng_save_seed, fwrite, entropyReady
  <2> QED
    BY <2>1, <2>2, Has DEF Becomes, SeedTypeOK
<1>4. Rightly(s', up', down') /\ None(down', Requests)
  BY <1>1, Has
<1> QED
  BY <1>1, <1>3, <1>4, Has, Kept

\* The server answers the one request there is.
LEMMA AnswerStep ==
    ASSUME LoginInv, SeedTypeOK', SvAnswers
    PROVE  LoginInv'
<1>1. /\ s.st = "handshake" /\ up # <<>> /\ up' = Tail(up)
      /\ UNCHANGED <<seedVars, world, hosts, s, connects, faults, trusted>>
  BY DEF SvAnswers
<1>2. PICK r \in SvReplies(up[1]) :
         down' = Append(down, r) /\ rounds' = IF r.t = "INFO" THEN rounds - 1 ELSE rounds
  BY DEF SvAnswers
<1> DEFINE m == up[1]
<1>3. m \in Messages /\ up' = <<>>
  <2>1. up \in Seq(Messages) /\ Len(up) <= 1
    BY Has DEF Rightly
  <2>2. Len(up) \in Nat /\ Len(up) # 0
    BY <1>1, <2>1, EmptySeq
  <2>3. Len(up) = 1
    <3>1. \A n \in Nat : n # 0 /\ n <= 1 => n = 1
      OBVIOUS
    <3>2. Len(up) \in Nat /\ Len(up) # 0 /\ Len(up) <= 1
      BY <2>1, <2>2
    <3> QED
      BY <3>1, <3>2
  <2> QED
    BY <1>1, <2>1, <2>3
<1>4. /\ r \in Messages /\ r.t \in Answers /\ (r.t = "SERVICE_ACCEPT" <=> m.t = "SERVICE_REQUEST")
      /\ r.t = "INFO" => rounds > 0
  <2>1. \/ m.t = "SERVICE_REQUEST" /\ r = Msg("SERVICE_ACCEPT")
        \/ m.t # "SERVICE_REQUEST" /\ \E ms \in world.methods : r = Failure(ms)
        \/ m.t # "SERVICE_REQUEST" /\ r = Msg("SUCCESS")
        \/ m.t # "SERVICE_REQUEST" /\ r = Msg("INFO") /\ \E n \in 1..rounds : TRUE
    BY <1>2 DEF SvReplies
  <2>2. ASSUME NEW ms \in world.methods
        PROVE  Failure(ms) \in Messages /\ Failure(ms).t = "FAILURE"
    <3>1. Msg("FAILURE") \in Messages /\ Msg("FAILURE").t = "FAILURE"
      BY Made DEF Answers
    <3>2. ms \in Methods
      BY Has DEF Methods
    <3> QED
      BY <3>1, <3>2 DEF Failure, Messages
  <2>3. \A t \in {"SERVICE_ACCEPT", "SUCCESS", "INFO"} : Msg(t) \in Messages /\ Msg(t).t = t
    BY Made DEF Answers
  <2>4. (\E n \in 1..rounds : TRUE) => rounds > 0
    BY Has
  <2> QED
    BY <2>1, <2>2, <2>3, <2>4 DEF Answers
<1>5. rounds' \in 0..MaxRounds
  BY <1>2, <1>4, Has, LoginAssumption DEF LoginAssumption
<1>6. down' \in Seq(Messages) /\ None(down', Requests) /\ (AtMostOne(down, {"NEWKEYS"}) => AtMostOne(down', {"NEWKEYS"}))
      /\ (None(down, {"NEWKEYS"}) => None(down', {"NEWKEYS"}))
  BY <1>2, <1>4, Has, AppendAre DEF Answers, Requests
<1>7. ASSUME ~s.closed
      PROVE  InTurn(s, <<>>, down') /\ Exchanged(s, down')
  <2>1. InTurn(s, up, down) /\ Exchanged(s, down)
    BY <1>1, <1>7, Has DEF Rightly
  <2>2. Exchanged(s, down')
    BY <1>6, <2>1 DEF Exchanged
  <2>3. s.auth \in {"SERVICE_SENT", "IN_PROGRESS"} /\ (s.auth = "IN_PROGRESS" => s.pending # Nothing)
    BY <1>1, <2>1, Has DEF InTurn, Idle, Sessions
  <2>4. \A requests : \A answers \in SUBSET Answers :
           Asked(up, down, requests, answers) /\ r.t \in answers => Asked(<<>>, down', requests, answers)
    <3> SUFFICES ASSUME NEW requests, NEW answers \in SUBSET Answers, Asked(up, down, requests, answers), r.t \in answers
                 PROVE  Asked(<<>>, down', requests, answers)
      OBVIOUS
    <3>1. None(down, Answers \ answers) /\ None(down, Answers)
      BY <1>1 DEF Asked
    <3>2. None(down', Answers \ answers)
      BY <1>2, <1>4, <3>1, Has, AppendAre
    <3>3. AtMostOne(down', answers)
      <4>1. None(down, answers)
        BY <3>1, FewerAre
      <4> QED
        BY <1>2, <1>4, <4>1, Has, AppendAre
    <3> QED
      BY <3>2, <3>3 DEF Asked
  <2>5. CASE s.auth = "SERVICE_SENT"
    <3>1. Asked(up, down, {"SERVICE_REQUEST"}, {"SERVICE_ACCEPT"}) /\ m.t = "SERVICE_REQUEST"
      BY <1>1, <2>1, <2>5 DEF InTurn, Asked
    <3>2. Asked(<<>>, down', {"SERVICE_REQUEST"}, {"SERVICE_ACCEPT"})
      BY <1>4, <2>4, <3>1 DEF Answers
    <3> QED
      BY <2>1, <2>2, <2>5, <3>2 DEF InTurn
  <2>6. CASE s.auth = "IN_PROGRESS"
    <3>1. Asked(up, down, Requests \ {"SERVICE_REQUEST"}, Answers \ {"SERVICE_ACCEPT"})
          /\ m.t # "SERVICE_REQUEST"
      BY <1>1, <2>1, <2>3, <2>6 DEF InTurn, Asked
    <3>2. Asked(<<>>, down', Requests \ {"SERVICE_REQUEST"}, Answers \ {"SERVICE_ACCEPT"})
      BY <1>4, <2>4, <3>1
    <3> QED
      BY <2>1, <2>2, <2>3, <2>6, <3>2 DEF InTurn
  <2> QED
    BY <2>3, <2>5, <2>6
<1>8. Rightly(s', up', down')
  <2>1. ~s.vain /\ Len(<<>>) <= 1
    BY Has DEF Rightly
  <2>2. Rightly(s, <<>>, down')
    BY <1>7, <2>1 DEF Rightly
  <2> QED
    BY <1>1, <1>3, <2>2
<1>9. up' \in Seq(Messages)
  BY <1>3
<1> QED
  BY <1>1, <1>5, <1>6, <1>8, <1>9, Has, Kept DEF seedVars

\* The server says something of its own.
LEMMA SaysStep ==
    ASSUME LoginInv, SeedTypeOK', SvSays
    PROVE  LoginInv'
<1>1. /\ s.st = "handshake" /\ rounds > 0 /\ rounds' = rounds - 1
      /\ UNCHANGED <<seedVars, world, hosts, s, up, connects, faults, trusted>>
  BY DEF SvSays
<1>2. PICK t \in {"BANNER", "DISCONNECT"} : down' = Append(down, Msg(t))
  BY DEF SvSays
<1>3. Msg(t) \in Messages /\ Msg(t).t = t
  BY Made
<1>4. rounds' \in 0..MaxRounds
  BY <1>1, Has, LoginAssumption DEF LoginAssumption
<1>5. /\ down' \in Seq(Messages) /\ None(down', Requests)
      /\ \A kinds \in {{"NEWKEYS"}, Answers, {"SERVICE_ACCEPT"}, Answers \ {"SERVICE_ACCEPT"},
                       Answers \ (Answers \ {"SERVICE_ACCEPT"})} :
            /\ None(down, kinds) => None(down', kinds)
            /\ AtMostOne(down, kinds) => AtMostOne(down', kinds)
  <2>1. \A kinds \in {{"NEWKEYS"}, Answers, {"SERVICE_ACCEPT"}, Answers \ {"SERVICE_ACCEPT"},
                      Answers \ (Answers \ {"SERVICE_ACCEPT"}), Requests} : Msg(t).t \notin kinds
    BY <1>3 DEF Answers, Requests
  <2> QED
    BY <1>2, <1>3, <2>1, Has, AppendAre
<1>6. Rightly(s, up, down')
  <2>1. InTurn(s, up, down) => InTurn(s, up, down')
    <3>1. Idle(up, down) => Idle(up, down')
      BY <1>5 DEF Idle
    <3>2. /\ \A requests : Asked(up, down, requests, {"SERVICE_ACCEPT"})
                              => Asked(up, down', requests, {"SERVICE_ACCEPT"})
          /\ \A requests : Asked(up, down, requests, Answers \ {"SERVICE_ACCEPT"})
                              => Asked(up, down', requests, Answers \ {"SERVICE_ACCEPT"})
      BY <1>5 DEF Asked
    <3> QED
      BY <3>1, <3>2 DEF InTurn
  <2>2. Exchanged(s, down) => Exchanged(s, down')
    BY <1>5 DEF Exchanged
  <2> QED
    BY <2>1, <2>2, Has DEF Rightly
<1> QED
  BY <1>1, <1>4, <1>5, <1>6, Has, Kept DEF seedVars

\* The invariant is kept by every step.
LEMMA LoginStep == LoginInv /\ SeedTypeOK' /\ [Next]_vars => LoginInv'
<1> SUFFICES ASSUME LoginInv, SeedTypeOK', [Next]_vars PROVE LoginInv'
  OBVIOUS
<1>1. CASE ssh_input
  BY <1>1, InputStep
<1>2. CASE processEvents
  <2>1. CASE goodbye
    BY <2>1, Gone DEF goodbye, End
  <2> QED
    BY <1>2, <2>1, HostKeyStep, AuthStep, AuthOkStep DEF processEvents
<1>3. CASE lost
  BY <1>3, Gone DEF lost, End
<1>4. CASE beginConnect \/ Programs \/ SvAnswers \/ SvSays
  BY <1>4, ConnectStep, ProgramsStep, AnswerStep, SaysStep
<1>5. CASE MainKilled
  <2>1. s' = [NewSession EXCEPT !.st = "none"]
    BY <1>5, NoSession DEF MainKilled
  <2> QED
    BY <1>5, <2>1, Gone DEF MainKilled
<1>6. CASE UNCHANGED vars
  <2>1. UNCHANGED <<proc, world, s, up, down, rounds, faults>>
    BY <1>6 DEF vars, seedVars
  <2>2. Rightly(s', up', down') /\ None(down', Requests)
    BY <2>1, Has
  <2> QED
    BY <2>1, <2>2, Has, Kept
<1> QED
  BY <1>1, <1>2, <1>3, <1>4, <1>5, <1>6 DEF Next

\* At first there is no session.
LEMMA LoginStart == Init /\ SeedTypeOK => LoginInv
<1> SUFFICES ASSUME Init, SeedTypeOK PROVE LoginInv
  OBVIOUS
<1>1. /\ world \in Worlds /\ s = NewSession /\ up = <<>> /\ down = <<>>
      /\ rounds = world.rounds /\ faults = 0
  BY DEF Init
<1>2. s = [NewSession EXCEPT !.st = "none"]
  BY <1>1, NoSession
<1>3. s \in Sessions /\ s.st = "none" /\ s.pw = 0 /\ s.kbdTries = 0 /\ ~s.vain
  BY <1>2, FreshSession
<1>4. /\ up \in Seq(Messages) /\ down \in Seq(Messages) /\ Len(up) <= 1
      /\ None(down, Requests)
  BY <1>1, EmptyAre
<1>5. faults \in 0..MaxFaults /\ rounds \in 0..MaxRounds
  BY <1>1, LoginAssumption DEF LoginAssumption
<1>6. s.pw \in 0..Tries(world.client).pw /\ s.kbdTries \in 0..Tries(world.client).kbd
  BY <1>1, <1>3, TriesCount
<1>7. /\ s.st \in {"none", "handshake", "active", "ended"}
      /\ s.auth \in {"NONE", "WAIT_HOSTKEY", "SERVICE_SENT", "IN_PROGRESS", "DONE"}
      /\ s.pending \in {Nothing, "none", "password", "publickey", "keyboard-intera"}
  BY <1>3 DEF Sessions
<1> QED
  BY <1>1, <1>3, <1>4, <1>5, <1>6, <1>7 DEF LoginInv, TypeOK

\* In every state, for any hosts files, servers, clients, programs and faults: what the user
\* has typed was sent, the server has at most one request to answer, no client tries a method
\* oftener than it means to, and the program of a session under way is running.
THEOREM NeverTypedInVain == Spec => []NothingTypedInVain
<1>1. LoginAssumption /\ SeedAssumption
  BY LoginAssumption, SeedAssumption
<1>2. LoginInv => NothingTypedInVain
  BY DEF LoginInv, NothingTypedInVain
<1> QED
  BY <1>1, <1>2, SeedStart, SeedStep, LoginStart, LoginStep, PTL DEF Spec
=============================================================================
