-------------------------------- MODULE Seed --------------------------------
(***************************************************************************)
(* core/rng.c: the credit of the entropy pool, and the seed file that      *)
(* carries it from one run of a program to the next.  The application and  *)
(* the command line tools use one file; each loads it when it starts and   *)
(* replaces it at once, the application again when it has started and when *)
(* a connection ends.  Any of them may be killed between two system calls, *)
(* and a file that cannot be opened or written is not noticed.             *)
(***************************************************************************)
EXTENDS Naturals, FiniteSets

CONSTANTS
    Procs,          \* the programs that run
    MaxStarts       \* bound: how often they are started in all

SeedAssumption == MaxStarts \in Nat
ASSUME SeedAssumption

SSH_RNG_MIN_BITS == 256

VARIABLES
    proc,           \* what each program is doing about its pool
    seed,           \* the file
    spoilt,         \* history: since the last write, a seed loaded was not replaced
    starts          \* history: starts left

seedVars == <<proc, seed, spoilt, starts>>

\* pc: off; load; save, with saves of them to do; write, the file open and empty; panel,
\* moving the mouse; up.  History: a seed is spent once some pool was credited with it.
Off == [pc |-> "off", credited |-> 0, saves |-> 0, tool |-> FALSE]
Files == [bytes : {"none", "short", "whole"}, spent : BOOLEAN]
NoSeed == [bytes |-> "none", spent |-> FALSE]

SeedInit(file, n) ==
    /\ proc = [p \in Procs |-> Off] /\ seed = file /\ spoilt = FALSE
    /\ starts = n

Credited(n, bits) == IF n + bits > 512 THEN 512 ELSE n + bits
Ready(p) == proc[p].credited >= SSH_RNG_MIN_BITS
Running(p) == proc[p].pc = "up"
Becomes(p, r) == proc' = [proc EXCEPT ![p] = r]

\* ssh_rng_seed_system, and whether there is a /dev/urandom.
Launch(p, tool, urandom) ==
    /\ proc[p].pc = "off" /\ starts > 0 /\ starts' = starts - 1
    /\ Becomes(p, [Off EXCEPT !.pc = "load", !.tool = tool,
                              !.credited = Credited(0, IF urandom THEN 256 ELSE 0)])
    /\ UNCHANGED <<seed, spoilt>>

\* Once loaded, the seed is replaced; what is not whole does not count.  Then the
\* application replaces it once more, or has the mouse moved; a tool gives up.
Loads(p) == seed.bytes = "whole"
Saving(r, n) == IF n = 0 THEN [r EXCEPT !.pc = "up"] ELSE [r EXCEPT !.pc = "save", !.saves = n]
\* A mutant: the seed loaded is left in place.
Replacements_none(p, ready) == IF ready /\ ~proc[p].tool THEN 1 ELSE 0
Replacements(p, ready) ==
    (IF Loads(p) THEN 1 ELSE 0) + (IF ready /\ ~proc[p].tool THEN 1 ELSE 0)
ssh_rng_load_seed(p) ==
    LET r == [proc[p] EXCEPT !.credited = Credited(@, IF Loads(p) THEN 256 ELSE 0)]
        ready == r.credited >= SSH_RNG_MIN_BITS
    IN  /\ proc[p].pc = "load"
        /\ seed' = [seed EXCEPT !.spent = @ \/ Loads(p)]
        /\ Becomes(p, CASE ready -> Saving(r, Replacements(p, ready))
                        [] ~ready /\ r.tool -> Off
                        [] OTHER -> [r EXCEPT !.pc = "panel"])
        /\ UNCHANGED <<spoilt, starts>>

\* fopen() empties the file, or fails; then fresh bytes are written, or too few.
Saved(p) == Saving(proc[p], proc[p].saves - 1)
ssh_rng_save_seed(p, opens) ==
    /\ proc[p].pc = "save"
    /\ IF opens THEN /\ seed' = [bytes |-> "short", spent |-> FALSE]
                     /\ Becomes(p, [proc[p] EXCEPT !.pc = "write"]) /\ UNCHANGED spoilt
       ELSE spoilt' = TRUE /\ Becomes(p, Saved(p)) /\ UNCHANGED seed
    /\ UNCHANGED starts
fwrite(p, whole) ==
    /\ proc[p].pc = "write" /\ Becomes(p, Saved(p))
    /\ IF whole THEN seed' = [bytes |-> "whole", spent |-> FALSE] /\ spoilt' = FALSE
       ELSE UNCHANGED <<seed, spoilt>>
    /\ UNCHANGED starts

\* One bit for each event, until there are enough.
entropyReady(p) ==
    /\ proc[p].pc = "panel"
    /\ Becomes(p, [proc[p] EXCEPT !.credited = SSH_RNG_MIN_BITS, !.pc = "save", !.saves = 1])
    /\ UNCHANGED <<seed, spoilt, starts>>

\* endWithMessage: the application replaces its seed once more.
endWithMessage(p) ==
    /\ proc[p].pc = "up" /\ Becomes(p, Saving(proc[p], 1))
    /\ UNCHANGED <<seed, spoilt, starts>>

\* A program is killed, or ends.
Killed(p) ==
    /\ proc[p].pc # "off" /\ Becomes(p, Off)
    /\ spoilt' = (spoilt \/ proc[p].pc = "save")
    /\ UNCHANGED <<seed, starts>>

Seeding(p) ==
    \/ ssh_rng_load_seed(p) \/ entropyReady(p)
    \/ \E opens \in BOOLEAN : ssh_rng_save_seed(p, opens)
    \/ \E whole \in BOOLEAN : fwrite(p, whole)

\* The programs by themselves, without the connections they make.
SeedNext ==
    \E p \in Procs :
        \/ \E tool, urandom \in BOOLEAN : Launch(p, tool, urandom)
        \/ Seeding(p) \/ endWithMessage(p) \/ Killed(p)

SeedTypeOK ==
    /\ proc \in [Procs -> [pc : {"off", "load", "save", "write", "panel", "up"},
                           credited : 0..512, saves : 0..2, tool : BOOLEAN]]
    /\ seed \in Files
    /\ spoilt \in BOOLEAN /\ starts \in 0..MaxStarts
    /\ \A p \in Procs : /\ proc[p].pc \in {"save", "write", "up"} => Ready(p)
                        /\ proc[p].pc \in {"save", "write"} => proc[p].saves > 0

\* A seed that was credited does not stay: what the file holds has been credited to no pool,
\* however the programs' loads and saves interleave; except while a program is about to
\* replace it (until it has, another may load it too, see SeedOnce), and when that failed or
\* the program was killed.
SeedFresh ==
    seed.bytes = "whole" /\ seed.spent => spoilt \/ \E p \in Procs : proc[p].pc = "save"

\* What the comment in ssh_rng_load_seed says, and two programs that start together do not do:
\* the old seed must never be reused.  As long as no replacement failed and no program was
\* killed before it, a seed is credited to one pool only.
SeedOnce ==
    [][\A p \in Procs : ssh_rng_load_seed(p) /\ Loads(p) => ~seed.spent \/ spoilt]_seedVars
=============================================================================
