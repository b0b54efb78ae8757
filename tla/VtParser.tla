------------------------------ MODULE VtParser ------------------------------
(***************************************************************************)
(* The parser of the terminal emulator (vt_write() and what it calls in    *)
(* term/vt.c): from the bytes of the host, one at a time and cut into      *)
(* writes anywhere, to the operations of Vt.                               *)
(*                                                                         *)
(* Bytes are named by what the parser tells apart; a code point is the     *)
(* sequence of the bytes it is decoded from.  What the parser does to the  *)
(* screen is appended to acts.                                             *)
(*                                                                         *)
(* The host sends sequences that keep the grammar, generated below with    *)
(* what they mean, independently of the parser; and in between it may      *)
(* break off, in the middle of anything, and send CAN.                     *)
(***************************************************************************)
EXTENDS Integers, FiniteSets, SequencesExt

CONSTANTS
    MaxParams,    \* VT_MAXPARAMS
    ParamCap,     \* the 100000 a parameter stops growing at
    TitleRoom,    \* VT_TITLEMAX + 4: what osc[] takes
    TitleMax,     \* VT_TITLEMAX - 1: what title[] takes
    Noise,        \* bytes the host breaks off with
    MaxNoise,     \* bound: how many of them in a row
    Sequences,    \* the sequences it sends
    MaxSequences  \* bound: how many of them

VARIABLES
    p,            \* the parser's part of the struct vt, and acts
    rest,         \* bytes of the sequence being sent
    sent,         \* the sequence
    begun,        \* how many were begun
    noise,        \* bytes sent since the last whole sequence, before a CAN
    torn          \* a character was cut short by what came before the sequence

vars == <<p, rest, sent, begun, noise, torn>>

-----------------------------------------------------------------------------
(* Bytes *)

C0 == {"LF", "BEL"}
Intermediate == {"!", "%", "("}
DigitValue == [d \in {"0", "2"} |-> IF d = "0" THEN 0 ELSE 2]
Digits == DOMAIN DigitValue
Separators == {";", ":"}
Markers == {"?", ">"}
Finals == {"M", "h", "l", "p", "c", "G", "@", "[", "]", "P", "\\"}
\* lead bytes of characters of two, three and four bytes; a byte UTF-8 has no use for;
\* two continuation bytes, ST being 0x9c
Follow == [b \in {"lead2", "lead3", "lead4", "bad"} |->
               CASE b = "lead2" -> 1 [] b = "lead3" -> 2 [] b = "lead4" -> 3 [] b = "bad" -> 0]
Lead == DOMAIN Follow
Continuation == {"cont", "ST"}
High == Lead \cup Continuation
Printable == Intermediate \cup Digits \cup Separators \cup Markers \cup Finals
Byte == {"CAN", "ESC", "DEL"} \cup C0 \cup Printable \cup High

ASSUME ParserAssumption ==
    /\ MaxParams \in Nat \ {0} /\ ParamCap \in Nat /\ MaxNoise \in Nat /\ MaxSequences \in Nat
    /\ TitleMax \in Nat /\ TitleRoom \in Nat /\ TitleMax <= TitleRoom
    /\ Noise \subseteq Byte

None == "none"
FFFD == <<"FFFD">>

-----------------------------------------------------------------------------
(* What the parser calls *)

Act(s, a) == [s EXCEPT !.acts = Append(@, a)]
Put(s, cp) == Act(s, <<"put", cp>>)
execute_c0(s, c) == Act(s, <<"c0", c>>)
Ground(s) == [s EXCEPT !.state = "GROUND"]

\* of a reset, what concerns the parser: a character under way is dropped
vt_reset(s) == [Act(s, <<"reset">>) EXCEPT !.state = "GROUND", !.utf8_left = 0]

Given(s) == [i \in 1..s.nparams |-> s.params[i]]

csi_dispatch(s, f) ==
    IF s.inter # None THEN IF s.inter = "!" /\ f = "p" THEN vt_reset(s) ELSE s
    ELSE IF s.priv = "?" THEN IF f \in {"h", "l"} THEN Act(s, <<"csi", "?", Given(s), f>>) ELSE s
    ELSE IF s.priv # None THEN s
    ELSE Act(s, <<"csi", None, Given(s), f>>)

esc_dispatch(s, c) == IF c = "c" THEN vt_reset(s) ELSE Act(s, <<"esc", c>>)

\* n of osc_dispatch(), from the digits at the beginning
Leading(osc) == CHOOSE n \in 0..Len(osc) :
    /\ \A i \in 1..n : osc[i] \in Digits
    /\ n < Len(osc) => osc[n + 1] \notin Digits
Number(digits) == FoldLeft(LAMBDA n, d : 10 * n + DigitValue[d], 0, digits)

osc_dispatch(s) ==
    LET k == Leading(s.osc)
        text == SubSeq(s.osc, k + 2, Len(s.osc))
    IN  IF k < Len(s.osc) /\ s.osc[k + 1] = ";" /\ Number(SubSeq(s.osc, 1, k)) \in {0, 2}
        THEN Act(s, <<"title", IF Len(text) > TitleMax THEN SubSeq(text, 1, TitleMax) ELSE text>>)
        ELSE s

-----------------------------------------------------------------------------
(* Ground: characters, in UTF-8 or one byte each *)

\* a character that never came to its end
Torn(s) == IF s.utf8_left > 0 THEN Put(s, FFFD) ELSE s

utf8_lead(s, c) ==
    LET u == Torn(s)
    IN  IF c = "bad" THEN [Put(u, FFFD) EXCEPT !.utf8_left = 0]
        ELSE [u EXCEPT !.utf8_cp = <<c>>, !.utf8_left = Follow[c]]

utf8_tail(s, c) ==
    IF s.utf8_left = 0 THEN Put(s, FFFD)
    ELSE LET cp == Append(s.utf8_cp, c)
             u == [s EXCEPT !.utf8_cp = cp, !.utf8_left = @ - 1]
         IN  IF u.utf8_left = 0 THEN Put(u, cp) ELSE u

ground_byte(s, c) ==
    IF s.utf8 /\ c \in Lead THEN utf8_lead(s, c)
    ELSE IF s.utf8 /\ c \in Continuation THEN utf8_tail(s, c)
    ELSE LET u == [Torn(s) EXCEPT !.utf8_left = 0]
         IN  IF c \in C0 THEN execute_c0(u, c) ELSE IF c = "DEL" THEN u ELSE Put(u, <<c>>)

-----------------------------------------------------------------------------
(* Sequences *)

\* The parameters of a new sequence.  The mutant keeps the ones of the last.
NoParams_kept(s) == s.params
NoParams(s) == [i \in 1..MaxParams |-> 0]

esc_byte(s, c) ==
    CASE c = "[" -> [s EXCEPT !.state = "CSI", !.nparams = 0, !.priv = None, !.inter = None,
                              !.params = NoParams(s)]
      [] c = "]" -> [s EXCEPT !.state = "OSC", !.osc = <<>>]
      [] c = "P" -> [s EXCEPT !.state = "STRING"]
      [] c \in Intermediate -> [s EXCEPT !.inter = c, !.state = "ESC_INTER"]
      [] c \in C0 -> execute_c0(s, c)
      [] OTHER -> Ground(esc_dispatch(s, c))

esc_inter_byte(s, c) ==
    IF c \in Intermediate THEN s
    ELSE Ground(CASE s.inter = "(" -> Act(s, <<"charset", c = "0">>)
                  [] s.inter = "%" /\ c \in {"G", "@"} -> [s EXCEPT !.utf8 = (c = "G")]
                  [] OTHER -> s)

\* a digit or a separator makes a first parameter
AtLeastOne(s) == IF s.nparams = 0 THEN [s EXCEPT !.nparams = 1] ELSE s

csi_digit(s, c) ==
    LET u == AtLeastOne(s)
    IN  [u EXCEPT !.params[u.nparams] = IF @ < ParamCap THEN 10 * @ + DigitValue[c] ELSE @]

\* The mutant makes room for one parameter more than there are.
csi_separator_over(s) ==
    LET u == AtLeastOne(s)
    IN  IF u.nparams <= MaxParams THEN [u EXCEPT !.nparams = @ + 1] ELSE u
csi_separator(s) ==
    LET u == AtLeastOne(s)
    IN  IF u.nparams < MaxParams
        THEN [u EXCEPT !.nparams = @ + 1, !.params[u.nparams + 1] = 0] ELSE u

csi_byte(s, c) ==
    LET open == s.state = "CSI"
    IN  CASE c \in C0 -> execute_c0(s, c)
          [] c \in Digits /\ open -> csi_digit(s, c)
          [] c \in Separators /\ open -> csi_separator(s)
          [] c \in Markers /\ open /\ s.nparams = 0 /\ s.priv = None -> [s EXCEPT !.priv = c]
          [] c \in Intermediate -> [s EXCEPT !.inter = IF @ = None THEN c ELSE @, !.state = "CSI_INTER"]
          [] c \in Finals -> Ground(csi_dispatch(s, c))
          [] OTHER -> Ground(s)

osc_byte(s, c) ==
    IF c \in {"BEL", "ST"} THEN Ground(osc_dispatch(s))
    ELSE IF c = "ESC" THEN [s EXCEPT !.state = "OSC_ESC"]
    ELSE IF c \notin C0 /\ Len(s.osc) < TitleRoom THEN [s EXCEPT !.osc = Append(@, c)]
    ELSE s

string_byte(s, c) ==
    IF c \in {"BEL", "ST"} THEN Ground(s)
    ELSE IF c = "ESC" THEN [s EXCEPT !.state = "STRING_ESC"] ELSE s

\* where an ESC does not begin a sequence
Strings == {"OSC", "STRING"}

\* one turn of the loop of vt_write()
Parse(s, c) ==
    IF c = "CAN" THEN Ground(s)
    ELSE IF c = "ESC" /\ s.state \notin Strings THEN [s EXCEPT !.state = "ESC", !.inter = None]
    ELSE CASE s.state = "GROUND" -> ground_byte(s, c)
           [] s.state = "ESC" -> esc_byte(s, c)
           [] s.state = "ESC_INTER" -> esc_inter_byte(s, c)
           [] s.state \in {"CSI", "CSI_INTER"} -> csi_byte(s, c)
           [] s.state = "OSC" -> osc_byte(s, c)
           [] s.state = "OSC_ESC" -> Ground(IF c = "\\" THEN osc_dispatch(s) ELSE s)
           [] s.state = "STRING" -> string_byte(s, c)
           [] s.state = "STRING_ESC" -> Ground(s)

-----------------------------------------------------------------------------
(* The host: a sequence is its bytes, the operations they stand for, and whether they are   *)
(* for a terminal in UTF-8.                                                                 *)

Sequence(bytes, means) == [bytes |-> bytes, means |-> means, utf8 |-> TRUE]
Nothing == Sequence(<<>>, <<>>)

\* a character in UTF-8, a byte of the other encoding, a control
Character(bytes) == Sequence(bytes, <<<<"put", bytes>>>>)
EightBit(b) == [Character(<<b>>) EXCEPT !.utf8 = FALSE]
Control(c) == Sequence(<<c>>, <<<<"c0", c>>>>)

\* CSI, with a marker, parameters as strings of digits, an intermediate and a final byte.
\* No digit is 0; no parameter at all is none.
Params(strings) == IF strings = <<<<>>>> THEN <<>> ELSE [i \in DOMAIN strings |-> Number(strings[i])]
Optional(c) == IF c = None THEN <<>> ELSE <<c>>
CsiMeans(priv, strings, inter, f) ==
    CASE inter = "!" /\ f = "p" -> <<<<"reset">>>>
      [] inter = None /\ (priv = None \/ (priv = "?" /\ f \in {"h", "l"})) ->
             <<<<"csi", priv, Params(strings), f>>>>
      [] OTHER -> <<>>
Csi(priv, strings, inter, f) ==
    Sequence(<<"ESC", "[">> \o Optional(priv)
                 \o FoldLeft(LAMBDA q, i : q \o (IF i = 1 THEN <<>> ELSE <<";">>) \o strings[i],
                             <<>>, [i \in DOMAIN strings |-> i])
                 \o Optional(inter) \o <<f>>,
             CsiMeans(priv, strings, inter, f))

\* A control inside a sequence acts at once, and the sequence goes on.
Within(s, c, i) == Sequence(SubSeq(s.bytes, 1, i) \o <<c>> \o SubSeq(s.bytes, i + 1, Len(s.bytes)),
                            <<<<"c0", c>>>> \o s.means)

\* OSC: a title if its number is 0 or 2; other strings are for nobody.
Ends == {<<"BEL">>, <<"ST">>, <<"ESC", "\\">>}
Title(digits, text, end) ==
    Sequence(<<"ESC", "]">> \o digits \o <<";">> \o text \o end,
             IF Number(digits) \in {0, 2}
             THEN <<<<"title", IF Len(text) > TitleMax THEN SubSeq(text, 1, TitleMax) ELSE text>>>>
             ELSE <<>>)
DeviceString(text, end) == Sequence(<<"ESC", "P">> \o text \o end, <<>>)

Escape(c) == Sequence(<<"ESC", c>>, <<IF c = "c" THEN <<"reset">> ELSE <<"esc", c>>>>)
Designate(c) == Sequence(<<"ESC", "(", c>>, <<<<"charset", c = "0">>>>)
Coding(c) == Sequence(<<"ESC", "%", c>>, <<>>)

Init ==
    /\ p = [state |-> "GROUND", params |-> [i \in 1..MaxParams |-> 0], nparams |-> 0,
            priv |-> None, inter |-> None, utf8 |-> TRUE, utf8_cp |-> <<>>, utf8_left |-> 0,
            osc |-> <<>>, acts |-> <<>>]
    /\ rest = <<>> /\ sent = Nothing /\ begun = 0 /\ noise = 0 /\ torn = FALSE

Begin(s) ==
    /\ rest = <<>> /\ noise = 0 /\ begun < MaxSequences
    /\ s.utf8 = p.utf8 \/ s.bytes[1] \in {"ESC"} \cup C0
    /\ sent' = s /\ rest' = s.bytes /\ begun' = begun + 1
    /\ torn' = (p.utf8_left > 0)
    /\ p' = [p EXCEPT !.acts = <<>>]
    /\ UNCHANGED noise

vt_write ==
    /\ rest # <<>>
    /\ p' = Parse(p, Head(rest)) /\ rest' = SubSeq(rest, 2, Len(rest))
    /\ UNCHANGED <<sent, begun, noise, torn>>

\* bytes that keep no grammar, wherever the sequence before them was
Disturb(c) ==
    /\ noise < MaxNoise
    /\ p' = [Parse(p, c) EXCEPT !.acts = <<>>] /\ noise' = noise + 1
    /\ rest' = <<>> /\ sent' = Nothing /\ torn' = FALSE
    /\ UNCHANGED begun

\* The host breaks off, in the middle of a sequence or of noise, with CAN.
Cancel ==
    /\ rest # <<>> \/ noise > 0
    /\ p' = [Parse(p, "CAN") EXCEPT !.acts = <<>>]
    /\ rest' = <<>> /\ sent' = Nothing /\ noise' = 0 /\ torn' = FALSE
    /\ UNCHANGED begun

Next == (\E s \in Sequences : Begin(s)) \/ vt_write \/ (\E c \in Noise : Disturb(c)) \/ Cancel

Spec == Init /\ [][Next]_vars

-----------------------------------------------------------------------------
(* Properties *)

States == {"GROUND", "ESC", "ESC_INTER", "CSI", "CSI_INTER", "OSC", "OSC_ESC", "STRING", "STRING_ESC"}

\* Whatever the host sends, the parser stays within its buffers: the parameters, the title
\* with room for the byte that ends it, the bytes of a character (vt.h:87-95).
TypeOK ==
    /\ p.state \in States
    /\ p.nparams \in 0..MaxParams
    /\ \A i \in 1..MaxParams : p.params[i] \in 0..(10 * ParamCap + 9)
    /\ p.priv \in Markers \cup {None} /\ p.inter \in Intermediate \cup {None}
    /\ Len(p.osc) <= TitleRoom
    /\ p.utf8_left \in 0..3 /\ (p.utf8_left > 0 => Len(p.utf8_cp) \in 1..3)

\* A sequence that keeps the grammar does what it stands for and nothing else: none of its
\* bytes is shown as text, none of its parameters comes from the sequence before, none of a
\* title reaches the screen.  What went before does not matter, a CAN having ended it; it
\* only shows as one replacement character, where it cut a character short.  And then the
\* parser is back to text: it never waits for the end of something that is over.
Understood ==
    rest = <<>> /\ noise = 0 =>
        /\ p.state = "GROUND"
        /\ \/ p.acts = sent.means
           \/ torn /\ p.acts = <<<<"put", FFFD>>>> \o sent.means
=============================================================================
