----------------------------- MODULE KnownHosts -----------------------------
(***************************************************************************)
(* core/knownhosts.c: the patterns of a known_hosts file, the verdict on a *)
(* host's key, and what adding an entry does to the file.                  *)
(*                                                                         *)
(* A name is a sequence of characters, a key a model value of some type.   *)
(* A line has the list of its host patterns, the type of its key, and the  *)
(* key; other lines (comments, markers, fields missing, base64 that does   *)
(* not decode) are the skipped one.                                        *)
(***************************************************************************)
EXTENDS Naturals, SequencesExt

Match == "MATCH"
Changed == "CHANGED"
Unknown == "UNKNOWN"

\* A pattern of a list: negated or not, and a glob or the hash of one name.
Glob(neg, pat) == [neg |-> neg, hash |-> FALSE, pat |-> pat]
Hash(neg, name) == [neg |-> neg, hash |-> TRUE, pat |-> name]
Line(hosts, type, key) == [hosts |-> hosts, type |-> type, key |-> key]
Skipped == Line({}, "none", "none")

\* Only the capitals the small instances use.
lower(c) == CASE c = "A" -> "a" [] c = "B" -> "b" [] OTHER -> c

\* rest[i, j]: the last i parts of the pattern match the last j characters.
glob_match(pat, s) ==
    LET rest[i \in 0..Len(pat), j \in 0..Len(s)] ==
            LET c == pat[Len(pat) - i + 1] IN
            IF i = 0 THEN j = 0
            ELSE IF c = "*" THEN \E k \in 0..j : rest[i - 1, k]
            ELSE /\ j > 0
                 /\ c = "?" \/ lower(c) = lower(s[Len(s) - j + 1])
                 /\ rest[i - 1, j - 1]
    IN  rest[Len(pat), Len(s)]

token_match(t, name) == IF t.hash THEN t.pat = name ELSE glob_match(t.pat, name)
\* A negated pattern that matches excludes the host wherever it stands in the list.
hosts_match(list, name) ==
    /\ \E t \in list : ~t.neg /\ token_match(t, name)
    /\ \A t \in list : t.neg => ~token_match(t, name)

make_name(host, port) ==
    IF port = 22 THEN host ELSE <<"[">> \o host \o <<"]", ":", ToString(port)>>

\* The lines in their order, up to the first that has the key.  A mutant: the last line counts.
kh_check_last(file, name, type, key) ==
    LET Next(r, l) == IF hosts_match(l.hosts, name) /\ l.type = type
                      THEN IF l.key = key THEN Match ELSE Changed ELSE r
    IN  FoldLeft(Next, Unknown, file)
kh_check(file, name, type, key) ==
    LET Next(r, l) ==
            IF r # Match /\ hosts_match(l.hosts, name) /\ l.type = type
            THEN IF l.key = key THEN Match ELSE Changed ELSE r
    IN  FoldLeft(Next, Unknown, file)

\* The entry is appended, its write not looked at: all of it or none, or cut in the key or
\* before.  After a cut line, which lacks its newline, the entry is the rest of that line.
\* What is left of a key decodes to another one.
kh_add(file, torn, name, type, key, wrote) ==
    LET entry == Line({Glob(FALSE, name)}, type, IF wrote = "key cut" THEN "part" ELSE key)
        line == IF wrote = "cut" THEN Skipped ELSE entry
    IN  IF wrote = "nothing" THEN [file |-> file, torn |-> torn]
        ELSE [file |-> IF torn THEN file ELSE Append(file, line), torn |-> wrote # "all"]
=============================================================================
