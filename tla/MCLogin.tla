------------------------------ MODULE MCLogin ------------------------------
(* Clients, files and servers for the run on Login. *)
EXTENDS Login

MCProcs == {Main, "other"}
MCName == <<"a", "b">>
MCKeyType == "ed25519"
Password == {"password"}
Key == {"publickey"}
Both == {"password", "keyboard-interactive"}
OldSeed == [bytes |-> "whole", spent |-> FALSE]
World(client, key, file, svKeys, methods, urandom, first, n, r) ==
    [client |-> client, key |-> key, strict |-> client # "stepscp", hosts |-> file,
     svKeys |-> svKeys, methods |-> methods, urandom |-> urandom, seed |-> first,
     starts |-> n, rounds |-> r]

Wild == Line({Glob(FALSE, <<"A", "*">>)}, MCKeyType, "k1")
NotHere == Line({Glob(FALSE, <<"*">>), Glob(TRUE, <<"?", "b">>)}, MCKeyType, "k2")
Hashed == Line({Hash(FALSE, MCName)}, MCKeyType, "k2")
Rsa == Line({Glob(FALSE, MCName)}, "rsa", "k3")

MCWorlds ==
    { World("app", "good", <<>>, {"k1"}, {Key, Both}, TRUE, NoSeed, 1, 2),
      World("app", "none", <<Hashed, Rsa, Wild, Hashed>>, {"k1"}, {Both, Password}, FALSE, OldSeed, 1, 2),
      World("app", "none", <<Skipped, NotHere>>, {"k1", "k2"}, {{}}, FALSE, NoSeed, 1, 1),
      World("app", "none", <<Wild>>, {"k1"}, {{}}, FALSE, OldSeed, 3, 0),
      World("app", "useless", <<Wild>>, {"k1"}, {Key}, TRUE, NoSeed, 1, 2),
      World("stepssh", "good", <<NotHere>>, {"k1", "k2"}, {Both \cup Key}, FALSE, OldSeed, 1, 2),
      World("stepscp", "none", <<>>, {"k1"}, {Both}, FALSE, OldSeed, 1, 2) }

\* Globs by their definition: the characters a pattern's parts stand for, put together.
Chars == {"a", "b", "A"}
Strings(set, n) == UNION {[1..k -> set] : k \in 0..n}
Fits(c, x) == c = "?" \/ lower(c) = lower(x)
Matches(pat, x) ==
    \E cut \in [0..Len(pat) -> 0..Len(x)] :
        /\ cut[0] = 0 /\ cut[Len(pat)] = Len(x)
        /\ \A k \in 1..Len(pat) :
              IF pat[k] = "*" THEN cut[k - 1] <= cut[k]
              ELSE cut[k] = cut[k - 1] + 1 /\ Fits(pat[k], x[cut[k]])
ASSUME GlobMatches ==
    \A pat \in Strings({"a", "B", "*", "?"}, 3), x \in Strings(Chars, 3) :
        glob_match(pat, x) <=> Matches(pat, x)
\* Names with a port are told apart from names without.
ASSUME NamesDiffer ==
    \A a, b \in Strings({"a", "b"}, 2), p, q \in {22, 2222} :
        make_name(a, p) = make_name(b, q) => a = b /\ p = q
=============================================================================
