------------------------------ MODULE MCCalls ------------------------------
(* Arguments for the run on Calls: limbs of four bits, which show every carry, estimate and *)
(* overflow that those of 32 bits do (but mont_m0inv is right after the first of its four   *)
(* steps); curves of a few points; keys of small primes.                                    *)
EXTENDS Calls

\* Up to n limbs, each at a boundary.
Edge == {0, 1, 8, Base - 1}
EdgeNumbers(n) == {bn_trim(d) : d \in [1..n -> Edge]}
MCNumbers == EdgeNumbers(3)
MCDividends == EdgeNumbers(4)
MCDivisors == {bn_trim(d) : d \in [1..2 -> Edge \cup {7}]} \cup {<<8, 8, 8>>, <<15, 0, 8>>, <<1, 0, 1>>}
MCLimbs == Edge \cup {7}
MCModuli == {<<Base - 1>>, <<3>>, <<1, Base - 1>>, <<Base - 1, Base - 1>>, <<5, 8>>, <<7, 1>>}
MCPowers ==
    {<<Number(b), Number(e), Number(m)>> :
        b \in {0, 2, 255}, e \in {0, 1, 2, 15, 16, 17, 35, 80, 102}, m \in {1, 2, 6, 15, 16, 241, 255, 256}}
MCStrings == UNION {[1..n -> 0..(2 ^ ByteBits - 1)] : n \in 0..4}

Curve(p, b, g, n, bits, hashes, secrets) ==
    [p |-> p, b |-> b, g |-> g, n |-> n, bits |-> bits, hashes |-> hashes, secrets |-> secrets]
\* n smaller than p, with points whose x is n or 0; larger; and one of 19 points.
MCCurves == { Curve(7, 1, Point(0, 1), 5, 4, {0, 3, 11, 15}, 1..4),
              Curve(7, 6, Point(1, 2), 11, 4, {0, 11, 13}, {1, 4}),
              Curve(13, 1, Point(0, 1), 19, 8, {152}, {3}) }
MCNonces == (0..10) \X {0, 3}

Key(p, q, e, d, iqmp, fits) ==
    [p |-> p, q |-> q, n |-> p * q, e |-> e, d |-> d, iqmp |-> iqmp, fits |-> fits]
MCKeys == { Key(5, 11, 3, 27, 1, TRUE), Key(11, 5, 3, 27, 9, TRUE), Key(5, 11, 3, 27, 2, FALSE),
            Key(7, 3, 5, 5, 5, TRUE), Key(7, 3, 5, 7, 5, FALSE) }

Prefs(kex, ciphers, macs) == [kex |-> kex, ciphers |-> ciphers, macs |-> macs]
MCPreferences ==
    { Prefs(Unset, ssh_prefer_cipher(c), Unset) : c \in {None, "3des-cbc", "aes128-gcm", "no-such"} }
    \cup { Prefs(<<"diffie-hellman-group14-sha1", "ecdh-sha2-nistp256">>, Unset, <<"md5-96", "sha1">>) }
Lists(names) == {<<x, y>> : x, y \in names} \cup {<<x>> : x \in names}
MCOffers ==
    { [kex |-> k \o s, hostkey |-> h, cipher_c2s |-> c, cipher_s2c |-> d, mac_c2s |-> m,
       mac_s2c |-> n, comp_c2s |-> z, comp_s2c |-> w] :
        k \in {<<"diffie-hellman-group14-sha1", "curve25519-sha256">>, <<"no-such">>},
        s \in {<<>>, <<"kex-strict-s">>}, h \in {<<"ssh-rsa", "ssh-ed25519">>, <<"ssh-dss">>},
        c \in Lists({"aes128-gcm", "aes128-ctr"}), d \in Lists({"3des-cbc", "chacha20-poly1305"}),
        m \in {<<"md5-96", "sha1">>, <<"umac">>}, n \in {<<"sha2-256-etm">>, <<"sha1">>},
        z, w \in {<<"zlib", None>>, <<"zlib">>} }
=============================================================================
