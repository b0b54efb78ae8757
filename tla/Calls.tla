------------------------------- MODULE Calls -------------------------------
(***************************************************************************)
(* The functions of Bignum, PublicKey and Negotiate, which keep nothing    *)
(* from one call to the next: a behaviour is one call, with any of the     *)
(* arguments the constants give, and the properties compare its result     *)
(* with what it is defined to be.                                          *)
(***************************************************************************)
EXTENDS Bignum, PublicKey, Negotiate

CONSTANTS
    Numbers,      \* operands of sums, products and shifts
    Dividends, Divisors,
    Moduli,       \* of Montgomery products: odd
    Limbs,        \* the limbs of their operands
    Powers,       \* triples of a base, an exponent and a modulus
    Strings,      \* byte strings
    Curves,
    Nonces,       \* what two draws give
    Keys,         \* RSA keys
    Preferences, Offers

VARIABLE call     \* the function, its arguments and its result

Nothing == [fn |-> "none", args |-> <<>>, result |-> <<>>]
Idle == call = Nothing
Returns(fn, args, result) == call' = [fn |-> fn, args |-> args, result |-> result]

\* The number that limbs are, and the limbs, without leading zeros, of a number.
Value(a) ==
    LET v[k \in 0..Len(a)] == IF k = 0 THEN 0 ELSE v[k - 1] + a[k] * Base ^ (k - 1) IN v[Len(a)]
Number(v) == bn_trim([k \in 1..8 |-> IF Base ^ (k - 1) > v THEN 0 ELSE (v \div Base ^ (k - 1)) % Base])

Sum == Idle /\ \E a, b \in Numbers : Returns("add", <<a, b>>, bn_add(a, b))
Difference == Idle /\ \E a, b \in Numbers : Returns("sub", <<a, b>>, bn_sub(a, b))
Product == Idle /\ \E a, b \in Numbers : Returns("mul", <<a, b>>, bn_mul(a, b))
ShiftLeft == Idle /\ \E a \in Numbers, n \in 0..(2 * Width) : Returns("shl", <<a, n>>, bn_shl(a, n))
ShiftRight == Idle /\ \E a \in Numbers, n \in 0..(2 * Width) : Returns("shr", <<a, n>>, bn_shr(a, n))
Quotient == Idle /\ \E a \in Dividends, b \in Divisors : Returns("divmod", <<a, b>>, bn_divmod(a, b))
Residues ==
    Idle /\ \E m \in Moduli : \E a, b \in {d \in Divisors : bn_cmp(d, m) < 0} :
        Returns("residues", <<a, b, m>>,
                <<bn_addmod(a, b, m), bn_submod(a, b, m), bn_mulmod(a, b, m)>>)
MontgomeryProduct ==
    Idle /\ \E m \in Moduli : \E a, b \in [1..Len(m) -> Limbs] :
        /\ bn_cmp(a, m) < 0 /\ bn_cmp(b, m) < 0
        /\ Returns("mont", <<a, b, m>>, mont_mul(a, b, m, mont_m0inv(m[1])))
Exponential ==
    Idle /\ \E p \in Powers : Returns("exp", p, bn_modexp(p[1], p[2], p[3]))
Encoding ==
    Idle /\ \E s \in Strings, len \in 0..4 :
        Returns("bytes", <<s, len>>, <<bn_from_bytes(s), bn_to_bytes(bn_from_bytes(s), len),
                                        sb_put_mpint(s)>>)

\* A curve's points, and their sums as they are defined, by slopes.
PointsOf(c) == {P \in {Point(x, y) : x, y \in 0..(c.p - 1)} : ec_on_curve(c, P)} \cup {Infinity}
Plus(c, P, Q) ==
    LET slope == IF P = Q THEN (3 * (P.x ^ 2 - 1) * InverseOf((2 * P.y) % c.p, c.p)) % c.p
                 ELSE ((Q.y - P.y) * InverseOf((Q.x - P.x) % c.p, c.p)) % c.p
        x == (slope ^ 2 - P.x - Q.x) % c.p
    IN  CASE P.inf -> Q
          [] ~P.inf /\ Q.inf -> P
          [] ~P.inf /\ ~Q.inf /\ P.x = Q.x /\ (P.y + Q.y) % c.p = 0 -> Infinity
          [] OTHER -> Point(x, (slope * (P.x - x) - P.y) % c.p)
Times(c, k, P) ==
    LET sum[i \in 0..k] == IF i = 0 THEN Infinity ELSE LET s == sum[i - 1] IN Plus(c, s, P)
    IN  sum[k]

Multiple ==
    Idle /\ \E c \in Curves : \E P \in PointsOf(c), k \in 0..(c.n + 2) :
        Returns("multiple", <<c, k, P>>, ec_mul(c, k, P))
Shared ==
    Idle /\ \E c \in Curves : \E x, y \in 0..c.p, a \in 0..c.n, form \in {2, 4} :
        LET sent == [form |-> form, whole |-> TRUE, x |-> x, y |-> y]
            d == scalar_from_material(c, a)
        IN  Returns("shared", <<c, d, sent>>, ecdh_shared(c, d, ec_decode_point(c, sent)))
Signature ==
    Idle /\ \E c \in Curves : \E d \in c.secrets, hash \in c.hashes, draws \in Nonces :
        LET ks == [i \in 1..2 |-> scalar_from_material(c, draws[i])]
        IN  Returns("sign", <<c, d, hash, ks>>, ecdsa_sign(c, d, hash, c.bits, ks))
Verification ==
    Idle /\ \E c \in Curves : \E d \in c.secrets, hash \in c.hashes, r, s \in 0..c.n :
        Returns("verify", <<c, Times(c, d, c.g), hash, r, s>>,
                ecdsa_verify(c, Times(c, d, c.g), hash, c.bits, r, s))
RsaSignature ==
    Idle /\ \E key \in Keys : \E m \in 0..(key.n - 1) : Returns("rsa", <<key, m>>, rsa_sign(key, m))
RsaVerification ==
    Idle /\ \E key \in Keys : \E m, s \in 0..3 : Returns("rsaverify", <<key, m, s>>, rsa_verify(key, m, s))

Offer ==
    Idle /\ \E prefs \in Preferences, o \in Offers : Returns("kexinit", <<prefs, o>>, handle_kexinit(prefs, o))

Init == call = Nothing
Next ==
    \/ Sum \/ Difference \/ Product \/ ShiftLeft \/ ShiftRight \/ Quotient \/ Residues
    \/ MontgomeryProduct \/ Exponential \/ Encoding
    \/ Multiple \/ Shared \/ Signature \/ Verification \/ RsaSignature \/ RsaVerification
    \/ Offer
Spec == Init /\ [][Next]_call

-----------------------------------------------------------------------------
(* Properties *)

Powered(b, e, m) ==
    LET p[k \in 0..e] == IF k = 0 THEN 1 % m ELSE (p[k - 1] * b) % m IN p[e]

\* Bytes come back as they were but for leading zeros, or do not fit; and an mpint on the
\* wire is the shortest form of the same number that is not negative: the shared secret is
\* hashed in that form by both sides.
BytesRight ==
    LET s == call.args[1]
        r == call.result
        zeros(n) == [k \in 1..n |-> 0]
        front == Greatest({0} \cup {k \in 1..Len(s) : SubSeq(s, 1, k) = zeros(k)})
        rest == SubSeq(s, front + 1, Len(s))
        len == call.args[2]
        negative == rest # <<>> /\ rest[1] >= 2 ^ (ByteBits - 1)
    IN  /\ r[2] = IF Len(rest) > len THEN Fail ELSE zeros(len - Len(rest)) \o rest
        /\ r[3] = IF negative THEN <<0>> \o rest ELSE rest
        /\ bn_from_bytes(r[3]) = r[1]

\* The limbs of every result are those of the number it is defined to be, without leading
\* zeros: through every carry and borrow, the digits that Knuth's estimate gets too large by
\* one or two, the last subtraction of Montgomery's product, and the windows of the exponent.
\* And bytes are right.
NumbersRight ==
    LET a == call.args
        r == call.result
        V(i) == Value(a[i])
        Is(x) == r = Number(x)
    IN  CASE call.fn = "bytes" -> BytesRight
          [] call.fn = "add" -> Is(V(1) + V(2))
          [] call.fn = "sub" -> IF V(1) < V(2) THEN r = Fail ELSE Is(V(1) - V(2))
          [] call.fn = "mul" -> Is(V(1) * V(2))
          [] call.fn = "shl" -> Is(V(1) * 2 ^ a[2])
          [] call.fn = "shr" -> Is(V(1) \div 2 ^ a[2])
          [] call.fn = "divmod" ->
               IF V(2) = 0 THEN r.q = Fail
               ELSE r = [q |-> Number(V(1) \div V(2)), r |-> Number(V(1) % V(2))]
          [] call.fn = "residues" ->
               r = <<Number((V(1) + V(2)) % V(3)), Number((V(1) - V(2)) % V(3)),
                     Number((V(1) * V(2)) % V(3))>>
          [] call.fn = "mont" ->
               Value(r) < V(3) /\ (Value(r) * Base ^ Len(a[3]) - V(1) * V(2)) % V(3) = 0
          [] call.fn = "exp" -> Is(Powered(V(1), V(2), V(3)))
          [] OTHER -> TRUE

\* Multiples of points are those of the group, whatever meets at infinity, at the same point
\* or at its opposite on the way; a shared secret is taken from points on the curve only; a
\* signature verifies, and one that verifies is one the equation accepts; and an RSA
\* signature that is released is right even if the key's numbers do not fit together.
KeysRight ==
    LET a == call.args
        r == call.result
        c == a[1]
        e == hash_to_int(c, a[3], c.bits)
        Accepts(Q, rr, ss) ==
            \E w \in 1..(c.n - 1) :
                LET P == Plus(c, Times(c, (e * w) % c.n, c.g), Times(c, (rr * w) % c.n, Q))
                IN  (w * ss) % c.n = 1 /\ ~P.inf /\ P.x % c.n = rr
    IN  CASE call.fn = "multiple" -> r = Times(c, a[2], a[3])
          [] call.fn = "shared" ->
               IF \E P \in PointsOf(c) \ {Infinity} : ec_encode_point(P) = a[3]
               THEN r = Times(c, a[2], Point(a[3].x, a[3].y)).x ELSE r = Refused
          [] call.fn = "sign" ->
               IF r[1] # Refused THEN ecdsa_verify(c, Times(c, a[2], c.g), a[3], c.bits, r[1], r[2])
               ELSE \A i \in 1..2 : Times(c, a[4][i], c.g).x % c.n = 0
                                    \/ (Times(c, a[4][i], c.g).x * a[2] + e) % c.n = 0
          [] call.fn = "verify" ->
               r <=> a[4] \in 1..(c.n - 1) /\ Accepts(a[2], a[4], a[5])
          [] call.fn = "rsa" ->
               IF r # Refused THEN r \in 0..(c.n - 1) /\ Powered(r, c.e, c.n) = a[2] ELSE ~c.fits
          [] call.fn = "rsaverify" -> r => Powered(a[3], c.e, c.n) = a[2]
          [] OTHER -> TRUE

\* What RFC 4253, 7.1 makes of two KEXINITs: in every part, the client's first name that the
\* server has too, or that there is none.
Missing == "missing"
First(client, server) ==
    LET both == {k \in DOMAIN client : \E l \in DOMAIN server : server[l] = client[k]}
    IN  IF both = {} THEN Missing ELSE client[CHOOSE k \in both : \A l \in both : k <= l]
Agreed(mine, o) ==
    LET name == [part \in DOMAIN mine |-> First(mine[part], o[part])]
        Mac(cipher, mac) == IF cipher \in AEAD THEN "implicit" ELSE mac
    IN  [kex |-> name.kex, hostkey |-> name.hostkey, c2s |-> name.cipher_c2s,
         s2c |-> name.cipher_s2c, mac_c2s |-> Mac(name.cipher_c2s, name.mac_c2s),
         mac_s2c |-> Mac(name.cipher_s2c, name.mac_s2c),
         comp_c2s |-> name.comp_c2s, comp_s2c |-> name.comp_s2c]

\* Client and server settle on the same algorithms, whatever they offer and prefer, in the
\* first exchange and in later ones; the client gives up exactly when they have nothing in
\* common in some part; and to prefer a cipher never costs a connection.  One part is left to
\* CompressionSettled: the server's compression, whose list the code does not look at.
OffersAgree ==
    LET prefs == call.args[1]
        o == call.args[2]
        r == call.result
    IN  call.fn = "kexinit" =>
            /\ \A first \in BOOLEAN :
                  LET both == Agreed(send_kexinit(prefs, first), o)
                  IN  /\ r.fails <=> \E part \in DOMAIN both \ {"comp_s2c"} : both[part] = Missing
                      /\ ~r.fails => \A part \in DOMAIN r.settled : r.settled[part] = both[part]
            /\ LET default == handle_kexinit([prefs EXCEPT !.ciphers = Unset], o)
               IN  prefs.macs = Unset /\ ~default.fails => ~r.fails

\* An exchange goes on only with a server that can do without compression in both directions:
\* this client has none.  (ssh.c:907 looks at the list of one direction only.)
CompressionSettled ==
    call.fn = "kexinit" /\ ~call.result.fails =>
        LET both == Agreed(send_kexinit(call.args[1], TRUE), call.args[2])
        IN  both.comp_c2s = None /\ both.comp_s2c = None
=============================================================================
