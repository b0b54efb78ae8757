----------------------------- MODULE PublicKey -----------------------------
(***************************************************************************)
(* Curve points and ECDSA (core/ecc.c) and RSA with the Chinese remainder  *)
(* theorem (core/rsa.c), as formulas over numbers modulo p, n or q:        *)
(* Bignum is about the limbs.  Keys, hashes and nonces are whatever the    *)
(* caller gives.                                                           *)
(***************************************************************************)
EXTENDS Integers, Sequences

Refused == -1

\* Numbers modulo m: bn_addmod, bn_submod, bn_mulmod, bn_modexp and bn_modinv_prime.
FADD(a, b, m) == (a + b) % m
FSUB(a, b, m) == (a - b) % m
FMUL(a, b, m) == (a * b) % m
Bits(k) == CHOOSE b \in 0..30 : 2 ^ b > k /\ \A c \in 0..30 : 2 ^ c > k => b <= c
Bit(k, i) == (k \div 2 ^ i) % 2
Power(a, e, m) ==
    LET square[i \in 0..Bits(e)] ==
            IF i = Bits(e) THEN 1 % m
            ELSE LET s == FMUL(square[i + 1], square[i + 1], m)
                 IN  IF Bit(e, i) = 1 THEN FMUL(s, a, m) ELSE s
    IN  square[0]
InverseOf(a, p) == Power(a, p - 2, p)

-----------------------------------------------------------------------------
(* Points: y^2 = x^3 - 3x + b modulo c.p; c.g generates a group of prime order c.n *)

Point(x, y) == [x |-> x, y |-> y, inf |-> FALSE]
Infinity == [x |-> 0, y |-> 0, inf |-> TRUE]

ec_on_curve(c, P) ==
    LET x == P.x
        y == P.y
        cube == FMUL(FMUL(x, x, c.p), x, c.p)
    IN  /\ x < c.p /\ y < c.p
        /\ FMUL(y, y, c.p) = FADD(FADD(cube, FMUL(c.p - 3, x, c.p), c.p), c.b, c.p)

\* Jacobian coordinates: x = X / Z^2 and y = Y / Z^3.
Jacobian(P) == [X |-> P.x, Y |-> P.y, Z |-> 1, inf |-> P.inf]
jp_double(c, P) ==
    LET Sub(a, b) == FSUB(a, b, c.p)
        Mul(a, b) == FMUL(a, b, c.p)
        delta == Mul(P.Z, P.Z)
        gamma == Mul(P.Y, P.Y)
        beta == Mul(P.X, gamma)
        alpha == Mul(3, Mul(Sub(P.X, delta), FADD(P.X, delta, c.p)))
        X3 == Sub(Mul(alpha, alpha), Mul(8, beta))
        yz == FADD(P.Y, P.Z, c.p)
    IN  IF P.inf \/ P.Y = 0 THEN [P EXCEPT !.inf = TRUE]
        ELSE [X |-> X3, inf |-> FALSE,
              Y |-> Sub(Mul(alpha, Sub(Mul(4, beta), X3)), Mul(8, Mul(gamma, gamma))),
              Z |-> Sub(Sub(Mul(yz, yz), gamma), delta)]

\* P and the affine point Q.
\* A mutant: it does not look whether they have the same x.
jp_madd_blind(c, P, Q) ==
    LET Sub(a, b) == FSUB(a, b, c.p)
        Mul(a, b) == FMUL(a, b, c.p)
        Z1Z1 == Mul(P.Z, P.Z)
        H == Sub(Mul(Q.x, Z1Z1), P.X)
        r == Mul(2, Sub(Mul(Q.y, Mul(P.Z, Z1Z1)), P.Y))
        J == Mul(H, Mul(4, Mul(H, H)))
        V == Mul(P.X, Mul(4, Mul(H, H)))
        X3 == Sub(Sub(Mul(r, r), J), Mul(2, V))
    IN  IF P.inf THEN Jacobian(Q)
        ELSE [X |-> X3, inf |-> FALSE, Y |-> Sub(Mul(r, Sub(V, X3)), Mul(2, Mul(P.Y, J))),
              Z |-> Mul(2, Mul(P.Z, H))]
jp_madd(c, P, Q) ==
    LET Sub(a, b) == FSUB(a, b, c.p)
        Mul(a, b) == FMUL(a, b, c.p)
        Z1Z1 == Mul(P.Z, P.Z)
        H == Sub(Mul(Q.x, Z1Z1), P.X)
        half == Sub(Mul(Q.y, Mul(P.Z, Z1Z1)), P.Y)
        HH == Mul(H, H)
        I == Mul(4, HH)
        J == Mul(H, I)
        r == FADD(half, half, c.p)
        V == Mul(P.X, I)
        X3 == Sub(Sub(Mul(r, r), J), FADD(V, V, c.p))
        zh == FADD(P.Z, H, c.p)
    IN  CASE P.inf -> Jacobian(Q)
          [] ~P.inf /\ H = 0 -> IF half = 0 THEN jp_double(c, P) ELSE [P EXCEPT !.inf = TRUE]
          [] OTHER -> [X |-> X3, inf |-> FALSE,
                       Y |-> Sub(Mul(r, Sub(V, X3)), Mul(2, Mul(P.Y, J))),
                       Z |-> Sub(Sub(Mul(zh, zh), Z1Z1), HH)]

jp_to_affine(c, P) ==
    LET zi == InverseOf(P.Z, c.p)
        zi2 == FMUL(zi, zi, c.p)
    IN  IF P.inf THEN Infinity
        ELSE Point(FMUL(P.X, zi2, c.p), FMUL(P.Y, FMUL(zi2, zi, c.p), c.p))

ec_mul(c, k, P) ==
    LET sum[i \in 0..Bits(k)] ==
            IF i = Bits(k) THEN Jacobian(Infinity)
            ELSE LET twice == jp_double(c, sum[i + 1])
                 IN  IF Bit(k, i) = 1 THEN jp_madd(c, twice, P) ELSE twice
    IN  IF P.inf \/ k = 0 THEN Infinity ELSE jp_to_affine(c, sum[0])

\* A point on the wire: a form, and as many bytes as two numbers take.
ec_encode_point(P) ==
    IF P.inf THEN Refused ELSE [form |-> 4, whole |-> TRUE, x |-> P.x, y |-> P.y]
ec_decode_point(c, b) ==
    IF ~b.whole \/ b.form # 4 \/ ~ec_on_curve(c, Point(b.x, b.y)) THEN Infinity ELSE Point(b.x, b.y)

ecdh_shared(c, d, peer) ==
    LET R == ec_mul(c, d, peer)
    IN  IF peer.inf \/ ~ec_on_curve(c, peer) \/ R.inf THEN Refused ELSE R.x

-----------------------------------------------------------------------------
(* ECDSA *)

scalar_from_material(c, wide) == (wide % (c.n - 1)) + 1
\* The hash's leftmost bits, as many as n has.
hash_to_int(c, hash, bits) ==
    IF bits > Bits(c.n) THEN hash \div 2 ^ (bits - Bits(c.n)) ELSE hash

\* One nonce after the other until neither r nor s is zero.
ecdsa_sign(c, d, hash, bits, nonces) ==
    LET e == hash_to_int(c, hash, bits) % c.n
        r(k) == ec_mul(c, k, c.g).x % c.n
        s(k) == FMUL(InverseOf(k, c.n), FADD(FMUL(r(k), d, c.n), e, c.n), c.n)
        fit == {i \in DOMAIN nonces : r(nonces[i]) # 0 /\ s(nonces[i]) # 0}
    IN  IF fit = {} THEN <<Refused, Refused>>
        ELSE LET k == nonces[CHOOSE i \in fit : \A j \in fit : i <= j] IN <<r(k), s(k)>>

ecdsa_verify(c, Q, hash, bits, r, s) ==
    LET w == InverseOf(s, c.n)
        A == ec_mul(c, FMUL(hash_to_int(c, hash, bits) % c.n, w, c.n), c.g)
        B == ec_mul(c, FMUL(r, w, c.n), Q)
        S == CASE A.inf -> Jacobian(B)
               [] ~A.inf /\ B.inf -> Jacobian(A)
               [] OTHER -> jp_madd(c, Jacobian(A), B)
    IN  /\ r # 0 /\ s # 0 /\ r < c.n /\ s < c.n /\ ~Q.inf
        /\ ~S.inf /\ jp_to_affine(c, S).x % c.n = r

-----------------------------------------------------------------------------
(* RSA.  A key as it is read from a file: its numbers need not fit together. *)

rsa_priv_prepare(key) ==
    IF key.p * key.q # key.n \/ key.n % 2 = 0 \/ key.d = 0 \/ key.p = 1 \/ key.q = 1 THEN <<Refused, Refused>>
    ELSE <<key.d % (key.p - 1), key.d % (key.q - 1)>>

\* s = m2 + q * (iqmp * (m1 - m2) mod p), released only when s^e is m.
rsa_sign(key, m) ==
    LET exps == rsa_priv_prepare(key)
        m1 == Power(m % key.p, exps[1], key.p)
        m2 == Power(m % key.q, exps[2], key.q)
        h == FMUL(FSUB(m1, m2 % key.p, key.p), key.iqmp, key.p)
        s == h * key.q + m2
    IN  IF exps[1] = Refused \/ Power(s, key.e, key.n) # m THEN Refused ELSE s
rsa_verify(key, m, s) ==
    key.n % 2 = 1 /\ key.e % 2 = 1 /\ s < key.n /\ Power(s, key.e, key.n) = m
=============================================================================
