------------------------------- MODULE Bignum -------------------------------
(***************************************************************************)
(* The arithmetic of core/bignum.c, limb by limb: carries and borrows,     *)
(* Knuth's long division, Montgomery multiplication and the exponentiation *)
(* built on it.  A number is the sequence of its limbs, the least first,   *)
(* so that d[i] of the code is element i + 1 here.  The limbs have Width   *)
(* bits where the code's have 32: the estimates and carries that are rare  *)
(* there are everyday here.                                                *)
(***************************************************************************)
EXTENDS Integers, Sequences

CONSTANTS
    ByteBits,     \* the bits of a byte: 8 in the code
    LimbBytes     \* the bytes of a limb: 4 in the code

ASSUME BignumAssumption == ByteBits \in Nat \ {0} /\ LimbBytes \in Nat \ {0}

Width == ByteBits * LimbBytes
Base == 2 ^ Width
u32(v) == v % Base
u64(v) == v % (Base * Base)

\* What the functions return for -1.
Fail == <<-1>>

Greatest(set) == CHOOSE x \in set : \A y \in set : y <= x
Limb(a, i) == IF i \in 0..(Len(a) - 1) THEN a[i + 1] ELSE 0
bn_trim(d) == SubSeq(d, 1, Greatest({0} \cup {k \in 1..Len(d) : d[k] # 0}))
bn_set_u32(v) == IF v = 0 THEN <<>> ELSE <<v>>

BitsOf(v) == Greatest({0} \cup {k \in 1..Width : v >= 2 ^ (k - 1)})
bn_bits(a) == IF a = <<>> THEN 0 ELSE (Len(a) - 1) * Width + BitsOf(a[Len(a)])
bn_bit(a, i) == (Limb(a, i \div Width) \div 2 ^ (i % Width)) % 2
bn_is_odd(a) == a # <<>> /\ a[1] % 2 = 1

\* Byte i from the end goes to limb i \div LimbBytes.
Part(be, i) == IF i < Len(be) THEN be[Len(be) - i] * 2 ^ (ByteBits * (i % LimbBytes)) ELSE 0
bn_from_bytes(be) ==
    LET sum[k \in 1..((Len(be) + LimbBytes - 1) \div LimbBytes), j \in 0..LimbBytes] ==
            IF j = 0 THEN 0 ELSE sum[k, j - 1] + Part(be, (k - 1) * LimbBytes + j - 1)
    IN  bn_trim([k \in 1..((Len(be) + LimbBytes - 1) \div LimbBytes) |-> sum[k, LimbBytes]])
bn_to_bytes(a, len) ==
    LET Byte(i) == (Limb(a, i \div LimbBytes) \div 2 ^ (ByteBits * (i % LimbBytes))) % 2 ^ ByteBits
    IN  IF (bn_bits(a) + ByteBits - 1) \div ByteBits > len THEN Fail
        ELSE [k \in 1..len |-> Byte(len - k)]
\* wire.c: no zeros in front but the one that keeps the number positive.
sb_put_mpint(be) ==
    LET zeros == Greatest({0} \cup {k \in 1..Len(be) : \A i \in 1..k : be[i] = 0})
        rest == SubSeq(be, zeros + 1, Len(be))
    IN  IF rest # <<>> /\ rest[1] >= 2 ^ (ByteBits - 1) THEN <<0>> \o rest ELSE rest

-----------------------------------------------------------------------------
(* Sums, differences, products, shifts *)

bn_cmp(a, b) ==
    LET differ == {k \in DOMAIN a : a[k] # b[k]} IN
    CASE Len(a) # Len(b) -> IF Len(a) > Len(b) THEN 1 ELSE -1
      [] Len(a) = Len(b) /\ differ = {} -> 0
      [] OTHER -> IF a[Greatest(differ)] > b[Greatest(differ)] THEN 1 ELSE -1

bn_add(a, b) ==
    LET n == Greatest({Len(a), Len(b)})
        carry[i \in 0..n] ==
            IF i = 0 THEN 0 ELSE (carry[i - 1] + Limb(a, i - 1) + Limb(b, i - 1)) \div Base
    IN  bn_trim([k \in 1..(n + 1) |-> u32(carry[k - 1] + Limb(a, k - 1) + Limb(b, k - 1))])

bn_sub(a, b) ==
    LET borrow[i \in 0..Len(a)] ==
            IF i > 0 /\ Limb(a, i - 1) - borrow[i - 1] - Limb(b, i - 1) < 0 THEN 1 ELSE 0
    IN  IF bn_cmp(a, b) < 0 THEN Fail
        ELSE bn_trim([k \in 1..Len(a) |-> u32(a[k] - borrow[k - 1] - Limb(b, k - 1))])

bn_mul(a, b) ==
    LET row[i \in 0..Len(a)] ==
            IF i = 0 THEN [k \in 1..(Len(a) + Len(b)) |-> 0]
            ELSE LET tmp == row[i - 1]
                     carry[j \in 0..Len(b)] ==
                         IF j = 0 THEN 0
                         ELSE u64(a[i] * b[j] + tmp[i + j - 1] + carry[j - 1]) \div Base
                 IN  [k \in 1..(Len(a) + Len(b)) |->
                        CASE k = i + Len(b) -> carry[Len(b)]
                          [] k \in i..(i + Len(b) - 1) ->
                               u32(a[i] * b[k - i + 1] + tmp[k] + carry[k - i])
                          [] OTHER -> tmp[k]]
    IN  IF a = <<>> \/ b = <<>> THEN <<>> ELSE bn_trim(row[Len(a)])

bn_shl(a, bits) ==
    LET limbs == bits \div Width
        sh == bits % Width
    IN  IF a = <<>> THEN <<>>
        ELSE bn_trim([k \in 1..(Len(a) + limbs + 1) |->
                u32(Limb(a, k - 1 - limbs) * 2 ^ sh) + Limb(a, k - 2 - limbs) \div 2 ^ (Width - sh)])
bn_shr(a, bits) ==
    LET limbs == bits \div Width
        sh == bits % Width
    IN  bn_trim([k \in 1..(Len(a) - limbs) |->
            Limb(a, k - 1 + limbs) \div 2 ^ sh + u32(Limb(a, k + limbs) * 2 ^ (Width - sh))])

-----------------------------------------------------------------------------
(* Division *)

ShortDivision(a, v) ==
    LET rem[j \in 0..Len(a)] ==
            IF j = Len(a) THEN 0 ELSE (rem[j + 1] * Base + a[j + 1]) % v
    IN  [q |-> bn_trim([k \in 1..Len(a) |-> u32((rem[k] * Base + a[k]) \div v)]),
         r |-> bn_set_u32(rem[0])]

\* The estimate of a digit from the first limbs, and its correction while the next limb
\* shows that it is too large and the remainder fits in a limb.
Estimate(num, next, v1, v2) ==
    LET corrected[q \in 0..(2 * Base)] ==
            LET rhat == num - q * v1
            IN  IF rhat < Base /\ (q >= Base \/ u64(q * v2) > rhat * Base + next)
                THEN corrected[q - 1] ELSE q
    IN  corrected[num \div v1]

\* un - qhat * vn from limb j on: the limbs, and what the topmost one is before it is cut.
Subtracted(un, vn, qhat, j) ==
    LET n == Len(vn)
        Low(i, over) == un[i + j] - over - u32(qhat * vn[i])
        k[i \in 0..n] ==
            IF i = 0 THEN 0 ELSE u64(qhat * vn[i]) \div Base - Low(i, k[i - 1]) \div Base
    IN  [t |-> un[n + 1 + j] - k[n],
         un |-> [l \in DOMAIN un |->
                    CASE l \in (j + 1)..(j + n) -> u32(Low(l - j, k[l - j - 1]))
                      [] l = j + n + 1 -> u32(un[l] - k[n])
                      [] OTHER -> un[l]]]
AddedBack(un, vn, j) ==
    LET n == Len(vn)
        c[i \in 0..n] == IF i = 0 THEN 0 ELSE (un[i + j] + vn[i] + c[i - 1]) \div Base
    IN  [l \in DOMAIN un |->
            CASE l \in (j + 1)..(j + n) -> u32(un[l] + vn[l - j] + c[l - j - 1])
              [] l = j + n + 1 -> u32(un[l] + c[n])
              [] OTHER -> un[l]]

\* One digit of the quotient: qhat may still be one too large, and is then taken back.
\* A mutant: it is not.
Digit_over(un, vn, j) ==
    LET n == Len(vn)
        qhat == Estimate(un[j + n + 1] * Base + un[j + n], un[j + n - 1], vn[n], vn[n - 1])
    IN  [q |-> u32(qhat), un |-> Subtracted(un, vn, qhat, j).un]
Digit(un, vn, j) ==
    LET n == Len(vn)
        qhat == Estimate(un[j + n + 1] * Base + un[j + n], un[j + n - 1], vn[n], vn[n - 1])
        less == Subtracted(un, vn, qhat, j)
    IN  IF less.t < 0 THEN [q |-> u32(qhat - 1), un |-> AddedBack(less.un, vn, j)]
        ELSE [q |-> u32(qhat), un |-> less.un]

LongDivision(a, b) ==
    LET m == Len(a)
        n == Len(b)
        s == Width - BitsOf(b[n])
        Normal(d, k) == u32(Limb(d, k - 1) * 2 ^ s) + Limb(d, k - 2) \div 2 ^ (Width - s)
        vn == [k \in 1..n |-> Normal(b, k)]
        step[j \in 0..(m - n + 1)] ==
            IF j = m - n + 1 THEN [q |-> <<>>, un |-> [k \in 1..(m + 1) |-> Normal(a, k)]]
            ELSE LET above == step[j + 1]
                     d == Digit(above.un, vn, j)
                 IN  [q |-> <<d.q>> \o above.q, un |-> d.un]
        last == step[0]
    IN  [q |-> bn_trim(last.q),
         r |-> bn_trim([k \in 1..n |->
                  last.un[k] \div 2 ^ s + u32(last.un[k + 1] * 2 ^ (Width - s))])]

bn_divmod(a, b) ==
    CASE b = <<>> -> [q |-> Fail, r |-> Fail]
      [] b # <<>> /\ bn_cmp(a, b) < 0 -> [q |-> <<>>, r |-> a]
      [] Len(b) = 1 /\ bn_cmp(a, b) >= 0 -> ShortDivision(a, b[1])
      [] OTHER -> LongDivision(a, b)
bn_mod(a, m) == bn_divmod(a, m).r

bn_addmod(a, b, m) ==
    LET s == bn_add(a, b) IN IF bn_cmp(s, m) >= 0 THEN bn_sub(s, m) ELSE s
bn_submod(a, b, m) ==
    IF bn_cmp(a, b) >= 0 THEN bn_sub(a, b) ELSE bn_sub(bn_add(a, m), b)
bn_mulmod(a, b, m) == bn_mod(bn_mul(a, b), m)

-----------------------------------------------------------------------------
(* Powers.  The numbers of mont_mul all have the n limbs of the modulus. *)

\* Minus the inverse of m0: from three bits, each step doubles them.
Newton(m0, x) == u32(x * u32(2 - u32(m0 * x)))
mont_m0inv(m0) == u32(0 - Newton(m0, Newton(m0, Newton(m0, Newton(m0, m0)))))

\* One limb of b: t + a * b[i], and as many of m that the lowest limb vanishes.
Round(t, a, bi, m, m0inv) ==
    LET n == Len(m)
        c[j \in 0..n] == IF j = 0 THEN 0 ELSE u64(a[j] * bi + t[j] + c[j - 1]) \div Base
        u == [j \in 1..n |-> u32(a[j] * bi + t[j] + c[j - 1])]
        top == t[n + 1] + c[n]
        mm == u32(u[1] * m0inv)
        e[j \in 0..n] == IF j = 0 THEN 0 ELSE u64(mm * m[j] + u[j] + e[j - 1]) \div Base
    IN  [j \in 1..(n + 1) |->
            CASE j < n -> u32(mm * m[j + 1] + u[j + 1] + e[j])
              [] j = n -> u32(u32(top) + e[n])
              [] j = n + 1 -> u32(top \div Base + (u32(top) + e[n]) \div Base)]
\* The result may be the modulus or more: then it is subtracted once.
AtLeast(t, m) ==
    t[Len(m) + 1] # 0 \/ bn_cmp(SubSeq(t, 1, Len(m)), m) >= 0
mont_mul(a, b, m, m0inv) ==
    LET n == Len(m)
        round[i \in 0..n] ==
            IF i = 0 THEN [k \in 1..(n + 1) |-> 0] ELSE Round(round[i - 1], a, b[i], m, m0inv)
        t == round[n]
        borrow[i \in 0..n] == IF i > 0 /\ t[i] - m[i] - borrow[i - 1] < 0 THEN 1 ELSE 0
        less == [k \in 1..n |-> u32(t[k] - m[k] - borrow[k - 1])]
    IN  SubSeq(IF AtLeast(t, m) THEN less ELSE t, 1, n)

modexp_plain(base, exp, mod) ==
    LET b == bn_mod(base, mod)
        power[i \in 0..bn_bits(exp)] ==
            IF i = bn_bits(exp) THEN bn_mod(<<1>>, mod)
            ELSE LET square == bn_mulmod(power[i + 1], power[i + 1], mod)
                 IN  IF bn_bit(exp, i) = 1 THEN bn_mulmod(square, b, mod) ELSE square
    IN  power[0]

\* The exponent is taken four bits at a time.
Windows(exp) == (bn_bits(exp) + 3) \div 4
Montgomery(base, exp, mod) ==
    LET n == Len(mod)
        m0inv == mont_m0inv(mod[1])
        Mul(a, b) == mont_mul(a, b, mod, m0inv)
        Padded(a) == [k \in 1..n |-> Limb(a, k - 1)]
        one == Padded(bn_mod(bn_shl(<<1>>, Width * n), mod))
        x == Padded(bn_mod(bn_shl(bn_mod(base, mod), Width * n), mod))
        table[i \in 0..15] == IF i = 0 THEN one ELSE IF i = 1 THEN x ELSE Mul(table[i - 1], x)
        Window(i) == bn_bit(exp, 4 * i) + 2 * bn_bit(exp, 4 * i + 1)
                     + 4 * bn_bit(exp, 4 * i + 2) + 8 * bn_bit(exp, 4 * i + 3)
        square[i \in 0..Windows(exp), j \in 0..4] ==
            CASE j > 0 -> LET s == square[i, j - 1] IN Mul(s, s)
              [] j = 0 /\ i = Windows(exp) -> one
              [] OTHER -> LET s == square[i + 1, 4]
                          IN  IF Window(i) = 0 THEN s ELSE Mul(s, table[Window(i)])
    IN  bn_trim(Mul(square[0, 0], Padded(<<1>>)))

bn_modexp(base, exp, mod) ==
    CASE mod = <<>> -> Fail
      [] bn_bits(mod) = 1 -> <<>>
      [] bn_bits(mod) > 1 /\ ~bn_is_odd(mod) -> modexp_plain(base, exp, mod)
      [] bn_is_odd(mod) /\ bn_bits(mod) > 1 /\ exp = <<>> -> <<1>>
      [] OTHER -> Montgomery(base, exp, mod)
bn_modinv_prime(a, p) == bn_modexp(a, bn_sub(p, <<2>>), p)
=============================================================================
