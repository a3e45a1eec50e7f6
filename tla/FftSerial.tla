----------------------------- MODULE FftSerial -----------------------------
(***************************************************************************)
(* fftSerial: the kernels of FFT and the two transforms built from them,   *)
(* fft and fft_seq, whose results test_correctness compares.  An array is  *)
(* a function on 0 .. n - 1, and a kernel is a function of the array that  *)
(* it reads.                                                               *)
(*                                                                         *)
(* The complex numbers are those of a field in which the same algebra is   *)
(* exact: the numbers modulo a prime, Modulus, with a Generator of its     *)
(* group, whose powers are the roots of unity.                             *)
(***************************************************************************)
EXTENDS Integers, SequencesExt, FiniteSetsExt

CONSTANTS
  Modulus, Generator,
  LeafSize   \* the 128 (in unshuffle_seq 16) from which on a _seq kernel halves its work

RECURSIVE PowerOf(_, _)
PowerOf(b, k) ==
  IF k = 0 THEN 1
  ELSE (PowerOf((b * b) % Modulus, k \div 2) * (IF k % 2 = 1 THEN b ELSE 1)) % Modulus

Powers == [k \in 0 .. Modulus - 2 |-> PowerOf(Generator, k)]

(* e ^ (-2 pi i k / n).                                                    *)
Root(n, k) == Powers[(k % n) * ((Modulus - 1) \div n)]

(* f[a] + .. + f[b - 1].                                                   *)
RECURSIVE Sum(_, _, _)
Sum(f, a, b) ==
  IF b - a = 1 THEN f[a] % Modulus
  ELSE (Sum(f, a, (a + b) \div 2) + Sum(f, (a + b) \div 2, b)) % Modulus

(* The transform that all of them compute.                                 *)
Dft(x, n) ==
  [k \in 0 .. n - 1 |->
     Sum([j \in 0 .. n - 1 |-> x[j] * Root(n, j * k)], 0, n)]

-----------------------------------------------------------------------------
(* The pieces into which a recursion halves a .. b - 1, and the parts of   *)
(* an array put together.                                                  *)

RECURSIVE Pieces(_, _, _)
Pieces(a, b, least) ==
  IF b - a < least THEN {<<a, b>>}
  ELSE Pieces(a, (a + b) \div 2, least) \cup Pieces((a + b) \div 2, b, least)

Joined(parts) ==
  [p \in UNION {DOMAIN f : f \in parts} |-> (CHOOSE f \in parts : p \in DOMAIN f)[p]]

InPieces(a, b, Part(_, _)) == Joined({Part(s[1], s[2]) : s \in Pieces(a, b, LeafSize)})

(* compute_w_coefficients: the powers a .. b, and those opposite to them.  *)
compute_w_coefficients(n, a, b) ==
  [k \in UNION {{j, n - j} : j \in a .. b} |-> Root(n, k)]

compute_w_coefficients_seq(n, a, b) ==
  Joined({compute_w_coefficients(n, s[1], s[2] - 1) : s \in Pieces(a, b + 1, LeafSize + 1)})

SmallestOddFactor(n) ==
  Min({r \in 3 .. n : n % r = 0 /\ r % 2 = 1})

factor(n) ==
  CASE n < 2 -> 1
    [] n \in {64, 128, 256, 1024, 2048, 4096} -> 8
    [] OTHER ->
         LET powers == {r \in {32, 16, 8, 4, 2} : n % r = 0} IN
         IF powers # {} THEN Max(powers) ELSE SmallestOddFactor(n)

factor_128(n) ==
  LET powers == {r \in {32, 16, 8, 4, 2} : n % r = 0} IN
  CASE n < 2 -> 1
    [] n >= 2 /\ powers # {} -> Max(powers)
    [] OTHER -> n

-----------------------------------------------------------------------------
(* Splitting an array into r arrays, which stand one after the other: the  *)
(* j-th has the elements whose index is j modulo r.                        *)

unshuffle(x, a, b, r, m) ==
  [p \in UNION {{i + j * m : j \in 0 .. r - 1} : i \in a .. b - 1} |->
     x[(p % m) * r + p \div m]]

unshuffle_seq(x, a, b, r, m) == InPieces(a, b, LAMBDA s, t : unshuffle(x, s, t, r, m))

fft_unshuffle_2(x, a, b, m) == unshuffle(x, a, b, 2, m)
fft_unshuffle_4(x, a, b, m) == unshuffle(x, a, b, 4, m)
fft_unshuffle_8(x, a, b, m) == unshuffle(x, a, b, 8, m)
fft_unshuffle_16(x, a, b, m) == unshuffle(x, a, b, 16, m)
fft_unshuffle_32(x, a, b, m) == unshuffle(x, a, b, 32, m)

fft_unshuffle_2_seq(x, a, b, m) == InPieces(a, b, LAMBDA s, t : fft_unshuffle_2(x, s, t, m))
fft_unshuffle_4_seq(x, a, b, m) == InPieces(a, b, LAMBDA s, t : fft_unshuffle_4(x, s, t, m))
fft_unshuffle_8_seq(x, a, b, m) == InPieces(a, b, LAMBDA s, t : fft_unshuffle_8(x, s, t, m))
fft_unshuffle_16_seq(x, a, b, m) == InPieces(a, b, LAMBDA s, t : fft_unshuffle_16(x, s, t, m))
fft_unshuffle_32_seq(x, a, b, m) == InPieces(a, b, LAMBDA s, t : fft_unshuffle_32(x, s, t, m))

-----------------------------------------------------------------------------
(* The transforms of 2, 4, .. 32 numbers, written out: butterflies of the  *)
(* transform of the even and that of the odd ones.                         *)

Butterflies(e, o, n) ==
  [k \in 0 .. n - 1 |->
     (e[k % (n \div 2)] + Root(n, k) * o[k % (n \div 2)]) % Modulus]

(* That of v[start], v[start + step], ..: n of them.                       *)
RECURSIVE Block(_, _, _, _)
Block(v, start, step, n) ==
  IF n = 1 THEN [k \in {0} |-> v[start]]
  ELSE Butterflies(Block(v, start, 2 * step, n \div 2),
                   Block(v, start + step, 2 * step, n \div 2), n)

fft_base_2(v) == Block(v, 0, 1, 2)
fft_base_4(v) == Block(v, 0, 1, 4)
fft_base_8(v) == Block(v, 0, 1, 8)

(* The two halves of the longer ones.                                      *)
fft_base_16_evens(v) == Block(v, 0, 2, 8)
fft_base_16_odds(v) == Block(v, 1, 2, 8)
fft_base_16(v) == Butterflies(fft_base_16_evens(v), fft_base_16_odds(v), 16)

fft_base_32_evens(v) == Block(v, 0, 2, 16)
fft_base_32_odds(v) == Block(v, 1, 2, 16)
fft_base_32(v) == Butterflies(fft_base_32_evens(v), fft_base_32_odds(v), 32)

-----------------------------------------------------------------------------
(* The twiddle kernels: r numbers m apart, each times its power of W, are  *)
(* transformed; a .. b - 1 are the indices of the first of them.           *)

Rotated(x, i, W, nWdn, r, m) ==
  [j \in 0 .. r - 1 |-> (x[i + j * m] * W[j * nWdn * i]) % Modulus]

Twiddled(x, a, b, W, nWdn, r, m, Kernel(_)) ==
  LET y == [i \in a .. b - 1 |-> Kernel(Rotated(x, i, W, nWdn, r, m))] IN
  [p \in UNION {{i + k * m : k \in 0 .. r - 1} : i \in a .. b - 1} |-> y[p % m][p \div m]]

(* Any r, by the definition of the transform.                              *)
fft_twiddle_gen1(x, i, W, nW, nWdn, r, m) ==
  [p \in {i + k * m : k \in 0 .. r - 1} |->
     LET l1 == nWdn * p IN
     Sum([j \in 0 .. r - 1 |-> x[i + j * m] * W[(j * l1) % nW]], 0, r)]

fft_twiddle_gen(x, a, b, W, nW, nWdn, r, m) ==
  Joined({fft_twiddle_gen1(x, i, W, nW, nWdn, r, m) : i \in a .. b - 1})

fft_twiddle_gen_seq(x, a, b, W, nW, nWdn, r, m) ==
  Joined({fft_twiddle_gen1(x, s[1], W, nW, nWdn, r, m) : s \in Pieces(a, b, 2)})

fft_twiddle_2(x, a, b, W, nWdn, m) ==
  Twiddled(x, a, b, W, nWdn, 2, m, LAMBDA v : Block(v, 0, 1, 2))

fft_twiddle_4(x, a, b, W, nWdn, m) ==
  Twiddled(x, a, b, W, nWdn, 4, m, LAMBDA v : Block(v, 0, 1, 4))

fft_twiddle_8(x, a, b, W, nWdn, m) ==
  Twiddled(x, a, b, W, nWdn, 8, m, LAMBDA v : Block(v, 0, 1, 8))

fft_twiddle_16_evens(v) == Block(v, 0, 2, 8)
fft_twiddle_16_odds(v) == Block(v, 1, 2, 8)
fft_twiddle_16(x, a, b, W, nWdn, m) ==
  Twiddled(x, a, b, W, nWdn, 16, m,
    LAMBDA v : Butterflies(fft_twiddle_16_evens(v), fft_twiddle_16_odds(v), 16))

fft_twiddle_32_evens(v) == Block(v, 0, 2, 16)
fft_twiddle_32_odds(v) == Block(v, 1, 2, 16)
fft_twiddle_32(x, a, b, W, nWdn, m) ==
  Twiddled(x, a, b, W, nWdn, 32, m,
    LAMBDA v : Butterflies(fft_twiddle_32_evens(v), fft_twiddle_32_odds(v), 32))

fft_twiddle_2_seq(x, a, b, W, nWdn, m) ==
  InPieces(a, b, LAMBDA s, t :
    Twiddled(x, s, t, W, nWdn, 2, m, LAMBDA v : Block(v, 0, 1, 2)))

fft_twiddle_4_seq(x, a, b, W, nWdn, m) ==
  InPieces(a, b, LAMBDA s, t :
    Twiddled(x, s, t, W, nWdn, 4, m, LAMBDA v : Block(v, 0, 1, 4)))

fft_twiddle_8_seq(x, a, b, W, nWdn, m) ==
  InPieces(a, b, LAMBDA s, t :
    Twiddled(x, s, t, W, nWdn, 8, m, LAMBDA v : Block(v, 0, 1, 8)))

fft_twiddle_16_seq_evens(v) == Block(v, 0, 2, 8)
fft_twiddle_16_seq_odds(v) == Block(v, 1, 2, 8)
fft_twiddle_16_seq(x, a, b, W, nWdn, m) ==
  InPieces(a, b, LAMBDA s, t : Twiddled(x, s, t, W, nWdn, 16, m,
    LAMBDA v : Butterflies(fft_twiddle_16_seq_evens(v), fft_twiddle_16_seq_odds(v), 16)))

fft_twiddle_32_seq_evens(v) == Block(v, 0, 2, 16)
fft_twiddle_32_seq_odds(v) == Block(v, 1, 2, 16)
fft_twiddle_32_seq(x, a, b, W, nWdn, m) ==
  InPieces(a, b, LAMBDA s, t : Twiddled(x, s, t, W, nWdn, 32, m,
    LAMBDA v : Butterflies(fft_twiddle_32_seq_evens(v), fft_twiddle_32_seq_odds(v), 32)))

-----------------------------------------------------------------------------
(* fft_aux and fft_aux_seq: what they leave in out; in is overwritten.     *)

BaseSizes == {2, 4, 8, 16, 32}

fft_base(x, n) ==
  CASE n = 2 -> fft_base_2(x)
    [] n = 4 -> fft_base_4(x)
    [] n = 8 -> fft_base_8(x)
    [] n = 16 -> fft_base_16(x)
    [] n = 32 -> fft_base_32(x)

UnshuffledBy(x, a, b, r, m) ==
  CASE r = 32 -> fft_unshuffle_32(x, a, b, m)
    [] r = 16 -> fft_unshuffle_16(x, a, b, m)
    [] r = 8 -> fft_unshuffle_8(x, a, b, m)
    [] r = 4 -> fft_unshuffle_4(x, a, b, m)
    [] r = 2 -> fft_unshuffle_2(x, a, b, m)
    [] OTHER -> unshuffle(x, a, b, r, m)

TwiddledBy(x, a, b, W, nW, nWdn, r, m) ==
  CASE r = 32 -> fft_twiddle_32(x, a, b, W, nWdn, m)
    [] r = 16 -> fft_twiddle_16(x, a, b, W, nWdn, m)
    [] r = 8 -> fft_twiddle_8(x, a, b, W, nWdn, m)
    [] r = 4 -> fft_twiddle_4(x, a, b, W, nWdn, m)
    [] r = 2 -> fft_twiddle_2(x, a, b, W, nWdn, m)
    [] OTHER -> fft_twiddle_gen(x, a, b, W, nW, nWdn, r, m)

UnshuffledSeq(x, r, m) ==
  CASE r = 32 -> fft_unshuffle_32_seq(x, 0, m, m)
    [] r = 16 -> fft_unshuffle_16_seq(x, 0, m, m)
    [] r = 8 -> fft_unshuffle_8_seq(x, 0, m, m)
    [] r = 4 -> fft_unshuffle_4_seq(x, 0, m, m)
    [] r = 2 -> fft_unshuffle_2_seq(x, 0, m, m)
    [] OTHER -> unshuffle_seq(x, 0, m, r, m)

TwiddledSeq(x, W, nW, nWdn, r, m) ==
  CASE r = 32 -> fft_twiddle_32_seq(x, 0, m, W, nWdn, m)
    [] r = 16 -> fft_twiddle_16_seq(x, 0, m, W, nWdn, m)
    [] r = 8 -> fft_twiddle_8_seq(x, 0, m, W, nWdn, m)
    [] r = 4 -> fft_twiddle_4_seq(x, 0, m, W, nWdn, m)
    [] r = 2 -> fft_twiddle_2_seq(x, 0, m, W, nWdn, m)
    [] OTHER -> fft_twiddle_gen_seq(x, 0, m, W, nW, nWdn, r, m)

RECURSIVE fft_aux(_, _, _, _, _)
fft_aux(n, x, factors, W, nW) ==
  LET r == Head(factors)
      m == n \div r
      y == UnshuffledBy(x, 0, m, r, m)
      Part(q) == fft_aux(m, [k \in 0 .. m - 1 |-> y[q * m + k]], Tail(factors), W, nW)
      z == IF r < n THEN [p \in 0 .. n - 1 |-> Part(p \div m)[p % m]] ELSE x
  IN  IF n \in BaseSizes THEN fft_base(x, n)
      ELSE TwiddledBy(z, 0, m, W, nW, nW \div n, r, m)

RECURSIVE fft_aux_seq(_, _, _, _, _)
fft_aux_seq(n, x, factors, W, nW) ==
  LET r == Head(factors)
      m == n \div r
      y == UnshuffledSeq(x, r, m)
      Part(q) == fft_aux_seq(m, [k \in 0 .. m - 1 |-> y[q * m + k]], Tail(factors), W, nW)
      z == IF r < n THEN [p \in 0 .. n - 1 |-> Part(p \div m)[p % m]] ELSE x
  IN  IF n \in BaseSizes THEN fft_base(x, n)
      ELSE TwiddledSeq(z, W, nW, nW \div n, r, m)

RECURSIVE Factors(_)
Factors(l) ==
  LET r == factor(l) IN
  <<r>> \o (IF l \div r > 1 THEN Factors(l \div r) ELSE <<>>)

fft(n, x) == fft_aux(n, x, Factors(n), compute_w_coefficients(n, 0, n \div 2), n)

fft_seq(n, x) ==
  fft_aux_seq(n, x, Factors(n), compute_w_coefficients_seq(n, 0, n \div 2), n)

(* No element differs by much, here at all.                                *)
test_correctness(n, out1, out2) == \A i \in 0 .. n - 1 : out1[i] = out2[i]
=============================================================================
