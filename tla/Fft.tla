-------------------------------- MODULE Fft --------------------------------
(***************************************************************************)
(* FFT: fftTP computes the roots of unity and the factors of n, fftauxTP   *)
(* splits an array by a factor, transforms its parts and twiddles them     *)
(* together, and fftBase128 transforms a part of the last factor's length  *)
(* with eleven codelets.  Work on an array is shared out by a NestedLoop:  *)
(* one codelet for little, a loop over the workers for more, a loop over   *)
(* clusters and in each of them one over its workers for much.             *)
(*                                                                         *)
(* What main and the compiler fix is in conf: clusters and workers;        *)
(* little and much, THREASHOLD1 and THREASHOLD2; leaf, the 32 whose        *)
(* quadruple is the length of fftBase128.                                  *)
(***************************************************************************)
EXTENDS FftSerial, CodeletTerms

fftTPFrame(n, in, out, conf, toSignal) ==
  [tp |-> "fftTP", n |-> n, in |-> in, out |-> out, conf |-> conf, toSignal |-> toSignal]

fftauxFrame(n, in, out, factors, W, nW, conf, toSignal) ==
  [tp |-> "fftauxTP", n |-> n, in |-> in, out |-> out, factors |-> factors, W |-> W,
   nW |-> nW, conf |-> conf, toSignal |-> toSignal]

fftBase128Frame(n, in, out, W, nW, toSignal) ==
  [tp |-> "fftBase128", n |-> n, in |-> in, out |-> out, W |-> W, nW |-> nW,
   toSignal |-> toSignal]

(* core is the codelet of the loop, of the frame parent at the path of.    *)
NestedFrame(core, n, of, parent, toSignal) ==
  [tp |-> "NestedLoop", core |-> core, n |-> n, of |-> of, parent |-> parent,
   toSignal |-> toSignal]

Base128(conf) == 4 * conf.leaf

FftW(path) == Loc(path, "W", 0)
FftFactors(path) == Loc(path, "factors", 0)
AuxR(path) == Loc(path, "r", 0)
AuxM(path) == Loc(path, "m", 0)
FftCodelet(path, kind) == <<path, <<kind, 0>>>>

(* The elements of an array, and an array as locations.                    *)
Values(p, indices, mem) == [i \in indices |-> mem[At(p, i)]]
Stored(p, x) == [l \in {At(p, i) : i \in DOMAIN x} |-> x[l[3] - p[3]]]

-----------------------------------------------------------------------------
(* NestedLoop.                                                             *)

GETREPS(items, div) ==
  IF items > div THEN (IF items % div # 0 THEN div + 1 ELSE div) ELSE 1

GETEND(items, div, iter) ==
  (items \div div) * iter +
  (IF iter = div \/ items < div THEN items % div ELSE items \div div)

NestedConstructor(path, f) ==
  LET conf == f.parent.conf IN
  Frame(One("core", 0) @@ LoopDeps("single", GETREPS(f.n, conf.workers)) @@
        LoopDeps("double", GETREPS(f.n, conf.clusters)),
        Calls(<<Add(FftCodelet(path, CASE f.n < conf.little -> "core"
                                       [] f.n >= conf.little /\ f.n < conf.much -> "single"
                                       [] OTHER -> "double"))>>))

(* Iteration it of start .. end: the work of its codelet or inner loop, of *)
(* which it hides the bounds of the outer one.                             *)
LoopFrame(kind, f, it, start, end, div, toSignal) ==
  [it |-> it,
   start |-> start + ((end - start) \div div) * it,
   end |-> start + GETEND(end - start, div, it)] @@
  [f EXCEPT !.tp = kind, !.toSignal = toSignal]

SingleLoops(path, f, start, end) ==
  LET workers == f.parent.conf.workers IN
  LoopStart("single", GETREPS(end - start, workers),
    LAMBDA it : LoopFrame("SingleLoop", f, it, start, end, workers, LoopEnd(path, "single")))

DoubleLoops(path, f) ==
  LET clusters == f.parent.conf.clusters IN
  LoopStart("double", GETREPS(f.n, clusters),
    LAMBDA it : LoopFrame("DoubleLoop", f, it, 0, f.n, clusters, LoopEnd(path, "double")))

SingleLoopConstructor(path, f) ==
  Placed(Frame(One("core", 0), Calls(<<Add(FftCodelet(path, "core"))>>)), One("core", f.it))

DoubleLoopConstructor(path, f) ==
  Frame(LoopDeps("single", GETREPS(f.end - f.start, f.parent.conf.workers)),
        Calls(<<Add(FftCodelet(path, "single"))>>))

-----------------------------------------------------------------------------
(* What the codelet of a loop does with start .. end.                      *)

(* The indices of r numbers m apart, for each i in start .. end - 1.       *)
Strided(start, end, r, m) == {i + j * m : i \in start .. end - 1, j \in 0 .. r - 1}

(* computeWCoefficients::fire, whose end is inclusive.                     *)
computeWCoefficients(f, start, end) ==
  Does({}, Stored(FftW(f.of), compute_w_coefficients(f.parent.n, start, end)),
       <<Dec(f.toSignal)>>)

(* Unshuffle::fire.                                                        *)
Unshuffle(f, start, end, mem) ==
  LET r == mem[AuxR(f.of)]
      m == mem[AuxM(f.of)]
      read == start * r .. end * r - 1
  IN  Does({AuxR(f.of), AuxM(f.of)} \cup {At(f.parent.in, i) : i \in read},
           Stored(f.parent.out, UnshuffledBy(Values(f.parent.in, read, mem), start, end, r, m)),
           <<Dec(f.toSignal)>>)

(* fft_twiddle_r on memory: what it reads of in and W, and writes.         *)
TwiddleDoes(in, out, W, nW, nWdn, start, end, r, m, mem) ==
  LET read == Strided(start, end, r, m)
      powers == IF r \in BaseSizes THEN {j * nWdn * i : j \in 0 .. r - 1, i \in start .. end - 1}
                ELSE {(j * nWdn * p) % nW : j \in 0 .. r - 1, p \in read}
  IN  [reads |-> {At(in, i) : i \in read} \cup {At(W, k) : k \in powers},
       writes |-> Stored(out, TwiddledBy(Values(in, read, mem), start, end,
                                         Values(W, powers, mem), nW, nWdn, r, m))]

(* Twiddle::fire.                                                          *)
Twiddle(f, start, end, mem) ==
  LET r == mem[AuxR(f.of)]
      m == mem[AuxM(f.of)]
      p == f.parent
      t == TwiddleDoes(p.in, p.out, p.W, p.nW, p.nW \div p.n, start, end, r, m, mem)
  IN  Does({AuxR(f.of), AuxM(f.of)} \cup t.reads, t.writes, <<Dec(f.toSignal)>>)

Core(f, start, end, mem) ==
  CASE f.core = "computeW" -> computeWCoefficients(f, start, end)
    [] f.core = "unshuffle" -> Unshuffle(f, start, end, mem)
    [] f.core = "twiddle" -> Twiddle(f, start, end, mem)

NestedFire(path, f, name, mem) ==
  CASE name = <<"core", 0>> -> Core(f, 0, f.n, mem)
    [] name = <<"single", 0>> -> SingleLoops(path, f, 0, f.n)
    [] name = <<"double", 0>> -> DoubleLoops(path, f)
    [] OTHER -> Calls(<<Dec(f.toSignal)>>)

LoopFire(path, f, name, mem) ==
  CASE name = <<"core", 0>> -> Core(f, f.start, f.end, mem)
    [] name = <<"single", 0>> -> SingleLoops(path, f, f.start, f.end)
    [] OTHER -> Calls(<<Dec(f.toSignal)>>)

-----------------------------------------------------------------------------
(* fftTP.                                                                  *)

fftTPConstructor(path) ==
  Frame(One("startCD", 0) @@ One("endCD", 1), Calls(<<Add(FftCodelet(path, "startCD"))>>))

FftStart(path, f) ==
  Calls(<<Invoke(<<"computeW", 0>>,
            NestedFrame("computeW", f.n \div 2, path, f, FftCodelet(path, "endCD")))>>)

RECURSIVE Factors128(_)
Factors128(l) ==
  IF l <= 1 THEN <<>> ELSE <<factor_128(l)>> \o Factors128(l \div factor_128(l))

(* fftTP::End::fire.                                                       *)
FftEnd(path, f) ==
  LET base == Base128(f.conf)
      factors == Append(Factors128(f.n \div base), base)
  IN  Does({}, [l \in Span(FftFactors(path), 0, Len(factors)) |-> factors[l[3] + 1]],
           <<Invoke(<<"aux", 0>>,
               IF f.n = base
               THEN fftBase128Frame(f.n, f.in, f.out, FftW(path), f.n, f.toSignal)
               ELSE fftauxFrame(f.n, f.in, f.out, FftFactors(path), FftW(path), f.n, f.conf,
                                f.toSignal))>>)

-----------------------------------------------------------------------------
(* fftauxTP: the twiddle codelet waits for as many parts as the factor.    *)

fftauxConstructor(path, f, mem) ==
  Frame(One("checkCD", 0) @@ One("auxCD", 1) @@ One("twiddleCD", mem[f.factors]),
        Does({f.factors}, AuxR(path) :> 0 @@ AuxM(path) :> 0,
             <<Add(FftCodelet(path, "checkCD"))>>))

(* fftauxTP::baseCheck::fire.                                              *)
BaseCheck(path, f, mem) ==
  LET r == mem[f.factors]
      m == f.n \div r
  IN  IF f.n \in BaseSizes /\ f.n <= f.conf.leaf
      THEN Does(Span(f.in, 0, f.n),
                Stored(f.out, fft_base(Values(f.in, 0 .. f.n - 1, mem), f.n)),
                <<Dec(f.toSignal)>>)
      ELSE Does({f.factors}, AuxR(path) :> r @@ AuxM(path) :> m,
                IF r < f.n
                THEN <<Invoke(<<"unshuffle", 0>>,
                         NestedFrame("unshuffle", m, path, f, FftCodelet(path, "auxCD")))>>
                ELSE <<Dec(FftCodelet(path, "twiddleCD"))>>)

(* fftauxTP::launchAux::fire: the parts change places with their input.    *)
LaunchAux(path, f, mem) ==
  LET m == mem[AuxM(path)]
      Part(k) == IF m = Base128(f.conf)
                 THEN fftBase128Frame(m, At(f.out, k), At(f.in, k), f.W, f.nW,
                                      FftCodelet(path, "twiddleCD"))
                 ELSE fftauxFrame(m, At(f.out, k), At(f.in, k), At(f.factors, 1), f.W, f.nW,
                                  f.conf, FftCodelet(path, "twiddleCD"))
  IN  Does({AuxM(path)}, <<>>,
           [q \in 1 .. (f.n + m - 1) \div m |-> Invoke(<<"aux", q>>, Part((q - 1) * m))])

(* fftauxTP::launchTwiddle::fire.                                          *)
LaunchTwiddle(path, f, mem) ==
  Does({AuxM(path)}, <<>>,
       <<Invoke(<<"twiddle", 0>>,
           NestedFrame("twiddle", mem[AuxM(path)], path, f, f.toSignal))>>)

-----------------------------------------------------------------------------
(* fftBase128: halves and quarters of the even and odd elements.  The      *)
(* temporary space is three times as long as the array.                    *)

Temp(path, i) == Loc(path, "tempSpace", i)

BaseCodelets == {"ul128", "ur128", "ll64", "lr64", "rl64", "rr64", "tl64", "tr64", "t128"}

fftBase128Constructor(path) ==
  Placed(Frame([c \in BaseCodelets \X {0} |->
                  CASE c[1] \in {"ul128", "ur128"} -> 0
                    [] c[1] \in {"ll64", "lr64", "rl64", "rr64"} -> 1
                    [] OTHER -> 2],
               Calls(<<Add(FftCodelet(path, "ul128")), Add(FftCodelet(path, "ur128"))>>)),
         [c \in {"ur128", "rl64", "tr64", "t128"} \X {0} |-> 1] @@
         One("lr64", 2) @@ One("rr64", 3))

(* Every second element of in from inStart on.                             *)
Seconds(in, inStart, n) == [i \in 0 .. n - 1 |-> At(in, inStart + 2 * i)]

(* unshuffle2::fire.                                                       *)
unshuffle2(path, f, start, inStart, toSig1, toSig2, mem) ==
  LET from == Seconds(f.in, inStart, f.n \div 2) IN
  Does({from[i] : i \in DOMAIN from},
       Stored(Temp(path, start), [i \in DOMAIN from |-> mem[from[i]]]),
       <<Dec(FftCodelet(path, toSig1)), Dec(FftCodelet(path, toSig2))>>)

(* fftBase32::fire.                                                        *)
fftBase32(path, f, start, inStart, toSig, mem) ==
  LET leaf == f.n \div 4
      from == Seconds(Temp(path, 0), inStart, leaf)
      x == [i \in DOMAIN from |-> mem[from[i]]]
  IN  Does({from[i] : i \in DOMAIN from},
           Stored(Temp(path, start), x) @@ Stored(Temp(path, start + f.n), fft_base(x, leaf)),
           <<Dec(FftCodelet(path, toSig))>>)

(* twiddle2::fire, whose stride is that of the whole array at both levels. *)
twiddle2(f, m, in, out, toSig, mem) ==
  LET t == TwiddleDoes(in, out, f.W, f.nW, f.nW \div f.n, 0, m, 2, m, mem) IN
  Does(t.reads, t.writes, <<Dec(toSig)>>)

Base128Fire(path, f, kind, mem) ==
  LET n == f.n
      q == n \div 4
      t128 == FftCodelet(path, "t128")
  IN  CASE kind = "ul128" -> unshuffle2(path, f, 0, 0, "ll64", "lr64", mem)
        [] kind = "ur128" -> unshuffle2(path, f, 2 * q, 1, "rl64", "rr64", mem)
        [] kind = "ll64" -> fftBase32(path, f, n, 0, "tl64", mem)
        [] kind = "lr64" -> fftBase32(path, f, n + q, 1, "tl64", mem)
        [] kind = "rl64" -> fftBase32(path, f, n + 2 * q, 2 * q, "tr64", mem)
        [] kind = "rr64" -> fftBase32(path, f, n + 3 * q, 2 * q + 1, "tr64", mem)
        [] kind = "tl64" -> twiddle2(f, q, Temp(path, 2 * n), Temp(path, n), t128, mem)
        [] kind = "tr64" ->
             twiddle2(f, q, Temp(path, 2 * n + 2 * q), Temp(path, n + 2 * q), t128, mem)
        [] kind = "t128" -> twiddle2(f, 2 * q, Temp(path, n), f.out, f.toSignal, mem)

-----------------------------------------------------------------------------
(* fftTime and fftPower.                                                   *)

FftIn == Loc(Main, "in", 0)
FftOut == Loc(Main, "out", 0)

(* initFFT.                                                                *)
Ones(n) == [i \in 0 .. n - 1 |-> 1]

FftLaunched(n, conf) == fftTPFrame(n, FftIn, FftOut, conf, FinalSignal)
FftMemory(x) == Stored(FftIn, x)
FftResult(n, x, mem) == \A k \in 0 .. n - 1 : mem[At(FftOut, k)] = Dft(x, n)[k]

FftTPs == {"fftTP", "fftauxTP", "fftBase128", "NestedLoop", "SingleLoop", "DoubleLoop"}

FftConstruct(path, f, mem) ==
  CASE f.tp = "fftTP" -> fftTPConstructor(path)
    [] f.tp = "fftauxTP" -> fftauxConstructor(path, f, mem)
    [] f.tp = "fftBase128" -> fftBase128Constructor(path)
    [] f.tp = "NestedLoop" -> NestedConstructor(path, f)
    [] f.tp = "SingleLoop" -> SingleLoopConstructor(path, f)
    [] f.tp = "DoubleLoop" -> DoubleLoopConstructor(path, f)

FftFire(path, f, name, mem) ==
  CASE name[1] = "startCD" -> FftStart(path, f)
    [] name[1] = "endCD" -> FftEnd(path, f)
    [] name[1] = "checkCD" -> BaseCheck(path, f, mem)
    [] name[1] = "auxCD" -> LaunchAux(path, f, mem)
    [] name[1] = "twiddleCD" -> LaunchTwiddle(path, f, mem)
    [] f.tp = "fftBase128" -> Base128Fire(path, f, name[1], mem)
    [] f.tp = "NestedLoop" -> NestedFire(path, f, name, mem)
    [] f.tp \in {"SingleLoop", "DoubleLoop"} -> LoopFire(path, f, name, mem)
=============================================================================
