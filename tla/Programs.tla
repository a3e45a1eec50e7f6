------------------------------ MODULE Programs ------------------------------
(***************************************************************************)
(* The applications together: what CodeletMachine is to run of each.  A    *)
(* program is a record of its application, app, and its input.             *)
(***************************************************************************)
EXTENDS Fib, Benchmarks, Mergesort, FastMergesort, MatrixMultiply, Cannon, Fft

(* An input as an array from 0.                                            *)
FromZero(s) == [i \in 0 .. Len(s) - 1 |-> s[i + 1]]

(* The two transforms of test_correctness, which no TP has a part in, with *)
(* the first and the second result.                                        *)
SerialFftResult(p, mem) ==
  LET n == Len(p.x)
      Out(name) == [i \in 0 .. n - 1 |-> mem[Loc(Main, name, i)]]
  IN  /\ test_correctness(n, Out("out1"), Out("out2"))
      /\ Out("out1") = Dft(FromZero(p.x), n)

SerialFftMemory(p) ==
  LET x == FromZero(p.x) IN
  Stored(Loc(Main, "out1", 0), fft(Len(p.x), x)) @@
  Stored(Loc(Main, "out2", 0), fft_seq(Len(p.x), x))

ProgramLaunched(p) ==
  CASE p.app = "fib" -> {FibLaunched(p.n)}
    [] p.app = "benchmark" -> {BenchmarkLaunched(p.name, p.depth, p.fanout)}
    [] p.app = "mergesort" -> {SortLaunched(p.values, p.base, p.rand)}
    [] p.app = "fastMergesort" -> {MonitorFrame(p.shuffled)}
    [] p.app = "matrixMultiply" -> {mmLaunched(p.size, p.iCut, p.jCut, p.build)}
    [] p.app = "cannon" -> {CannonFrame(p.S, FinalSignal)}
    [] p.app = "fft" -> {FftLaunched(Len(p.x), p.conf)}
    [] p.app = "fftSerial" -> {}

ProgramMemory(p) ==
  CASE p.app = "fib" -> FibMemory
    [] p.app \in {"benchmark", "fastMergesort"} -> <<>>
    [] p.app = "mergesort" -> SortMemory(p.values)
    [] p.app = "matrixMultiply" -> mmMemory(p.A, p.B, p.size)
    [] p.app = "cannon" -> CannonMemory(p.S)
    [] p.app = "fft" -> FftMemory(FromZero(p.x))
    [] p.app = "fftSerial" -> SerialFftMemory(p)

ProgramConstruct(path, f, mem) ==
  CASE f.tp = "fib" -> FibConstructor(path)
    [] f.tp \in BenchmarkTPs -> BenchmarkConstruct(path, f)
    [] f.tp \in MergesortTPs -> MergesortConstruct(path, f)
    [] f.tp \in FastMergesortTPs -> FastMergesortConstruct(path, f)
    [] f.tp \in MatrixMultiplyTPs -> MatrixMultiplyConstruct(path, f, mem)
    [] f.tp = "cannonTP" -> CannonConstructor(path, f)
    [] f.tp \in FftTPs -> FftConstruct(path, f, mem)

ProgramFire(path, f, name, mem) ==
  CASE f.tp = "fib" -> FibFire(path, f, name, mem)
    [] f.tp \in BenchmarkTPs -> BenchmarkFire(path, f, name)
    [] f.tp \in MergesortTPs -> MergesortFire(path, f, name, mem)
    [] f.tp \in FastMergesortTPs -> FastMergesortFire(path, f, name, mem)
    [] f.tp \in MatrixMultiplyTPs -> MatrixMultiplyFire(path, f, name, mem)
    [] f.tp = "cannonTP" -> CannonFire(path, f, name, mem)
    [] f.tp \in FftTPs -> FftFire(path, f, name, mem)

ProgramResult(p, mem) ==
  CASE p.app = "fib" -> mem[FibResult] = Fibonacci[p.n]
    [] p.app = "benchmark" -> p.name = "cd" => StartTime \in DOMAIN mem
    [] p.app = "mergesort" -> SortResult(p.values, mem)
    [] p.app = "fastMergesort" -> FastSortResult(p.shuffled, mem)
    [] p.app = "matrixMultiply" -> mmResult(p.size, p.build, mem)
    [] p.app = "cannon" -> CannonResult(p.S, mem)
    [] p.app = "fft" -> FftResult(Len(p.x), FromZero(p.x), mem)
    [] p.app = "fftSerial" -> SerialFftResult(p, mem)
=============================================================================
