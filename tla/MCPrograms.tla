----------------------------- MODULE MCPrograms -----------------------------
(* The programs on small inputs, in up to three degrees of parallelism.    *)
EXTENDS CodeletMachine, Programs

FibOf(n) == [app |-> "fib", n |-> n]
Benchmark(name, depth, fanout) ==
  [app |-> "benchmark", name |-> name, depth |-> depth, fanout |-> fanout]
SortOf(values, base, rand) ==
  [app |-> "mergesort", values |-> values, base |-> base, rand |-> rand]
FastSortOf(shuffled) == [app |-> "fastMergesort", shuffled |-> shuffled]
MultiplyOf(size, iCut, jCut, build) ==
  [app |-> "matrixMultiply", size |-> size, iCut |-> iCut, jCut |-> jCut, build |-> build,
   A |-> [i \in 1 .. size * size |-> i], B |-> [i \in 1 .. size * size |-> i * i]]
CannonOf(S) == [app |-> "cannon", S |-> S]
FftOf(x, conf) == [app |-> "fft", x |-> x, conf |-> conf]
SerialFftOf(x) == [app |-> "fftSerial", x |-> x]

(* Numbers in no order, some of them alike.                                *)
Mixed(n) == [i \in 1 .. n |-> (i * i * 7 + 3 * i) % 11]
Conf(clusters, workers, little, much, leaf) ==
  [clusters |-> clusters, workers |-> workers, little |-> little, much |-> much, leaf |-> leaf]

AllOnes(n) == [i \in 1 .. n |-> 1]
Squares(n) == [i \in 1 .. n |-> i * i]

(* All interleavings of these.                                             *)
FreePrograms ==
  {FibOf(n) : n \in {1, 3}} \cup
  {Benchmark("strict", 1, 2), Benchmark("nonStrict", 0, 2), Benchmark("cdChain", 3, 0),
   Benchmark("tpChain", 3, 0), Benchmark("cdFanout", 0, 3), Benchmark("tpFanout", 0, 3),
   Benchmark("cdFanoutLoop", 0, 3), Benchmark("tpFanoutLoop", 0, 3), Benchmark("cd", 0, 0),
   Benchmark("cd1", 0, 0), Benchmark("tp", 0, 0)} \cup
  {SortOf(<<2, 1>>, 2, 1), SortOf(<<3, 1, 2>>, 2, 0)} \cup
  {FastSortOf(<<2, 1>>), FastSortOf(Mixed(4))}

(* Any order of firing of these.                                           *)
FiringPrograms ==
  {FibOf(4), CannonOf(2), Benchmark("strict", 2, 2)} \cup
  {FastSortOf(Mixed(n)) : n \in {7, 8}} \cup
  {MultiplyOf(3, 2, 2, build) : build \in {"mkl", "acml"}} \cup
  {FftOf(AllOnes(8), Conf(2, 2, 1, 2, 2))}

(* One order of these.                                                     *)
SerialPrograms ==
  {FibOf(6), CannonOf(3)} \cup
  {SortOf(Mixed(n), 1, 1) : n \in {4, 16, 18}} \cup
  {FastSortOf(Mixed(n)) : n \in {12, 20}} \cup
  {MultiplyOf(5, 2, 3, "mkl"), MultiplyOf(4, 1, 4, "acml")} \cup
  {FftOf(AllOnes(16), Conf(2, 3, 2, 5, 2)), FftOf(AllOnes(16), Conf(1, 5, 2, 20, 2)),
   FftOf(AllOnes(32), Conf(1, 1, 40, 40, 2))} \cup
  {FftOf(Squares(n), Conf(2, 2, 1, 2, 32)) : n \in {2, 4, 8, 16, 32}} \cup
  {SerialFftOf([i \in 1 .. n |-> (i * i) % 7]) : n \in {2, 3, 6, 12, 16, 24, 48, 64, 96}}

MCPrograms == FreePrograms \cup FiringPrograms \cup SerialPrograms

(* A part whose length is eight and two.                                   *)
RemainderPrograms == {SortOf(Mixed(20), 2, 1)}

(* Calls before constructors before firing; the next one is fixed, of the  *)
(* codelets only of the last programs.                                     *)
Scheduled ==
  \/ program \in FreePrograms
  \/ LET pending == {c \in DOMAIN calls : calls[c] # <<>>} IN
     CASE pending # {} -> LET c == CHOOSE c \in pending : TRUE IN calls'[c] # calls[c]
       [] pending = {} /\ closures # {} -> (CHOOSE k \in closures : TRUE) \notin closures'
       [] pending = {} /\ closures = {} /\ ready # {} ->
            program \in FiringPrograms \/ (CHOOSE c \in ready : TRUE) \notin ready'
       [] OTHER -> TRUE
=============================================================================
