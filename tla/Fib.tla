-------------------------------- MODULE Fib --------------------------------
(* fib: a TP per number, whose parts write their results into its frame.   *)
EXTENDS CodeletTerms

FibFrame(n, result, toSignal) ==
  [tp |-> "fib", num |-> n, result |-> result, toSignal |-> toSignal]

FibX(path) == Loc(path, "x", 0)
FibY(path) == Loc(path, "y", 0)
FibAdderCodelet(path) == <<path, <<"adder", 0>>>>

FibConstructor(path) ==
  Frame(One("check", 0) @@ One("adder", 2),
        Does({}, FibX(path) :> 0 @@ FibY(path) :> 0, <<Add(<<path, <<"check", 0>>>>)>>))

(* cd1::fire.                                                              *)
FibCheck(path, f) ==
  IF f.num < 2
  THEN Does({}, f.result :> f.num, <<Dec(f.toSignal)>>)
  ELSE Calls(<<Invoke(<<"fib", 1>>, FibFrame(f.num - 1, FibX(path), FibAdderCodelet(path))),
               Invoke(<<"fib", 2>>, FibFrame(f.num - 2, FibY(path), FibAdderCodelet(path)))>>)

(* cd2::fire.                                                              *)
FibAdder(path, f, mem) ==
  Does({FibX(path), FibY(path)},
       f.result :> mem[FibX(path)] + mem[FibY(path)],
       <<Dec(f.toSignal)>>)

FibFire(path, f, name, mem) ==
  CASE name[1] = "check" -> FibCheck(path, f)
    [] name[1] = "adder" -> FibAdder(path, f, mem)

(* main: the number that the user gave.                                    *)
FibResult == Loc(Main, "result", 0)
FibLaunched(n) == FibFrame(n, FibResult, FinalSignal)
FibMemory == FibResult :> 0

(* The numbers of Fibonacci.                                               *)
Fibonacci[n \in Nat] == IF n < 2 THEN n ELSE Fibonacci[n - 1] + Fibonacci[n - 2]
=============================================================================
