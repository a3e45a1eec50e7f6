---------------------------- MODULE CodeletTerms ----------------------------
(***************************************************************************)
(* The words in which the applications are written down.  A frame is named *)
(* by the labels of the invocations that lead to it from the launched one; *)
(* a codelet is a name in a frame, a location is an element of a variable  *)
(* in a frame, and the main program's variables are those of frame Main.   *)
(***************************************************************************)
EXTENDS Naturals, Sequences, TLC

Main == <<>>
FinalSignal == <<Main, <<"finalSignal", 0>>>>

Loc(path, variable, i) == <<path, variable, i>>

(* Pointer arithmetic: &p[i].                                              *)
At(p, i) == <<p[1], p[2], p[3] + i>>

(* The calls of a constructor or of fire that the schedulers see.          *)
Add(c) == [op |-> "add", codelet |-> c]
Dec(c) == [op |-> "dec", codelet |-> c]
Reset(c, n) == [op |-> "reset", codelet |-> c, to |-> n]
Invoke(label, frame) == [op |-> "invoke", label |-> label, frame |-> frame]

(* What a codelet does when it fires: it reads and writes locations, and   *)
(* then makes its calls.                                                   *)
Does(reads, writes, calls) == [reads |-> reads, writes |-> writes, calls |-> calls]
Calls(calls) == Does({}, <<>>, calls)

(* What a constructor leaves: the counters of its codelets, the variables  *)
(* it initialises (and what it reads for that), the codelets it adds; and  *)
(* the statuses of those codelets that have one, TPStatic's place for them.*)
Frame(deps, work) == [deps |-> deps, work |-> work, status |-> <<>>]
Placed(frame, status) == [frame EXCEPT !.status = status]

(* The codelets of one kind, and all their counters.                       *)
Numbered(kind, indices, dep) == [c \in {kind} \X indices |-> dep]
One(kind, dep) == Numbered(kind, {0}, dep)

(* p[a .. b - 1].                                                          *)
Span(p, a, b) == {At(p, i) : i \in a .. b - 1}

(* F(v), with v bound to its value.                                        *)
With(v, F(_)) == CHOOSE r \in {F(x) : x \in {v}} : TRUE

(* A loop codelet of n iterations called name, its codelet 0, creates a    *)
(* frame for each of them, which signals its codelet 1 at the end.         *)
(* LoopRounds states this promise; Loops shows that paraFor and codeletFor *)
(* keep it.                                                                *)
LoopDeps(name, n) == <<name, 0>> :> 0 @@ <<name, 1>> :> n
LoopEnd(path, name) == <<path, <<name, 1>>>>
LoopStart(name, n, Iteration(_)) ==
  Calls([i \in 1 .. n |-> Invoke(<<name, i - 1>>, Iteration(i - 1))])
=============================================================================
