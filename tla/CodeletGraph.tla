---------------------------- MODULE CodeletGraph ----------------------------
(***************************************************************************)
(* What the schedulers promise to a program, whatever their policies: each *)
(* closure that was invoked is run once and each codelet that received its *)
(* signals is fired once, not before, and both eventually.  The activities *)
(* of a program are its closures (what their TP's constructor does) and    *)
(* its codelets (what fire does); the body of an activity is the sequence  *)
(* of the closures it invokes and the codelets it signals.                 *)
(***************************************************************************)
EXTENDS Naturals, Sequences, FiniteSets

CONSTANTS
  Codelets, Procs,
  Root,  \* the closure that run pushes
  Deps,  \* dependences of a codelet; one with none is added by a constructor
  Body   \* of each activity

Activities == Codelets \cup Procs

VARIABLES
  started, \* activities
  done     \* how many elements of its body each has executed

vars == <<started, done>>

(* The places in the executed parts of the bodies where y was invoked,     *)
(* signalled or added.                                                     *)
Calls(y) ==
  UNION {{<<x, i>> : i \in {j \in 1 .. done[x] : Body[x][j] = y}} : x \in started}

Needed(y) == IF y \in Codelets /\ Deps[y] > 0 THEN Deps[y] ELSE 1

Available(y) == y = Root \/ Cardinality(Calls(y)) >= Needed(y)

Init == started = {} /\ done = [x \in Activities |-> 0]

Start(x) ==
  /\ x \notin started /\ Available(x)
  /\ started' = started \cup {x}
  /\ UNCHANGED done

Step(x) ==
  /\ x \in started /\ done[x] < Len(Body[x])
  /\ done' = [done EXCEPT ![x] = @ + 1]
  /\ UNCHANGED started

Next == \E x \in Activities : Start(x) \/ Step(x)

Safety == Init /\ [][Next]_vars

GetsStarted(x) == WF_vars(Start(x))
GoesOn(x) == WF_vars(Step(x))

Spec == Safety /\ \A x \in Activities : GetsStarted(x) /\ GoesOn(x)
=============================================================================
