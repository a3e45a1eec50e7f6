----------------------------- MODULE LoopRounds -----------------------------
(* What a loop codelet promises to the codelet that it signals: in every   *)
(* round each iteration is executed once, a serial loop executes them one  *)
(* after the other, and only then the round ends.                          *)
EXTENDS Integers

VARIABLES
  serial, iterations, rounds, \* the loop, which does not change
  done,                       \* iterations executed in this round
  round                       \* rounds that have ended

program == <<serial, iterations, rounds>>
vars == <<program, done, round>>

Init ==
  /\ serial \in BOOLEAN /\ iterations \in Nat /\ rounds \in Nat
  /\ done = {} /\ round = 0

Execute(i) ==
  /\ round < rounds /\ i \notin done
  /\ serial => done = 0 .. i - 1
  /\ done' = done \cup {i}
  /\ UNCHANGED <<program, round>>

EndRound ==
  /\ round < rounds /\ done = 0 .. iterations - 1
  /\ done' = {} /\ round' = round + 1
  /\ UNCHANGED program

Next == (\E i \in 0 .. iterations - 1 : Execute(i)) \/ EndRound

Safety == Init /\ [][Next]_vars
Progress == WF_vars(Next)
Spec == Safety /\ Progress
=============================================================================
