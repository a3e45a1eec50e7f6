---------------------------- MODULE BoundedFifo ----------------------------
(***************************************************************************)
(* What a worker's queue promises: a FIFO of at most Capacity elements     *)
(* that says "full" and "empty" only when it is.  An operation takes       *)
(* effect in one step and its caller learns the outcome.                   *)
(***************************************************************************)
EXTENDS Naturals, Sequences

CONSTANTS Values, Capacity, None

VARIABLES
  queue,   \* the elements, oldest first
  refused, \* the last push found the queue full
  taken    \* what the last pull returned, None when the queue was empty

vars == <<queue, refused, taken>>

Init == queue = <<>> /\ refused = FALSE /\ taken = None

Push(v) ==
  /\ Len(queue) < Capacity
  /\ queue' = Append(queue, v)
  /\ refused' = FALSE
  /\ UNCHANGED taken

Refuse == Len(queue) = Capacity /\ refused' = TRUE /\ UNCHANGED <<queue, taken>>

Pull ==
  /\ queue # <<>>
  /\ taken' = Head(queue)
  /\ queue' = Tail(queue)
  /\ UNCHANGED refused

Miss == queue = <<>> /\ taken' = None /\ UNCHANGED <<queue, refused>>

Next == (\E v \in Values : Push(v)) \/ Refuse \/ Pull \/ Miss

Spec == Init /\ [][Next]_vars
=============================================================================
