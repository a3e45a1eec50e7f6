----------------------------- MODULE RingBuffer -----------------------------
(***************************************************************************)
(* ringBuffer<T, num>, the queue in front of a worker: a producer (the     *)
(* thread of the cluster's TP scheduler) and a consumer (the worker) share *)
(* an array and two counters and no lock.  One access to shared memory per *)
(* step.  The counters are unsigned ints: they wrap at Wrap, and push      *)
(* compares their difference modulo Wrap with num.                         *)
(***************************************************************************)
EXTENDS Integers, Sequences

CONSTANTS
  Values,  \* pointers that may be pushed, none of them 0
  None,    \* what pull returns when the buffer is empty: 0
  Num,     \* slots, a power of two (THRESHOLD is 4)
  Wrap     \* 2^32 in the code: UINT_MAX + 1

ASSUME SizeAssumption ==
  /\ Num \in Nat \ {0} /\ Wrap \in Nat \ {0}
  /\ Wrap % Num = 0 /\ Wrap > Num
  /\ None \notin Values

VARIABLES
  produceCount, consumeCount, buffer,
  ppc,     \* where push is: "check", "write" or "publish"
  item,    \* the argument of push
  refused, \* push returned false
  cpc,     \* where pull is: "check", "read" or "release"
  temp,    \* the local of pull
  taken    \* what pull returned

vars ==
  <<produceCount, consumeCount, buffer, ppc, item, refused, cpc, temp, taken>>

Slots == 0 .. Num - 1

TypeOK ==
  /\ produceCount \in 0 .. Wrap - 1
  /\ consumeCount \in 0 .. Wrap - 1
  /\ buffer \in [Slots -> Values \cup {None}]
  /\ ppc \in {"check", "write", "publish"}
  /\ item \in Values \cup {None}
  /\ refused \in BOOLEAN
  /\ cpc \in {"check", "read", "release"}
  /\ temp \in Values \cup {None}
  /\ taken \in Values \cup {None}

Init ==
  /\ produceCount = 0 /\ consumeCount = 0
  /\ buffer = [s \in Slots |-> None]
  /\ ppc = "check" /\ item = None /\ refused = FALSE
  /\ cpc = "check" /\ temp = None /\ taken = None

(* Mutant of Outstanding: the difference of the slots, not of the counts.  *)
SlotDifference == (produceCount - consumeCount) % Num

(* The unsigned difference of the counters.                                *)
Outstanding == (produceCount - consumeCount) % Wrap

(* The index of a counter in the array, & (num - 1).                       *)
Slot(count) == count % Num

(* push: the test for a full buffer.                                       *)
PushCheck(v) ==
  /\ ppc = "check"
  /\ item' = v
  /\ IF Outstanding = Num
     THEN refused' = TRUE /\ UNCHANGED ppc
     ELSE ppc' = "write" /\ UNCHANGED refused
  /\ UNCHANGED <<produceCount, consumeCount, buffer, cpc, temp, taken>>

(* push: the element is stored ...                                         *)
PushWrite ==
  /\ ppc = "write"
  /\ buffer' = [buffer EXCEPT ![Slot(produceCount)] = item]
  /\ ppc' = "publish"
  /\ UNCHANGED <<produceCount, consumeCount, item, refused, cpc, temp, taken>>

(* ... and the consumer sees it from the fetchAdd on.                      *)
PushPublish ==
  /\ ppc = "publish"
  /\ produceCount' = (produceCount + 1) % Wrap
  /\ refused' = FALSE
  /\ ppc' = "check"
  /\ UNCHANGED <<consumeCount, buffer, item, cpc, temp, taken>>

(* Mutant of PullCheck: the last element is left for later.                *)
PullAllButOne ==
  /\ cpc = "check"
  /\ IF Outstanding <= 1
     THEN taken' = None /\ UNCHANGED cpc
     ELSE cpc' = "read" /\ UNCHANGED taken
  /\ UNCHANGED <<produceCount, consumeCount, buffer, ppc, item, refused, temp>>

(* pull: the test for an empty buffer.                                     *)
PullCheck ==
  /\ cpc = "check"
  /\ IF Outstanding = 0
     THEN taken' = None /\ UNCHANGED cpc
     ELSE cpc' = "read" /\ UNCHANGED taken
  /\ UNCHANGED <<produceCount, consumeCount, buffer, ppc, item, refused, temp>>

PullRead ==
  /\ cpc = "read"
  /\ temp' = buffer[Slot(consumeCount)]
  /\ cpc' = "release"
  /\ UNCHANGED <<produceCount, consumeCount, buffer, ppc, item, refused, taken>>

(* Mutant of PullRelease: the counter is advanced before the slot is read. *)
ReleaseThenRead ==
  /\ cpc = "release"
  /\ consumeCount' = (consumeCount + 1) % Wrap
  /\ taken' = buffer[Slot(consumeCount')]
  /\ cpc' = "check"
  /\ UNCHANGED <<produceCount, buffer, ppc, item, refused, temp>>

(* The fetchAdd that gives the slot back; pull returns what it read.       *)
PullRelease ==
  /\ cpc = "release"
  /\ consumeCount' = (consumeCount + 1) % Wrap
  /\ taken' = temp
  /\ cpc' = "check"
  /\ UNCHANGED <<produceCount, buffer, ppc, item, refused, temp>>

Producer == (\E v \in Values : PushCheck(v)) \/ PushWrite \/ PushPublish
Consumer == PullCheck \/ PullRead \/ PullRelease
Next == Producer \/ Consumer

(* A call of push or pull that has started returns; nobody has to call.    *)
Spec ==
  /\ Init /\ [][Next]_vars
  /\ WF_vars(PushWrite) /\ WF_vars(PushPublish)
  /\ WF_vars(PullCheck) /\ WF_vars(PullRead) /\ WF_vars(PullRelease)

-----------------------------------------------------------------------------
(* The producer never has a slot open that holds an element not yet given  *)
(* back, nor the slot the consumer is reading: there is no overrun, and no *)
(* torn element although the slots are plain memory.                       *)
NoOverrun ==
  /\ Outstanding <= Num
  /\ ppc # "check" => Outstanding < Num
  /\ ppc = "write" /\ cpc = "read" => Slot(produceCount) # Slot(consumeCount)

(* Strengthening of NoOverrun that every step keeps: between the check and *)
(* the counter the checked room, or the checked element, stays, and what   *)
(* is stored or read is what the other side will find or has left.         *)
RingInv ==
  /\ TypeOK
  /\ Outstanding <= Num
  /\ ppc # "check" => Outstanding < Num /\ item \in Values
  /\ cpc # "check" => Outstanding > 0
  /\ ppc = "publish" => buffer[Slot(produceCount)] = item
  /\ cpc = "release" => temp = buffer[Slot(consumeCount)]

(* The ring is a bounded FIFO, across the wrap of its counters: what is    *)
(* pulled is what was pushed, in order and once, and push refuses only     *)
(* when Num elements are waiting.                                          *)
Fifo == INSTANCE BoundedFifo WITH
  Capacity <- Num,
  queue <- [i \in 1 .. Outstanding |-> buffer[Slot(consumeCount + i - 1)]],
  refused <- refused,
  taken <- taken
ImplementsFifo == Fifo!Spec

(* What was pushed is pulled: an element in a slot does not stay there.    *)
Drained == \A v \in Values :
  (ppc = "publish" /\ item = v) ~> (taken = v)
=============================================================================
