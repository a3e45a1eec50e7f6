----------------------- MODULE ReaderWriterQueueProofs -----------------------
(***************************************************************************)
(* Theorems about ReaderWriterQueue, for any number of elements, any size  *)
(* of the queue and every interleaving of producer and consumer.           *)
(*                                                                         *)
(* IInv is the inductive invariant.  Places says where the elements are:   *)
(* each from Lowest to sent is in one place that the consumer can reach,   *)
(* and the place after it, or the front of the next block, holds the one   *)
(* after it.  ProducerInv and ConsumerInv say what a thread has learned    *)
(* from accesses that the other's steps have overtaken since: a copy of an *)
(* end is an older value of it (Copies), so a block that looked not full   *)
(* is not full, and one that looked not empty is not empty.  Semaphore     *)
(* relates the elements left to the two counts and to what each thread has *)
(* still to do to them.                                                    *)
(***************************************************************************)
EXTENDS ReaderWriterQueue, FiniteSetTheorems, TLAPS

-----------------------------------------------------------------------------
(* Places of a block.                                                      *)

(* After goes around the places of a block, and never stays where it is.   *)
LEMMA AfterIs ==
  ASSUME NEW s \in Nat \ {0, 1}, NEW i \in 0 .. s - 1
  PROVE  /\ After(i, s) = IF i + 1 = s THEN 0 ELSE i + 1
         /\ After(i, s) \in 0 .. s - 1 /\ After(i, s) # i
         /\ \A j \in 0 .. s - 1 : After(i, s) = After(j, s) => i = j
<1>1. \A j \in 0 .. s - 1 : After(j, s) = IF j + 1 = s THEN 0 ELSE j + 1
  BY DEF After
<1>2. QED
  BY <1>1

(* The places between two ends: the front is one unless the ends meet, the *)
(* tail never is.                                                          *)
LEMMA BetweenIs ==
  ASSUME NEW s \in Nat \ {0, 1}, NEW f \in 0 .. s - 1, NEW t \in 0 .. s - 1
  PROVE  /\ Between(f, t, s) \subseteq 0 .. s - 1
         /\ t \notin Between(f, t, s)
         /\ f # t <=> f \in Between(f, t, s)
         /\ f = t => Between(f, t, s) = {}
BY DEF Between

(* The place after an occupied one is occupied or at the tail.             *)
LEMMA NextBetween ==
  ASSUME NEW s \in Nat \ {0, 1}, NEW f \in 0 .. s - 1, NEW t \in 0 .. s - 1,
         NEW i \in Between(f, t, s)
  PROVE  After(i, s) # f /\ After(i, s) \in Between(f, t, s) \cup {t}
<1>1. i \in 0 .. s - 1
  BY BetweenIs
<1>2. CASE i + 1 = s
  <2>1. After(i, s) = 0
    BY <1>1, <1>2, AfterIs
  <2>2. QED
    BY <1>1, <1>2, <2>1 DEF Between
<1>3. CASE i + 1 # s
  <2>1. After(i, s) = i + 1
    BY <1>1, <1>3, AfterIs
  <2>2. QED
    BY <1>1, <1>3, <2>1 DEF Between
<1>4. QED
  BY <1>2, <1>3

(* A tail that does not run into the front takes one place more.           *)
LEMMA PushBetween ==
  ASSUME NEW s \in Nat \ {0, 1}, NEW f \in 0 .. s - 1, NEW t \in 0 .. s - 1,
         After(t, s) # f
  PROVE  Between(f, After(t, s), s) = Between(f, t, s) \cup {t}
<1>2. CASE t + 1 = s
  <2>1. After(t, s) = 0
    BY <1>2, AfterIs
  <2>2. QED
    BY <1>2, <2>1 DEF Between
<1>3. CASE t + 1 # s
  <2>1. After(t, s) = t + 1
    BY <1>3, AfterIs
  <2>2. QED
    BY <1>3, <2>1 DEF Between
<1>4. QED
  BY <1>2, <1>3

(* A front that has not reached the tail leaves one place.                 *)
LEMMA PopBetween ==
  ASSUME NEW s \in Nat \ {0, 1}, NEW f \in 0 .. s - 1, NEW t \in 0 .. s - 1,
         f # t
  PROVE  /\ Between(After(f, s), t, s) = Between(f, t, s) \ {f}
         /\ After(f, s) = t => Between(f, t, s) = {f}
<1>2. CASE f + 1 = s
  <2>1. After(f, s) = 0
    BY <1>2, AfterIs
  <2>2. QED
    BY <1>2, <2>1 DEF Between
<1>3. CASE f + 1 # s
  <2>1. After(f, s) = f + 1
    BY <1>3, AfterIs
  <2>2. QED
    BY <1>3, <2>1 DEF Between
<1>4. QED
  BY <1>2, <1>3

(* A tail that keeps clear of an old front keeps clear of the front, which *)
(* has only come closer to the tail since.                                 *)
LEMMA WidenBetween ==
  ASSUME NEW s \in Nat \ {0, 1}, NEW l \in 0 .. s - 1, NEW f \in 0 .. s - 1,
         NEW t \in 0 .. s - 1, f \in Between(l, t, s) \cup {t}
  PROVE  /\ After(t, s) # l => After(t, s) # f
         /\ f # t => After(f, s) \in Between(l, t, s) \cup {t}
<1>1. ASSUME After(t, s) # l, After(t, s) = f PROVE FALSE
  <2>2. CASE t + 1 = s
    <3>1. After(t, s) = 0
      BY <2>2, AfterIs
    <3>2. QED
      BY <1>1, <2>2, <3>1 DEF Between
  <2>3. CASE t + 1 # s
    <3>1. After(t, s) = t + 1
      BY <2>3, AfterIs
    <3>2. QED
      BY <1>1, <2>3, <3>1 DEF Between
  <2>4. QED
    BY <2>2, <2>3
<1>2. ASSUME f # t PROVE After(f, s) \in Between(l, t, s) \cup {t}
  BY <1>2, NextBetween
<1>3. QED
  BY <1>1, <1>2

-----------------------------------------------------------------------------
(* Types, and the steps as they change one block.                          *)

(* The elements, by their numbers.                                         *)
Values == 1 .. Enqueues

(* Where the threads are.                                                  *)
EnqueuePcs == {"front", "store", "publish", "next", "useNext", "publishNext", "newBlock",
               "link", "advance"}
ProducerPcs == EnqueuePcs \cup {"idle", "signal", "post"}

TryPcs == {"tryWait", "spin", "takeCount", "decrement", "again"}
WaitPcs == {"semaWait", "restore", "semaTry"}
BlockPcs == {"blockFront", "blockTail", "tailBlock", "reread", "nextBlock", "advance",
             "peekNext", "take", "release"}
ConsumerPcs == {"idle", "size"} \cup TryPcs \cup WaitPcs \cup BlockPcs

(* Types.                                                                  *)
Datas == UNION {[0 .. n - 1 -> Values \cup {None}] : n \in Nat}

Block == [size : Nat \ {0, 1}, front : Nat, localTail : Nat, tail : Nat, localFront : Nat,
          next : Nat, data : Datas]

Blk == DOMAIN blocks

Sized(B) ==
  /\ B.front \in 0 .. B.size - 1 /\ B.localTail \in 0 .. B.size - 1
  /\ B.tail \in 0 .. B.size - 1 /\ B.localFront \in 0 .. B.size - 1
  /\ B.data \in [0 .. B.size - 1 -> Values \cup {None}]

BlockTypes ==
  /\ blocks \in Seq(Block) /\ Len(blocks) >= 1
  /\ \A b \in Blk : blocks[b].next \in Blk /\ Sized(blocks[b])
  /\ frontBlock \in Blk /\ tailBlock \in Blk
  /\ largestBlockSize \in Nat \ {0, 1}

ThreadTypes ==
  /\ sent \in 0 .. Enqueues /\ taken \in Values \cup {None}
  /\ producer \in [pc : ProducerPcs, canAlloc : BOOLEAN]
  /\ consumer \in [pc : ConsumerPcs, op : ConsumerOps \cup {"none"}, value : Values \cup {None}]
  /\ mCount \in Int /\ mSema \in Int

Sending == producer.pc \in EnqueuePcs => sent < Enqueues

(* What is assumed of the constants.                                       *)
LEMMA Numbers == Enqueues \in Nat /\ None \notin Values /\ MaxBlockSize \in Nat \ {0, 1}
BY SizesAssumption DEF Values

(* A block with another front.                                             *)
LEMMA WithFront ==
  ASSUME NEW R \in Block, NEW x \in Nat, NEW B, B = [R EXCEPT !.front = x]
  PROVE  /\ B \in Block /\ B.front = x
         /\ B.size = R.size /\ B.localTail = R.localTail /\ B.tail = R.tail
         /\ B.localFront = R.localFront /\ B.next = R.next /\ B.data = R.data
BY DEF Block

(* A block with another localTail.                                         *)
LEMMA WithLocalTail ==
  ASSUME NEW R \in Block, NEW x \in Nat, NEW B, B = [R EXCEPT !.localTail = x]
  PROVE  /\ B \in Block /\ B.localTail = x
         /\ B.size = R.size /\ B.front = R.front /\ B.tail = R.tail
         /\ B.localFront = R.localFront /\ B.next = R.next /\ B.data = R.data
BY DEF Block

(* A block with another tail.                                              *)
LEMMA WithTail ==
  ASSUME NEW R \in Block, NEW x \in Nat, NEW B, B = [R EXCEPT !.tail = x]
  PROVE  /\ B \in Block /\ B.tail = x
         /\ B.size = R.size /\ B.front = R.front /\ B.localTail = R.localTail
         /\ B.localFront = R.localFront /\ B.next = R.next /\ B.data = R.data
BY DEF Block

(* A block with another localFront.                                        *)
LEMMA WithLocalFront ==
  ASSUME NEW R \in Block, NEW x \in Nat, NEW B, B = [R EXCEPT !.localFront = x]
  PROVE  /\ B \in Block /\ B.localFront = x
         /\ B.size = R.size /\ B.front = R.front /\ B.localTail = R.localTail
         /\ B.tail = R.tail /\ B.next = R.next /\ B.data = R.data
BY DEF Block

(* A block with another next.                                              *)
LEMMA WithNext ==
  ASSUME NEW R \in Block, NEW x \in Nat, NEW B, B = [R EXCEPT !.next = x]
  PROVE  /\ B \in Block /\ B.next = x
         /\ B.size = R.size /\ B.front = R.front /\ B.localTail = R.localTail
         /\ B.tail = R.tail /\ B.localFront = R.localFront /\ B.data = R.data
BY DEF Block

(* A block with another data.                                              *)
LEMMA WithData ==
  ASSUME NEW R \in Block, NEW x \in Datas, NEW B, B = [R EXCEPT !.data = x]
  PROVE  /\ B \in Block /\ B.data = x
         /\ B.size = R.size /\ B.front = R.front /\ B.localTail = R.localTail
         /\ B.tail = R.tail /\ B.localFront = R.localFront /\ B.next = R.next
BY DEF Block

(* What stays the same in a block.                                         *)
SameEnds(b) ==
  /\ blocks'[b].size = blocks[b].size
  /\ blocks'[b].front = blocks[b].front /\ blocks'[b].tail = blocks[b].tail
SameCopies(b) ==
  blocks'[b].localTail = blocks[b].localTail /\ blocks'[b].localFront = blocks[b].localFront
SameNext(b) == blocks'[b].next = blocks[b].next
SameData(b) == blocks'[b].data = blocks[b].data
SameBlock(b) == SameEnds(b) /\ SameCopies(b) /\ SameNext(b) /\ SameData(b)

(* A step that replaces one block keeps the others, and the types.         *)
LEMMA Replaced ==
  ASSUME BlockTypes, NEW t \in Blk, NEW B \in Block, Sized(B), B.next \in Blk,
         blocks' = [blocks EXCEPT ![t] = B]
  PROVE  /\ blocks'[t] = B /\ Blk' = Blk /\ Len(blocks') = Len(blocks)
         /\ \A b \in Blk : b # t => SameBlock(b)
         /\ frontBlock' \in Blk /\ tailBlock' \in Blk /\ largestBlockSize' = largestBlockSize
               => BlockTypes'
<1>1. blocks \in Seq(Block) /\ Blk = 1 .. Len(blocks)
  BY DEF BlockTypes, Blk
<1>2. blocks' \in Seq(Block) /\ Len(blocks') = Len(blocks) /\ Blk' = Blk
  BY <1>1 DEF Blk
<1>3. blocks'[t] = B /\ \A b \in Blk : b # t => blocks'[b] = blocks[b]
  BY <1>1
<1>4. \A b \in Blk : blocks'[b].next \in Blk /\ Sized(blocks'[b])
  BY <1>2, <1>3 DEF BlockTypes
<1>5. frontBlock' \in Blk /\ tailBlock' \in Blk /\ largestBlockSize' = largestBlockSize
       => BlockTypes'
  BY <1>2, <1>4 DEF BlockTypes
<1>6. \A b \in Blk : b # t => SameBlock(b)
  BY <1>3 DEF SameBlock, SameEnds, SameCopies, SameNext, SameData
<1>7. QED
  BY <1>2, <1>3, <1>5, <1>6

(* What the types say of each block.                                       *)
LEMMA BlockIs ==
  ASSUME BlockTypes
  PROVE  /\ Blk = 1 .. Len(blocks) /\ Len(blocks) \in Nat \ {0}
         /\ \A b \in Blk :
          /\ blocks[b] \in Block /\ blocks[b].size \in Nat \ {0, 1} /\ blocks[b].next \in Blk
          /\ blocks[b].front \in 0 .. blocks[b].size - 1
          /\ blocks[b].tail \in 0 .. blocks[b].size - 1
          /\ blocks[b].localTail \in 0 .. blocks[b].size - 1
          /\ blocks[b].localFront \in 0 .. blocks[b].size - 1
          /\ blocks[b].data \in [0 .. blocks[b].size - 1 -> Values \cup {None}]
          /\ Sized(blocks[b])
          /\ NextTail(blocks[b]) \in 0 .. blocks[b].size - 1
          /\ NextTail(blocks[b]) = After(blocks[b].tail, blocks[b].size)
<1>1. \A b \in Blk : blocks[b] \in Block /\ blocks[b].next \in Blk /\ Sized(blocks[b])
  BY DEF BlockTypes, Blk
<1>2. \A b \in Blk : blocks[b].size \in Nat \ {0, 1}
  BY <1>1 DEF Block
<1>3. \A b \in Blk : /\ blocks[b].front \in 0 .. blocks[b].size - 1
          /\ blocks[b].tail \in 0 .. blocks[b].size - 1
          /\ blocks[b].localTail \in 0 .. blocks[b].size - 1
          /\ blocks[b].localFront \in 0 .. blocks[b].size - 1
          /\ blocks[b].data \in [0 .. blocks[b].size - 1 -> Values \cup {None}]
  BY <1>1 DEF Sized
<1>4. \A b \in Blk : After(blocks[b].tail, blocks[b].size) \in 0 .. blocks[b].size - 1
  BY <1>2, <1>3, AfterIs
<1>5. Blk = 1 .. Len(blocks) /\ Len(blocks) \in Nat \ {0}
  BY DEF BlockTypes, Blk
<1>6. QED
  BY <1>1, <1>2, <1>3, <1>4, <1>5 DEF NextTail

(* What is left of the blocks when one gets another front.                 *)
LEMMA FrontReplaced ==
  ASSUME BlockTypes, UNCHANGED <<frontBlock, tailBlock, largestBlockSize>>,
         NEW t \in Blk, NEW x \in 0 .. blocks[t].size - 1,
         blocks' = [blocks EXCEPT ![t].front = x]
  PROVE  /\ BlockTypes' /\ Blk' = Blk /\ Len(blocks') = Len(blocks)
         /\ \A b \in Blk : SameCopies(b) /\ SameNext(b) /\ SameData(b)
         /\ \A b \in Blk : b # t => SameEnds(b)
         /\ blocks'[t].size = blocks[t].size /\ blocks'[t].tail = blocks[t].tail
         /\ blocks'[t].front = x
<1> DEFINE B == [blocks[t] EXCEPT !.front = x]
<1>1. blocks' = [blocks EXCEPT ![t] = B]
  OBVIOUS
<1>2. blocks[t] \in Block /\ Sized(blocks[t]) /\ blocks[t].next \in Blk
  BY BlockIs
<1>3. x \in Nat
  BY <1>2, BlockIs
<1> HIDE DEF B
<1>4. /\ B \in Block /\ B.front = x
      /\ B.size = blocks[t].size /\ B.localTail = blocks[t].localTail /\ B.tail = blocks[t].tail
      /\ B.localFront = blocks[t].localFront /\ B.next = blocks[t].next /\ B.data = blocks[t].data
  BY <1>2, <1>3, WithFront DEF B
<1>5. Sized(B) /\ B.next \in Blk
  BY <1>2, <1>4 DEF Sized
<1>6. frontBlock' \in Blk /\ tailBlock' \in Blk
  BY DEF BlockTypes
<1>7. /\ blocks'[t] = B /\ Blk' = Blk /\ Len(blocks') = Len(blocks)
      /\ \A b \in Blk : b # t => SameBlock(b)
      /\ BlockTypes'
  BY <1>1, <1>4, <1>5, <1>6, Replaced
<1>8. QED
  BY <1>4, <1>7 DEF SameBlock, SameEnds, SameCopies, SameNext, SameData

(* What is left of the blocks when one gets another localTail.             *)
LEMMA LocalTailReplaced ==
  ASSUME BlockTypes, UNCHANGED <<frontBlock, tailBlock, largestBlockSize>>,
         NEW t \in Blk, NEW x \in 0 .. blocks[t].size - 1,
         blocks' = [blocks EXCEPT ![t].localTail = x]
  PROVE  /\ BlockTypes' /\ Blk' = Blk /\ Len(blocks') = Len(blocks)
         /\ \A b \in Blk : SameEnds(b) /\ SameNext(b) /\ SameData(b)
         /\ \A b \in Blk : b # t => SameCopies(b)
         /\ blocks'[t].localFront = blocks[t].localFront
         /\ blocks'[t].localTail = x
<1> DEFINE B == [blocks[t] EXCEPT !.localTail = x]
<1>1. blocks' = [blocks EXCEPT ![t] = B]
  OBVIOUS
<1>2. blocks[t] \in Block /\ Sized(blocks[t]) /\ blocks[t].next \in Blk
  BY BlockIs
<1>3. x \in Nat
  BY <1>2, BlockIs
<1> HIDE DEF B
<1>4. /\ B \in Block /\ B.localTail = x
      /\ B.size = blocks[t].size /\ B.front = blocks[t].front /\ B.tail = blocks[t].tail
      /\ B.localFront = blocks[t].localFront /\ B.next = blocks[t].next /\ B.data = blocks[t].data
  BY <1>2, <1>3, WithLocalTail DEF B
<1>5. Sized(B) /\ B.next \in Blk
  BY <1>2, <1>4 DEF Sized
<1>6. frontBlock' \in Blk /\ tailBlock' \in Blk
  BY DEF BlockTypes
<1>7. /\ blocks'[t] = B /\ Blk' = Blk /\ Len(blocks') = Len(blocks)
      /\ \A b \in Blk : b # t => SameBlock(b)
      /\ BlockTypes'
  BY <1>1, <1>4, <1>5, <1>6, Replaced
<1>8. QED
  BY <1>4, <1>7 DEF SameBlock, SameEnds, SameCopies, SameNext, SameData

(* What is left of the blocks when one gets another tail.                  *)
LEMMA TailReplaced ==
  ASSUME BlockTypes, UNCHANGED <<frontBlock, tailBlock, largestBlockSize>>,
         NEW t \in Blk, NEW x \in 0 .. blocks[t].size - 1,
         blocks' = [blocks EXCEPT ![t].tail = x]
  PROVE  /\ BlockTypes' /\ Blk' = Blk /\ Len(blocks') = Len(blocks)
         /\ \A b \in Blk : SameCopies(b) /\ SameNext(b) /\ SameData(b)
         /\ \A b \in Blk : b # t => SameEnds(b)
         /\ blocks'[t].size = blocks[t].size /\ blocks'[t].front = blocks[t].front
         /\ blocks'[t].tail = x
<1> DEFINE B == [blocks[t] EXCEPT !.tail = x]
<1>1. blocks' = [blocks EXCEPT ![t] = B]
  OBVIOUS
<1>2. blocks[t] \in Block /\ Sized(blocks[t]) /\ blocks[t].next \in Blk
  BY BlockIs
<1>3. x \in Nat
  BY <1>2, BlockIs
<1> HIDE DEF B
<1>4. /\ B \in Block /\ B.tail = x
      /\ B.size = blocks[t].size /\ B.front = blocks[t].front /\ B.localTail = blocks[t].localTail
      /\ B.localFront = blocks[t].localFront /\ B.next = blocks[t].next /\ B.data = blocks[t].data
  BY <1>2, <1>3, WithTail DEF B
<1>5. Sized(B) /\ B.next \in Blk
  BY <1>2, <1>4 DEF Sized
<1>6. frontBlock' \in Blk /\ tailBlock' \in Blk
  BY DEF BlockTypes
<1>7. /\ blocks'[t] = B /\ Blk' = Blk /\ Len(blocks') = Len(blocks)
      /\ \A b \in Blk : b # t => SameBlock(b)
      /\ BlockTypes'
  BY <1>1, <1>4, <1>5, <1>6, Replaced
<1>8. QED
  BY <1>4, <1>7 DEF SameBlock, SameEnds, SameCopies, SameNext, SameData

(* What is left of the blocks when one gets another localFront.            *)
LEMMA LocalFrontReplaced ==
  ASSUME BlockTypes, UNCHANGED <<frontBlock, tailBlock, largestBlockSize>>,
         NEW t \in Blk, NEW x \in 0 .. blocks[t].size - 1,
         blocks' = [blocks EXCEPT ![t].localFront = x]
  PROVE  /\ BlockTypes' /\ Blk' = Blk /\ Len(blocks') = Len(blocks)
         /\ \A b \in Blk : SameEnds(b) /\ SameNext(b) /\ SameData(b)
         /\ \A b \in Blk : b # t => SameCopies(b)
         /\ blocks'[t].localTail = blocks[t].localTail
         /\ blocks'[t].localFront = x
<1> DEFINE B == [blocks[t] EXCEPT !.localFront = x]
<1>1. blocks' = [blocks EXCEPT ![t] = B]
  OBVIOUS
<1>2. blocks[t] \in Block /\ Sized(blocks[t]) /\ blocks[t].next \in Blk
  BY BlockIs
<1>3. x \in Nat
  BY <1>2, BlockIs
<1> HIDE DEF B
<1>4. /\ B \in Block /\ B.localFront = x
      /\ B.size = blocks[t].size /\ B.front = blocks[t].front /\ B.localTail = blocks[t].localTail
      /\ B.tail = blocks[t].tail /\ B.next = blocks[t].next /\ B.data = blocks[t].data
  BY <1>2, <1>3, WithLocalFront DEF B
<1>5. Sized(B) /\ B.next \in Blk
  BY <1>2, <1>4 DEF Sized
<1>6. frontBlock' \in Blk /\ tailBlock' \in Blk
  BY DEF BlockTypes
<1>7. /\ blocks'[t] = B /\ Blk' = Blk /\ Len(blocks') = Len(blocks)
      /\ \A b \in Blk : b # t => SameBlock(b)
      /\ BlockTypes'
  BY <1>1, <1>4, <1>5, <1>6, Replaced
<1>8. QED
  BY <1>4, <1>7 DEF SameBlock, SameEnds, SameCopies, SameNext, SameData

(* What is left of the blocks when one gets another next.                  *)
LEMMA NextReplaced ==
  ASSUME BlockTypes, UNCHANGED <<frontBlock, tailBlock, largestBlockSize>>,
         NEW t \in Blk, NEW x \in Blk,
         blocks' = [blocks EXCEPT ![t].next = x]
  PROVE  /\ BlockTypes' /\ Blk' = Blk /\ Len(blocks') = Len(blocks)
         /\ \A b \in Blk : SameEnds(b) /\ SameCopies(b) /\ SameData(b)
         /\ \A b \in Blk : b # t => SameNext(b)
         /\ blocks'[t].next = x
<1> DEFINE B == [blocks[t] EXCEPT !.next = x]
<1>1. blocks' = [blocks EXCEPT ![t] = B]
  OBVIOUS
<1>2. blocks[t] \in Block /\ Sized(blocks[t]) /\ blocks[t].next \in Blk
  BY BlockIs
<1>3. x \in Nat
  BY <1>2, BlockIs
<1> HIDE DEF B
<1>4. /\ B \in Block /\ B.next = x
      /\ B.size = blocks[t].size /\ B.front = blocks[t].front /\ B.localTail = blocks[t].localTail
      /\ B.tail = blocks[t].tail /\ B.localFront = blocks[t].localFront /\ B.data = blocks[t].data
  BY <1>2, <1>3, WithNext DEF B
<1>5. Sized(B) /\ B.next \in Blk
  BY <1>2, <1>4 DEF Sized
<1>6. frontBlock' \in Blk /\ tailBlock' \in Blk
  BY DEF BlockTypes
<1>7. /\ blocks'[t] = B /\ Blk' = Blk /\ Len(blocks') = Len(blocks)
      /\ \A b \in Blk : b # t => SameBlock(b)
      /\ BlockTypes'
  BY <1>1, <1>4, <1>5, <1>6, Replaced
<1>8. QED
  BY <1>4, <1>7 DEF SameBlock, SameEnds, SameCopies, SameNext, SameData

(* What is left of the blocks when one gets another data.                  *)
LEMMA DataReplaced ==
  ASSUME BlockTypes, UNCHANGED <<frontBlock, tailBlock, largestBlockSize>>,
         NEW t \in Blk, NEW x \in [0 .. blocks[t].size - 1 -> Values \cup {None}],
         blocks' = [blocks EXCEPT ![t].data = x]
  PROVE  /\ BlockTypes' /\ Blk' = Blk /\ Len(blocks') = Len(blocks)
         /\ \A b \in Blk : SameEnds(b) /\ SameCopies(b) /\ SameNext(b)
         /\ \A b \in Blk : b # t => SameData(b)
         /\ blocks'[t].data = x
<1> DEFINE B == [blocks[t] EXCEPT !.data = x]
<1>1. blocks' = [blocks EXCEPT ![t] = B]
  OBVIOUS
<1>2. blocks[t] \in Block /\ Sized(blocks[t]) /\ blocks[t].next \in Blk
  BY BlockIs
<1>3. x \in Datas
  BY <1>2 DEF Datas, Block
<1> HIDE DEF B
<1>4. /\ B \in Block /\ B.data = x
      /\ B.size = blocks[t].size /\ B.front = blocks[t].front /\ B.localTail = blocks[t].localTail
      /\ B.tail = blocks[t].tail /\ B.localFront = blocks[t].localFront /\ B.next = blocks[t].next
  BY <1>2, <1>3, WithData DEF B
<1>5. Sized(B) /\ B.next \in Blk
  BY <1>2, <1>4 DEF Sized
<1>6. frontBlock' \in Blk /\ tailBlock' \in Blk
  BY DEF BlockTypes
<1>7. /\ blocks'[t] = B /\ Blk' = Blk /\ Len(blocks') = Len(blocks)
      /\ \A b \in Blk : b # t => SameBlock(b)
      /\ BlockTypes'
  BY <1>1, <1>4, <1>5, <1>6, Replaced
<1>8. QED
  BY <1>4, <1>7 DEF SameBlock, SameEnds, SameCopies, SameNext, SameData

(* ReadFront copies the front of the block that is written.                *)
LEMMA ReadFrontView ==
  ASSUME BlockTypes, ReadFront
  PROVE  /\ BlockTypes' /\ Blk' = Blk /\ Len(blocks') = Len(blocks)
         /\ \A b \in Blk : SameEnds(b) /\ SameNext(b) /\ SameData(b)
         /\ \A b \in Blk : b # tailBlock => SameCopies(b)
         /\ blocks'[tailBlock].localTail = blocks[tailBlock].localTail
         /\ blocks'[tailBlock].localFront = blocks[tailBlock].front
<1>1. PICK t, x : t = tailBlock /\ x = blocks[t].front
  OBVIOUS
<1>2. t \in Blk
  BY <1>1, BlockIs DEF BlockTypes
<1>3. x \in 0 .. blocks[t].size - 1
  BY <1>1, <1>2, BlockIs, AfterIs
<1>4. /\ blocks' = [blocks EXCEPT ![t].localFront = x]
      /\ UNCHANGED <<frontBlock, tailBlock, largestBlockSize>>
  BY <1>1 DEF ReadFront, ProducerAt, Back
<1>5. QED
  BY <1>1, <1>2, <1>3, <1>4, LocalFrontReplaced

(* StoreElement puts the next element into the place at the tail.          *)
LEMMA StoreView ==
  ASSUME BlockTypes, ThreadTypes, Sending, StoreElement
  PROVE  /\ BlockTypes' /\ Blk' = Blk /\ Len(blocks') = Len(blocks)
         /\ \A b \in Blk : SameEnds(b) /\ SameCopies(b) /\ SameNext(b)
         /\ \A b \in Blk : b # tailBlock => SameData(b)
         /\ blocks'[tailBlock].data
              = [blocks[tailBlock].data EXCEPT ![blocks[tailBlock].tail] = sent + 1]
<1>1. PICK t, x : t = tailBlock /\ x = [blocks[t].data EXCEPT ![blocks[t].tail] = sent + 1]
  OBVIOUS
<1>2. t \in Blk
  BY <1>1, BlockIs DEF BlockTypes
<1>3. x \in [0 .. blocks[t].size - 1 -> Values \cup {None}]
  <2>1. sent + 1 \in Values \cup {None}
    BY Numbers DEF StoreElement, ProducerAt, Sending, EnqueuePcs, ThreadTypes, Values
  <2>2. QED
    BY <1>1, <1>2, <2>1, BlockIs
<1>4. /\ blocks' = [blocks EXCEPT ![t].data = x]
      /\ UNCHANGED <<frontBlock, tailBlock, largestBlockSize>>
  BY <1>1 DEF StoreElement, ProducerAt, Back, Element
<1>5. QED
  BY <1>1, <1>2, <1>3, <1>4, DataReplaced

(* PublishElement moves the tail on.                                       *)
LEMMA PublishView ==
  ASSUME BlockTypes, PublishElement
  PROVE  /\ BlockTypes' /\ Blk' = Blk /\ Len(blocks') = Len(blocks)
         /\ \A b \in Blk : SameCopies(b) /\ SameNext(b) /\ SameData(b)
         /\ \A b \in Blk : b # tailBlock => SameEnds(b)
         /\ blocks'[tailBlock].size = blocks[tailBlock].size
         /\ blocks'[tailBlock].front = blocks[tailBlock].front
         /\ blocks'[tailBlock].tail = After(blocks[tailBlock].tail, blocks[tailBlock].size)
<1>1. PICK t, x : t = tailBlock /\ x = After(blocks[t].tail, blocks[t].size)
  OBVIOUS
<1>2. t \in Blk
  BY <1>1, BlockIs DEF BlockTypes
<1>3. x \in 0 .. blocks[t].size - 1
  BY <1>1, <1>2, BlockIs, AfterIs
<1>4. /\ blocks' = [blocks EXCEPT ![t].tail = x]
      /\ UNCHANGED <<frontBlock, tailBlock, largestBlockSize>>
  BY <1>1 DEF PublishElement, ProducerAt, Back, NextTail
<1>5. QED
  BY <1>1, <1>2, <1>3, <1>4, TailReplaced

(* UseNextBlock copies the front of the next block and puts the element     *)
(* into its place at the tail.                                             *)
LEMMA UseNextView ==
  ASSUME BlockTypes, ThreadTypes, Sending, UseNextBlock
  PROVE  LET c == blocks[tailBlock].next IN
         /\ BlockTypes' /\ Blk' = Blk /\ Len(blocks') = Len(blocks)
         /\ \A b \in Blk : SameEnds(b) /\ SameNext(b)
         /\ \A b \in Blk : b # c => SameCopies(b) /\ SameData(b)
         /\ blocks'[c].localTail = blocks[c].localTail
         /\ blocks'[c].localFront = blocks[c].front
         /\ blocks'[c].data = [blocks[c].data EXCEPT ![blocks[c].tail] = sent + 1]
<1>1. PICK t : t = blocks[tailBlock].next
  OBVIOUS
<1> DEFINE B1 == [blocks[t] EXCEPT !.localFront = blocks[t].front]
           B == [B1 EXCEPT !.data = [blocks[t].data EXCEPT ![blocks[t].tail] = sent + 1]]
<1>2. blocks' = [blocks EXCEPT ![t] = B]
  BY <1>1 DEF UseNextBlock, Back, Element
<1>3. /\ t \in Blk /\ frontBlock' \in Blk /\ tailBlock' \in Blk
      /\ largestBlockSize' = largestBlockSize
  BY <1>1, BlockIs DEF BlockTypes, UseNextBlock, ProducerAt
<1>4. blocks[t] \in Block /\ Sized(blocks[t]) /\ blocks[t].next \in Blk /\ Blk \subseteq Nat
  BY <1>3, BlockIs
<1>4a. /\ [blocks[t].data EXCEPT ![blocks[t].tail] = sent + 1]
            \in [0 .. blocks[t].size - 1 -> Values \cup {None}]
       /\ [blocks[t].data EXCEPT ![blocks[t].tail] = sent + 1] \in Datas
  <2>1. sent + 1 \in Values \cup {None}
    BY Numbers DEF UseNextBlock, ProducerAt, Sending, EnqueuePcs, ThreadTypes, Values
  <2>2. [blocks[t].data EXCEPT ![blocks[t].tail] = sent + 1]
          \in [0 .. blocks[t].size - 1 -> Values \cup {None}]
    BY <1>4, <2>1 DEF Sized
  <2>3. QED
    BY <1>4, <2>2 DEF Datas, Block
<1>4b. /\ blocks[t].front \in 0 .. blocks[t].size - 1
       /\ blocks[t].tail \in 0 .. blocks[t].size - 1
       /\ After(blocks[t].front, blocks[t].size) \in 0 .. blocks[t].size - 1
       /\ After(blocks[t].tail, blocks[t].size) \in 0 .. blocks[t].size - 1
  BY <1>3, BlockIs, AfterIs
<1> HIDE DEF B1, B
<1>5a. /\ B1 \in Block /\ B1.localFront = blocks[t].front /\ B1.size = blocks[t].size
       /\ B1.front = blocks[t].front /\ B1.localTail = blocks[t].localTail
       /\ B1.tail = blocks[t].tail /\ B1.next = blocks[t].next
       /\ B1.data = blocks[t].data
  BY <1>4, <1>4a, <1>4b, WithLocalFront DEF B1
<1>5b. /\ B \in Block /\ B.data = [blocks[t].data EXCEPT ![blocks[t].tail] = sent + 1]
       /\ B.size = B1.size /\ B.front = B1.front /\ B.localTail = B1.localTail
       /\ B.tail = B1.tail /\ B.localFront = B1.localFront /\ B.next = B1.next
  BY <1>4, <1>4a, <1>4b, <1>5a, WithData DEF B
<1>6. Sized(B) /\ B.next \in Blk
  BY <1>4, <1>5a, <1>5b, <1>4a, <1>4b DEF Sized
<1>7. /\ blocks'[t] = B /\ Blk' = Blk /\ Len(blocks') = Len(blocks)
      /\ \A b \in Blk : b # t => SameBlock(b)
      /\ BlockTypes'
  BY <1>2, <1>3, <1>4, <1>5a, <1>5b, <1>6, Replaced
<1>8. QED
  BY <1>1, <1>5a, <1>5b, <1>7 DEF SameBlock, SameEnds, SameCopies, SameNext, SameData

(* PublishInNextBlock moves the tail of the next block on.                 *)
LEMMA PublishNextView ==
  ASSUME BlockTypes, PublishInNextBlock
  PROVE  LET c == blocks[tailBlock].next IN
         /\ BlockTypes' /\ Blk' = Blk /\ Len(blocks') = Len(blocks)
         /\ \A b \in Blk : SameCopies(b) /\ SameNext(b) /\ SameData(b)
         /\ \A b \in Blk : b # c => SameEnds(b)
         /\ blocks'[c].size = blocks[c].size /\ blocks'[c].front = blocks[c].front
         /\ blocks'[c].tail = After(blocks[c].tail, blocks[c].size)
<1>1. PICK t, x : t = blocks[tailBlock].next /\ x = After(blocks[t].tail, blocks[t].size)
  OBVIOUS
<1>2. t \in Blk
  BY <1>1, BlockIs DEF BlockTypes
<1>3. x \in 0 .. blocks[t].size - 1
  BY <1>1, <1>2, BlockIs, AfterIs
<1>4. /\ blocks' = [blocks EXCEPT ![t].tail = x]
      /\ UNCHANGED <<frontBlock, tailBlock, largestBlockSize>>
  BY <1>1 DEF PublishInNextBlock, ProducerAt, Back, NextTail
<1>5. QED
  BY <1>1, <1>2, <1>3, <1>4, TailReplaced

(* LinkBlock makes the new block the next one.                             *)
LEMMA LinkView ==
  ASSUME BlockTypes, LinkBlock
  PROVE  /\ BlockTypes' /\ Blk' = Blk /\ Len(blocks') = Len(blocks)
         /\ \A b \in Blk : SameEnds(b) /\ SameCopies(b) /\ SameData(b)
         /\ \A b \in Blk : b # tailBlock => SameNext(b)
         /\ blocks'[tailBlock].next = Len(blocks)
<1>1. PICK t, x : t = tailBlock /\ x = Len(blocks)
  OBVIOUS
<1>2. t \in Blk
  BY <1>1, BlockIs DEF BlockTypes
<1>3. x \in Blk
  BY <1>1, <1>2, BlockIs, AfterIs
<1>4. /\ blocks' = [blocks EXCEPT ![t].next = x]
      /\ UNCHANGED <<frontBlock, tailBlock, largestBlockSize>>
  BY <1>1 DEF LinkBlock, ProducerAt
<1>5. QED
  BY <1>1, <1>2, <1>3, <1>4, NextReplaced

(* ReadTail copies the tail of the block that is read.                     *)
LEMMA ReadTailView ==
  ASSUME BlockTypes, NEW pc, NEW otherwise, ReadTail(pc, otherwise)
  PROVE  /\ BlockTypes' /\ Blk' = Blk /\ Len(blocks') = Len(blocks)
         /\ \A b \in Blk : SameEnds(b) /\ SameNext(b) /\ SameData(b)
         /\ \A b \in Blk : b # frontBlock => SameCopies(b)
         /\ blocks'[frontBlock].localFront = blocks[frontBlock].localFront
         /\ blocks'[frontBlock].localTail = blocks[frontBlock].tail
<1>1. PICK t, x : t = frontBlock /\ x = blocks[t].tail
  OBVIOUS
<1>2. t \in Blk
  BY <1>1, BlockIs DEF BlockTypes
<1>3. x \in 0 .. blocks[t].size - 1
  BY <1>1, <1>2, BlockIs, AfterIs
<1>4. /\ blocks' = [blocks EXCEPT ![t].localTail = x]
      /\ UNCHANGED <<frontBlock, tailBlock, largestBlockSize>>
  BY <1>1 DEF ReadTail, ConsumerAt, Front
<1>5. QED
  BY <1>1, <1>2, <1>3, <1>4, LocalTailReplaced

(* ReadNextBlock copies the tail of the next block.                        *)
LEMMA ReadNextView ==
  ASSUME BlockTypes, ~ Peeks, ReadNextBlock
  PROVE  LET c == blocks[frontBlock].next IN
         /\ BlockTypes' /\ Blk' = Blk /\ Len(blocks') = Len(blocks)
         /\ \A b \in Blk : SameEnds(b) /\ SameNext(b) /\ SameData(b)
         /\ \A b \in Blk : b # c => SameCopies(b)
         /\ blocks'[c].localFront = blocks[c].localFront
         /\ blocks'[c].localTail = blocks[c].tail
<1>1. PICK t, x : t = blocks[frontBlock].next /\ x = blocks[t].tail
  OBVIOUS
<1>2. t \in Blk
  BY <1>1, BlockIs DEF BlockTypes
<1>3. x \in 0 .. blocks[t].size - 1
  BY <1>1, <1>2, BlockIs, AfterIs
<1>4. /\ blocks' = [blocks EXCEPT ![t].localTail = x]
      /\ UNCHANGED <<frontBlock, tailBlock, largestBlockSize>>
  BY <1>1 DEF ReadNextBlock, ConsumerAt, Front
<1>5. QED
  BY <1>1, <1>2, <1>3, <1>4, LocalTailReplaced

(* TakeElement empties the place at the front.                             *)
LEMMA TakeView ==
  ASSUME BlockTypes, ~ Peeks, TakeElement
  PROVE  /\ BlockTypes' /\ Blk' = Blk /\ Len(blocks') = Len(blocks)
         /\ \A b \in Blk : SameEnds(b) /\ SameCopies(b) /\ SameNext(b)
         /\ \A b \in Blk : b # frontBlock => SameData(b)
         /\ blocks'[frontBlock].data
              = [blocks[frontBlock].data EXCEPT ![blocks[frontBlock].front] = None]
<1>1. PICK t, x : t = frontBlock /\ x = [blocks[t].data EXCEPT ![blocks[t].front] = None]
  OBVIOUS
<1>2. t \in Blk
  BY <1>1, BlockIs DEF BlockTypes
<1>3. x \in [0 .. blocks[t].size - 1 -> Values \cup {None}]
  BY <1>1, <1>2, BlockIs, AfterIs
<1>4. /\ blocks' = [blocks EXCEPT ![t].data = x]
      /\ UNCHANGED <<frontBlock, tailBlock, largestBlockSize>>
  BY <1>1 DEF TakeElement, ConsumerAt, Front
<1>5. QED
  BY <1>1, <1>2, <1>3, <1>4, DataReplaced

(* ReleaseElement moves the front on.                                      *)
LEMMA ReleaseView ==
  ASSUME BlockTypes, ReleaseElement
  PROVE  /\ BlockTypes' /\ Blk' = Blk /\ Len(blocks') = Len(blocks)
         /\ \A b \in Blk : SameCopies(b) /\ SameNext(b) /\ SameData(b)
         /\ \A b \in Blk : b # frontBlock => SameEnds(b)
         /\ blocks'[frontBlock].size = blocks[frontBlock].size
         /\ blocks'[frontBlock].tail = blocks[frontBlock].tail
         /\ blocks'[frontBlock].front = After(blocks[frontBlock].front, blocks[frontBlock].size)
<1>1. PICK t, x : t = frontBlock /\ x = After(blocks[t].front, blocks[t].size)
  OBVIOUS
<1>2. t \in Blk
  BY <1>1, BlockIs DEF BlockTypes
<1>3. x \in 0 .. blocks[t].size - 1
  BY <1>1, <1>2, BlockIs, AfterIs
<1>4. /\ blocks' = [blocks EXCEPT ![t].front = x]
      /\ UNCHANGED <<frontBlock, tailBlock, largestBlockSize>>
  BY <1>1 DEF ReleaseElement, ConsumerAt, Front
<1>5. QED
  BY <1>1, <1>2, <1>3, <1>4, FrontReplaced

(* NewBlock adds a block that has the next element at its front and        *)
(* nothing else.                                                           *)
LEMMA NewBlockView ==
  ASSUME BlockTypes, ThreadTypes, Sending, NewBlock
  PROVE  LET n == Len(blocks) + 1 IN
         /\ BlockTypes' /\ Blk' = Blk \cup {n} /\ Len(blocks') = n /\ n \notin Blk
         /\ \A b \in Blk : SameBlock(b)
         /\ blocks'[n].size \in Nat \ {0, 1}
         /\ blocks'[n].front = 0 /\ blocks'[n].tail = 1
         /\ blocks'[n].localTail = 1 /\ blocks'[n].localFront = 0
         /\ blocks'[n].next = blocks[tailBlock].next
         /\ blocks'[n].data[0] = sent + 1
         /\ \A i \in 0 .. blocks'[n].size - 1 : i # 0 => blocks'[n].data[i] = None
<1>1. PICK n, size, next :
        /\ n = Len(blocks) + 1 /\ next = blocks[tailBlock].next
        /\ size = IF largestBlockSize >= MaxBlockSize THEN largestBlockSize
                  ELSE largestBlockSize * 2
  OBVIOUS
<1> DEFINE d0 == [i \in 0 .. size - 1 |-> None]
           d == [d0 EXCEPT ![0] = sent + 1]
           B0 == MakeBlock(size, next)
           B1 == [B0 EXCEPT !.data = d]
           B2 == [B1 EXCEPT !.tail = 1]
           B == [B2 EXCEPT !.localTail = 1]
<1>2. blocks' = Append(blocks, B) /\ largestBlockSize' = size
  BY <1>1 DEF NewBlock, Back, Element, MakeBlock
<1>3. /\ tailBlock \in Blk /\ frontBlock' \in Blk /\ tailBlock' \in Blk
      /\ largestBlockSize \in Nat \ {0, 1}
  BY DEF BlockTypes, NewBlock, ProducerAt
<1>4. size \in Nat \ {0, 1} /\ next \in Blk /\ n \in Nat /\ n \notin Blk /\ next \in Nat
  BY <1>1, <1>3, BlockIs, Numbers
<1>5. sent + 1 \in Values /\ sent + 1 # None
  BY Numbers DEF NewBlock, ProducerAt, Sending, EnqueuePcs, ThreadTypes, Values
<1>6. /\ d \in [0 .. size - 1 -> Values \cup {None}] /\ d[0] = sent + 1
      /\ \A i \in 0 .. size - 1 : i # 0 => d[i] = None
      /\ d0 \in [0 .. size - 1 -> Values \cup {None}]
  BY <1>4, <1>5
<1>7. d \in Datas /\ d0 \in Datas
  <2> HIDE DEF d, d0
  <2> QED BY <1>4, <1>6 DEF Datas
<1> HIDE DEF d
<1>8. /\ B0 \in Block /\ B0.size = size /\ B0.front = 0 /\ B0.localFront = 0 /\ B0.next = next
      /\ B0.localTail = 0 /\ B0.tail = 0
  BY <1>4, <1>7 DEF MakeBlock, Block
<1> HIDE DEF B0, B1, B2, B
<1>9. /\ B1 \in Block /\ B1.size = size /\ B1.front = 0 /\ B1.localFront = 0 /\ B1.next = next
      /\ B1.localTail = 0 /\ B1.data = d
  BY <1>7, <1>8, WithData DEF B1
<1>10. /\ B2 \in Block /\ B2.size = size /\ B2.front = 0 /\ B2.localFront = 0 /\ B2.next = next
       /\ B2.tail = 1 /\ B2.data = d
  BY <1>9, WithTail DEF B2
<1>11. /\ B \in Block /\ B.size = size /\ B.front = 0 /\ B.localFront = 0 /\ B.next = next
       /\ B.tail = 1 /\ B.localTail = 1 /\ B.data = d
  BY <1>10, WithLocalTail DEF B
<1>12. Sized(B)
  BY <1>4, <1>6, <1>11 DEF Sized
<1>13. /\ blocks' \in Seq(Block) /\ Len(blocks') = n /\ Blk' = Blk \cup {n} /\ blocks'[n] = B
       /\ \A b \in Blk : blocks'[b] = blocks[b]
  <2>1. blocks \in Seq(Block) /\ Blk = 1 .. Len(blocks) /\ Len(blocks) \in Nat \ {0}
    BY BlockIs DEF BlockTypes
  <2>2. QED
    BY <1>1, <1>2, <1>11, <2>1 DEF Blk
<1>14. \A b \in Blk' : blocks'[b].next \in Blk' /\ Sized(blocks'[b])
  BY <1>4, <1>11, <1>12, <1>13 DEF BlockTypes
<1>15. BlockTypes'
  <2>1. largestBlockSize' \in Nat \ {0, 1}
    BY <1>2, <1>4
  <2>2. frontBlock' \in Blk' /\ tailBlock' \in Blk'
    BY <1>3, <1>13
  <2>3. Len(blocks') >= 1
    BY <1>1, <1>13, BlockIs
  <2>4. QED
    BY <1>13, <1>14, <2>1, <2>2, <2>3 DEF BlockTypes
<1>16. \A b \in Blk : SameBlock(b)
  BY <1>13 DEF SameBlock, SameEnds, SameCopies, SameNext, SameData
<1>17. QED
  BY <1>1, <1>4, <1>6, <1>11, <1>13, <1>15, <1>16

-----------------------------------------------------------------------------
(* The invariant.                                                          *)

(* The blocks of the circle, from which a new block is missing until it is *)
(* linked.                                                                 *)
Unlinked == IF producer.pc = "link" THEN {Len(blocks)} ELSE {}
Linked == Blk \ Unlinked

(* The blocks form a circle, or circles, and both threads are at blocks    *)
(* that the consumer can come to.                                          *)
Ring ==
  /\ \A b, c \in Linked : blocks[b].next = blocks[c].next => b = c
  /\ \A b \in Linked : blocks[b].next \in Linked
  /\ frontBlock \in Reached /\ tailBlock \in Reached

(* A thread's copy of the other's end is an older value of it: the end has *)
(* moved on from there, but not past its own.                              *)
Copies ==
  \A b \in Blk :
    /\ blocks[b].localTail \in Occupied(b) \cup {blocks[b].tail}
    /\ blocks[b].front \in
         Between(blocks[b].localFront, blocks[b].tail, blocks[b].size) \cup {blocks[b].tail}

(* The place that the producer has written and not yet published.          *)
Writing(b, i) ==
  /\ i = blocks[b].tail
  /\ \/ producer.pc = "publish" /\ b = tailBlock
     \/ producer.pc = "publishNext" /\ b = Back.next

(* All other places that are not occupied hold nothing.                    *)
Free ==
  \A b \in Blk : \A i \in 0 .. blocks[b].size - 1 :
    i \notin Occupied(b) /\ ~ Writing(b, i) => blocks[b].data[i] = None

(* The elements in the queue are numbered from the lowest to the last      *)
(* sent, each in one place.                                                *)
Numbered ==
  \A b, i, v : Holds(b, i, v) => v \in Nat /\ Lowest <= v /\ v <= sent

Unique ==
  \A b, i, c, j, v : Holds(b, i, v) /\ Holds(c, j, v) => b = c /\ i = j

Complete == \A v \in Lowest .. sent : \E b, i : Holds(b, i, v)

Places == Ring /\ Copies /\ Free /\ Numbered /\ Unique /\ Complete /\ InOrder

(* The one element in a block that the consumer cannot come to yet.        *)
Pending(c) ==
  /\ blocks[c].front # blocks[c].tail
  /\ blocks[c].data[blocks[c].front] = sent + 1
  /\ After(blocks[c].front, blocks[c].size) = blocks[c].tail

(* What the producer knows where it is.                                    *)
ProducerInv ==
  /\ Sending
  /\ producer.pc \in {"store", "publish"} => NextTail(Back) # Back.localFront
  /\ producer.pc = "publish" => Back.data[Back.tail] = sent + 1
  /\ producer.pc \in {"useNext", "publishNext", "advance"} => Back.next # frontBlock
  /\ producer.pc \in {"useNext", "publishNext"} => 
       blocks[Back.next].front = blocks[Back.next].tail
  /\ producer.pc = "publishNext" =>
       /\ NextTail(blocks[Back.next]) # blocks[Back.next].localFront
       /\ blocks[Back.next].data[blocks[Back.next].tail] = sent + 1
  /\ producer.pc = "link" => blocks[Len(blocks)].next = Back.next
  /\ \A c \in Unreached : Pending(c)

(* What the consumer knows where it is.                                    *)
ConsumerInv ==
  /\ consumer.pc \in {"reread", "nextBlock", "peekNext", "advance"} => frontBlock # tailBlock
  /\ consumer.pc \in {"nextBlock", "peekNext", "advance"} => Front.front = Front.tail
  /\ consumer.pc \in {"take", "release"} => Front.front # Front.localTail
  /\ consumer.pc = "advance" => blocks[Front.next].front # blocks[Front.next].localTail
  /\ consumer.pc = "release" => Front.data[Front.front] = None
  /\ consumer.pc \in {"advance", "release"} => ~ Peeks
  /\ consumer.pc = "peekNext" => Peeks

(* What peek has returned is the next element to be taken.                 *)
Peeked ==
  Peeks /\ consumer.value # None =>
    consumer.pc = "idle" /\ consumer.value = Lowest /\ Lowest <= sent

(* The consumer has counted itself out, or has claimed one element.        *)
Waits == consumer.pc \in WaitPcs
Claims == consumer.pc \in BlockPcs /\ ~ Peeks
Left == sent - Lowest + 1
One(p) == IF p THEN 1 ELSE 0

(* Each element left is counted, about to be signalled or claimed, and     *)
(* m_sema is posted only for the consumer that waits.                      *)
Semaphore ==
  /\ mCount + One(producer.pc = "signal") + One(Claims) + One(Waits) = Left
  /\ mCount >= -1 /\ (~ Waits => mCount >= 0)
  /\ consumer.pc \in {"takeCount", "again"} => mCount >= 1
  /\ mSema + One(producer.pc = "post") = One(consumer.pc = "again" \/ (Waits /\ mCount >= 0))
  /\ consumer.pc \in BlockPcs /\ consumer.op = "head" => mCount >= 1
  /\ consumer.pc = "size" => consumer.op = "head"
  /\ consumer.pc \in TryPcs \cup WaitPcs => ~ Peeks
  /\ consumer.pc = "tailBlock" /\ consumer.op # "peek" => frontBlock # tailBlock

(* The inductive invariant.                                                *)
IInv == 
  /\ BlockTypes /\ ThreadTypes /\ Places
  /\ ProducerInv /\ ConsumerInv /\ Peeked /\ Semaphore

-----------------------------------------------------------------------------
(* Steps that move no element.                                             *)

(* InOrder, said of the places that hold something.                        *)
LEMMA OrderIs ==
  InOrder <=> First(Lowest) /\ \A b, i, v : Holds(b, i, v) => Follows(b, i, v + 1)
BY DEF InOrder, Holds

(* The elements stay numbered in a step that moves none.                   *)
LEMMA HoldsKept ==
  ASSUME Numbered, Unique, Complete, sent' = sent, taken' = taken,
         \A b, i, v : Holds(b, i, v)' <=> Holds(b, i, v)
  PROVE  Numbered' /\ Unique' /\ Complete' /\ Lowest' = Lowest
<1>1. Lowest' = Lowest
  BY DEF Lowest
<1>2. Numbered'
  BY <1>1 DEF Numbered
<1>3. Unique'
  BY DEF Unique
<1>4. Complete'
  BY <1>1 DEF Complete
<1>5. QED
  BY <1>1, <1>2, <1>3, <1>4

(* The number of the next element to be taken.                             *)
LEMMA LowestIs ==
  ASSUME ThreadTypes
  PROVE  Lowest \in Nat \ {0} /\ (taken \in Values => Lowest = taken + 1)
BY Numbers DEF ThreadTypes, Lowest, Values

(* A step that lets the consumer reach one place more, with the next       *)
(* element in it, keeps the elements numbered.                             *)
LEMMA HoldsMore ==
  ASSUME ThreadTypes, Numbered, Unique, Complete, sent' = sent + 1, taken' = taken, NEW B, NEW I,
         \A b, i, v : Holds(b, i, v)' <=> Holds(b, i, v) \/ (b = B /\ i = I /\ v = sent + 1),
         Lowest <= sent + 1
  PROVE  Numbered' /\ Unique' /\ Complete' /\ Lowest' = Lowest
<1>1. Lowest' = Lowest /\ Lowest \in Nat /\ sent \in Nat
  BY LowestIs DEF Lowest, ThreadTypes
<1>2. Numbered'
  BY <1>1 DEF Numbered
<1>3. Unique'
  <2>1. \A b, i : ~ Holds(b, i, sent + 1)
    BY <1>1 DEF Numbered
  <2>2. QED
    BY <2>1 DEF Unique
<1>4. Complete'
  BY <1>1 DEF Complete
<1>5. QED
  BY <1>1, <1>2, <1>3, <1>4

(* A step that takes the lowest element away keeps the others numbered.    *)
LEMMA HoldsLess ==
  ASSUME ThreadTypes, Numbered, Unique, Complete, sent' = sent, taken' \in Values, NEW B, NEW I,
         \A b, i, v : Holds(b, i, v)' <=> Holds(b, i, v) /\ ~ (b = B /\ i = I),
         Holds(B, I, taken'), taken' = Lowest
  PROVE  Numbered' /\ Unique' /\ Complete' /\ Lowest' = Lowest + 1
<1>1. Lowest' = Lowest + 1 /\ Lowest \in Nat /\ sent \in Nat
  BY LowestIs, Numbers DEF Lowest, ThreadTypes
<1>2. Numbered'
  <2>1. SUFFICES ASSUME NEW b, NEW i, NEW v, Holds(b, i, v)'
                 PROVE  v \in Nat /\ Lowest' <= v /\ v <= sent'
    BY DEF Numbered
  <2>2. Holds(b, i, v) /\ ~ (b = B /\ i = I) /\ v \in Nat /\ Lowest <= v /\ v <= sent
    BY <2>1 DEF Numbered
  <2>3. v # Lowest
    BY <2>2 DEF Unique
  <2>4. QED
    BY <1>1, <2>2, <2>3
<1>3. Unique'
  BY DEF Unique
<1>4. Complete'
  <2>1. SUFFICES ASSUME NEW v \in Lowest' .. sent' PROVE \E b, i : Holds(b, i, v)'
    BY DEF Complete
  <2>2. v \in Lowest .. sent /\ v # Lowest
    BY <1>1
  <2>3. PICK b, i : Holds(b, i, v)
    BY <2>2 DEF Complete
  <2>4. ~ (b = B /\ i = I)
    BY <2>2, <2>3 DEF Holds
  <2>5. QED
    BY <2>3, <2>4
<1>5. QED
  BY <1>1, <1>2, <1>3, <1>4

(* A step that leaves everything alone that the contents depend on.        *)
Still ==
  /\ Blk' = Blk /\ Len(blocks') = Len(blocks)
  /\ \A b \in Blk : SameEnds(b) /\ SameNext(b) /\ SameData(b)
  /\ frontBlock' = frontBlock /\ tailBlock' = tailBlock /\ sent' = sent /\ taken' = taken
  /\ \A pc \in {"publish", "publishNext", "link", "advance"} :
       producer'.pc = pc <=> producer.pc = pc
  /\ consumer'.pc = "release" <=> consumer.pc = "release"
  /\ consumer.pc = "release" => consumer'.value = consumer.value

(* A step that leaves ends, data and links alone keeps everything about    *)
(* places but the copies, which it may renew.                              *)
LEMMA StillPlaces ==
  ASSUME BlockTypes, ThreadTypes, Still, Ring, Free, Numbered, Unique, Complete, InOrder
  PROVE  Ring' /\ Free' /\ Numbered' /\ Unique' /\ Complete' /\ InOrder' /\ Lowest' = Lowest
<1>1. /\ tailBlock \in Blk /\ frontBlock \in Blk
      /\ \A b \in Blk : blocks[b].next \in Blk
  BY BlockIs DEF BlockTypes
<1>2. /\ Blk' = Blk /\ tailBlock' = tailBlock /\ frontBlock' = frontBlock /\ sent' = sent
      /\ taken' = taken /\ Len(blocks') = Len(blocks)
      /\ \A b \in Blk : /\ blocks'[b].size = blocks[b].size /\ blocks'[b].front = blocks[b].front
                        /\ blocks'[b].tail = blocks[b].tail /\ blocks'[b].next = blocks[b].next
                        /\ blocks'[b].data = blocks[b].data
  BY DEF Still, SameEnds, SameNext, SameData
<1>3. Unreached' = Unreached
  BY <1>1, <1>2 DEF Still, Unreached, Back, Blk
<1>4. Reached' = Reached /\ Linked' = Linked
  BY <1>2, <1>3 DEF Reached, Linked, Unlinked, Still, Blk
<1>5. \A b \in Blk : Occupied(b)' = Occupied(b)
  BY <1>2 DEF Occupied
<1>6. \A b \in Blk : \A i : ElementAt(b, i)' = ElementAt(b, i)
  BY <1>2 DEF ElementAt, Still
<1>7. \A b, i, v : Holds(b, i, v)' <=> Holds(b, i, v)
  BY <1>4, <1>5, <1>6 DEF Holds, Reached, Blk
<1>8. Numbered' /\ Unique' /\ Complete' /\ Lowest' = Lowest
  BY <1>2, <1>7, HoldsKept
<1>9. Ring'
  BY <1>2, <1>4 DEF Ring, Linked, Reached, Blk
<1>10. Free'
  BY <1>1, <1>2, <1>5 DEF Free, Writing, Still, Back
<1>11. \A v : First(v)' <=> First(v)
  BY <1>1, <1>2, <1>7 DEF First, Front, AtFront
<1>12. \A b \in Blk : \A i, v : Follows(b, i, v)' <=> Follows(b, i, v)
  BY <1>1, <1>2, <1>7 DEF Follows, AtFront
<1>13. InOrder'
  BY <1>4, <1>5, <1>6, <1>8, <1>11, <1>12 DEF InOrder, Reached, Blk
<1>14. QED
  BY <1>8, <1>9, <1>10, <1>13

(* A step of the producer keeps the types of the threads.                  *)
LEMMA ProducerTypes ==
  ASSUME BlockTypes, ThreadTypes, Sending,
         ProducerStep \/ \E canAlloc \in BOOLEAN : Enqueue(canAlloc)
  PROVE  ThreadTypes'
<1>0. \A p \in [pc : ProducerPcs, canAlloc : BOOLEAN] : \A pc \in ProducerPcs :
        [p EXCEPT !.pc = pc] \in [pc : ProducerPcs, canAlloc : BOOLEAN]
  OBVIOUS
<1>1. taken' = taken /\ consumer' = consumer
  BY DEF ProducerStep, Enqueue, ReadFront, StoreElement, PublishElement, CheckNext, UseNextBlock,
         PublishInNextBlock, NewBlock, NoMemory, LinkBlock, AdvanceTail, SignalCount, SignalSema,
         ProducerAt
<1>2. sent' \in 0 .. Enqueues
  <2>1. /\ sent' \in {sent, sent + 1}
        /\ sent' # sent => PublishElement \/ AdvanceTail
    BY DEF ProducerStep, Enqueue, ReadFront, StoreElement, PublishElement, CheckNext,
           UseNextBlock, PublishInNextBlock, NewBlock, NoMemory, LinkBlock, AdvanceTail,
           SignalCount, SignalSema
  <2>2. PublishElement \/ AdvanceTail => sent < Enqueues
    BY DEF PublishElement, AdvanceTail, ProducerAt, Sending, EnqueuePcs
  <2>3. QED
    BY <2>1, <2>2, Numbers DEF ThreadTypes
<1>3. mCount' \in {mCount, mCount + 1} /\ mSema' \in {mSema, mSema + 1}
  BY DEF ProducerStep, Enqueue, ReadFront, StoreElement, PublishElement, CheckNext, UseNextBlock,
         PublishInNextBlock, NewBlock, NoMemory, LinkBlock, AdvanceTail, SignalCount, SignalSema
<1>4. producer' \in [pc : ProducerPcs, canAlloc : BOOLEAN]
  <2>1. CASE \E canAlloc \in BOOLEAN : Enqueue(canAlloc)
    BY <2>1 DEF Enqueue, ProducerPcs, EnqueuePcs
  <2>2. CASE ProducerStep
    <3>1. \E pc \in ProducerPcs : producer' = [producer EXCEPT !.pc = pc]
      BY <2>2
         DEF ProducerStep, ReadFront, StoreElement, PublishElement, CheckNext, UseNextBlock,
             PublishInNextBlock, NewBlock, NoMemory, LinkBlock, AdvanceTail, SignalCount,
             SignalSema, ProducerTo, ProducerPcs, EnqueuePcs
    <3>2. QED
      BY <1>0, <3>1 DEF ThreadTypes
  <2>3. QED
    BY <2>1, <2>2
<1>5. QED
  BY <1>1, <1>2, <1>3, <1>4 DEF ThreadTypes

(* A step of the consumer keeps the types of the threads.                  *)
LEMMA ConsumerTypes ==
  ASSUME BlockTypes, ThreadTypes, ConsumerStep \/ \E op \in ConsumerOps : Call(op)
  PROVE  ThreadTypes'
<1> DEFINE C == [pc : ConsumerPcs, op : ConsumerOps \cup {"none"}, value : Values \cup {None}]
<1>0. \A c \in C : \A pc \in ConsumerPcs : \A v \in Values \cup {None} :
        [c EXCEPT !.pc = pc, !.value = v] \in C /\ [c EXCEPT !.pc = pc] \in C
  OBVIOUS
<1>1. sent' = sent /\ producer' = producer
  BY DEF ConsumerStep, Call, Size, TryWait, Spin, TakeCount, Decrement, SemaWait, TimeOut,
         Restore, DecrementAgain, SemaTry, CheckFront, ReadTail, CheckTailBlock, ReadNextBlock,
         AdvanceFront, PeekNext, TakeElement, ReleaseElement, ConsumerAt
<1>2. taken' \in {taken, consumer.value}
  BY DEF ConsumerStep, Call, Size, TryWait, Spin, TakeCount, Decrement, SemaWait, TimeOut,
         Restore, DecrementAgain, SemaTry, CheckFront, ReadTail, CheckTailBlock, ReadNextBlock,
         AdvanceFront, PeekNext, TakeElement, ReleaseElement
<1>3. mCount' \in {mCount, mCount + 1, mCount - 1} /\ mSema' \in {mSema, mSema - 1}
  BY DEF ConsumerStep, Call, Size, TryWait, Spin, TakeCount, Decrement, SemaWait, TimeOut,
         Restore, DecrementAgain, SemaTry, CheckFront, ReadTail, CheckTailBlock, ReadNextBlock,
         AdvanceFront, PeekNext, TakeElement, ReleaseElement
<1>4. \A b \in Blk : /\ blocks[b].next \in Blk
                     /\ blocks[b].data[blocks[b].front] \in Values \cup {None}
  BY BlockIs
<1>5. consumer' \in C
  <2>1. CASE \E op \in ConsumerOps : Call(op)
    BY <2>1 DEF Call, ConsumerPcs, BlockPcs, TryPcs, WaitPcs
  <2>2. CASE PeekNext \/ TakeElement
    <3>1. \E pc \in ConsumerPcs, v \in Values \cup {None} :
             consumer' = [consumer EXCEPT !.pc = pc, !.value = v]
      <4>1. CASE PeekNext
        BY <1>4, <4>1 DEF PeekNext, ConsumerPcs, BlockPcs, BlockTypes, Front
      <4>2. CASE TakeElement
        BY <1>4, <4>2 DEF TakeElement, ConsumerPcs, BlockPcs, BlockTypes, Front
      <4>3. QED
        BY <2>2, <4>1, <4>2
    <3>2. PICK pc \in ConsumerPcs, v \in Values \cup {None} :
             consumer' = [consumer EXCEPT !.pc = pc, !.value = v]
      BY <3>1
    <3>3. consumer \in C
      BY DEF ThreadTypes
    <3>4. QED
      BY <1>0, <3>2, <3>3
  <2>3. CASE ConsumerStep /\ ~ (PeekNext \/ TakeElement)
    <3>1. \E pc \in ConsumerPcs : consumer' = [consumer EXCEPT !.pc = pc]
      BY <2>3
         DEF ConsumerStep, Size, TryWait, Spin, TakeCount, Decrement, SemaWait, TimeOut, Restore,
             DecrementAgain, SemaTry, CheckFront, ReadTail, CheckTailBlock, ReadNextBlock,
             AdvanceFront, ReleaseElement, ConsumerTo, ConsumerPcs, BlockPcs, TryPcs, WaitPcs
    <3>2. QED
      BY <1>0, <3>1 DEF ThreadTypes
  <2>4. QED
    BY <2>1, <2>2, <2>3
<1>6. QED
  BY <1>1, <1>2, <1>3, <1>5 DEF ThreadTypes

(* ProducerTo changes the pc only.                                         *)
LEMMA ProducerPc ==
  ASSUME ThreadTypes
  PROVE  \A pc : ProducerTo(pc) => producer'.pc = pc /\ producer'.canAlloc = producer.canAlloc
BY DEF ThreadTypes, ProducerTo

(* ConsumerTo changes the pc only.                                         *)
LEMMA ConsumerPc ==
  ASSUME ThreadTypes
  PROVE  \A pc : ConsumerTo(pc) =>
           consumer'.pc = pc /\ consumer'.op = consumer.op /\ consumer'.value = consumer.value
BY DEF ThreadTypes, ConsumerTo

(* A step that changes the blocks in nothing and the threads in nothing    *)
(* that the contents depend on.                                            *)
LEMMA ControlStill ==
  ASSUME BlockTypes, ThreadTypes,
         UNCHANGED <<blocks, frontBlock, tailBlock, largestBlockSize, sent, taken>>,
         \/ /\ consumer' = consumer
            /\ producer.pc \notin {"publish", "publishNext", "link", "advance"}
            /\ producer'.pc \notin {"publish", "publishNext", "link", "advance"}
         \/ producer' = producer /\ consumer.pc # "release" /\ consumer'.pc # "release"
         \/ producer' = producer /\ consumer' = consumer
  PROVE  Still /\ BlockTypes' /\ \A b \in Blk : SameCopies(b)
BY DEF Still, BlockTypes, SameEnds, SameNext, SameData, SameCopies, Blk

(* The steps that change no block.                                         *)
QuietProducer == \/ \E canAlloc \in BOOLEAN : Enqueue(canAlloc)
                 \/ CheckNext \/ NoMemory \/ SignalCount \/ SignalSema
QuietConsumer == \/ \E op \in ConsumerOps : Call(op)
                 \/ Size \/ TryWait \/ Spin \/ TakeCount \/ Decrement \/ SemaWait \/ TimeOut
                 \/ Restore \/ DecrementAgain \/ SemaTry \/ CheckFront \/ CheckTailBlock
                 \/ PeekNext
                 \/ (Peeks /\ (ReadNextBlock \/ TakeElement))

(* The quiet steps change nothing that the contents depend on ...          *)
LEMMA QuietStill ==
  ASSUME BlockTypes, ThreadTypes, QuietProducer \/ QuietConsumer
  PROVE  Still /\ BlockTypes' /\ \A b \in Blk : SameCopies(b)
<1>1. CASE QuietProducer
  <2>1. UNCHANGED <<blocks, frontBlock, tailBlock, largestBlockSize, sent, taken, consumer>>
    BY <1>1 DEF QuietProducer, Enqueue, CheckNext, NoMemory, SignalCount, SignalSema, ProducerAt
  <2>2. /\ producer.pc \notin {"publish", "publishNext", "link", "advance"}
        /\ producer'.pc \notin {"publish", "publishNext", "link", "advance"}
    <3>1. CASE \E canAlloc \in BOOLEAN : Enqueue(canAlloc)
      BY <3>1 DEF Enqueue, ProducerAt
    <3>2. CASE CheckNext \/ NoMemory \/ SignalCount \/ SignalSema
      BY <3>2, ProducerPc DEF CheckNext, NoMemory, SignalCount, SignalSema, ProducerAt
    <3>3. QED
      BY <1>1, <3>1, <3>2 DEF QuietProducer
  <2>3. QED
    BY <2>1, <2>2, ControlStill
<1>2. CASE QuietConsumer
  <2>1. UNCHANGED <<blocks, frontBlock, tailBlock, largestBlockSize, sent, taken, producer>>
    BY <1>2
       DEF QuietConsumer, Call, Size, TryWait, Spin, TakeCount, Decrement, SemaWait, TimeOut,
           Restore, DecrementAgain, SemaTry, CheckFront, CheckTailBlock, PeekNext, ReadNextBlock,
           TakeElement, ConsumerAt
  <2>2. consumer.pc # "release" /\ consumer'.pc # "release"
    <3>1. CASE \E op \in ConsumerOps : Call(op)
      BY <3>1 DEF Call, ConsumerAt
    <3>2. CASE PeekNext
      BY <3>2 DEF PeekNext, ConsumerAt, ThreadTypes
    <3>3. CASE Peeks /\ TakeElement
      BY <3>3 DEF TakeElement, ConsumerAt, ThreadTypes
    <3>4. CASE Size \/ TryWait \/ Spin \/ TakeCount \/ Decrement \/ SemaWait \/ TimeOut
               \/ Restore \/ DecrementAgain \/ SemaTry \/ CheckFront \/ CheckTailBlock
               \/ (Peeks /\ ReadNextBlock)
      BY <3>4, ConsumerPc
         DEF Size, TryWait, Spin, TakeCount, Decrement, SemaWait, TimeOut, Restore,
             DecrementAgain, SemaTry, CheckFront, CheckTailBlock, ReadNextBlock, ConsumerAt
    <3>5. QED
      BY <1>2, <3>1, <3>2, <3>3, <3>4 DEF QuietConsumer
  <2>3. QED
    BY <2>1, <2>2, ControlStill
<1>3. QED
  BY <1>1, <1>2

(* ... and neither do the steps that renew a thread's copy of an end.      *)
LEMMA ReadingStill ==
  ASSUME BlockTypes, ThreadTypes, NEW pc, NEW otherwise, pc # "release", otherwise # "release",
         ReadFront \/ ReadTail(pc, otherwise) \/ (~ Peeks /\ ReadNextBlock)
  PROVE  Still /\ BlockTypes'
<1>1. CASE ReadFront
  <2>1. /\ BlockTypes' /\ Blk' = Blk /\ Len(blocks') = Len(blocks)
        /\ \A b \in Blk : SameEnds(b) /\ SameNext(b) /\ SameData(b)
    BY <1>1, ReadFrontView
  <2>2. producer'.pc \in {"store", "next"} /\ producer.pc = "front"
    BY <1>1, ProducerPc DEF ReadFront, ProducerAt
  <2>3. UNCHANGED <<frontBlock, tailBlock, sent, taken, consumer>>
    BY <1>1 DEF ReadFront, ProducerAt
  <2>4. QED
    BY <2>1, <2>2, <2>3 DEF Still
<1>2. CASE ReadTail(pc, otherwise)
  <2>1. /\ BlockTypes' /\ Blk' = Blk /\ Len(blocks') = Len(blocks)
        /\ \A b \in Blk : SameEnds(b) /\ SameNext(b) /\ SameData(b)
    BY <1>2, ReadTailView
  <2>2. consumer'.pc \in {"take", otherwise} /\ consumer.pc = pc
    BY <1>2, ConsumerPc DEF ReadTail, ConsumerAt
  <2>3. UNCHANGED <<frontBlock, tailBlock, sent, taken, producer>>
    BY <1>2 DEF ReadTail, ConsumerAt
  <2>4. QED
    BY <2>1, <2>2, <2>3 DEF Still
<1>3. CASE ~ Peeks /\ ReadNextBlock
  <2>1. /\ BlockTypes' /\ Blk' = Blk /\ Len(blocks') = Len(blocks)
        /\ \A b \in Blk : SameEnds(b) /\ SameNext(b) /\ SameData(b)
    BY <1>3, ReadNextView
  <2>2. consumer'.pc \in {"peekNext", "advance"} /\ consumer.pc = "nextBlock"
    BY <1>3, ConsumerPc DEF ReadNextBlock, ConsumerAt
  <2>3. UNCHANGED <<frontBlock, tailBlock, sent, taken, producer>>
    BY <1>3 DEF ReadNextBlock, ConsumerAt
  <2>4. QED
    BY <2>1, <2>2, <2>3 DEF Still
<1>4. QED
  BY <1>1, <1>2, <1>3

-----------------------------------------------------------------------------
(* What follows from the invariant.                                        *)

(* The occupied places of a block.                                         *)
LEMMA OccupiedIs ==
  ASSUME BlockTypes
  PROVE  \A b \in Blk : /\ Occupied(b) \subseteq 0 .. blocks[b].size - 1
                        /\ blocks[b].tail \notin Occupied(b)
                        /\ blocks[b].front # blocks[b].tail <=> blocks[b].front \in Occupied(b)
                        /\ blocks[b].front = blocks[b].tail => Occupied(b) = {}
BY BlockIs, BetweenIs DEF Occupied

(* There is an element left when the ends do not meet or there is another  *)
(* block to go to.                                                         *)
LEMMA LowestBelow ==
  ASSUME ThreadTypes, Numbered, InOrder
  PROVE  /\ Lowest <= sent + 1
         /\ frontBlock # tailBlock \/ Front.front # Front.tail => Lowest <= sent
<1>1. First(Lowest) /\ Lowest \in Nat /\ sent \in Nat
  BY LowestIs, Numbers DEF InOrder, ThreadTypes
<1>2. QED
  BY <1>1 DEF First, AtFront, Numbered

(* When the consumer is in another block, the producer's is not empty.     *)
LEMMA TailHolds ==
  ASSUME BlockTypes, ThreadTypes, Numbered, Complete, InOrder, frontBlock # tailBlock
  PROVE  Back.front # Back.tail
<1>1. Lowest <= sent /\ sent \in Nat /\ Lowest \in Nat
  BY LowestBelow, LowestIs DEF ThreadTypes
<1>2. PICK b, i : Holds(b, i, sent)
  BY <1>1 DEF Complete
<1>3. \A c, j : ~ Holds(c, j, sent + 1)
  BY <1>1 DEF Numbered
<1>4. b = tailBlock
  BY <1>2, <1>3, OrderIs DEF Follows, AtFront
<1>5. QED
  BY <1>2, <1>4, OccupiedIs DEF Holds, Back, Reached, Blk

(* The block after the producer's is empty unless it is the consumer's, so *)
(* it may be written.                                                      *)
LEMMA NextEmpty ==
  ASSUME BlockTypes, ThreadTypes, Ring, Numbered, Unique, Complete, InOrder,
         Reached = Blk, Linked = Blk, Back.next # frontBlock
  PROVE  blocks[Back.next].front = blocks[Back.next].tail /\ Back.next # tailBlock
<1>1. PICK c, w : c = Back.next /\ w = ElementAt(c, blocks[c].front)
  OBVIOUS
<1>2. tailBlock \in Blk /\ frontBlock \in Blk /\ c \in Blk
  BY <1>1, BlockIs DEF BlockTypes, Back
<1>3. ASSUME blocks[c].front # blocks[c].tail PROVE FALSE
  <2>1. Holds(c, blocks[c].front, w)
    BY <1>1, <1>2, <1>3, OccupiedIs DEF Holds
  <2>2. w \in Nat /\ Lowest <= w /\ w <= sent /\ Lowest \in Nat /\ sent \in Nat
    BY <2>1, LowestIs DEF Numbered, ThreadTypes
  <2>3. CASE w = Lowest
    <3>1. First(w)
      BY <2>3 DEF InOrder
    <3>2. CASE AtFront(frontBlock, w)
      BY <1>1, <2>1, <3>2 DEF Unique, AtFront
    <3>3. CASE frontBlock # tailBlock /\ AtFront(Front.next, w)
      <4>1. Front.next = c
        BY <2>1, <3>3 DEF Unique, AtFront
      <4>2. QED
        BY <1>1, <1>2, <3>3, <4>1 DEF Ring, Front, Back
    <3>4. QED
      BY <2>2, <3>1, <3>2, <3>3 DEF First
  <2>4. CASE w # Lowest
    <3>1. w - 1 \in Lowest .. sent
      BY <2>2, <2>4
    <3>2. PICK b, i : Holds(b, i, w - 1)
      BY <3>1 DEF Complete
    <3>3. Follows(b, i, w) /\ b \in Blk /\ i \in Occupied(b)
      BY <2>2, <3>2, OrderIs DEF Holds
    <3>4. CASE Holds(b, After(i, blocks[b].size), w)
      <4>1. b = c /\ After(i, blocks[b].size) = blocks[c].front
        BY <2>1, <3>4 DEF Unique
      <4>2. QED
        BY <3>3, <4>1, BlockIs, NextBetween DEF Occupied
    <3>5. CASE b # tailBlock /\ AtFront(blocks[b].next, w)
      <4>1. blocks[b].next = c
        BY <2>1, <3>5 DEF Unique, AtFront
      <4>2. QED
        BY <1>1, <1>2, <3>3, <3>5, <4>1 DEF Ring, Back
    <3>6. QED
      BY <2>2, <3>3, <3>4, <3>5 DEF Follows
  <2>5. QED
    BY <2>3, <2>4
<1>4. c # tailBlock
  BY <1>1, <1>3, TailHolds DEF Back
<1>5. QED
  BY <1>1, <1>3, <1>4

(* When the consumer's copy of the tail says that its block is not empty,  *)
(* it is not.                                                              *)
LEMMA FrontHolds ==
  ASSUME BlockTypes, Copies, ConsumerInv
  PROVE  /\ Front.front # Front.localTail => Front.front # Front.tail
         /\ consumer.pc \in {"take", "release"} => Front.front # Front.tail
<1>1. Front.front # Front.localTail => Front.front # Front.tail
  BY OccupiedIs DEF Copies, Front, BlockTypes
<1>2. QED
  BY <1>1 DEF ConsumerInv

(* A step that moves no element keeps their order, if it keeps the links   *)
(* and ends of the blocks that hold some.                                  *)
LEMMA OrderKept ==
  ASSUME BlockTypes, InOrder, Blk \subseteq Blk',
         \A b \in Blk : blocks'[b].size = blocks[b].size /\ blocks'[b].front = blocks[b].front,
         \A b \in Blk : b # tailBlock => SameNext(b),
         \A b \in Blk : b = frontBlock \/ (\E i, v : Holds(b, i, v)) =>
                          blocks'[b].tail = blocks[b].tail,
         \A b, i, v : Holds(b, i, v)' <=> Holds(b, i, v),
         frontBlock' = frontBlock, tailBlock' = tailBlock, sent' = sent, Lowest' = Lowest
  PROVE  InOrder'
<1>1. /\ tailBlock \in Blk /\ frontBlock \in Blk
      /\ \A b \in Blk : blocks[b].next \in Blk
  BY BlockIs DEF BlockTypes
<1>2. First(Lowest)'
  BY <1>1 DEF InOrder, First, Front, AtFront, SameNext
<1>3. \A b, i, v : Holds(b, i, v) => b \in Blk
  BY DEF Holds, Reached, Blk
<1>4. \A b, i, v : Holds(b, i, v) => Follows(b, i, v + 1)
  BY OrderIs
<1>5. ASSUME NEW b, NEW i, NEW v, Holds(b, i, v) PROVE Follows(b, i, v + 1)'
  BY <1>1, <1>3, <1>4, <1>5 DEF Follows, AtFront, SameNext
<1>6. \A b, i, v : Holds(b, i, v)' => Follows(b, i, v + 1)'
  BY <1>5
<1>7. QED
  BY <1>2, <1>6 DEF InOrder, Holds

(* A step that leaves ends and copies alone keeps what is known of them.   *)
LEMMA CopiesStill ==
  ASSUME BlockTypes, Copies, Blk' = Blk, \A b \in Blk : SameEnds(b) /\ SameCopies(b)
  PROVE  Copies'
BY DEF Copies, SameEnds, SameCopies, Occupied

-----------------------------------------------------------------------------
(* Steps that move elements, or what they are in.                          *)

(* StoreElement writes a free place.                                       *)
LEMMA StorePlaces ==
  ASSUME BlockTypes, ThreadTypes, Places, ProducerInv, StoreElement
  PROVE  BlockTypes' /\ Places'
<1>1. PICK t : t = tailBlock
  OBVIOUS
<1>2. /\ producer.pc = "store" /\ producer'.pc = "publish" /\ consumer' = consumer
      /\ UNCHANGED <<frontBlock, tailBlock, sent, taken>>
  BY ProducerPc DEF StoreElement, ProducerAt
<1>3. /\ BlockTypes' /\ Blk' = Blk /\ Len(blocks') = Len(blocks)
      /\ \A b \in Blk : SameEnds(b) /\ SameCopies(b) /\ SameNext(b)
      /\ \A b \in Blk : b # t => SameData(b)
      /\ blocks'[t].data = [blocks[t].data EXCEPT ![blocks[t].tail] = sent + 1]
  BY <1>1, StoreView DEF ProducerInv
<1>4. t \in Blk /\ frontBlock \in Blk
  BY <1>1 DEF BlockTypes
<1>5. /\ Unreached' = {} /\ Unreached = {} /\ Reached' = Blk /\ Reached = Blk
      /\ Linked' = Blk /\ Linked = Blk
  BY <1>2, <1>3 DEF Unreached, Reached, Linked, Unlinked, Blk
<1>6. \A b \in Blk : Occupied(b)' = Occupied(b)
  BY <1>3 DEF Occupied, SameEnds
<1>7. \A b \in Blk : \A i \in 0 .. blocks[b].size - 1 :
        ~ (b = t /\ i = blocks[t].tail) => blocks'[b].data[i] = blocks[b].data[i]
  BY <1>3, <1>4, BlockIs DEF SameData
<1>8. \A b \in Blk : \A i \in Occupied(b) : ElementAt(b, i)' = ElementAt(b, i)
  BY <1>2, <1>3, <1>7, OccupiedIs DEF ElementAt, SameEnds
<1>9. \A b, i, v : Holds(b, i, v)' <=> Holds(b, i, v)
  BY <1>5, <1>6, <1>8 DEF Holds
<1>10. Numbered' /\ Unique' /\ Complete' /\ Lowest' = Lowest
  BY <1>2, <1>9, HoldsKept DEF Places
<1>11. Ring'
  BY <1>2, <1>3, <1>4, <1>5 DEF Places, Ring, SameNext
<1>12. Copies'
  BY <1>3, CopiesStill DEF Places
<1>13. Free'
  BY <1>1, <1>2, <1>3, <1>6, <1>7 DEF Places, Free, Writing, SameEnds
<1>14. InOrder'
  BY <1>2, <1>3, <1>9, <1>10, OrderKept DEF Places, SameEnds
<1>15. QED
  BY <1>3, <1>10, <1>11, <1>12, <1>13, <1>14 DEF Places

(* UseNextBlock writes a place of an empty block.                          *)
LEMMA UseNextPlaces ==
  ASSUME BlockTypes, ThreadTypes, Places, ProducerInv, UseNextBlock
  PROVE  BlockTypes' /\ Places'
<1>1. PICK t : t = blocks[tailBlock].next
  OBVIOUS
<1>2. /\ producer.pc = "useNext" /\ producer'.pc = "publishNext" /\ consumer' = consumer
      /\ UNCHANGED <<frontBlock, tailBlock, sent, taken>>
  BY ProducerPc DEF UseNextBlock, ProducerAt
<1>3. /\ BlockTypes' /\ Blk' = Blk /\ Len(blocks') = Len(blocks)
      /\ \A b \in Blk : SameEnds(b) /\ SameNext(b)
      /\ \A b \in Blk : b # t => SameCopies(b) /\ SameData(b)
      /\ blocks'[t].localTail = blocks[t].localTail
      /\ blocks'[t].localFront = blocks[t].front
      /\ blocks'[t].data = [blocks[t].data EXCEPT ![blocks[t].tail] = sent + 1]
  BY <1>1, UseNextView DEF ProducerInv
<1>4. t \in Blk /\ frontBlock \in Blk /\ tailBlock \in Blk
  BY <1>1, BlockIs DEF BlockTypes
<1>5. /\ Unreached' = {} /\ Unreached = {} /\ Reached' = Blk /\ Reached = Blk
      /\ Linked' = Blk /\ Linked = Blk
  BY <1>2, <1>3 DEF Unreached, Reached, Linked, Unlinked, Blk
<1>6. \A b \in Blk : Occupied(b)' = Occupied(b)
  BY <1>3 DEF Occupied, SameEnds
<1>7. \A b \in Blk : \A i \in 0 .. blocks[b].size - 1 :
        ~ (b = t /\ i = blocks[t].tail) => blocks'[b].data[i] = blocks[b].data[i]
  BY <1>3, <1>4, BlockIs DEF SameData
<1>8. \A b \in Blk : \A i \in Occupied(b) : ElementAt(b, i)' = ElementAt(b, i)
  BY <1>2, <1>3, <1>7, OccupiedIs DEF ElementAt, SameEnds
<1>9. \A b, i, v : Holds(b, i, v)' <=> Holds(b, i, v)
  BY <1>5, <1>6, <1>8 DEF Holds
<1>10. Numbered' /\ Unique' /\ Complete' /\ Lowest' = Lowest
  BY <1>2, <1>9, HoldsKept DEF Places
<1>11. Ring'
  BY <1>2, <1>3, <1>4, <1>5 DEF Places, Ring, SameNext
<1>12. Copies'
  <2>1. blocks[t].front \in Between(blocks[t].front, blocks[t].tail, blocks[t].size)
          \cup {blocks[t].tail}
    BY <1>4, OccupiedIs DEF Occupied
  <2>2. QED
    BY <1>3, <1>4, <1>6, <2>1 DEF Places, Copies, SameEnds, SameCopies
<1>13. Free'
  BY <1>1, <1>2, <1>3, <1>4, <1>6, <1>7 DEF Places, Free, Writing, SameEnds, SameNext, Back
<1>14. InOrder'
  BY <1>2, <1>3, <1>9, <1>10, OrderKept DEF Places, SameEnds
<1>15. QED
  BY <1>3, <1>10, <1>11, <1>12, <1>13, <1>14 DEF Places

(* TakeElement empties a place that counts as occupied until the front     *)
(* moves.                                                                  *)
LEMMA TakePlaces ==
  ASSUME BlockTypes, ThreadTypes, Places, TakeElement, ~ Peeks
  PROVE  BlockTypes' /\ Places'
<1>1. PICK t : t = frontBlock
  OBVIOUS
<1>2. /\ consumer.pc = "take" /\ consumer'.pc = "release" /\ producer' = producer
      /\ consumer'.value = blocks[t].data[blocks[t].front]
      /\ UNCHANGED <<frontBlock, tailBlock, sent, taken>>
  BY <1>1 DEF TakeElement, ConsumerAt, ThreadTypes, Front
<1>3. /\ BlockTypes' /\ Blk' = Blk /\ Len(blocks') = Len(blocks)
      /\ \A b \in Blk : SameEnds(b) /\ SameCopies(b) /\ SameNext(b)
      /\ \A b \in Blk : b # t => SameData(b)
      /\ blocks'[t].data = [blocks[t].data EXCEPT ![blocks[t].front] = None]
  BY <1>1, TakeView
<1>4. t \in Blk /\ tailBlock \in Blk
  BY <1>1 DEF BlockTypes
<1>5. Unreached' = Unreached /\ Reached' = Reached /\ Linked' = Linked /\ Reached \subseteq Blk
  BY <1>2, <1>3, <1>4 DEF Unreached, Reached, Linked, Unlinked, Blk, Back, SameNext
<1>6. \A b \in Blk : Occupied(b)' = Occupied(b)
  BY <1>3 DEF Occupied, SameEnds
<1>7. /\ \A b \in Blk : \A i \in 0 .. blocks[b].size - 1 :
           ~ (b = t /\ i = blocks[t].front) => blocks'[b].data[i] = blocks[b].data[i]
      /\ blocks'[t].data[blocks[t].front] = None
  BY <1>3, <1>4, BlockIs DEF SameData
<1>8. \A b \in Blk : \A i \in Occupied(b) : ElementAt(b, i)' = ElementAt(b, i)
  BY <1>1, <1>2, <1>3, <1>7, OccupiedIs DEF ElementAt, SameEnds
<1>9. \A b, i, v : Holds(b, i, v)' <=> Holds(b, i, v)
  BY <1>5, <1>6, <1>8 DEF Holds
<1>10. Numbered' /\ Unique' /\ Complete' /\ Lowest' = Lowest
  BY <1>2, <1>9, HoldsKept DEF Places
<1>11. Ring'
  BY <1>2, <1>3, <1>4, <1>5 DEF Places, Ring, SameNext, Linked
<1>12. Copies'
  BY <1>3, CopiesStill DEF Places
<1>13. Free'
  <2>1. \A b \in Blk : \A i : Writing(b, i)' <=> Writing(b, i)
    BY <1>2, <1>3, <1>4 DEF Writing, SameEnds, SameNext, Back
  <2>2. ASSUME NEW b \in Blk, NEW i \in 0 .. blocks[b].size - 1,
               i \notin Occupied(b), ~ Writing(b, i)
        PROVE  blocks'[b].data[i] = None
    BY <1>7, <2>2 DEF Places, Free
  <2>3. \A b \in Blk : blocks'[b].size = blocks[b].size
    BY <1>3 DEF SameEnds
  <2>4. QED
    BY <1>3, <1>6, <2>1, <2>2, <2>3 DEF Free
<1>14. InOrder'
  BY <1>2, <1>3, <1>9, <1>10, OrderKept DEF Places, SameEnds
<1>15. QED
  BY <1>3, <1>10, <1>11, <1>12, <1>13, <1>14 DEF Places

(* PublishInNextBlock fills a block that the consumer cannot come to yet.  *)
LEMMA PublishNextPlaces ==
  ASSUME BlockTypes, ThreadTypes, Places, ProducerInv, PublishInNextBlock
  PROVE  BlockTypes' /\ Places' /\ \A c \in Unreached' : Pending(c)'
<1>1. PICK t, x : t = blocks[tailBlock].next /\ x = blocks[t].tail
  OBVIOUS
<1>2. /\ producer.pc = "publishNext" /\ producer'.pc = "advance" /\ consumer' = consumer
      /\ UNCHANGED <<frontBlock, tailBlock, sent, taken>>
  BY ProducerPc DEF PublishInNextBlock, ProducerAt
<1>3. /\ BlockTypes' /\ Blk' = Blk /\ Len(blocks') = Len(blocks)
      /\ \A b \in Blk : SameCopies(b) /\ SameNext(b) /\ SameData(b)
      /\ \A b \in Blk : b # t => SameEnds(b)
      /\ blocks'[t].size = blocks[t].size /\ blocks'[t].front = blocks[t].front
      /\ blocks'[t].tail = After(x, blocks[t].size)
  BY <1>1, PublishNextView
<1>4. t \in Blk /\ frontBlock \in Blk /\ tailBlock \in Blk
  BY <1>1, BlockIs DEF BlockTypes
<1>5. /\ Unreached' = {t} /\ Unreached = {} /\ Reached' = Blk \ {t} /\ Reached = Blk
      /\ Linked' = Blk /\ Linked = Blk
  BY <1>1, <1>2, <1>3, <1>4 DEF Unreached, Reached, Linked, Unlinked, Blk, Back, SameNext
<1>6. /\ t # frontBlock /\ t # tailBlock
      /\ blocks[t].front = x /\ blocks[t].data[x] = sent + 1
      /\ After(x, blocks[t].size) # blocks[t].localFront
  <2>1. /\ t # frontBlock /\ blocks[t].front = x /\ blocks[t].data[x] = sent + 1
        /\ After(x, blocks[t].size) # blocks[t].localFront
    BY <1>1, <1>2 DEF ProducerInv, Back, NextTail
  <2>2. t # tailBlock
    BY <1>1, <1>5, <2>1, NextEmpty DEF Places, Back
  <2>3. QED
    BY <2>1, <2>2
<1>7. \A b \in Blk : b # t => Occupied(b)' = Occupied(b)
  BY <1>3 DEF Occupied, SameEnds
<1>8. /\ blocks[t].size \in Nat \ {0, 1} /\ x \in 0 .. blocks[t].size - 1
      /\ blocks[t].front \in 0 .. blocks[t].size - 1
      /\ blocks[t].localFront \in 0 .. blocks[t].size - 1
      /\ After(x, blocks[t].size) # x
  BY <1>1, <1>4, BlockIs, AfterIs
<1>9. Occupied(t) = {} /\ Occupied(t)' = {x}
  <2>1. Occupied(t) = {}
    BY <1>1, <1>4, <1>6, OccupiedIs
  <2>2. Between(blocks[t].front, After(x, blocks[t].size), blocks[t].size)
          = Between(blocks[t].front, x, blocks[t].size) \cup {x}
    BY <1>6, <1>8, PushBetween
  <2>3. QED
    BY <1>1, <1>3, <2>1, <2>2 DEF Occupied
<1>10. \A b \in Blk : \A i \in Occupied(b) : ElementAt(b, i)' = ElementAt(b, i)
  BY <1>2, <1>3, <1>4, <1>9 DEF ElementAt, SameEnds, SameData
<1>11. \A b, i, v : Holds(b, i, v)' <=> Holds(b, i, v)
  BY <1>5, <1>7, <1>9, <1>10 DEF Holds
<1>12. Numbered' /\ Unique' /\ Complete' /\ Lowest' = Lowest
  BY <1>2, <1>11, HoldsKept DEF Places
<1>13. Ring'
  BY <1>2, <1>3, <1>4, <1>5, <1>6 DEF Places, Ring, SameNext
<1>14. Copies'
  <2>1. Between(blocks[t].localFront, After(x, blocks[t].size), blocks[t].size)
          = Between(blocks[t].localFront, x, blocks[t].size) \cup {x}
    BY <1>6, <1>8, PushBetween
  <2>2. blocks[t].localTail = x
    BY <1>1, <1>4, <1>9 DEF Places, Copies
  <2>3. /\ blocks'[t].localTail \in Occupied(t)' \cup {blocks'[t].tail}
        /\ blocks'[t].front \in
             Between(blocks'[t].localFront, blocks'[t].tail, blocks'[t].size)
               \cup {blocks'[t].tail}
    BY <1>3, <1>4, <1>6, <1>9, <2>1, <2>2 DEF SameCopies
  <2>4. ASSUME NEW b \in Blk, b # t
        PROVE  /\ blocks'[b].localTail \in Occupied(b)' \cup {blocks'[b].tail}
               /\ blocks'[b].front \in
                    Between(blocks'[b].localFront, blocks'[b].tail, blocks'[b].size)
                      \cup {blocks'[b].tail}
    BY <1>3, <1>7, <2>4 DEF Places, Copies, SameEnds, SameCopies
  <2>5. QED
    BY <1>3, <2>3, <2>4 DEF Copies
<1>15. Free'
  <2>1. ASSUME NEW b \in Blk, NEW i \in 0 .. blocks[b].size - 1, i \notin Occupied(b)'
        PROVE  blocks'[b].data[i] = None
    <3>1. i \notin Occupied(b) /\ ~ Writing(b, i)
      <4>1. CASE b = t
        BY <1>1, <1>9, <2>1, <4>1 DEF Writing
      <4>2. CASE b # t
        BY <1>1, <1>2, <1>7, <2>1, <4>2 DEF Writing, Back
      <4>3. QED
        BY <4>1, <4>2
    <3>2. QED
      BY <1>3, <2>1, <3>1 DEF Places, Free, SameData
  <2>2. \A b \in Blk : blocks'[b].size = blocks[b].size
    BY <1>3 DEF SameEnds
  <2>3. QED
    BY <1>3, <2>1, <2>2 DEF Free
<1>16. InOrder'
  <2>1. \A i, v : ~ Holds(t, i, v)
    BY <1>9 DEF Holds
  <2>2. QED
    BY <1>2, <1>3, <1>6, <1>11, <1>12, <2>1, OrderKept DEF Places, SameEnds
<1>17. Pending(t)'
  BY <1>1, <1>2, <1>3, <1>4, <1>6, <1>8 DEF Pending, SameData
<1>18. QED
  BY <1>3, <1>5, <1>12, <1>13, <1>14, <1>15, <1>16, <1>17 DEF Places

(* NewBlock adds a block that the consumer cannot come to yet.             *)
LEMMA NewBlockPlaces ==
  ASSUME BlockTypes, ThreadTypes, Places, ProducerInv, NewBlock
  PROVE  /\ BlockTypes' /\ Places' /\ \A c \in Unreached' : Pending(c)'
         /\ Blk \subseteq Blk' /\ \A b \in Blk : SameBlock(b)
         /\ blocks'[Len(blocks')].next = blocks[tailBlock].next
<1>1. PICK t : t = Len(blocks) + 1
  OBVIOUS
<1>2. /\ producer.pc = "newBlock" /\ producer'.pc = "link" /\ consumer' = consumer
      /\ UNCHANGED <<frontBlock, tailBlock, sent, taken>>
  BY ProducerPc DEF NewBlock, ProducerAt
<1>3. /\ BlockTypes' /\ Blk' = Blk \cup {t} /\ Len(blocks') = t /\ t \notin Blk
      /\ \A b \in Blk : SameBlock(b)
      /\ blocks'[t].size \in Nat \ {0, 1}
      /\ blocks'[t].front = 0 /\ blocks'[t].tail = 1
      /\ blocks'[t].localTail = 1 /\ blocks'[t].localFront = 0
      /\ blocks'[t].next = blocks[tailBlock].next
      /\ blocks'[t].data[0] = sent + 1
      /\ \A i \in 0 .. blocks'[t].size - 1 : i # 0 => blocks'[t].data[i] = None
  BY <1>1, NewBlockView DEF ProducerInv
<1>4. frontBlock \in Blk /\ tailBlock \in Blk /\ \A b \in Blk : blocks[b].next \in Blk
  BY BlockIs DEF BlockTypes
<1>5. /\ Unreached' = {t} /\ Unreached = {} /\ Reached' = Blk /\ Reached = Blk
      /\ Linked' = Blk /\ Linked = Blk
  <2>1. Unreached = {} /\ Unlinked = {}
    BY <1>2 DEF Unreached, Unlinked
  <2>2. Unreached' = {t} /\ Unlinked' = {t}
    BY <1>2, <1>3 DEF Unreached, Unlinked, Blk
  <2>3. Reached = Blk /\ Linked = Blk
    BY <2>1 DEF Reached, Linked, Blk
  <2>4. Reached' = Blk' \ {t} /\ Linked' = Blk' \ {t}
    BY <2>2 DEF Reached, Linked, Blk
  <2>5. QED
    BY <1>3, <2>1, <2>2, <2>3, <2>4
<1>6. \A b \in Blk : Occupied(b)' = Occupied(b)
  BY <1>3 DEF Occupied, SameBlock, SameEnds
<1>7. Occupied(t)' = {0} /\ Between(0, 1, blocks'[t].size) = {0}
  BY <1>3 DEF Occupied, Between
<1>8. \A b \in Blk : \A i \in Occupied(b) : ElementAt(b, i)' = ElementAt(b, i)
  BY <1>2, <1>3 DEF ElementAt, SameBlock, SameEnds, SameData
<1>9. \A b, i, v : Holds(b, i, v)' <=> Holds(b, i, v)
  BY <1>5, <1>6, <1>8 DEF Holds
<1>10. Numbered' /\ Unique' /\ Complete' /\ Lowest' = Lowest
  BY <1>2, <1>9, HoldsKept DEF Places
<1>11. Ring'
  BY <1>2, <1>3, <1>4, <1>5 DEF Places, Ring, SameBlock, SameNext
<1>12. Copies'
  <2>1. \A b \in Blk : 
          /\ blocks'[b].localTail \in Occupied(b)' \cup {blocks'[b].tail}
          /\ blocks'[b].front \in
               Between(blocks'[b].localFront, blocks'[b].tail, blocks'[b].size)
                 \cup {blocks'[b].tail}
    BY <1>3, <1>6 DEF Places, Copies, SameBlock, SameEnds, SameCopies
  <2>2. QED
    BY <1>3, <1>7, <2>1 DEF Copies
<1>13. Free'
  BY <1>2, <1>3, <1>6, <1>7 DEF Places, Free, Writing, SameBlock, SameEnds, SameData
<1>14. InOrder'
  BY <1>2, <1>3, <1>9, <1>10, OrderKept DEF Places, SameBlock, SameEnds
<1>15. Pending(t)'
  <2>1. After(0, blocks'[t].size) = 1
    BY <1>3, AfterIs
  <2>2. QED
    BY <1>2, <1>3, <2>1 DEF Pending
<1>16. QED
  BY <1>3, <1>5, <1>10, <1>11, <1>12, <1>13, <1>14, <1>15 DEF Places

(* LinkBlock puts the new block into the circle, after the producer's,     *)
(* whose element was the last: the order stays as it was.                  *)
LEMMA LinkPlaces ==
  ASSUME BlockTypes, ThreadTypes, Places, ProducerInv, LinkBlock
  PROVE  /\ BlockTypes' /\ Places' /\ Unreached' = Unreached /\ Blk' = Blk
         /\ \A b \in Blk : SameEnds(b) /\ SameCopies(b) /\ SameData(b)
         /\ \A b \in Blk : b # tailBlock => SameNext(b)
         /\ blocks'[tailBlock].next # frontBlock
<1>1. PICK t, n : t = tailBlock /\ n = Len(blocks)
  OBVIOUS
<1>2. /\ producer.pc = "link" /\ producer'.pc = "advance" /\ consumer' = consumer
      /\ UNCHANGED <<frontBlock, tailBlock, sent, taken>>
  BY ProducerPc DEF LinkBlock, ProducerAt
<1>3. /\ BlockTypes' /\ Blk' = Blk /\ Len(blocks') = Len(blocks)
      /\ \A b \in Blk : SameEnds(b) /\ SameCopies(b) /\ SameData(b)
      /\ \A b \in Blk : b # t => SameNext(b)
      /\ blocks'[t].next = n
  BY <1>1, LinkView
<1>4. /\ t \in Blk /\ frontBlock \in Blk /\ n \in Blk /\ n = Len(blocks)
      /\ \A b \in Blk : blocks[b].next \in Blk
  BY <1>1, BlockIs DEF BlockTypes
<1>5. /\ Unreached' = {n} /\ Unreached = {n} /\ Reached' = Blk \ {n} /\ Reached = Blk \ {n}
      /\ Linked' = Blk /\ Linked = Blk \ {n}
  <2>1. Unreached = {n} /\ Unlinked = {n}
    BY <1>1, <1>2, <1>4 DEF Unreached, Unlinked, Blk
  <2>2. Unreached' = {n} /\ Unlinked' = {}
    BY <1>1, <1>2, <1>3, <1>4 DEF Unreached, Unlinked, Blk, Back
  <2>3. Reached = Blk \ {n} /\ Linked = Blk \ {n}
    BY <2>1 DEF Reached, Linked, Blk
  <2>4. Reached' = Blk' \ {n} /\ Linked' = Blk'
    BY <2>2 DEF Reached, Linked, Blk
  <2>5. QED
    BY <1>3, <2>1, <2>2, <2>3, <2>4
<1>6. frontBlock # n /\ t # n
  BY <1>1, <1>5 DEF Places, Ring
<1>7. \A b \in Blk : Occupied(b)' = Occupied(b)
  BY <1>3 DEF Occupied, SameEnds
<1>8. \A b \in Blk : \A i \in Occupied(b) : ElementAt(b, i)' = ElementAt(b, i)
  BY <1>2, <1>3 DEF ElementAt, SameEnds, SameData
<1>9. \A b, i, v : Holds(b, i, v)' <=> Holds(b, i, v)
  BY <1>5, <1>7, <1>8 DEF Holds
<1>10. Numbered' /\ Unique' /\ Complete' /\ Lowest' = Lowest
  BY <1>2, <1>9, HoldsKept DEF Places
<1>11. Ring'
  <2>1. blocks[n].next = blocks[t].next
    BY <1>1, <1>2 DEF ProducerInv, Back
  <2>2. /\ \A b, c \in Blk \ {n} : blocks[b].next = blocks[c].next => b = c
        /\ \A b \in Blk \ {n} : blocks[b].next \in Blk \ {n}
    BY <1>5 DEF Places, Ring
  <2>3. \A b \in Blk : blocks'[b].next = IF b = t THEN n ELSE blocks[b].next
    BY <1>3 DEF SameNext
  <2>4. \A b, c \in Blk : blocks'[b].next = blocks'[c].next => b = c
    BY <1>4, <1>6, <2>1, <2>2, <2>3
  <2>5. \A b \in Blk : blocks'[b].next \in Blk
    BY <1>4, <2>3
  <2>6. QED
    BY <1>1, <1>2, <1>3, <1>4, <1>5, <1>6, <2>4, <2>5 DEF Ring
<1>12. Copies'
  BY <1>3, CopiesStill DEF Places
<1>13. Free'
  BY <1>2, <1>3, <1>7 DEF Places, Free, Writing, SameEnds, SameData
<1>14. InOrder'
  BY <1>1, <1>2, <1>3, <1>9, <1>10, OrderKept DEF Places, SameEnds
<1>15. QED
  BY <1>1, <1>3, <1>5, <1>6, <1>10, <1>11, <1>12, <1>13, <1>14 DEF Places

(* PublishElement lets the consumer find the element after all the others. *)
LEMMA PublishPlaces ==
  ASSUME BlockTypes, ThreadTypes, Places, ProducerInv, ConsumerInv, PublishElement
  PROVE  BlockTypes' /\ Places' /\ Lowest' = Lowest
<1>1. PICK t, x : t = tailBlock /\ x = blocks[t].tail
  OBVIOUS
<1>2. /\ producer.pc = "publish" /\ producer'.pc = "signal" /\ consumer' = consumer
      /\ UNCHANGED <<frontBlock, tailBlock, taken>> /\ sent' = sent + 1
  BY ProducerPc DEF PublishElement, ProducerAt
<1>3. /\ BlockTypes' /\ Blk' = Blk /\ Len(blocks') = Len(blocks)
      /\ \A b \in Blk : SameCopies(b) /\ SameNext(b) /\ SameData(b)
      /\ \A b \in Blk : b # t => SameEnds(b)
      /\ blocks'[t].size = blocks[t].size /\ blocks'[t].front = blocks[t].front
      /\ blocks'[t].tail = After(x, blocks[t].size)
  BY <1>1, PublishView
<1>4. t \in Blk /\ frontBlock \in Blk /\ \A b \in Blk : blocks[b].next \in Blk
  BY <1>1, BlockIs DEF BlockTypes
<1>5. /\ Unreached' = {} /\ Unreached = {} /\ Reached' = Blk /\ Reached = Blk
      /\ Linked' = Blk /\ Linked = Blk
  BY <1>2, <1>3 DEF Unreached, Reached, Linked, Unlinked, Blk
<1>6. /\ blocks[t].size \in Nat \ {0, 1} /\ x \in 0 .. blocks[t].size - 1
      /\ blocks[t].front \in 0 .. blocks[t].size - 1
      /\ blocks[t].localFront \in 0 .. blocks[t].size - 1
      /\ After(x, blocks[t].size) # x /\ After(x, blocks[t].size) \in 0 .. blocks[t].size - 1
  BY <1>1, <1>4, BlockIs, AfterIs
<1>7. /\ After(x, blocks[t].size) # blocks[t].localFront
      /\ blocks[t].data[x] = sent + 1
  BY <1>1, <1>2 DEF ProducerInv, Back, NextTail
<1>8. After(x, blocks[t].size) # blocks[t].front
  <2>1. blocks[t].front \in Between(blocks[t].localFront, x, blocks[t].size) \cup {x}
    BY <1>1, <1>4 DEF Places, Copies
  <2>2. QED
    BY <1>6, <1>7, <2>1, WidenBetween
<1>9. \A b \in Blk : b # t => Occupied(b)' = Occupied(b)
  BY <1>3 DEF Occupied, SameEnds
<1>10. Occupied(t)' = Occupied(t) \cup {x} /\ x \notin Occupied(t)
  <2>1. Between(blocks[t].front, After(x, blocks[t].size), blocks[t].size)
          = Between(blocks[t].front, x, blocks[t].size) \cup {x}
    BY <1>6, <1>8, PushBetween
  <2>2. QED
    BY <1>1, <1>3, <1>4, <2>1, OccupiedIs DEF Occupied
<1>11. \A b \in Blk : \A i : ElementAt(b, i)' = ElementAt(b, i)
  BY <1>2, <1>3 DEF ElementAt, SameEnds, SameData
<1>12. ElementAt(t, x) = sent + 1
  BY <1>1, <1>7, FrontHolds DEF ElementAt, Front, Places
<1>13. \A b, i, v : Holds(b, i, v)' <=> Holds(b, i, v) \/ (b = t /\ i = x /\ v = sent + 1)
  BY <1>4, <1>5, <1>9, <1>10, <1>11, <1>12 DEF Holds
<1>14. Numbered' /\ Unique' /\ Complete' /\ Lowest' = Lowest
  <2>1. Lowest <= sent + 1
    BY LowestBelow DEF Places
  <2>2. QED
    BY <1>2, <1>13, <2>1, HoldsMore DEF Places
<1>15. Ring'
  BY <1>2, <1>3, <1>4, <1>5 DEF Places, Ring, SameNext
<1>16. Copies'
  <2>1. Between(blocks[t].localFront, After(x, blocks[t].size), blocks[t].size)
          = Between(blocks[t].localFront, x, blocks[t].size) \cup {x}
    BY <1>6, <1>7, PushBetween
  <2>2. /\ blocks'[t].localTail \in Occupied(t)' \cup {blocks'[t].tail}
        /\ blocks'[t].front \in
             Between(blocks'[t].localFront, blocks'[t].tail, blocks'[t].size)
               \cup {blocks'[t].tail}
    BY <1>1, <1>3, <1>4, <1>10, <2>1 DEF Places, Copies, SameCopies
  <2>3. ASSUME NEW b \in Blk, b # t
        PROVE  /\ blocks'[b].localTail \in Occupied(b)' \cup {blocks'[b].tail}
               /\ blocks'[b].front \in
                    Between(blocks'[b].localFront, blocks'[b].tail, blocks'[b].size)
                      \cup {blocks'[b].tail}
    BY <1>3, <1>9, <2>3 DEF Places, Copies, SameEnds, SameCopies
  <2>4. QED
    BY <1>3, <2>2, <2>3 DEF Copies
<1>17. Free'
  BY <1>1, <1>2, <1>3, <1>4, <1>9, <1>10 DEF Places, Free, Writing, SameEnds, SameData
<1>18. First(Lowest)'
  <2>1. First(Lowest)
    BY DEF Places, InOrder
  <2>2. CASE Front.front # Front.tail /\ AtFront(frontBlock, Lowest)
    BY <1>1, <1>2, <1>3, <1>4, <1>8, <1>13, <1>14, <2>2 DEF First, Front, AtFront, SameEnds
  <2>3. CASE Front.front = Front.tail /\ frontBlock # tailBlock /\ AtFront(Front.next, Lowest)
    BY <1>1, <1>2, <1>3, <1>4, <1>13, <1>14, <2>3 DEF First, Front, AtFront, SameEnds, SameNext
  <2>4. CASE Front.front = Front.tail /\ frontBlock = tailBlock /\ Lowest = sent + 1
    BY <1>1, <1>2, <1>3, <1>4, <1>8, <1>13, <1>14, <2>4 DEF First, Front, AtFront
  <2>5. QED
    BY <2>1, <2>2, <2>3, <2>4 DEF First
<1>19. ASSUME NEW b, NEW i, NEW v, Holds(b, i, v)' PROVE Follows(b, i, v + 1)'
  <2>1. CASE Holds(b, i, v)
    <3>1. Follows(b, i, v + 1) /\ b \in Blk /\ i \in Occupied(b)
      BY <2>1, OrderIs DEF Places, Holds, Reached, Blk
    <3>2. blocks'[b].size = blocks[b].size
      BY <1>3, <3>1 DEF SameEnds
    <3>3. CASE /\ After(i, blocks[b].size) # blocks[b].tail
               /\ Holds(b, After(i, blocks[b].size), v + 1)
      <4>1. After(i, blocks[b].size) # blocks'[b].tail
        <5>1. After(i, blocks[b].size) \in Occupied(b)
          BY <3>3 DEF Holds
        <5>2. CASE b # t
          BY <1>3, <3>1, <3>3, <5>2 DEF SameEnds
        <5>3. CASE b = t
          <6>1. After(x, blocks[t].size)
                  \notin Between(blocks[t].front, After(x, blocks[t].size), blocks[t].size)
            BY <1>6, BetweenIs
          <6>2. /\ blocks'[t].tail = After(x, blocks[t].size)
                /\ Occupied(t)'
                   = Between(blocks[t].front, After(x, blocks[t].size), blocks[t].size)
            BY <1>3 DEF Occupied
          <6>3. QED
            BY <1>10, <5>1, <5>3, <6>1, <6>2
        <5>4. QED
          BY <5>2, <5>3
      <4>2. QED
        BY <1>13, <3>2, <3>3, <4>1 DEF Follows
    <3>4. CASE /\ After(i, blocks[b].size) = blocks[b].tail /\ b # tailBlock
               /\ AtFront(blocks[b].next, v + 1)
      BY <1>1, <1>2, <1>3, <1>4, <1>13, <3>1, <3>2, <3>4 DEF Follows, AtFront, SameEnds, SameNext
    <3>5. CASE /\ After(i, blocks[b].size) = blocks[b].tail /\ b = tailBlock
               /\ v + 1 = sent + 1
      BY <1>1, <1>3, <1>6, <1>13, <3>2, <3>5 DEF Follows
    <3>6. QED
      BY <3>1, <3>3, <3>4, <3>5 DEF Follows
  <2>2. CASE b = t /\ i = x /\ v = sent + 1
    BY <1>1, <1>2, <1>3, <2>2 DEF Follows
  <2>3. QED
    BY <1>13, <1>19, <2>1, <2>2
<1>20. InOrder'
  BY <1>18, <1>19 DEF InOrder, Holds
<1>21. QED
  BY <1>3, <1>14, <1>15, <1>16, <1>17, <1>20 DEF Places

(* AdvanceTail lets the consumer come to the next block, which holds the   *)
(* element after all the others and no other.                              *)
LEMMA AdvanceTailPlaces ==
  ASSUME BlockTypes, ThreadTypes, Places, ProducerInv, AdvanceTail
  PROVE  BlockTypes' /\ Places' /\ Lowest' = Lowest
<1>1. PICK t, c, x : t = tailBlock /\ c = blocks[t].next /\ x = blocks[c].front
  OBVIOUS
<1>2. /\ producer.pc = "advance" /\ producer'.pc = "signal" /\ consumer' = consumer
      /\ UNCHANGED <<blocks, frontBlock, largestBlockSize, taken>>
      /\ tailBlock' = c /\ sent' = sent + 1
  BY <1>1, ProducerPc DEF AdvanceTail, ProducerAt, Back
<1>3. /\ t \in Blk /\ c \in Blk /\ frontBlock \in Blk /\ Blk' = Blk
      /\ \A b \in Blk : blocks[b].next \in Blk
  BY <1>1, <1>2, BlockIs DEF BlockTypes, Blk
<1>4. /\ Unreached' = {} /\ Unreached = {c} /\ Reached' = Blk /\ Reached = Blk \ {c}
      /\ Linked' = Blk /\ Linked = Blk
  <2>1. Unreached = {c} /\ Unlinked = {}
    BY <1>1, <1>2, <1>3 DEF Unreached, Unlinked, Blk, Back
  <2>2. Unreached' = {} /\ Unlinked' = {}
    BY <1>2 DEF Unreached, Unlinked
  <2>3. Reached = Blk \ {c} /\ Linked = Blk
    BY <2>1 DEF Reached, Linked, Blk
  <2>4. Reached' = Blk' /\ Linked' = Blk'
    BY <2>2 DEF Reached, Linked, Blk
  <2>5. QED
    BY <1>3, <2>1, <2>2, <2>3, <2>4
<1>5. /\ c # frontBlock /\ c # t
      /\ x # blocks[c].tail /\ blocks[c].data[x] = sent + 1
      /\ After(x, blocks[c].size) = blocks[c].tail
  BY <1>1, <1>2, <1>4 DEF Places, Ring, ProducerInv, Pending, Back
<1>6. \A b \in Blk : Occupied(b)' = Occupied(b)
  BY <1>2 DEF Occupied
<1>7. Occupied(c) = {x}
  <2>1. /\ blocks[c].size \in Nat \ {0, 1} /\ x \in 0 .. blocks[c].size - 1
        /\ blocks[c].tail \in 0 .. blocks[c].size - 1
    BY <1>1, <1>3, BlockIs
  <2>2. Between(x, blocks[c].tail, blocks[c].size) = {x}
    BY <1>5, <2>1, PopBetween
  <2>3. QED
    BY <1>1, <2>2 DEF Occupied
<1>8. \A b \in Blk : \A i : ElementAt(b, i)' = ElementAt(b, i)
  BY <1>2 DEF ElementAt
<1>9. ElementAt(c, x) = sent + 1
  BY <1>5 DEF ElementAt
<1>10. \A b, i, v : Holds(b, i, v)' <=> Holds(b, i, v) \/ (b = c /\ i = x /\ v = sent + 1)
  BY <1>3, <1>4, <1>6, <1>7, <1>8, <1>9 DEF Holds
<1>11. Numbered' /\ Unique' /\ Complete' /\ Lowest' = Lowest
  <2>1. Lowest <= sent + 1
    BY LowestBelow DEF Places
  <2>2. QED
    BY <1>2, <1>10, <2>1, HoldsMore DEF Places
<1>12. Ring'
  BY <1>2, <1>3, <1>4 DEF Places, Ring
<1>13. Copies'
  BY <1>2, <1>3, <1>6 DEF Places, Copies
<1>14. Free'
  BY <1>2, <1>3, <1>6 DEF Places, Free, Writing
<1>15. First(Lowest)'
  <2>1. First(Lowest)
    BY DEF Places, InOrder
  <2>2. CASE Front.front # Front.tail /\ AtFront(frontBlock, Lowest)
    BY <1>2, <1>10, <1>11, <2>2 DEF First, Front, AtFront
  <2>3. CASE Front.front = Front.tail /\ frontBlock # tailBlock /\ AtFront(Front.next, Lowest)
    BY <1>2, <1>5, <1>10, <1>11, <2>3 DEF First, Front, AtFront
  <2>4. CASE Front.front = Front.tail /\ frontBlock = tailBlock /\ Lowest = sent + 1
    BY <1>1, <1>2, <1>5, <1>10, <1>11, <2>4 DEF First, Front, AtFront
  <2>5. QED
    BY <2>1, <2>2, <2>3, <2>4 DEF First
<1>16. ASSUME NEW b, NEW i, NEW v, Holds(b, i, v)' PROVE Follows(b, i, v + 1)'
  <2>1. CASE Holds(b, i, v)
    <3>1. Follows(b, i, v + 1) /\ b \in Blk /\ b # c
      BY <1>4, <2>1, OrderIs DEF Places, Holds
    <3>2. CASE /\ After(i, blocks[b].size) # blocks[b].tail
               /\ Holds(b, After(i, blocks[b].size), v + 1)
      BY <1>2, <1>10, <3>2 DEF Follows
    <3>3. CASE /\ After(i, blocks[b].size) = blocks[b].tail /\ b # tailBlock
               /\ AtFront(blocks[b].next, v + 1)
      BY <1>2, <1>10, <3>1, <3>3 DEF Follows, AtFront
    <3>4. CASE /\ After(i, blocks[b].size) = blocks[b].tail /\ b = tailBlock
               /\ v + 1 = sent + 1
      BY <1>1, <1>2, <1>10, <3>1, <3>4 DEF Follows, AtFront
    <3>5. QED
      BY <3>1, <3>2, <3>3, <3>4 DEF Follows
  <2>2. CASE b = c /\ i = x /\ v = sent + 1
    BY <1>2, <1>5, <2>2 DEF Follows
  <2>3. QED
    BY <1>10, <1>16, <2>1, <2>2
<1>17. InOrder'
  BY <1>15, <1>16 DEF InOrder, Holds
<1>18. BlockTypes'
  BY <1>2, <1>3 DEF BlockTypes, Blk
<1>19. QED
  BY <1>11, <1>12, <1>13, <1>14, <1>17, <1>18 DEF Places

(* AdvanceFront leaves a block that is empty for one that is not.          *)
LEMMA AdvanceFrontPlaces ==
  ASSUME BlockTypes, ThreadTypes, Places, ConsumerInv, AdvanceFront
  PROVE  BlockTypes' /\ Places' /\ Blk' = Blk /\ Lowest' = Lowest
<1>1. PICK c : c = Front.next
  OBVIOUS
<1>2. /\ consumer.pc = "advance" /\ consumer'.pc = "take" /\ producer' = producer
      /\ UNCHANGED <<blocks, tailBlock, largestBlockSize, sent, taken>> /\ frontBlock' = c
  BY <1>1, ConsumerPc DEF AdvanceFront, ConsumerAt
<1>3. c \in Blk /\ tailBlock \in Blk /\ Blk' = Blk
  BY <1>1, <1>2, BlockIs DEF BlockTypes, Blk, Front
<1>4. Unreached' = Unreached /\ Reached' = Reached /\ Linked' = Linked /\ Reached \subseteq Blk
  BY <1>2 DEF Unreached, Reached, Linked, Unlinked, Blk, Back
<1>5. \A b \in Blk : Occupied(b)' = Occupied(b)
  BY <1>2 DEF Occupied
<1>6. \A b \in Blk : \A i : ElementAt(b, i)' = ElementAt(b, i)
  BY <1>2 DEF ElementAt
<1>7. \A b, i, v : Holds(b, i, v)' <=> Holds(b, i, v)
  BY <1>4, <1>5, <1>6 DEF Holds
<1>8. Numbered' /\ Unique' /\ Complete' /\ Lowest' = Lowest
  BY <1>2, <1>7, HoldsKept DEF Places
<1>9. Holds(c, blocks[c].front, Lowest)
  BY <1>1, <1>2 DEF Places, InOrder, First, AtFront, ConsumerInv
<1>10. c \in Reached /\ blocks[c].front # blocks[c].tail
  BY <1>3, <1>9, OccupiedIs DEF Holds
<1>11. Ring'
  BY <1>2, <1>4, <1>10 DEF Places, Ring
<1>12. Copies'
  BY <1>2, <1>3, <1>5 DEF Places, Copies
<1>13. Free'
  BY <1>2, <1>3, <1>5 DEF Places, Free, Writing, Back
<1>14. First(Lowest)'
  BY <1>2, <1>7, <1>8, <1>9, <1>10 DEF First, Front, AtFront
<1>15. ASSUME NEW b, NEW i, NEW v, Holds(b, i, v)' PROVE Follows(b, i, v + 1)'
  <2>1. Follows(b, i, v + 1)
    BY <1>7, <1>15, OrderIs DEF Places
  <2>2. QED
    BY <1>2, <1>7, <2>1 DEF Follows, AtFront
<1>16. InOrder'
  BY <1>14, <1>15 DEF InOrder, Holds
<1>17. BlockTypes'
  BY <1>2, <1>3 DEF BlockTypes, Blk
<1>18. QED
  BY <1>3, <1>8, <1>11, <1>12, <1>13, <1>16, <1>17 DEF Places

(* ReleaseElement gives up the place of the lowest element.                *)
LEMMA ReleasePlaces ==
  ASSUME BlockTypes, ThreadTypes, Places, ConsumerInv, ReleaseElement
  PROVE  BlockTypes' /\ Places' /\ taken' = Lowest /\ Lowest \in Values /\ Lowest' = Lowest + 1
<1>1. PICK f, x, s : f = frontBlock /\ x = blocks[f].front /\ s = blocks[f].size
  OBVIOUS
<1>2. /\ consumer.pc = "release" /\ consumer'.pc = "idle" /\ producer' = producer
      /\ UNCHANGED <<frontBlock, tailBlock, sent>> /\ taken' = consumer.value
  BY ConsumerPc DEF ReleaseElement, ConsumerAt
<1>3. /\ BlockTypes' /\ Blk' = Blk /\ Len(blocks') = Len(blocks)
      /\ \A b \in Blk : SameCopies(b) /\ SameNext(b) /\ SameData(b)
      /\ \A b \in Blk : b # f => SameEnds(b)
      /\ blocks'[f].size = s /\ blocks'[f].front = After(x, s)
      /\ blocks'[f].tail = blocks[f].tail
  BY <1>1, ReleaseView
<1>4. f \in Blk /\ tailBlock \in Blk /\ \A b \in Blk : blocks[b].next \in Blk
  BY <1>1, BlockIs DEF BlockTypes
<1>5. Unreached' = Unreached /\ Reached' = Reached /\ Linked' = Linked /\ Reached \subseteq Blk
  BY <1>2, <1>3, <1>4 DEF Unreached, Reached, Linked, Unlinked, Blk, Back, SameNext
<1>6. /\ s \in Nat \ {0, 1} /\ x \in 0 .. s - 1 /\ blocks[f].tail \in 0 .. s - 1
      /\ blocks[f].localFront \in 0 .. s - 1 /\ After(x, s) # x
  <2>1. /\ s \in Nat \ {0, 1} /\ x \in 0 .. s - 1 /\ blocks[f].tail \in 0 .. s - 1
        /\ blocks[f].localFront \in 0 .. s - 1
    BY <1>1, <1>4, BlockIs
  <2>2. QED
    BY <2>1, AfterIs
<1>7. x # blocks[f].tail /\ x # blocks[f].localTail /\ blocks[f].data[x] = None
  BY <1>1, <1>2, FrontHolds DEF ConsumerInv, Front, Places
<1>8. \A b \in Blk : b # f => Occupied(b)' = Occupied(b)
  BY <1>3 DEF Occupied, SameEnds
<1>9. Occupied(f)' = Occupied(f) \ {x} /\ x \in Occupied(f)
  <2>1. Between(After(x, s), blocks[f].tail, s) = Between(x, blocks[f].tail, s) \ {x}
    BY <1>6, <1>7, PopBetween
  <2>2. x \in Occupied(f)
    BY <1>1, <1>4, <1>7, OccupiedIs
  <2>3. QED
    BY <1>1, <1>3, <2>1, <2>2 DEF Occupied
<1>10. \A b \in Blk : \A i : ~ (b = f /\ i = x) => ElementAt(b, i)' = ElementAt(b, i)
  BY <1>1, <1>2, <1>3 DEF ElementAt, SameData
<1>11. \A b, i, v : Holds(b, i, v)' <=> Holds(b, i, v) /\ ~ (b = f /\ i = x)
  BY <1>5, <1>8, <1>9, <1>10 DEF Holds
<1>12. Holds(f, x, Lowest) /\ consumer.value = Lowest
  <2>1. First(Lowest)
    BY DEF Places, InOrder
  <2>2. Holds(f, x, Lowest)
    BY <1>1, <1>7, <2>1 DEF First, Front, AtFront
  <2>3. QED
    BY <1>1, <1>2, <2>2 DEF Holds, ElementAt
<1>13. Lowest \in Values
  BY <1>12, LowestIs, Numbers DEF Places, Numbered, ThreadTypes, Values
<1>14. Numbered' /\ Unique' /\ Complete' /\ Lowest' = Lowest + 1
  BY <1>2, <1>11, <1>12, <1>13, HoldsLess DEF Places
<1>15. Ring'
  BY <1>2, <1>3, <1>5 DEF Places, Ring, SameNext, Linked
<1>16. Copies'
  <2>1. After(x, s) \in Between(blocks[f].localFront, blocks[f].tail, s) \cup {blocks[f].tail}
    BY <1>1, <1>4, <1>6, <1>7, WidenBetween DEF Places, Copies
  <2>2. /\ blocks'[f].localTail \in Occupied(f)' \cup {blocks'[f].tail}
        /\ blocks'[f].front \in
             Between(blocks'[f].localFront, blocks'[f].tail, blocks'[f].size)
               \cup {blocks'[f].tail}
    BY <1>1, <1>3, <1>4, <1>7, <1>9, <2>1 DEF Places, Copies, SameCopies
  <2>3. ASSUME NEW b \in Blk, b # f
        PROVE  /\ blocks'[b].localTail \in Occupied(b)' \cup {blocks'[b].tail}
               /\ blocks'[b].front \in
                    Between(blocks'[b].localFront, blocks'[b].tail, blocks'[b].size)
                      \cup {blocks'[b].tail}
    BY <1>3, <1>8, <2>3 DEF Places, Copies, SameEnds, SameCopies
  <2>4. QED
    BY <1>3, <2>2, <2>3 DEF Copies
<1>17. Free'
  <2>1. \A b \in Blk : \A i : Writing(b, i)' <=> Writing(b, i)
    BY <1>2, <1>3, <1>4 DEF Writing, SameEnds, SameNext, Back
  <2>2. \A b \in Blk : blocks'[b].data = blocks[b].data /\ blocks'[b].size = blocks[b].size
    BY <1>1, <1>3 DEF SameData, SameEnds
  <2>3. ASSUME NEW b \in Blk, NEW i \in 0 .. blocks[b].size - 1,
               i \notin Occupied(b)', ~ Writing(b, i)
        PROVE  blocks[b].data[i] = None
    BY <1>7, <1>8, <1>9, <2>3 DEF Places, Free
  <2>4. QED
    BY <1>3, <2>1, <2>2, <2>3 DEF Free
<1>18. First(Lowest)'
  <2>1. Follows(f, x, Lowest + 1)
    BY <1>12, OrderIs DEF Places
  <2>2. CASE After(x, s) # blocks[f].tail /\ Holds(f, After(x, s), Lowest + 1)
    BY <1>1, <1>2, <1>3, <1>6, <1>11, <1>14, <2>2 DEF First, Front, AtFront
  <2>3. CASE /\ After(x, s) = blocks[f].tail /\ f # tailBlock
             /\ AtFront(blocks[f].next, Lowest + 1)
    <3>1. PICK c, y, w : c = blocks[f].next /\ y = blocks[c].front /\ w = Lowest + 1
      OBVIOUS
    <3>2. c # f
      BY <1>1, <1>12, <1>13, <2>3, <3>1 DEF AtFront, Holds, Values
    <3>3. Holds(c, y, w)' /\ blocks'[c].front = y
      BY <1>3, <1>4, <1>11, <2>3, <3>1, <3>2 DEF AtFront, SameEnds
    <3>4. QED
      BY <1>1, <1>2, <1>3, <1>4, <1>14, <2>3, <3>1, <3>3 DEF First, Front, AtFront, SameNext
  <2>4. CASE After(x, s) = blocks[f].tail /\ f = tailBlock /\ Lowest + 1 = sent + 1
    BY <1>1, <1>2, <1>3, <1>14, <2>4 DEF First, Front
  <2>5. QED
    BY <1>1, <2>1, <2>2, <2>3, <2>4 DEF Follows
<1>19. ASSUME NEW b, NEW i, NEW v, Holds(b, i, v)' PROVE Follows(b, i, v + 1)'
  <2>1. Holds(b, i, v) /\ ~ (b = f /\ i = x)
    BY <1>11, <1>19
  <2>2. Follows(b, i, v + 1) /\ b \in Blk
    BY <1>5, <2>1, OrderIs DEF Places, Holds
  <2>3. v \in Nat /\ Lowest <= v /\ Lowest \in Nat
    BY <2>1, <1>13 DEF Places, Numbered, Values
  <2>4. v + 1 # Lowest
    BY <2>3
  <2>5. ~ Holds(f, x, v + 1)
    BY <1>12, <2>4 DEF Holds
  <2>6. blocks'[b].size = blocks[b].size /\ blocks'[b].tail = blocks[b].tail
    BY <1>1, <1>3, <2>2 DEF SameEnds
  <2>7. CASE /\ After(i, blocks[b].size) # blocks[b].tail
             /\ Holds(b, After(i, blocks[b].size), v + 1)
    BY <1>11, <2>5, <2>6, <2>7 DEF Follows
  <2>8. CASE /\ After(i, blocks[b].size) = blocks[b].tail /\ b # tailBlock
             /\ AtFront(blocks[b].next, v + 1)
    <3>1. PICK c, y : c = blocks[b].next /\ y = blocks[c].front
      OBVIOUS
    <3>2. c # f
      BY <1>1, <2>5, <2>8, <3>1 DEF AtFront
    <3>3. Holds(c, y, v + 1)' /\ blocks'[c].front = y
      BY <1>3, <1>4, <1>11, <2>2, <2>8, <3>1, <3>2 DEF AtFront, SameEnds
    <3>4. QED
      BY <1>2, <1>3, <2>2, <2>6, <2>8, <3>1, <3>3 DEF Follows, AtFront, SameNext
  <2>9. CASE /\ After(i, blocks[b].size) = blocks[b].tail /\ b = tailBlock
             /\ v + 1 = sent + 1
    BY <1>2, <2>6, <2>9 DEF Follows
  <2>10. QED
    BY <2>2, <2>7, <2>8, <2>9 DEF Follows
<1>20. InOrder'
  BY <1>18, <1>19 DEF InOrder, Holds
<1>21. QED
  BY <1>2, <1>3, <1>12, <1>13, <1>14, <1>15, <1>16, <1>17, <1>20 DEF Places

-----------------------------------------------------------------------------
(* All steps keep the places.                                              *)

(* The steps that write to a block or change its links or its owner.       *)
Movers == \/ StoreElement \/ PublishElement \/ UseNextBlock \/ PublishInNextBlock \/ NewBlock
          \/ LinkBlock \/ AdvanceTail

(* The steps of the producer, by what they do to the blocks.               *)
LEMMA ProducerCases ==
  ASSUME ProducerStep \/ \E canAlloc \in BOOLEAN : Enqueue(canAlloc)
  PROVE  QuietProducer \/ ReadFront \/ Movers
BY DEF ProducerStep, QuietProducer, Movers

(* The steps of the consumer, by what they do to the blocks.               *)
LEMMA ConsumerCases ==
  ASSUME ConsumerStep \/ \E op \in ConsumerOps : Call(op)
  PROVE  \/ QuietConsumer
         \/ ReadTail("blockTail", "tailBlock") \/ ReadTail("reread", "nextBlock")
         \/ ~ Peeks /\ ReadNextBlock
         \/ AdvanceFront
         \/ ~ Peeks /\ TakeElement
         \/ ReleaseElement
BY DEF ConsumerStep, QuietConsumer

(* The quiet steps keep the places.                                        *)
LEMMA QuietPlaces ==
  ASSUME BlockTypes, ThreadTypes, Places, QuietProducer \/ QuietConsumer
  PROVE  BlockTypes' /\ Places' /\ Still
<1>1. Still /\ BlockTypes' /\ \A b \in Blk : SameCopies(b)
  BY QuietStill
<1>2. Copies'
  BY <1>1, CopiesStill DEF Places, Still
<1>3. QED
  BY <1>1, <1>2, StillPlaces DEF Places

(* The steps that renew a copy keep the places.                            *)
LEMMA ReadingPlaces ==
  ASSUME BlockTypes, ThreadTypes, Places, NEW pc, NEW otherwise, pc # "release",
         otherwise # "release",
         ReadFront \/ ReadTail(pc, otherwise) \/ (~ Peeks /\ ReadNextBlock)
  PROVE  BlockTypes' /\ Places' /\ Still
<1>1. Still /\ BlockTypes'
  BY ReadingStill
<1>2. /\ \A b \in Blk : Occupied(b)' = Occupied(b)
      /\ \A b \in Blk : blocks[b].next \in Blk
      /\ tailBlock \in Blk /\ frontBlock \in Blk
  BY <1>1, BlockIs DEF Occupied, Still, SameEnds, BlockTypes
<1>3. Copies'
  <2>1. CASE ReadFront
    <3>1. PICK t : t = tailBlock
      OBVIOUS
    <3>2. blocks[t].front \in Between(blocks[t].front, blocks[t].tail, blocks[t].size)
            \cup {blocks[t].tail}
      BY <1>2, <3>1, OccupiedIs DEF Occupied
    <3>3. /\ Blk' = Blk /\ \A b \in Blk : SameEnds(b)
          /\ \A b \in Blk : b # t => SameCopies(b)
          /\ blocks'[t].localTail = blocks[t].localTail
          /\ blocks'[t].localFront = blocks[t].front
      BY <2>1, <3>1, ReadFrontView
    <3>4. QED
      BY <1>2, <3>1, <3>2, <3>3 DEF Places, Copies, SameEnds, SameCopies
  <2>2. CASE ReadTail(pc, otherwise)
    <3>1. PICK t : t = frontBlock
      OBVIOUS
    <3>2. /\ Blk' = Blk /\ \A b \in Blk : SameEnds(b)
          /\ \A b \in Blk : b # t => SameCopies(b)
          /\ blocks'[t].localTail = blocks[t].tail
          /\ blocks'[t].localFront = blocks[t].localFront
      BY <2>2, <3>1, ReadTailView
    <3>3. QED
      BY <1>2, <3>1, <3>2 DEF Places, Copies, SameEnds, SameCopies
  <2>3. CASE ~ Peeks /\ ReadNextBlock
    <3>1. PICK t : t = blocks[frontBlock].next
      OBVIOUS
    <3>2. /\ Blk' = Blk /\ \A b \in Blk : SameEnds(b)
          /\ \A b \in Blk : b # t => SameCopies(b)
          /\ blocks'[t].localTail = blocks[t].tail
          /\ blocks'[t].localFront = blocks[t].localFront
      BY <2>3, <3>1, ReadNextView
    <3>3. QED
      BY <1>2, <3>1, <3>2 DEF Places, Copies, SameEnds, SameCopies
  <2>4. QED
    BY <2>1, <2>2, <2>3
<1>4. QED
  BY <1>1, <1>3, StillPlaces DEF Places

(* Every step keeps the types and the places.                              *)
LEMMA StepPlaces ==
  ASSUME IInv, Next
  PROVE  BlockTypes' /\ ThreadTypes' /\ Places'
<1>1. CASE ProducerStep \/ \E canAlloc \in BOOLEAN : Enqueue(canAlloc)
  <2>1. ThreadTypes'
    BY <1>1, ProducerTypes DEF IInv, ProducerInv
  <2>2. CASE QuietProducer
    BY <2>1, <2>2, QuietPlaces DEF IInv
  <2>3. CASE ReadFront
    <3>1. "idle" # "release"
      OBVIOUS
    <3>2. QED
      BY <2>1, <2>3, <3>1, ReadingPlaces DEF IInv
  <2>4. CASE Movers
    BY <2>1, <2>4, StorePlaces, PublishPlaces, UseNextPlaces, PublishNextPlaces, NewBlockPlaces,
       LinkPlaces, AdvanceTailPlaces
       DEF IInv, Movers
  <2>5. QED
    BY <1>1, <2>2, <2>3, <2>4, ProducerCases
<1>2. CASE ConsumerStep \/ \E op \in ConsumerOps : Call(op)
  <2>1. ThreadTypes'
    BY <1>2, ConsumerTypes DEF IInv
  <2>2. CASE QuietConsumer
    BY <2>1, <2>2, QuietPlaces DEF IInv
  <2>3. CASE ReadTail("blockTail", "tailBlock")
    BY <2>1, <2>3, ReadingPlaces DEF IInv
  <2>4. CASE ReadTail("reread", "nextBlock")
    BY <2>1, <2>4, ReadingPlaces DEF IInv
  <2>5. CASE ~ Peeks /\ ReadNextBlock
    <3>1. "idle" # "release"
      OBVIOUS
    <3>2. QED
      BY <2>1, <2>5, <3>1, ReadingPlaces DEF IInv
  <2>6. CASE AdvanceFront
    BY <2>1, <2>6, AdvanceFrontPlaces DEF IInv
  <2>7. CASE ~ Peeks /\ TakeElement
    BY <2>1, <2>7, TakePlaces DEF IInv
  <2>8. CASE ReleaseElement
    BY <2>1, <2>8, ReleasePlaces DEF IInv
  <2>9. QED
    BY <1>2, <2>2, <2>3, <2>4, <2>5, <2>6, <2>7, <2>8, ConsumerCases
<1>3. QED
  BY <1>1, <1>2 DEF Next

(* What a step of the consumer leaves alone.                               *)
LEMMA ConsumerKeeps ==
  ASSUME BlockTypes, ThreadTypes, Places, ConsumerInv,
         ConsumerStep \/ \E op \in ConsumerOps : Call(op)
  PROVE  /\ Blk' = Blk /\ Len(blocks') = Len(blocks)
         /\ producer' = producer /\ tailBlock' = tailBlock /\ sent' = sent
         /\ \A b \in Blk : /\ blocks'[b].size = blocks[b].size /\ blocks'[b].tail = blocks[b].tail
                           /\ blocks'[b].localFront = blocks[b].localFront
                           /\ blocks'[b].next = blocks[b].next
         /\ \A b \in Blk : b # frontBlock =>
              blocks'[b].front = blocks[b].front /\ blocks'[b].data = blocks[b].data
         /\ \A b \in Blk : blocks'[b].data[blocks[b].tail] = blocks[b].data[blocks[b].tail]
         /\ frontBlock' # frontBlock => AdvanceFront
<1>1. producer' = producer /\ tailBlock' = tailBlock /\ sent' = sent
  BY DEF ConsumerStep, Call, Size, TryWait, Spin, TakeCount, Decrement, SemaWait, TimeOut,
         Restore, DecrementAgain, SemaTry, CheckFront, ReadTail, CheckTailBlock, ReadNextBlock,
         AdvanceFront, PeekNext, TakeElement, ReleaseElement, ConsumerAt
<1>2. frontBlock' # frontBlock => AdvanceFront
  BY DEF ConsumerStep, Call, Size, TryWait, Spin, TakeCount, Decrement, SemaWait, TimeOut,
         Restore, DecrementAgain, SemaTry, CheckFront, ReadTail, CheckTailBlock, ReadNextBlock,
         PeekNext, TakeElement, ReleaseElement
<1>3. CASE QuietConsumer
  BY <1>1, <1>2, <1>3, QuietStill DEF Still, SameEnds, SameCopies, SameNext, SameData
<1>4. CASE ReadTail("blockTail", "tailBlock") \/ ReadTail("reread", "nextBlock")
  <2>1. /\ Blk' = Blk /\ Len(blocks') = Len(blocks)
        /\ \A b \in Blk : SameEnds(b) /\ SameNext(b) /\ SameData(b)
        /\ \A b \in Blk : b # frontBlock => SameCopies(b)
        /\ blocks'[frontBlock].localFront = blocks[frontBlock].localFront
    BY <1>4, ReadTailView
  <2>2. QED
    BY <1>1, <1>2, <2>1 DEF SameEnds, SameCopies, SameNext, SameData
<1>5. CASE ~ Peeks /\ ReadNextBlock
  <2>1. PICK t : t = blocks[frontBlock].next
    OBVIOUS
  <2>2. /\ Blk' = Blk /\ Len(blocks') = Len(blocks)
        /\ \A b \in Blk : SameEnds(b) /\ SameNext(b) /\ SameData(b)
        /\ \A b \in Blk : b # t => SameCopies(b)
        /\ blocks'[t].localFront = blocks[t].localFront
    BY <1>5, <2>1, ReadNextView
  <2>3. QED
    BY <1>1, <1>2, <2>2 DEF SameEnds, SameCopies, SameNext, SameData
<1>6. CASE AdvanceFront
  BY <1>1, <1>2, <1>6 DEF AdvanceFront, Blk
<1>7. CASE ~ Peeks /\ TakeElement
  <2>1. PICK t : t = frontBlock
    OBVIOUS
  <2>2. /\ Blk' = Blk /\ Len(blocks') = Len(blocks)
        /\ \A b \in Blk : SameEnds(b) /\ SameNext(b) /\ SameCopies(b)
        /\ \A b \in Blk : b # t => SameData(b)
        /\ blocks'[t].data = [blocks[t].data EXCEPT ![blocks[t].front] = None]
    BY <1>7, <2>1, TakeView
  <2>3. t \in Blk /\ blocks[t].front # blocks[t].tail
    BY <1>7, <2>1, FrontHolds DEF TakeElement, ConsumerAt, Front, BlockTypes, Places
  <2>4. blocks'[t].data[blocks[t].tail] = blocks[t].data[blocks[t].tail]
    BY <2>2, <2>3, BlockIs
  <2>5. QED
    BY <1>1, <1>2, <2>1, <2>2, <2>4 DEF SameEnds, SameCopies, SameNext, SameData
<1>8. CASE ReleaseElement
  <2>1. PICK t : t = frontBlock
    OBVIOUS
  <2>2. /\ Blk' = Blk /\ Len(blocks') = Len(blocks)
        /\ \A b \in Blk : SameCopies(b) /\ SameNext(b) /\ SameData(b)
        /\ \A b \in Blk : b # t => SameEnds(b)
        /\ blocks'[t].size = blocks[t].size /\ blocks'[t].tail = blocks[t].tail
    BY <1>8, <2>1, ReleaseView
  <2>3. QED
    BY <1>1, <1>2, <2>1, <2>2 DEF SameEnds, SameCopies, SameNext, SameData
<1>9. QED
  BY <1>3, <1>4, <1>5, <1>6, <1>7, <1>8, ConsumerCases

(* What a step of the producer leaves alone.                               *)
LEMMA ProducerKeeps ==
  ASSUME BlockTypes, ThreadTypes, Places, ProducerInv, ConsumerInv,
         ProducerStep \/ \E canAlloc \in BOOLEAN : Enqueue(canAlloc)
  PROVE  /\ Blk \subseteq Blk' /\ consumer' = consumer /\ frontBlock' = frontBlock
         /\ taken' = taken
         /\ \A b \in Blk : /\ blocks'[b].size = blocks[b].size
                           /\ blocks'[b].front = blocks[b].front
                           /\ blocks'[b].localTail = blocks[b].localTail
         /\ \A b \in Blk : b # tailBlock => SameNext(b)
         /\ frontBlock # tailBlock => blocks'[frontBlock].tail = blocks[frontBlock].tail
         /\ frontBlock # tailBlock => frontBlock # tailBlock'
         /\ consumer.pc = "release" =>
              blocks'[frontBlock].data[blocks[frontBlock].front] =
                blocks[frontBlock].data[blocks[frontBlock].front]
<1>1. consumer' = consumer /\ frontBlock' = frontBlock /\ taken' = taken
  BY DEF ProducerStep, Enqueue, ReadFront, StoreElement, PublishElement, CheckNext, UseNextBlock,
         PublishInNextBlock, NewBlock, NoMemory, LinkBlock, AdvanceTail, SignalCount, SignalSema,
         ProducerAt
<1>2. AdvanceTail \/ tailBlock' = tailBlock
  BY DEF ProducerStep, Enqueue, ReadFront, StoreElement, PublishElement, CheckNext, UseNextBlock,
         PublishInNextBlock, NewBlock, NoMemory, LinkBlock, SignalCount, SignalSema
<1>3. frontBlock # tailBlock => frontBlock # tailBlock'
  BY <1>2 DEF AdvanceTail, ProducerAt, ProducerInv
<1>4. PICK t, f, c : t = tailBlock /\ f = frontBlock /\ c = blocks[tailBlock].next
  OBVIOUS
<1>5. t \in Blk /\ f \in Blk /\ c \in Blk
  BY <1>4, BlockIs DEF BlockTypes
<1>6. consumer.pc = "release" => blocks[f].front # blocks[f].tail
  BY <1>4, FrontHolds DEF Front, Places
<1>7. CASE QuietProducer
  BY <1>1, <1>3, <1>5, <1>7, QuietStill DEF Still, SameEnds, SameCopies, SameData, BlockTypes
<1>8. CASE ReadFront
  BY <1>1, <1>3, <1>4, <1>5, <1>8, ReadFrontView DEF SameEnds, SameCopies, SameData
<1>9. CASE StoreElement
  <2>1. /\ Blk' = Blk /\ \A b \in Blk : SameEnds(b) /\ SameCopies(b) /\ SameNext(b)
        /\ \A b \in Blk : b # t => SameData(b)
        /\ blocks'[t].data = [blocks[t].data EXCEPT ![blocks[t].tail] = sent + 1]
    BY <1>4, <1>9, StoreView DEF ProducerInv
  <2>2. consumer.pc = "release"
          => blocks'[f].data[blocks[f].front] = blocks[f].data[blocks[f].front]
    BY <1>5, <1>6, <2>1, BlockIs DEF SameData
  <2>3. QED
    BY <1>1, <1>3, <1>4, <1>5, <2>1, <2>2 DEF SameEnds, SameCopies
<1>10. CASE PublishElement
  BY <1>1, <1>3, <1>4, <1>5, <1>10, PublishView DEF SameEnds, SameCopies, SameData
<1>11. CASE UseNextBlock
  <2>1. /\ Blk' = Blk /\ \A b \in Blk : SameEnds(b) /\ SameNext(b)
        /\ \A b \in Blk : b # c => SameCopies(b) /\ SameData(b)
        /\ blocks'[c].localTail = blocks[c].localTail
    BY <1>4, <1>11, UseNextView DEF ProducerInv
  <2>2. c # f
    BY <1>4, <1>11 DEF UseNextBlock, ProducerAt, ProducerInv, Back
  <2>3. QED
    BY <1>1, <1>3, <1>4, <1>5, <2>1, <2>2 DEF SameEnds, SameCopies, SameData
<1>12. CASE PublishInNextBlock
  <2>1. /\ Blk' = Blk /\ \A b \in Blk : SameCopies(b) /\ SameNext(b) /\ SameData(b)
        /\ \A b \in Blk : b # c => SameEnds(b)
        /\ blocks'[c].front = blocks[c].front /\ blocks'[c].size = blocks[c].size
    BY <1>4, <1>12, PublishNextView
  <2>2. c # f
    BY <1>4, <1>12 DEF PublishInNextBlock, ProducerAt, ProducerInv, Back
  <2>3. QED
    BY <1>1, <1>3, <1>4, <1>5, <2>1, <2>2 DEF SameEnds, SameCopies, SameData
<1>13. CASE NewBlock
  <2>1. Blk \subseteq Blk' /\ \A b \in Blk : SameBlock(b)
    BY <1>13, NewBlockPlaces
  <2>2. QED
    BY <1>1, <1>3, <1>4, <1>5, <2>1 DEF SameBlock, SameEnds, SameCopies, SameData
<1>14. CASE LinkBlock
  <2>1. /\ Blk' = Blk /\ \A b \in Blk : SameEnds(b) /\ SameCopies(b) /\ SameData(b)
        /\ \A b \in Blk : b # t => SameNext(b)
    BY <1>4, <1>14, LinkPlaces
  <2>2. QED
    BY <1>1, <1>3, <1>4, <1>5, <2>1 DEF SameEnds, SameCopies, SameData
<1>15. CASE AdvanceTail
  BY <1>1, <1>3, <1>15 DEF AdvanceTail, SameNext, Blk
<1>16. QED
  BY <1>7, <1>8, <1>9, <1>10, <1>11, <1>12, <1>13, <1>14, <1>15, ProducerCases DEF Movers

-----------------------------------------------------------------------------
(* ProducerInv. *)

-----------------------------------------------------------------------------
(* What the producer knows.                                                *)

(* Blocks that the consumer cannot come to exist only at two places of the *)
(* producer's code, and neither thread's block is one.                     *)
LEMMA UnreachedIs ==
  /\ producer.pc \notin {"link", "advance"} => Unreached = {} /\ Reached = Blk
  /\ producer.pc # "link" => Linked = Blk
  /\ Ring => frontBlock \notin Unreached /\ tailBlock \notin Unreached
  /\ Unreached \subseteq Blk /\ Reached \subseteq Linked
<1>1. producer.pc \notin {"link", "advance"} => Unreached = {}
  BY DEF Unreached
<1>2. Unlinked \cap Blk \subseteq Unreached /\ Unreached \subseteq Blk
  BY DEF Unreached, Unlinked, Blk
<1>3. QED
  BY <1>1, <1>2 DEF Reached, Linked, Unlinked, Ring, Blk

(* A step of the consumer changes nothing that the producer relies on: a   *)
(* front moves on towards the tail, and the consumer does not come to the  *)
(* block that the producer is about to use.                                *)
LEMMA ConsumerProducerInv ==
  ASSUME BlockTypes, ThreadTypes, Places, ProducerInv, ConsumerInv,
         ConsumerStep \/ \E op \in ConsumerOps : Call(op)
  PROVE  ProducerInv'
<1>1. PICK t, f, c : t = tailBlock /\ f = frontBlock /\ c = Back.next
  OBVIOUS
<1>2. t \in Blk /\ f \in Blk /\ c \in Blk /\ Len(blocks) \in Blk
  BY <1>1, BlockIs DEF BlockTypes, Back
<1>3. /\ Blk' = Blk /\ Len(blocks') = Len(blocks)
      /\ producer' = producer /\ tailBlock' = t /\ sent' = sent
      /\ \A b \in Blk : /\ blocks'[b].size = blocks[b].size /\ blocks'[b].tail = blocks[b].tail
                        /\ blocks'[b].localFront = blocks[b].localFront
                        /\ blocks'[b].next = blocks[b].next
      /\ \A b \in Blk : b # f =>
           blocks'[b].front = blocks[b].front /\ blocks'[b].data = blocks[b].data
      /\ \A b \in Blk : blocks'[b].data[blocks[b].tail] = blocks[b].data[blocks[b].tail]
      /\ frontBlock' # f => AdvanceFront
  BY <1>1, ConsumerKeeps
<1>4. Back'.next = c /\ Back.next = c
  BY <1>1, <1>2, <1>3 DEF Back
<1>5. NextTail(Back)' = NextTail(Back) /\ Back'.localFront = Back.localFront
  BY <1>1, <1>2, <1>3 DEF Back, NextTail
<1>6. Sending'
  BY <1>3 DEF ProducerInv, Sending
<1>7. producer'.pc \in {"store", "publish"} => NextTail(Back)' # Back'.localFront
  BY <1>3, <1>5 DEF ProducerInv
<1>8. producer'.pc = "publish" => Back'.data[Back'.tail] = sent' + 1
  BY <1>1, <1>2, <1>3 DEF ProducerInv, Back
<1>9. producer'.pc \in {"useNext", "publishNext", "advance"} => Back'.next # frontBlock'
  <2>1. producer.pc \in {"useNext", "publishNext", "advance"} => c # f
    BY <1>1 DEF ProducerInv
  <2>2. CASE frontBlock' = f
    BY <1>3, <1>4, <2>1, <2>2
  <2>3. CASE AdvanceFront
    <3>1. frontBlock' = blocks[f].next /\ f # t
      BY <1>1, <2>3 DEF AdvanceFront, ConsumerAt, ConsumerInv, Front
    <3>2. f \in Linked /\ t \in Linked
      BY <1>1, UnreachedIs DEF Places, Ring
    <3>3. QED
      BY <1>1, <1>4, <3>1, <3>2 DEF Places, Ring, Back
  <2>4. QED
    BY <1>3, <2>2, <2>3
<1>10. producer'.pc \in {"useNext", "publishNext"} => blocks'[c].front = blocks'[c].tail
  BY <1>1, <1>2, <1>3 DEF ProducerInv
<1>11. producer'.pc = "publishNext" =>
         /\ NextTail(blocks[c])' # blocks'[c].localFront
         /\ blocks'[c].data[blocks'[c].tail] = sent' + 1
  BY <1>1, <1>2, <1>3 DEF ProducerInv, NextTail
<1>12. producer'.pc = "link" => blocks'[Len(blocks')].next = Back'.next
  BY <1>1, <1>2, <1>3, <1>4 DEF ProducerInv
<1>13. \A b \in Unreached' : Pending(b)'
  <2>1. Unreached' = Unreached
    BY <1>2, <1>3, <1>4 DEF Unreached, Blk
  <2>2. \A b \in Unreached : b \in Blk /\ b # f /\ Pending(b)
    BY <1>1, UnreachedIs DEF Places, ProducerInv
  <2>3. \A b \in Unreached : Pending(b)'
    BY <1>3, <2>2 DEF Pending
  <2>4. QED
    BY <2>1, <2>3
<1>14. QED
  BY <1>4, <1>6, <1>7, <1>8, <1>9, <1>10, <1>11, <1>12, <1>13 DEF ProducerInv

(* A step that leads to where the producer has nothing to remember.        *)
LEMMA ProducerRests ==
  ASSUME producer'.pc \in {"idle", "signal", "post", "front", "next", "newBlock"}, Sending'
  PROVE  ProducerInv'
<1>1. Unreached' = {}
  BY DEF Unreached
<1>2. QED
  BY <1>1 DEF ProducerInv

(* A step of the producer establishes what its next step relies on.        *)
LEMMA ProducerProducerInv ==
  ASSUME BlockTypes, ThreadTypes, Places, ProducerInv, ConsumerInv,
         ProducerStep \/ \E canAlloc \in BOOLEAN : Enqueue(canAlloc)
  PROVE  ProducerInv'
<1>1. PICK t, c : t = tailBlock /\ c = blocks[tailBlock].next
  OBVIOUS
<1>2. t \in Blk /\ c \in Blk /\ Len(blocks) \in Blk /\ Back.next = c
  BY <1>1, BlockIs DEF BlockTypes, Back
<1>3. producer'.pc \notin {"link", "advance"} => \A b \in Unreached' : Pending(b)'
  BY DEF Unreached
<1>4. CASE \E canAlloc \in BOOLEAN : Enqueue(canAlloc)
  <2>1. /\ UNCHANGED <<blocks, tailBlock, sent>> /\ sent < Enqueues
        /\ producer'.pc \in {"store", "front"}
        /\ producer'.pc = "store" => NextTail(Back) # Back.localFront
    BY <1>4 DEF Enqueue
  <2>2. NextTail(Back)' = NextTail(Back) /\ Back' = Back
    BY <2>1 DEF Back, NextTail
  <2>3. QED
    BY <1>3, <2>1, <2>2 DEF ProducerInv, Sending
<1>5. CASE ReadFront
  <2>1. /\ \A b \in Blk : SameEnds(b) /\ blocks'[t].localFront = blocks[t].front
        /\ tailBlock' = t /\ sent' = sent
        /\ producer'.pc = IF NextTail(Back) # Back.front THEN "store" ELSE "next"
        /\ producer.pc = "front"
    BY <1>1, <1>5, ReadFrontView, ProducerPc DEF ReadFront, ProducerAt
  <2>2. NextTail(Back)' = NextTail(Back) /\ Back'.localFront = Back.front
    BY <1>1, <1>2, <2>1 DEF Back, NextTail, SameEnds
  <2>3. Sending'
    BY <2>1 DEF ProducerInv, Sending, EnqueuePcs
  <2>4. QED
    BY <1>3, <2>1, <2>2, <2>3 DEF ProducerInv
<1>6. CASE StoreElement
  <2>1. /\ \A b \in Blk : SameEnds(b) /\ SameCopies(b)
        /\ blocks'[t].data = [blocks[t].data EXCEPT ![blocks[t].tail] = sent + 1]
        /\ tailBlock' = t /\ sent' = sent /\ producer'.pc = "publish" /\ producer.pc = "store"
    BY <1>1, <1>6, StoreView, ProducerPc DEF StoreElement, ProducerAt, ProducerInv
  <2>2. NextTail(Back)' = NextTail(Back) /\ Back'.localFront = Back.localFront
    BY <1>1, <1>2, <2>1 DEF Back, NextTail, SameEnds, SameCopies
  <2>3. Back'.data[Back'.tail] = sent' + 1
    BY <1>1, <1>2, <2>1, BlockIs DEF Back, SameEnds
  <2>4. Sending'
    BY <2>1 DEF ProducerInv, Sending, EnqueuePcs
  <2>5. QED
    BY <1>3, <2>1, <2>2, <2>3, <2>4 DEF ProducerInv
<1>7. CASE PublishElement \/ AdvanceTail \/ NoMemory \/ SignalCount \/ SignalSema
  <2>1. producer'.pc \in {"idle", "signal", "post"}
    BY <1>7, ProducerPc DEF PublishElement, AdvanceTail, NoMemory, SignalCount, SignalSema
  <2>2. QED
    BY <2>1, ProducerRests DEF Sending, EnqueuePcs
<1>8. CASE CheckNext
  <2>1. /\ UNCHANGED <<blocks, frontBlock, tailBlock, sent>> /\ producer.pc = "next"
        /\ producer'.pc \in {"useNext", "newBlock", "idle"}
        /\ producer'.pc = "useNext" => Back.next # frontBlock
    BY <1>8, ProducerPc DEF CheckNext, ProducerAt
  <2>2. Sending'
    BY <2>1 DEF ProducerInv, Sending, EnqueuePcs
  <2>3. Back.next # frontBlock => blocks[Back.next].front = blocks[Back.next].tail
    BY <2>1, UnreachedIs, NextEmpty DEF Places
  <2>4. QED
    BY <1>3, <2>1, <2>2, <2>3 DEF ProducerInv, Back
<1>9. CASE UseNextBlock
  <2>1. /\ \A b \in Blk : SameEnds(b) /\ SameNext(b)
        /\ blocks'[c].localFront = blocks[c].front
        /\ blocks'[c].data = [blocks[c].data EXCEPT ![blocks[c].tail] = sent + 1]
        /\ tailBlock' = t /\ frontBlock' = frontBlock /\ sent' = sent
        /\ producer'.pc = "publishNext" /\ producer.pc = "useNext"
    BY <1>1, <1>9, UseNextView, ProducerPc DEF UseNextBlock, ProducerAt, ProducerInv
  <2>2. Sending'
    BY <2>1 DEF ProducerInv, Sending, EnqueuePcs
  <2>3. Back'.next = c /\ c # frontBlock' /\ blocks[c].front = blocks[c].tail
    BY <1>1, <1>2, <2>1 DEF ProducerInv, Back, SameNext
  <2>4. After(blocks[c].tail, blocks[c].size) # blocks[c].tail
    BY <1>2, BlockIs, AfterIs
  <2>5. /\ NextTail(blocks[c])' # blocks'[c].localFront
        /\ blocks'[c].data[blocks'[c].tail] = sent' + 1
        /\ blocks'[c].front = blocks'[c].tail
    BY <1>2, <2>1, <2>3, <2>4, BlockIs DEF NextTail, SameEnds
  <2>6. QED
    BY <1>3, <2>1, <2>2, <2>3, <2>5 DEF ProducerInv
<1>10. CASE PublishInNextBlock
  <2>1. /\ \A b \in Blk : SameNext(b)
        /\ tailBlock' = t /\ frontBlock' = frontBlock /\ sent' = sent
        /\ producer'.pc = "advance" /\ producer.pc = "publishNext"
    BY <1>1, <1>10, PublishNextView, ProducerPc DEF PublishInNextBlock, ProducerAt
  <2>2. Sending'
    BY <2>1 DEF ProducerInv, Sending, EnqueuePcs
  <2>3. Back'.next = c /\ c # frontBlock'
    BY <1>1, <1>2, <2>1 DEF ProducerInv, Back, SameNext
  <2>4. \A b \in Unreached' : Pending(b)'
    BY <1>10, PublishNextPlaces
  <2>5. QED
    BY <2>1, <2>2, <2>3, <2>4 DEF ProducerInv
<1>11. CASE NewBlock
  <2>1. /\ tailBlock' = t /\ sent' = sent
        /\ producer'.pc = "link" /\ producer.pc = "newBlock"
    BY <1>1, <1>11, ProducerPc DEF NewBlock, ProducerAt
  <2>2. Sending'
    BY <2>1 DEF ProducerInv, Sending, EnqueuePcs
  <2>3. /\ \A b \in Unreached' : Pending(b)'
        /\ SameBlock(t) /\ blocks'[Len(blocks)'].next = c
    BY <1>1, <1>2, <1>11, NewBlockPlaces
  <2>4. blocks'[Len(blocks)'].next = Back'.next
    BY <1>1, <2>1, <2>3 DEF Back, SameBlock, SameNext
  <2>5. QED
    BY <2>1, <2>2, <2>3, <2>4 DEF ProducerInv
<1>12. CASE LinkBlock
  <2>1. /\ tailBlock' = t /\ frontBlock' = frontBlock /\ sent' = sent
        /\ producer'.pc = "advance" /\ producer.pc = "link"
    BY <1>1, <1>12, ProducerPc DEF LinkBlock, ProducerAt
  <2>2. Sending'
    BY <2>1 DEF ProducerInv, Sending, EnqueuePcs
  <2>3. /\ Unreached' = Unreached
        /\ \A b \in Blk : SameEnds(b) /\ SameData(b)
        /\ blocks'[t].next # frontBlock
    BY <1>1, <1>12, LinkPlaces
  <2>4. \A b \in Unreached : b \in Blk /\ Pending(b)
    BY UnreachedIs DEF ProducerInv
  <2>5. \A b \in Unreached' : Pending(b)'
    BY <2>1, <2>3, <2>4 DEF Pending, SameEnds, SameData
  <2>6. QED
    BY <2>1, <2>2, <2>3, <2>5 DEF ProducerInv, Back
<1>13. QED
  BY <1>4, <1>5, <1>6, <1>7, <1>8, <1>9, <1>10, <1>11, <1>12 DEF ProducerStep

-----------------------------------------------------------------------------
(* ConsumerInv and Peeked. *)

-----------------------------------------------------------------------------
(* What the consumer knows.                                                *)

(* A step of the producer changes nothing that the consumer relies on: a   *)
(* tail moves on only away from the front, and the producer leaves its     *)
(* block only for another than the consumer's.                             *)
LEMMA ProducerConsumerInv ==
  ASSUME BlockTypes, ThreadTypes, Places, ProducerInv, ConsumerInv,
         ProducerStep \/ \E canAlloc \in BOOLEAN : Enqueue(canAlloc)
  PROVE  ConsumerInv'
<1>1. PICK t, f, c : t = tailBlock /\ f = frontBlock /\ c = Front.next
  OBVIOUS
<1>2. t \in Blk /\ f \in Blk /\ c \in Blk
  BY <1>1, BlockIs DEF BlockTypes, Front
<1>3. /\ consumer' = consumer /\ frontBlock' = f /\ taken' = taken
      /\ \A b \in Blk : /\ blocks'[b].size = blocks[b].size /\ blocks'[b].front = blocks[b].front
                        /\ blocks'[b].localTail = blocks[b].localTail
      /\ \A b \in Blk : b # t => SameNext(b)
      /\ f # t => blocks'[f].tail = blocks[f].tail
      /\ f # t => f # tailBlock'
      /\ consumer.pc = "release"
           => blocks'[f].data[blocks[f].front] = blocks[f].data[blocks[f].front]
  BY <1>1, ProducerKeeps
<1>4. /\ Front'.front = Front.front /\ Front'.localTail = Front.localTail
      /\ f # t => Front'.tail = Front.tail /\ Front'.next = c
  BY <1>1, <1>2, <1>3 DEF Front, SameNext
<1>5. consumer'.pc = "advance" => blocks'[Front'.next].front # blocks'[Front'.next].localTail
  BY <1>1, <1>2, <1>3, <1>4 DEF ConsumerInv
<1>6. consumer'.pc = "release" => Front'.data[Front'.front] = None
  BY <1>1, <1>2, <1>3 DEF ConsumerInv, Front
<1>7. Peeks' <=> Peeks
  BY <1>3 DEF Peeks
<1>8. QED
  BY <1>1, <1>3, <1>4, <1>5, <1>6, <1>7 DEF ConsumerInv

(* A step that leads to where the consumer knows nothing of the blocks.    *)
LEMMA ConsumerRests ==
  ASSUME consumer'.pc \in {"idle", "size", "blockFront", "blockTail", "tailBlock"}
           \cup TryPcs \cup WaitPcs
  PROVE  ConsumerInv'
BY DEF ConsumerInv, TryPcs, WaitPcs

(* A step of the consumer establishes what its next step relies on.        *)
LEMMA ConsumerConsumerInv ==
  ASSUME BlockTypes, ThreadTypes, Places, ConsumerInv,
         ConsumerStep \/ \E op \in ConsumerOps : Call(op)
  PROVE  ConsumerInv'
<1>1. PICK t, f, c : t = tailBlock /\ f = frontBlock /\ c = blocks[frontBlock].next
  OBVIOUS
<1>2. t \in Blk /\ f \in Blk /\ c \in Blk /\ Front.next = c
  BY <1>1, BlockIs DEF BlockTypes, Front
<1>3. CASE \/ \E op \in ConsumerOps : Call(op)
           \/ Size \/ TryWait \/ Spin \/ TakeCount \/ Decrement \/ SemaWait \/ TimeOut
           \/ Restore \/ DecrementAgain \/ SemaTry \/ PeekNext \/ ReleaseElement
  <2>1. consumer'.pc \in {"idle", "size", "blockFront"} \cup TryPcs \cup WaitPcs
    <3>1. CASE \E op \in ConsumerOps : Call(op)
      BY <3>1 DEF Call, TryPcs, WaitPcs
    <3>2. CASE PeekNext
      BY <3>2 DEF PeekNext, ThreadTypes
    <3>3. CASE \/ Size \/ TryWait \/ Spin \/ TakeCount \/ Decrement \/ SemaWait \/ TimeOut
               \/ Restore \/ DecrementAgain \/ SemaTry \/ ReleaseElement
      BY <3>3, ConsumerPc
         DEF Size, TryWait, Spin, TakeCount, Decrement, SemaWait, TimeOut, Restore,
             DecrementAgain, SemaTry, ReleaseElement, TryPcs, WaitPcs
    <3>4. QED
      BY <1>3, <3>1, <3>2, <3>3
  <2>2. QED
    BY <2>1, ConsumerRests
<1>4. CASE CheckFront
  <2>1. /\ UNCHANGED <<blocks, frontBlock>>
        /\ consumer'.pc = IF Front.front # Front.localTail THEN "take" ELSE "blockTail"
    BY <1>4, ConsumerPc DEF CheckFront
  <2>2. QED
    BY <2>1 DEF ConsumerInv, Front
<1>5. CASE ReadTail("blockTail", "tailBlock")
  <2>1. /\ \A b \in Blk : SameEnds(b)
        /\ blocks'[f].localTail = blocks[f].tail /\ frontBlock' = f
        /\ consumer'.pc = IF Front.front # Front.tail THEN "take" ELSE "tailBlock"
    BY <1>1, <1>5, ReadTailView, ConsumerPc DEF ReadTail
  <2>2. consumer'.pc = "take" => Front'.front # Front'.localTail
    BY <1>1, <1>2, <2>1 DEF Front, SameEnds
  <2>3. QED
    BY <2>1, <2>2 DEF ConsumerInv
<1>6. CASE ReadTail("reread", "nextBlock")
  <2>1. /\ \A b \in Blk : SameEnds(b)
        /\ blocks'[f].localTail = blocks[f].tail /\ frontBlock' = f /\ tailBlock' = t
        /\ consumer.pc = "reread"
        /\ consumer'.pc = IF Front.front # Front.tail THEN "take" ELSE "nextBlock"
    BY <1>1, <1>6, ReadTailView, ConsumerPc DEF ReadTail, ConsumerAt
  <2>2. /\ consumer'.pc = "take" => Front'.front # Front'.localTail
        /\ consumer'.pc = "nextBlock" => Front'.front = Front'.tail
    BY <1>1, <1>2, <2>1 DEF Front, SameEnds
  <2>3. f # t
    BY <1>1, <2>1 DEF ConsumerInv
  <2>4. QED
    BY <2>1, <2>2, <2>3 DEF ConsumerInv
<1>7. CASE CheckTailBlock
  <2>1. /\ UNCHANGED <<blocks, frontBlock, tailBlock>>
        /\ consumer'.pc = IF frontBlock # tailBlock THEN "reread" ELSE "idle"
    BY <1>7, ConsumerPc DEF CheckTailBlock, ConsumerAt
  <2>2. QED
    BY <2>1 DEF ConsumerInv
<1>8. CASE Peeks /\ ReadNextBlock
  <2>1. /\ UNCHANGED <<blocks, frontBlock, tailBlock>>
        /\ consumer.pc = "nextBlock" /\ consumer'.pc = "peekNext" /\ consumer'.op = consumer.op
    BY <1>8, ConsumerPc DEF ReadNextBlock, ConsumerAt
  <2>2. Peeks'
    BY <1>8, <2>1 DEF Peeks
  <2>3. QED
    BY <2>1, <2>2 DEF ConsumerInv, Front
<1>9. CASE ~ Peeks /\ ReadNextBlock
  <2>1. /\ \A b \in Blk : SameEnds(b) /\ SameNext(b)
        /\ blocks'[c].localTail = blocks[c].tail /\ frontBlock' = f /\ tailBlock' = t
        /\ consumer.pc = "nextBlock" /\ consumer'.pc = "advance" /\ consumer'.op = consumer.op
    BY <1>1, <1>9, ReadNextView, ConsumerPc DEF ReadNextBlock, ConsumerAt
  <2>2. ~ Peeks'
    BY <1>9, <2>1 DEF Peeks
  <2>3. f # t /\ Front.front = Front.tail
    BY <1>1, <2>1 DEF ConsumerInv
  <2>4. blocks[c].front # blocks[c].tail
    <3>1. AtFront(c, Lowest)
      BY <1>1, <1>2, <2>3 DEF Places, InOrder, First
    <3>2. QED
      BY <1>2, <3>1, OccupiedIs DEF AtFront, Holds
  <2>5. Front'.front = Front'.tail /\ Front'.next = c
    BY <1>1, <1>2, <2>1, <2>3 DEF Front, SameEnds, SameNext
  <2>6. blocks'[c].front # blocks'[c].localTail
    BY <1>2, <2>1, <2>4 DEF SameEnds
  <2>7. QED
    BY <2>1, <2>2, <2>3, <2>5, <2>6 DEF ConsumerInv
<1>10. CASE AdvanceFront
  <2>1. /\ blocks' = blocks /\ frontBlock' = c /\ consumer.pc = "advance" /\ consumer'.pc = "take"
    BY <1>2, <1>10, ConsumerPc DEF AdvanceFront, ConsumerAt
  <2>2. QED
    BY <1>2, <2>1 DEF ConsumerInv, Front
<1>11. CASE Peeks /\ TakeElement
  BY <1>11, ConsumerRests DEF TakeElement, ThreadTypes
<1>12. CASE ~ Peeks /\ TakeElement
  <2>1. /\ \A b \in Blk : SameEnds(b) /\ SameCopies(b)
        /\ blocks'[f].data = [blocks[f].data EXCEPT ![blocks[f].front] = None]
        /\ frontBlock' = f
    BY <1>1, <1>12, TakeView DEF TakeElement
  <2>2. consumer.pc = "take" /\ consumer'.pc = "release" /\ consumer'.op = consumer.op
    BY <1>12 DEF TakeElement, ConsumerAt, ThreadTypes
  <2>3. ~ Peeks'
    BY <1>12, <2>2 DEF Peeks
  <2>4. Front'.front # Front'.localTail
    BY <1>1, <1>2, <2>1, <2>2 DEF ConsumerInv, Front, SameEnds, SameCopies
  <2>5. Front'.data[Front'.front] = None
    BY <1>2, <2>1, BlockIs DEF Front, SameEnds
  <2>6. QED
    BY <2>2, <2>3, <2>4, <2>5 DEF ConsumerInv
<1>13. QED
  BY <1>3, <1>4, <1>5, <1>6, <1>7, <1>8, <1>9, <1>10, <1>11, <1>12 DEF ConsumerStep

(* What the consumer has peeked at stays the first element whatever the    *)
(* producer does ...                                                       *)
LEMMA ProducerPeeked ==
  ASSUME BlockTypes, ThreadTypes, Places, ProducerInv, ConsumerInv, Peeked,
         ProducerStep \/ \E canAlloc \in BOOLEAN : Enqueue(canAlloc)
  PROVE  Peeked'
<1>1. consumer' = consumer /\ taken' = taken
  BY ProducerKeeps
<1>2. sent' \in {sent, sent + 1}
  BY DEF ProducerStep, Enqueue, ReadFront, StoreElement, PublishElement, CheckNext, UseNextBlock,
         PublishInNextBlock, NewBlock, NoMemory, LinkBlock, AdvanceTail, SignalCount, SignalSema
<1>3. Lowest' = Lowest /\ Lowest \in Nat /\ sent \in Nat
  BY <1>1, LowestIs DEF Lowest, ThreadTypes
<1>4. QED
  BY <1>1, <1>2, <1>3 DEF Peeked, Peeks

(* ... and peek returns the first element.                                 *)
LEMMA ConsumerPeeked ==
  ASSUME BlockTypes, ThreadTypes, Places, ConsumerInv, Peeked,
         ConsumerStep \/ \E op \in ConsumerOps : Call(op)
  PROVE  Peeked'
<1>1. PICK t, f, c : t = tailBlock /\ f = frontBlock /\ c = blocks[frontBlock].next
  OBVIOUS
<1>2. t \in Blk /\ f \in Blk /\ c \in Blk /\ Front.next = c
  BY <1>1, BlockIs DEF BlockTypes, Front
<1>3. CASE \E op \in ConsumerOps : Call(op)
  BY <1>3 DEF Call, Peeked
<1>4. CASE PeekNext \/ (Peeks /\ TakeElement)
  <2>1. /\ UNCHANGED <<blocks, frontBlock, sent, taken>>
        /\ consumer'.pc = "idle" /\ consumer.pc # "release"
    BY <1>4 DEF PeekNext, TakeElement, ConsumerAt, ThreadTypes
  <2>2. Lowest' = Lowest /\ sent' = sent
    BY <2>1 DEF Lowest
  <2>3. CASE PeekNext
    <3>1. consumer'.value = blocks[c].data[blocks[c].front] /\ consumer.pc = "peekNext"
      BY <1>2, <2>3 DEF PeekNext, ConsumerAt, ThreadTypes
    <3>2. f # t /\ Front.front = Front.tail
      BY <1>1, <3>1 DEF ConsumerInv
    <3>3. AtFront(c, Lowest)
      BY <1>1, <1>2, <3>2 DEF Places, InOrder, First
    <3>4. consumer'.value = Lowest
      BY <2>1, <3>1, <3>3 DEF AtFront, Holds, ElementAt
    <3>5. Lowest <= sent
      BY <3>3 DEF AtFront, Places, Numbered
    <3>6. QED
      BY <2>1, <2>2, <3>4, <3>5 DEF Peeked
  <2>4. CASE Peeks /\ TakeElement
    <3>1. consumer'.value = Front.data[Front.front] /\ consumer.pc = "take"
      BY <2>4 DEF TakeElement, ConsumerAt, ThreadTypes
    <3>2. Front.front # Front.tail
      BY <3>1, FrontHolds DEF Places
    <3>3. AtFront(f, Lowest)
      BY <1>1, <3>2 DEF Places, InOrder, First
    <3>4. consumer'.value = Lowest
      BY <1>1, <2>1, <3>1, <3>3 DEF AtFront, Holds, ElementAt, Front
    <3>5. Lowest <= sent
      BY <3>3 DEF AtFront, Places, Numbered
    <3>6. QED
      BY <2>1, <2>2, <3>4, <3>5 DEF Peeked
  <2>5. QED
    BY <1>4, <2>3, <2>4
<1>5. CASE ~ Peeks /\ TakeElement
  BY <1>5 DEF TakeElement, Peeked, Peeks, ThreadTypes
<1>6. CASE ConsumerStep /\ ~ PeekNext /\ ~ TakeElement
  <2>1. consumer.pc # "idle" /\ consumer'.op = consumer.op /\ consumer'.value = consumer.value
    BY <1>6, ConsumerPc
       DEF ConsumerStep, Size, TryWait, Spin, TakeCount, Decrement, SemaWait, TimeOut, Restore,
           DecrementAgain, SemaTry, CheckFront, ReadTail, CheckTailBlock, ReadNextBlock,
           AdvanceFront, ReleaseElement, ConsumerAt
  <2>2. QED
    BY <2>1 DEF Peeked, Peeks
<1>7. QED
  BY <1>3, <1>4, <1>5, <1>6

-----------------------------------------------------------------------------
(* Semaphore. *)

-----------------------------------------------------------------------------
(* The semaphore.                                                          *)

(* How many elements are left after a step.                                *)
LEMMA LeftIs ==
  ASSUME ThreadTypes
  PROVE  /\ mCount \in Int /\ mSema \in Int /\ Left \in Int
         /\ sent' = sent + 1 /\ taken' = taken => Left' = Left + 1
         /\ sent' = sent /\ taken' = taken => Left' = Left
         /\ sent' = sent /\ Lowest' = Lowest + 1 => Left' = Left - 1
<1>1. Lowest \in Int /\ sent \in Int /\ mCount \in Int /\ mSema \in Int
  BY LowestIs DEF ThreadTypes
<1>2. taken' = taken => Lowest' = Lowest
  BY DEF Lowest
<1>3. QED
  BY <1>1, <1>2 DEF Left

(* A step of the producer keeps the count: it publishes, then it signals,  *)
(* and it posts only for a consumer that waits.                            *)
LEMMA ProducerSemaphore ==
  ASSUME BlockTypes, ThreadTypes, Places, ProducerInv, ConsumerInv, Semaphore,
         ProducerStep \/ \E canAlloc \in BOOLEAN : Enqueue(canAlloc)
  PROVE  Semaphore'
<1>1. /\ consumer' = consumer /\ frontBlock' = frontBlock /\ taken' = taken
      /\ frontBlock # tailBlock => frontBlock' # tailBlock'
  BY ProducerKeeps
<1>2. (Claims' <=> Claims) /\ (Waits' <=> Waits) /\ (Peeks' <=> Peeks)
  BY <1>1 DEF Claims, Waits, Peeks
<1>3. mCount \in Int /\ mSema \in Int /\ Left \in Int
  BY LeftIs
<1>4. CASE PublishElement \/ AdvanceTail
  <2>1. /\ producer.pc # "signal" /\ producer'.pc = "signal" /\ producer.pc # "post"
        /\ sent' = sent + 1 /\ mCount' = mCount /\ mSema' = mSema
    BY <1>4, ProducerPc DEF PublishElement, AdvanceTail, ProducerAt
  <2>2. Left' = Left + 1
    BY <1>1, <2>1, LeftIs
  <2>3. QED
    BY <1>1, <1>2, <1>3, <2>1, <2>2 DEF Semaphore, One
<1>5. CASE SignalCount
  <2>1. /\ producer.pc = "signal" /\ producer'.pc = IF mCount < 0 THEN "post" ELSE "idle"
        /\ sent' = sent /\ mCount' = mCount + 1 /\ mSema' = mSema
    BY <1>5, ProducerPc DEF SignalCount, ProducerAt
  <2>2. Left' = Left
    BY <1>1, <2>1, LeftIs
  <2>3. CASE mCount < 0
    BY <1>1, <1>2, <1>3, <2>1, <2>2, <2>3 DEF Semaphore, One
  <2>4. CASE ~ (mCount < 0)
    BY <1>1, <1>2, <1>3, <2>1, <2>2, <2>4 DEF Semaphore, One
  <2>5. QED
    BY <2>3, <2>4
<1>6. CASE SignalSema
  <2>1. /\ producer.pc = "post" /\ producer'.pc = "idle"
        /\ sent' = sent /\ mCount' = mCount /\ mSema' = mSema + 1
    BY <1>6, ProducerPc DEF SignalSema, ProducerAt
  <2>2. Left' = Left
    BY <1>1, <2>1, LeftIs
  <2>3. QED
    BY <1>1, <1>2, <1>3, <2>1, <2>2 DEF Semaphore, One
<1>7. CASE \/ \E canAlloc \in BOOLEAN : Enqueue(canAlloc)
           \/ ReadFront \/ StoreElement \/ CheckNext \/ UseNextBlock \/ PublishInNextBlock
           \/ NewBlock \/ NoMemory \/ LinkBlock
  <2>1. /\ producer.pc \notin {"signal", "post"} /\ producer'.pc \notin {"signal", "post"}
        /\ sent' = sent /\ mCount' = mCount /\ mSema' = mSema
    <3>1. CASE \E canAlloc \in BOOLEAN : Enqueue(canAlloc)
      BY <3>1 DEF Enqueue, ProducerAt
    <3>2. CASE \/ ReadFront \/ StoreElement \/ CheckNext \/ UseNextBlock \/ PublishInNextBlock
               \/ NewBlock \/ NoMemory \/ LinkBlock
      BY <3>2, ProducerPc
         DEF ReadFront, StoreElement, CheckNext, UseNextBlock, PublishInNextBlock, NewBlock,
             NoMemory, LinkBlock, ProducerAt
    <3>3. QED
      BY <1>7, <3>1, <3>2
  <2>2. Left' = Left
    BY <1>1, <2>1, LeftIs
  <2>3. QED
    BY <1>1, <1>2, <1>3, <2>1, <2>2 DEF Semaphore, One
<1>8. QED
  BY <1>4, <1>5, <1>6, <1>7 DEF ProducerStep

(* A step of the consumer on the semaphore keeps the count: it has one     *)
(* element to claim or it waits, not both.                                 *)
LEMMA WaitSemaphore ==
  ASSUME ThreadTypes, Semaphore,
         \/ \E op \in ConsumerOps : Call(op)
         \/ Size \/ TryWait \/ Spin \/ TakeCount \/ Decrement \/ SemaWait \/ TimeOut
         \/ Restore \/ DecrementAgain \/ SemaTry
  PROVE  Semaphore'
<1>1. mCount \in Int /\ mSema \in Int /\ Left \in Int
  BY LeftIs
<1>2. producer' = producer /\ Left' = Left
  <2>1. producer' = producer /\ sent' = sent /\ taken' = taken
    BY DEF Call, Size, TryWait, Spin, TakeCount, Decrement, SemaWait, TimeOut, Restore,
           DecrementAgain, SemaTry, ConsumerAt
  <2>2. QED
    BY <2>1, LeftIs
<1>3. CASE \E op \in ConsumerOps : Call(op)
  <2>1. PICK op \in ConsumerOps : Call(op)
    BY <1>3
  <2>2. /\ consumer.pc = "idle" /\ consumer'.op = op /\ mCount' = mCount /\ mSema' = mSema
        /\ consumer'.pc = IF op = "head" THEN "size"
                          ELSE IF op = "peek" THEN "blockFront" ELSE "tryWait"
    BY <2>1 DEF Call, ConsumerAt
  <2>3. (~ Claims /\ ~ Waits) /\ ~ Claims' /\ ~ Waits'
    BY <2>1, <2>2 DEF Claims, Waits, Peeks, BlockPcs, WaitPcs
  <2>4. QED
    BY <1>1, <1>2, <2>1, <2>2, <2>3 DEF Semaphore, One, Peeks, BlockPcs, WaitPcs, TryPcs
<1>4. CASE ~ (\E op \in ConsumerOps : Call(op))
  <2>1. consumer'.op = consumer.op /\ (Peeks' <=> Peeks)
    BY <1>4, ConsumerPc
       DEF Size, TryWait, Spin, TakeCount, Decrement, SemaWait, TimeOut, Restore, DecrementAgain,
           SemaTry, Peeks
  <2>2. CASE Size
    <3>1. /\ consumer.pc = "size" /\ mCount' = mCount /\ mSema' = mSema
          /\ consumer'.pc = IF mCount > 0 THEN "blockFront" ELSE "idle"
      BY <2>2, ConsumerPc DEF Size, ConsumerAt
    <3>2. Peeks /\ ~ Claims /\ ~ Waits /\ ~ Claims' /\ ~ Waits'
      BY <2>1, <3>1 DEF Semaphore, Claims, Waits, Peeks, BlockPcs, WaitPcs
    <3>3. QED
      BY <1>1, <1>2, <2>1, <3>1, <3>2 DEF Semaphore, One, BlockPcs, WaitPcs, TryPcs
  <2>3. CASE TryWait \/ Spin
    <3>1. /\ consumer.pc \in {"tryWait", "spin"} /\ mCount' = mCount /\ mSema' = mSema
          /\ consumer'.pc \in {"takeCount", "idle", "spin", "decrement"}
          /\ consumer'.pc = "takeCount" => mCount > 0
      BY <2>3, ConsumerPc DEF TryWait, Spin, ConsumerAt
    <3>2. ~ Peeks /\ ~ Claims /\ ~ Waits /\ ~ Claims' /\ ~ Waits'
      BY <2>1, <3>1 DEF Semaphore, Claims, Waits, BlockPcs, WaitPcs, TryPcs
    <3>3. QED
      BY <1>1, <1>2, <2>1, <3>1, <3>2 DEF Semaphore, One, BlockPcs, WaitPcs, TryPcs
  <2>4. CASE TakeCount \/ (Decrement /\ mCount > 0)
    <3>1. /\ consumer.pc \in {"takeCount", "decrement"} /\ mCount' = mCount - 1 /\ mSema' = mSema
          /\ consumer'.pc = "blockFront"
      BY <2>4, ConsumerPc DEF TakeCount, Decrement, ConsumerAt
    <3>2. ~ Peeks /\ ~ Claims /\ ~ Waits /\ Claims' /\ ~ Waits'
      BY <2>1, <3>1 DEF Semaphore, Claims, Waits, BlockPcs, WaitPcs, TryPcs
    <3>3. mCount >= 1 /\ consumer.op # "head"
      BY <1>1, <2>4, <3>1, <3>2 DEF Semaphore, TakeCount, ConsumerAt, Peeks
    <3>4. QED
      BY <1>1, <1>2, <2>1, <3>1, <3>2, <3>3 DEF Semaphore, One, BlockPcs, WaitPcs, TryPcs
  <2>5. CASE Decrement /\ ~ (mCount > 0)
    <3>1. /\ consumer.pc = "decrement" /\ mCount' = mCount - 1 /\ mSema' = mSema
          /\ consumer'.pc = "semaWait"
      BY <2>5, ConsumerPc DEF Decrement, ConsumerAt
    <3>2. ~ Peeks /\ ~ Claims /\ ~ Waits /\ ~ Claims' /\ Waits'
      BY <2>1, <3>1 DEF Semaphore, Claims, Waits, BlockPcs, WaitPcs, TryPcs
    <3>3. QED
      BY <1>1, <1>2, <2>1, <2>5, <3>1, <3>2 DEF Semaphore, One, BlockPcs, WaitPcs, TryPcs
  <2>6. CASE (SemaWait \/ SemaTry) /\ mSema > 0
    <3>1. /\ consumer.pc \in {"semaWait", "semaTry"} /\ mCount' = mCount /\ mSema' = mSema - 1
          /\ consumer'.pc = "blockFront"
      BY <2>6, ConsumerPc DEF SemaWait, SemaTry, ConsumerAt
    <3>2. ~ Peeks /\ ~ Claims /\ Waits /\ Claims' /\ ~ Waits'
      BY <2>1, <3>1 DEF Semaphore, Claims, Waits, BlockPcs, WaitPcs, TryPcs
    <3>3. mCount >= 0 /\ mSema = 1 /\ producer.pc # "post" /\ consumer.op # "head"
      BY <1>1, <2>6, <3>1, <3>2 DEF Semaphore, One, Peeks
    <3>4. QED
      BY <1>1, <1>2, <2>1, <3>1, <3>2, <3>3 DEF Semaphore, One, BlockPcs, WaitPcs, TryPcs
  <2>7. CASE TimeOut \/ (SemaTry /\ ~ (mSema > 0))
    <3>1. /\ consumer.pc \in {"semaWait", "semaTry"} /\ mCount' = mCount /\ mSema' = mSema
          /\ consumer'.pc = "restore"
      BY <2>7, ConsumerPc DEF TimeOut, SemaTry, ConsumerAt
    <3>2. ~ Peeks /\ ~ Claims /\ Waits /\ ~ Claims' /\ Waits'
      BY <2>1, <3>1 DEF Semaphore, Claims, Waits, BlockPcs, WaitPcs, TryPcs
    <3>3. QED
      BY <1>1, <1>2, <2>1, <3>1, <3>2 DEF Semaphore, One, BlockPcs, WaitPcs, TryPcs
  <2>8. CASE Restore
    <3>1. /\ consumer.pc = "restore" /\ mCount' = mCount + 1 /\ mSema' = mSema
          /\ consumer'.pc = IF mCount < 0 THEN "idle" ELSE "again"
      BY <2>8, ConsumerPc DEF Restore, ConsumerAt
    <3>2. ~ Peeks /\ ~ Claims /\ Waits /\ ~ Claims' /\ ~ Waits'
      BY <2>1, <3>1 DEF Semaphore, Claims, Waits, BlockPcs, WaitPcs, TryPcs
    <3>3. QED
      BY <1>1, <1>2, <2>1, <3>1, <3>2 DEF Semaphore, One, BlockPcs, WaitPcs, TryPcs
  <2>9. CASE DecrementAgain
    <3>1. /\ consumer.pc = "again" /\ mCount' = mCount - 1 /\ mSema' = mSema
          /\ consumer'.pc = "semaTry" /\ mCount >= 1
      <4>1. consumer.pc = "again"
        BY <2>9 DEF DecrementAgain, ConsumerAt
      <4>2. mCount > 0
        BY <1>1, <4>1 DEF Semaphore
      <4>3. QED
        BY <1>1, <2>9, <4>1, <4>2, ConsumerPc DEF DecrementAgain
    <3>2. ~ Peeks /\ ~ Claims /\ ~ Waits /\ ~ Claims' /\ Waits'
      BY <2>1, <3>1 DEF Semaphore, Claims, Waits, BlockPcs, WaitPcs, TryPcs
    <3>3. QED
      BY <1>1, <1>2, <2>1, <3>1, <3>2 DEF Semaphore, One, BlockPcs, WaitPcs, TryPcs
  <2>10. QED
    BY <1>4, <2>2, <2>3, <2>4, <2>5, <2>6, <2>7, <2>8, <2>9 DEF SemaWait
<1>5. QED
  BY <1>3, <1>4

(* A step of the consumer on the blocks keeps the count, which promised it *)
(* an element: it does not come back empty-handed.                         *)
LEMMA BlockSemaphore ==
  ASSUME BlockTypes, ThreadTypes, Places, ConsumerInv, Semaphore,
         \/ CheckFront \/ ReadTail("blockTail", "tailBlock") \/ CheckTailBlock
         \/ ReadTail("reread", "nextBlock") \/ ReadNextBlock \/ AdvanceFront \/ PeekNext
         \/ TakeElement \/ ReleaseElement
  PROVE  Semaphore'
<1>1. mCount \in Int /\ mSema \in Int /\ Left \in Int
  BY LeftIs
<1>2. /\ producer' = producer /\ tailBlock' = tailBlock /\ sent' = sent
      /\ mCount' = mCount /\ mSema' = mSema /\ consumer.pc \in BlockPcs
  BY DEF CheckFront, ReadTail, CheckTailBlock, ReadNextBlock, AdvanceFront, PeekNext, TakeElement,
         ReleaseElement, ConsumerAt, BlockPcs
<1>3. consumer'.op = consumer.op /\ (Peeks' <=> Peeks)
  <2>1. CASE PeekNext \/ TakeElement
    BY <2>1 DEF PeekNext, TakeElement, ThreadTypes, Peeks
  <2>2. CASE ~ (PeekNext \/ TakeElement)
    BY <2>2, ConsumerPc
       DEF CheckFront, ReadTail, CheckTailBlock, ReadNextBlock, AdvanceFront, ReleaseElement,
           Peeks
  <2>3. QED
    BY <2>1, <2>2
<1>4. ~ Waits /\ consumer.pc \notin {"takeCount", "again"} /\ (Claims <=> ~ Peeks) /\ mCount >= 0
      /\ Left >= mCount + One(Claims)
  BY <1>1, <1>2 DEF Semaphore, Waits, Claims, BlockPcs, WaitPcs, One
<1>5. CASE ReleaseElement
  <2>1. consumer.pc = "release" /\ consumer'.pc = "idle"
    BY <1>5, ConsumerPc DEF ReleaseElement, ConsumerAt
  <2>2. Claims /\ ~ Claims' /\ ~ Waits'
    BY <1>4, <2>1 DEF ConsumerInv, Claims, Waits, BlockPcs, WaitPcs
  <2>3. Left' = Left - 1
    BY <1>2, <1>5, ReleasePlaces, LeftIs
  <2>4. QED
    BY <1>1, <1>2, <1>3, <1>4, <2>1, <2>2, <2>3 DEF Semaphore, One, BlockPcs, WaitPcs, TryPcs
<1>6. CASE ~ ReleaseElement
  <2>1. taken' = taken /\ Left' = Left
    <3>1. taken' = taken
      BY <1>6
         DEF CheckFront, ReadTail, CheckTailBlock, ReadNextBlock, AdvanceFront, PeekNext,
             TakeElement
    <3>2. QED
      BY <1>2, <3>1, LeftIs
  <2>2. CASE consumer'.pc = "idle"
    <3>1. Peeks
      <4>1. CASE PeekNext
        BY <4>1 DEF PeekNext, ConsumerAt, ConsumerInv
      <4>2. CASE TakeElement
        BY <2>2, <4>2 DEF TakeElement, ThreadTypes
      <4>3. CASE CheckTailBlock
        <5>1. consumer.pc = "tailBlock" /\ frontBlock = tailBlock
          BY <2>2, <4>3, ConsumerPc DEF CheckTailBlock, ConsumerAt
        <5>2. QED
          BY <5>1 DEF Semaphore, Peeks
      <4>4. CASE ~ PeekNext /\ ~ TakeElement /\ ~ CheckTailBlock
        BY <1>6, <2>2, <4>4, ConsumerPc DEF CheckFront, ReadTail, ReadNextBlock, AdvanceFront
      <4>5. QED
        BY <4>1, <4>2, <4>3, <4>4
    <3>2. ~ Claims /\ ~ Claims' /\ ~ Waits'
      BY <1>4, <2>2, <3>1 DEF Claims, Waits, BlockPcs, WaitPcs
    <3>3. QED
      BY <1>1, <1>2, <1>3, <1>4, <2>1, <2>2, <3>2 DEF Semaphore, One, BlockPcs, WaitPcs, TryPcs
  <2>3. CASE consumer'.pc # "idle"
    <3>1. consumer'.pc \in BlockPcs
      <4>1. CASE PeekNext \/ TakeElement
        BY <2>3, <4>1 DEF PeekNext, TakeElement, ThreadTypes, BlockPcs
      <4>2. CASE ~ PeekNext /\ ~ TakeElement
        BY <1>6, <2>3, <4>2, ConsumerPc
           DEF CheckFront, ReadTail, CheckTailBlock, ReadNextBlock, AdvanceFront, BlockPcs
      <4>3. QED
        BY <4>1, <4>2
    <3>2. (Claims' <=> Claims) /\ ~ Waits' /\ consumer'.pc \notin {"takeCount", "again", "size"}
          /\ consumer'.pc \notin TryPcs \cup WaitPcs
      BY <1>3, <1>4, <3>1 DEF Claims, Waits, BlockPcs, WaitPcs, TryPcs
    <3>3. consumer'.pc = "tailBlock" /\ consumer'.op # "peek" => frontBlock' # tailBlock'
      <4>1. SUFFICES ASSUME consumer'.pc = "tailBlock", consumer'.op # "peek"
                     PROVE  frontBlock' # tailBlock'
        OBVIOUS
      <4>2. CASE ReadTail("blockTail", "tailBlock")
        <5>1. frontBlock' = frontBlock /\ Front.front = Front.tail
          BY <4>1, <4>2, ConsumerPc DEF ReadTail
        <5>2. Left >= 1
          <6>1. CASE Peeks
            <7>1. consumer.op = "head"
              BY <1>3, <4>1, <6>1 DEF Peeks
            <7>2. mCount >= 1
              BY <1>2, <7>1 DEF Semaphore
            <7>3. QED
              BY <1>1, <1>4, <7>2 DEF One
          <6>2. CASE ~ Peeks
            BY <1>1, <1>4, <6>2 DEF One
          <6>3. QED
            BY <6>1, <6>2
        <5>3. Lowest # sent + 1
          BY <5>2, LowestIs DEF Left, ThreadTypes
        <5>4. QED
          BY <1>2, <5>1, <5>3 DEF Places, InOrder, First
      <4>3. CASE ~ ReadTail("blockTail", "tailBlock")
        <5>1. CASE PeekNext \/ TakeElement
          BY <4>1, <5>1 DEF PeekNext, TakeElement, ThreadTypes
        <5>2. CASE ~ PeekNext /\ ~ TakeElement
          BY <1>6, <4>1, <4>3, <5>2, ConsumerPc
             DEF CheckFront, ReadTail, CheckTailBlock, ReadNextBlock, AdvanceFront
        <5>3. QED
          BY <5>1, <5>2
      <4>4. QED
        BY <4>2, <4>3
    <3>4. QED
      BY <1>1, <1>2, <1>3, <1>4, <2>1, <3>1, <3>2, <3>3 DEF Semaphore, One
  <2>4. QED
    BY <2>2, <2>3
<1>7. QED
  BY <1>5, <1>6

-----------------------------------------------------------------------------
(* The invariant holds.                                                    *)

(* make_block.                                                             *)
LEMMA MakeBlockIs ==
  ASSUME NEW size \in Nat \ {0, 1}, NEW next \in Nat, NEW B, B = MakeBlock(size, next)
  PROVE  /\ B \in Block /\ Sized(B) /\ B.size = size /\ B.next = next
         /\ B.front = 0 /\ B.tail = 0 /\ B.localTail = 0 /\ B.localFront = 0
         /\ \A i \in 0 .. size - 1 : B.data[i] = None
<1> DEFINE d == [i \in 0 .. size - 1 |-> None]
<1>1. d \in [0 .. size - 1 -> Values \cup {None}]
  OBVIOUS
<1>2. d \in Datas
  <2> HIDE DEF d
  <2> QED BY <1>1 DEF Datas
<1>3. B = [size |-> size, front |-> 0, localTail |-> 0, tail |-> 0, localFront |-> 0,
           next |-> next, data |-> d]
  BY DEF MakeBlock
<1>4. \A i \in 0 .. size - 1 : d[i] = None
  OBVIOUS
<1> HIDE DEF d
<1>5. B \in Block /\ B.data = d /\ B.size = size /\ B.next = next
      /\ B.front = 0 /\ B.tail = 0 /\ B.localTail = 0 /\ B.localFront = 0
  BY <1>2, <1>3 DEF Block
<1>6. Sized(B)
  BY <1>1, <1>5 DEF Sized
<1>7. QED
  BY <1>4, <1>5, <1>6

(* Quotient and remainder.                                                 *)
LEMMA Division ==
  ASSUME NEW n \in Nat \ {0}, NEW x \in Int
  PROVE  /\ x \div n \in Int
         /\ x % n \in 0 .. n - 1
         /\ x = n * (x \div n) + (x % n)
OBVIOUS

(* The constructor makes a circle of one block or more.                    *)
LEMMA InitialBlocksIs ==
  ASSUME NEW size \in Sizes, NEW B, B = InitialBlocks(size)
  PROVE  \E n \in Nat \ {0}, s \in Nat \ {0, 1} :
           /\ B \in Seq(Block) /\ Len(B) = n
           /\ \A b \in 1 .. n : B[b] = MakeBlock(s, IF b = n THEN 1 ELSE b + 1)
<1>1. size \in Nat \ {0} /\ MaxBlockSize \in Nat \ {0, 1}
  BY SizesAssumption
<1>2. PICK first, n : first = ceilToPow2(size + 1)
                      /\ n = (size + MaxBlockSize * 2 - 3) \div (MaxBlockSize - 1)
  OBVIOUS
<1>3. CASE first > MaxBlockSize * 2
  <2>1. n \in Nat \ {0}
    <3>1. PICK d, r : d = MaxBlockSize - 1 /\ r = size + MaxBlockSize * 2 - 3
      OBVIOUS
    <3>2. d \in Nat \ {0} /\ r \in Nat /\ r >= d /\ n = r \div d
      BY <1>1, <1>2, <3>1
    <3>3. n \in Int /\ r = d * n + (r % d) /\ r % d \in 0 .. d - 1
      BY <3>2, Division
    <3>4. CASE n <= 0
      <4>1. d * n <= 0
        BY <3>2, <3>3, <3>4
      <4>2. QED
        BY <3>2, <3>3, <4>1
    <3>5. QED
      BY <3>3, <3>4
  <2>2. \A b \in 1 .. n : (b % n) + 1 = IF b = n THEN 1 ELSE b + 1
    BY <2>1
  <2>3. B = [b \in 1 .. n |-> MakeBlock(MaxBlockSize, (b % n) + 1)]
    BY <1>2, <1>3 DEF InitialBlocks
  <2>4. \A b \in 1 .. n : B[b] = MakeBlock(MaxBlockSize, IF b = n THEN 1 ELSE b + 1)
    BY <2>2, <2>3
  <2>5. \A b \in 1 .. n : B[b] \in Block
    BY <1>1, <2>1, <2>4, MakeBlockIs
  <2>6. B \in Seq(Block) /\ Len(B) = n
    <3>1. DOMAIN B = 1 .. n /\ B = [b \in 1 .. n |-> B[b]]
      BY <2>3
    <3>2. QED
      BY <2>1, <2>5, <3>1
  <2>7. QED
    BY <1>1, <2>1, <2>4, <2>6
<1>4. CASE ~ (first > MaxBlockSize * 2)
  <2>1. first \in Nat \ {0, 1}
    BY <1>1, <1>2, RoundingAssumption
  <2>2. B = <<MakeBlock(first, 1)>>
    BY <1>2, <1>4 DEF InitialBlocks
  <2>3. MakeBlock(first, 1) \in Block
    BY <2>1, MakeBlockIs
  <2>4. B \in Seq(Block) /\ Len(B) = 1 /\ B[1] = MakeBlock(first, 1)
    BY <2>2, <2>3
  <2>5. QED
    BY <2>1, <2>4
<1>5. QED
  BY <1>3, <1>4

(* A new queue satisfies the invariant.                                    *)
LEMMA InitInv ==
  ASSUME Init
  PROVE  IInv
<1>1. PICK size \in Sizes : blocks = InitialBlocks(size)
  BY DEF Init
<1>2. PICK n \in Nat \ {0}, s \in Nat \ {0, 1} :
        /\ blocks \in Seq(Block) /\ Len(blocks) = n
        /\ \A b \in 1 .. n : blocks[b] = MakeBlock(s, IF b = n THEN 1 ELSE b + 1)
  BY <1>1, InitialBlocksIs
<1>3. Blk = 1 .. n
  BY <1>2 DEF Blk
<1>4. \A b \in Blk : /\ blocks[b] \in Block /\ Sized(blocks[b]) /\ blocks[b].size = s
                     /\ blocks[b].next = IF b = n THEN 1 ELSE b + 1
                     /\ blocks[b].front = 0 /\ blocks[b].tail = 0
                     /\ blocks[b].localTail = 0 /\ blocks[b].localFront = 0
                     /\ \A i \in 0 .. s - 1 : blocks[b].data[i] = None
  BY <1>2, <1>3, MakeBlockIs
<1>5. /\ frontBlock = 1 /\ tailBlock = 1 /\ largestBlockSize = blocks[1].size
      /\ mCount = 0 /\ mSema = 0 /\ producer = [pc |-> "idle", canAlloc |-> FALSE]
      /\ consumer = [pc |-> "idle", op |-> "none", value |-> None]
      /\ sent = 0 /\ taken = None
  BY DEF Init
<1>6. BlockTypes
  <2>1. 1 \in Blk /\ largestBlockSize \in Nat \ {0, 1}
    BY <1>3, <1>4, <1>5
  <2>2. \A b \in Blk : blocks[b].next \in Blk
    BY <1>3, <1>4
  <2>3. QED
    BY <1>2, <1>4, <1>5, <2>1, <2>2 DEF BlockTypes
<1>7. ThreadTypes
  BY <1>5, Numbers DEF ThreadTypes, ProducerPcs, ConsumerPcs
<1>8. Reached = Blk /\ Linked = Blk /\ Unreached = {}
  BY <1>5, UnreachedIs
<1>9. Lowest = 1 /\ sent = 0
  BY <1>5 DEF Lowest
<1>10. \A b \in Blk : Occupied(b) = {}
  BY <1>4, <1>6, OccupiedIs
<1>11. Places
  <2>1. Ring
    BY <1>3, <1>4, <1>5, <1>8 DEF Ring
  <2>2. Copies
    BY <1>4 DEF Copies
  <2>3. Free
    BY <1>4 DEF Free
  <2>4. Numbered /\ Unique
    BY <1>8, <1>10 DEF Numbered, Unique, Holds
  <2>5. Complete
    BY <1>9 DEF Complete
  <2>6. InOrder
    <3>1. First(Lowest)
      BY <1>3, <1>4, <1>5, <1>9 DEF First, Front
    <3>2. QED
      BY <1>8, <1>10, <3>1 DEF InOrder
  <2>7. QED
    BY <2>1, <2>2, <2>3, <2>4, <2>5, <2>6 DEF Places
<1>12. ProducerInv /\ ConsumerInv /\ Peeked
  BY <1>5, <1>8 DEF ProducerInv, ConsumerInv, Peeked, Sending, EnqueuePcs
<1>13. Semaphore
  BY <1>5, <1>9 DEF Semaphore, One, Left, Claims, Waits, BlockPcs, WaitPcs, TryPcs
<1>14. QED
  BY <1>6, <1>7, <1>11, <1>12, <1>13 DEF IInv

(* A step that changes nothing keeps the invariant.                        *)
LEMMA StutterInv ==
  ASSUME IInv, UNCHANGED vars
  PROVE  IInv'
<1>1. UNCHANGED <<blocks, frontBlock, tailBlock, largestBlockSize, mCount, mSema, producer,
                  consumer, sent, taken>>
  BY DEF vars
<1>2. Still /\ BlockTypes' /\ \A b \in Blk : SameCopies(b)
  BY <1>1, ControlStill DEF IInv
<1>3. Copies'
  BY <1>2, CopiesStill DEF IInv, Places, Still
<1>4. Places'
  BY <1>2, <1>3, StillPlaces DEF IInv, Places
<1>5. ThreadTypes'
  BY <1>1 DEF IInv, ThreadTypes
<1>6. ProducerInv'
  <2>1. Unreached' = Unreached
    BY <1>1 DEF Unreached, Back
  <2>2. QED
    BY <1>1, <2>1 DEF IInv, ProducerInv, Sending, Pending, NextTail, Back
<1>7. ConsumerInv' /\ Peeked'
  BY <1>1 DEF IInv, ConsumerInv, Peeked, Peeks, Front, Lowest
<1>8. Semaphore'
  BY <1>1 DEF IInv, Semaphore, One, Left, Lowest, Claims, Waits, Peeks
<1>9. QED
  BY <1>2, <1>4, <1>5, <1>6, <1>7, <1>8 DEF IInv

(* A step keeps the invariant.                                             *)
LEMMA NextInv ==
  ASSUME IInv, Next
  PROVE  IInv'
<1>1. /\ BlockTypes /\ ThreadTypes /\ Places /\ ProducerInv /\ ConsumerInv /\ Peeked /\ Semaphore
  BY DEF IInv
<1>2. BlockTypes' /\ ThreadTypes' /\ Places'
  BY StepPlaces
<1>3. CASE ProducerStep \/ \E canAlloc \in BOOLEAN : Enqueue(canAlloc)
  <2>1. ProducerInv' /\ ConsumerInv' /\ Peeked' /\ Semaphore'
    BY <1>1, <1>3, ProducerProducerInv, ProducerConsumerInv, ProducerPeeked, ProducerSemaphore
  <2>2. QED
    BY <1>2, <2>1 DEF IInv
<1>4. CASE ConsumerStep \/ \E op \in ConsumerOps : Call(op)
  <2>1. ProducerInv' /\ ConsumerInv' /\ Peeked'
    BY <1>1, <1>4, ConsumerProducerInv, ConsumerConsumerInv, ConsumerPeeked
  <2>2. Semaphore'
    BY <1>1, <1>4, WaitSemaphore, BlockSemaphore DEF ConsumerStep
  <2>3. QED
    BY <1>2, <2>1, <2>2 DEF IInv
<1>5. QED
  BY <1>3, <1>4 DEF Next

(* The invariant holds for any number of elements, any initial sizes and   *)
(* any greatest size of a block, and for every interleaving.               *)
THEOREM QueueInvariant == Spec => []IInv
<1>1. Init => IInv
  BY InitInv
<1>2. IInv /\ [Next]_vars => IInv'
  BY NextInv, StutterInv
<1>3. QED
  BY <1>1, <1>2, PTL DEF Spec

-----------------------------------------------------------------------------
(* The theorems.                                                           *)

(* The numbers of an interval in their order.                              *)
Run(low, high) == [k \in 1 .. high - low + 1 |-> low + k - 1]

(* Contents, for any set of numbers.                                       *)
Ranked(H) ==
  [k \in 1 .. Cardinality(H) |-> CHOOSE v \in H : Cardinality({w \in H : w <= v}) = k]

(* The sequence of the numbers in an interval, each at its rank.           *)
LEMMA RanksAre ==
  ASSUME NEW low \in Nat, NEW high \in Nat, low <= high + 1, NEW H, H = low .. high
  PROVE  Ranked(H) = Run(low, high)
<1>1. Cardinality(H) = high - low + 1
  BY FS_Interval
<1>2. ASSUME NEW v \in H PROVE Cardinality({w \in H : w <= v}) = v - low + 1
  <2>1. {w \in H : w <= v} = low .. v
    BY <1>2
  <2>2. v \in Int /\ low <= v
    BY <1>2
  <2>3. Cardinality(low .. v) = v - low + 1
    BY <2>2, FS_Interval
  <2>4. QED
    BY <2>1, <2>3
<1>3. ASSUME NEW k \in 1 .. high - low + 1
      PROVE  (CHOOSE v \in H : Cardinality({w \in H : w <= v}) = k) = low + k - 1
  <2>1. low + k - 1 \in H
    BY <1>3
  <2>2. ASSUME NEW v \in H PROVE Cardinality({w \in H : w <= v}) = k <=> v = low + k - 1
    <3>1. Cardinality({w \in H : w <= v}) = v - low + 1
      BY <1>2
    <3>2. v \in Int /\ k \in Int
      BY <1>3
    <3>3. QED
      BY <3>1, <3>2
  <2>3. QED
    BY <2>1, <2>2
<1>4. QED
  BY <1>1, <1>3 DEF Run, Ranked

(* The first, the rest and one more of an interval.                        *)
LEMMA RunIs ==
  ASSUME NEW low \in Nat \ {0}, NEW high \in 0 .. Enqueues, low <= high + 1
  PROVE  /\ Run(low, high) \in Seq(Values) /\ Len(Run(low, high)) = high - low + 1
         /\ low <= high => /\ Run(low, high) # <<>> /\ Head(Run(low, high)) = low
                           /\ Tail(Run(low, high)) = Run(low + 1, high)
         /\ high < Enqueues => Run(low, high + 1) = Append(Run(low, high), high + 1)
<1>1. Run(low, high) \in Seq(Values) /\ Len(Run(low, high)) = high - low + 1
  BY Numbers DEF Run, Values
<1>2. ASSUME low <= high
      PROVE  /\ Run(low, high) # <<>> /\ Head(Run(low, high)) = low
             /\ Tail(Run(low, high)) = Run(low + 1, high)
  <2>1. Run(low, high) # <<>> /\ Head(Run(low, high)) = low
    BY <1>1, <1>2, Numbers DEF Run
  <2>2. Tail(Run(low, high)) = Run(low + 1, high)
    BY <1>1, <1>2, Numbers DEF Run
  <2>3. QED
    BY <2>1, <2>2
<1>3. ASSUME high < Enqueues PROVE Run(low, high + 1) = Append(Run(low, high), high + 1)
  BY <1>1, <1>3, Numbers DEF Run
<1>4. QED
  BY <1>1, <1>2, <1>3

(* Contents, and what is known of its ends.                                *)
Runs ==
  /\ Contents = Run(Lowest, sent)
  /\ Lowest \in Nat \ {0} /\ sent \in 0 .. Enqueues /\ Lowest <= sent + 1

(* The contents are the elements from the lowest to the last one sent.     *)
LEMMA ContentsAre == IInv => Runs
<1> SUFFICES ASSUME IInv PROVE Runs
  OBVIOUS
<1>1. /\ Lowest \in Nat \ {0} /\ sent \in 0 .. Enqueues /\ sent \in Nat /\ Lowest <= sent + 1
  BY LowestIs, LowestBelow, Numbers DEF IInv, ThreadTypes, Places
<1>2. Held = Lowest .. sent
  <2>1. ASSUME NEW v \in Held PROVE v \in Lowest .. sent
    <3>1. PICK b \in Reached : \E i \in Occupied(b) : v = ElementAt(b, i)
      BY DEF Held
    <3>2. \E i : Holds(b, i, v)
      BY <3>1 DEF Holds
    <3>3. QED
      BY <1>1, <3>2 DEF IInv, Places, Numbered
  <2>2. ASSUME NEW v \in Lowest .. sent PROVE v \in Held
    <3>1. PICK c, j : Holds(c, j, v)
      BY DEF IInv, Places, Complete
    <3>2. v # None
      BY <1>1, Numbers DEF Values
    <3>3. c \in Reached /\ v \in {ElementAt(c, i) : i \in Occupied(c)}
      BY <3>1 DEF Holds
    <3>4. v \in UNION {{ElementAt(b, i) : i \in Occupied(b)} : b \in Reached}
      BY <3>3
    <3>5. QED
      BY <3>2, <3>4 DEF Held
  <2>3. QED
    BY <2>1, <2>2
<1>3. PICK H, low, high : H = Held /\ low = Lowest /\ high = sent
  OBVIOUS
<1>4. Contents = Ranked(H)
  BY <1>3 DEF Contents, Ranked
<1>5. low \in Nat /\ high \in Nat /\ low <= high + 1 /\ H = low .. high
  BY <1>1, <1>2, <1>3
<1>6. Contents = Run(low, high)
  BY <1>4, <1>5, RanksAre
<1>7. QED
  BY <1>1, <1>3, <1>6 DEF Runs

(* The consumer comes to the elements in the order in which they were      *)
(* enqueued, from one place to the next and from one block to the next.    *)
THEOREM ElementsInOrder == Spec => []InOrder
<1>1. IInv => InOrder
  BY DEF IInv, Places
<1>2. QED
  BY <1>1, QueueInvariant, PTL

(* The assertions of the code: a block is empty when the producer takes it *)
(* and is not when the consumer does, a claimed element is found, at most  *)
(* one consumer waits; and a place is free when it is written.             *)
THEOREM AssertionsHold == Spec => []Asserted
<1>1. ASSUME IInv PROVE Asserted
  <2>1. /\ BlockTypes /\ Places /\ ProducerInv /\ ConsumerInv /\ Semaphore
        /\ tailBlock \in Blk /\ frontBlock \in Blk
    BY <1>1 DEF IInv, BlockTypes
  <2>2. producer.pc = "useNext" => blocks[Back.next].front = blocks[Back.next].tail
    BY <2>1 DEF ProducerInv
  <2>3. ASSUME producer.pc = "store" PROVE Back.data[Back.tail] = None
    <3>1. Back.tail \in 0 .. Back.size - 1 /\ Back.tail \notin Occupied(tailBlock)
      BY <2>1, BlockIs, OccupiedIs DEF Back
    <3>2. ~ Writing(tailBlock, Back.tail)
      BY <2>3 DEF Writing
    <3>3. QED
      BY <2>1, <3>1, <3>2 DEF Places, Free, Back
  <2>4. ASSUME consumer.pc = "nextBlock"
        PROVE  blocks[Front.next].front # blocks[Front.next].tail
    <3>1. AtFront(Front.next, Lowest)
      BY <2>1, <2>4 DEF ConsumerInv, Places, InOrder, First
    <3>2. Front.next \in Blk
      BY <2>1, BlockIs DEF Front
    <3>3. QED
      BY <2>1, <3>1, <3>2, OccupiedIs DEF AtFront, Holds
  <2>5. consumer.pc = "tailBlock" /\ frontBlock = tailBlock => consumer.op = "peek"
    BY <2>1 DEF Semaphore
  <2>6. producer.pc = "signal" => mCount >= -1
    BY <2>1 DEF Semaphore
  <2>7. QED
    BY <2>2, <2>3, <2>4, <2>5, <2>6 DEF Asserted
<1>2. QED
  BY <1>1, QueueInvariant, PTL

(* What peek has shown stays the first element until it is popped.         *)
THEOREM PeekedIsFirst == Spec => []PeekedStays
<1>1. ASSUME IInv PROVE PeekedStays
  <2>1. SUFFICES ASSUME consumer.pc = "idle", Peeks, consumer.value # None
                 PROVE  Contents # <<>> /\ consumer.value = Head(Contents)
    BY DEF PeekedStays
  <2>2. consumer.value = Lowest /\ Lowest <= sent
    BY <1>1, <2>1 DEF IInv, Peeked
  <2>3. QED
    BY <1>1, <2>2, ContentsAre, RunIs DEF Runs
<1>2. QED
  BY <1>1, QueueInvariant, PTL

(* No signal is lost and none is left over: with both threads idle the     *)
(* semaphore counts the elements.                                          *)
THEOREM SemaphoreCounts == Spec => []Counted
<1>1. ASSUME IInv PROVE Counted
  <2>1. SUFFICES ASSUME producer.pc = "idle", consumer.pc = "idle"
                 PROVE  mCount = Len(Contents) /\ mSema = 0
    BY DEF Counted
  <2>2. Len(Contents) = Left
    BY <1>1, ContentsAre, RunIs DEF Runs, Left
  <2>3. ~ Claims /\ ~ Waits
    BY <2>1 DEF Claims, Waits, BlockPcs, WaitPcs
  <2>4. ThreadTypes /\ Semaphore
    BY <1>1 DEF IInv
  <2>5. QED
    BY <2>1, <2>2, <2>3, <2>4, LeftIs DEF Semaphore, One
<1>2. QED
  BY <1>1, QueueInvariant, PTL

(* What a step does to the contents: one more, one less, or none.          *)
LEMMA Effects ==
  ASSUME IInv, [Next]_vars
  PROVE  \/ sent' = sent + 1 /\ taken' = taken /\ sent < Enqueues
         \/ sent' = sent /\ taken' = Lowest /\ Lowest' = Lowest + 1
         \/ sent' = sent /\ taken' = taken
<1>1. CASE UNCHANGED vars
  BY <1>1 DEF vars
<1>2. CASE PublishElement \/ AdvanceTail
  BY <1>2 DEF PublishElement, AdvanceTail, ProducerAt, IInv, ProducerInv, Sending, EnqueuePcs
<1>3. CASE ReleaseElement
  <2>1. sent' = sent
    BY <1>3 DEF ReleaseElement, ConsumerAt
  <2>2. QED
    BY <1>3, <2>1, ReleasePlaces DEF IInv
<1>4. CASE \/ \E canAlloc \in BOOLEAN : Enqueue(canAlloc)
           \/ ProducerStep /\ ~ PublishElement /\ ~ AdvanceTail
  BY <1>4
     DEF ProducerStep, Enqueue, ReadFront, StoreElement, CheckNext, UseNextBlock,
         PublishInNextBlock, NewBlock, NoMemory, LinkBlock, SignalCount, SignalSema, ProducerAt
<1>5. CASE \/ \E op \in ConsumerOps : Call(op)
           \/ ConsumerStep /\ ~ ReleaseElement
  BY <1>5
     DEF ConsumerStep, Call, Size, TryWait, Spin, TakeCount, Decrement, SemaWait, TimeOut,
         Restore, DecrementAgain, SemaTry, CheckFront, ReadTail, CheckTailBlock, ReadNextBlock,
         AdvanceFront, PeekNext, TakeElement, ConsumerAt
<1>6. QED
  BY <1>1, <1>2, <1>3, <1>4, <1>5 DEF Next

(* A new queue is an empty FIFO.                                           *)
LEMMA InitFifo ==
  ASSUME Init
  PROVE  Fifo!Init
<1>1. IInv
  BY InitInv
<1>2. Lowest = 1 /\ sent = 0 /\ taken = None
  BY DEF Init, Lowest
<1>3. Contents \in Seq(Values) /\ Len(Contents) = 0
  BY <1>1, <1>2, ContentsAre, RunIs DEF Runs
<1>4. QED
  BY <1>2, <1>3 DEF Fifo!Init

(* A step is a step of the FIFO, or none.                                  *)
LEMMA NextFifo ==
  ASSUME IInv, Runs, Runs', [Next]_vars
  PROVE  [Fifo!Next]_Fifo!vars
<1>1. PICK low, high : low = Lowest /\ high = sent
  OBVIOUS
<1>2. /\ Contents = Run(low, high) /\ low \in Nat \ {0} /\ high \in 0 .. Enqueues
      /\ low <= high + 1 /\ high \in Nat
  BY <1>1, Numbers DEF Runs
<1>3. PICK low1, high1 : low1 = Lowest' /\ high1 = sent'
  OBVIOUS
<1>4. Contents' = Run(low1, high1) /\ low1 <= high1 + 1
  BY <1>3 DEF Runs, Run
<1>5. CASE sent' = sent + 1 /\ taken' = taken /\ sent < Enqueues
  <2>1. low1 = low /\ high1 = high + 1
    BY <1>1, <1>3, <1>5 DEF Lowest
  <2>2. Contents' = Append(Contents, high + 1) /\ Len(Contents) < Enqueues + 1
    <3>1. high < Enqueues /\ Contents' = Run(low, high + 1)
      BY <1>1, <1>4, <1>5, <2>1
    <3>2. Run(low, high + 1) = Append(Run(low, high), high + 1)
      BY <1>2, <3>1, RunIs
    <3>3. Len(Contents) = high - low + 1
      BY <1>2, RunIs
    <3>4. QED
      BY <1>2, <3>1, <3>2, <3>3, Numbers
  <2>3. high + 1 \in 1 .. Enqueues
    BY <1>1, <1>2, <1>5, Numbers
  <2>4. Fifo!Push(high + 1)
    BY <1>5, <2>2 DEF Fifo!Push
  <2>5. QED
    BY <2>3, <2>4 DEF Fifo!Next
<1>6. CASE sent' = sent /\ taken' = Lowest /\ Lowest' = Lowest + 1
  <2>1. low1 = low + 1 /\ high1 = high
    BY <1>1, <1>3, <1>6
  <2>2. low <= high
    BY <1>2, <1>4, <2>1
  <2>3. Contents # <<>> /\ Head(Contents) = low /\ Contents' = Tail(Contents)
    BY <1>2, <1>4, <2>1, <2>2, RunIs
  <2>4. Fifo!Pull
    BY <1>1, <1>6, <2>3 DEF Fifo!Pull
  <2>5. QED
    BY <2>4 DEF Fifo!Next
<1>7. CASE sent' = sent /\ taken' = taken
  <2>1. low1 = low /\ high1 = high
    BY <1>1, <1>3, <1>7 DEF Lowest
  <2>2. Contents' = Contents
    BY <1>2, <1>4, <2>1
  <2>3. QED
    BY <1>7, <2>2 DEF Fifo!vars
<1>8. QED
  BY <1>5, <1>6, <1>7, Effects

(* The queue is a FIFO, whatever the threads read of each other's ends,    *)
(* and however its circle of blocks grows.                                 *)
THEOREM QueueIsFifo == Spec => ImplementsFifo
<1>1. Init => Fifo!Init
  BY InitFifo
<1>2. IInv /\ Runs /\ Runs' /\ [Next]_vars => [Fifo!Next]_Fifo!vars
  BY NextFifo
<1>3. QED
  BY <1>1, <1>2, QueueInvariant, ContentsAre, PTL DEF Spec, ImplementsFifo, Fifo!Spec
=============================================================================
