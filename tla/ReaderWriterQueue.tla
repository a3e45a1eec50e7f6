------------------------- MODULE ReaderWriterQueue -------------------------
(***************************************************************************)
(* The queue of Cannon-dfswp's tiles: BlockingReaderWriterQueue, a circle  *)
(* of blocks for one producer and one consumer at a time, and the          *)
(* LightweightSemaphore on which a consumer may wait.                      *)
(*                                                                         *)
(* A step makes at most one access that the other thread can see.  The     *)
(* accesses happen in the order of the code, which its fences are for.     *)
(***************************************************************************)
EXTENDS Integers, Sequences, FiniteSets

CONSTANTS
  Enqueues,      \* how many elements are enqueued: 1, 2, ..
  Sizes,         \* the sizes with which a queue is constructed
  MaxBlockSize,  \* MAX_BLOCK_SIZE
  None           \* no element

ASSUME SizesAssumption ==
  /\ Enqueues \in Nat /\ None \notin 1 .. Enqueues
  /\ Sizes \subseteq Nat \ {0} /\ MaxBlockSize \in Nat \ {0, 1}

VARIABLES
  blocks,      \* with their ends, the copies that the threads have of them, and next
  frontBlock,
  tailBlock,
  largestBlockSize,
  mCount,      \* m_count, negative while a consumer waits
  mSema,       \* m_sema, the semaphore of the operating system
  producer,    \* its pc, whether it may allocate
  consumer,    \* its pc, its operation, the element it has
  sent,        \* how many elements the consumer can find or could
  taken        \* the last element that was dequeued

vars == <<blocks, frontBlock, tailBlock, largestBlockSize, mCount, mSema, producer,
          consumer, sent, taken>>

-----------------------------------------------------------------------------
(* make_block.                                                             *)
MakeBlock(size, next) ==
  [size |-> size, front |-> 0, localTail |-> 0, tail |-> 0, localFront |-> 0,
   next |-> next, data |-> [i \in 0 .. size - 1 |-> None]]

ceilToPow2(x) == CHOOSE p \in {2 ^ k : k \in 0 .. x} : p >= x /\ p < 2 * x

(* There is such a power.  It is a fact of arithmetic, assumed because the *)
(* provers know nothing of powers.                                         *)
ASSUME RoundingAssumption ==
  \A size \in Sizes : ceilToPow2(size + 1) \in size + 1 .. 2 * size + 1

(* The constructor: one block, or as many as hold size elements and one.   *)
InitialBlocks(size) ==
  LET first == ceilToPow2(size + 1)
      n == (size + MaxBlockSize * 2 - 3) \div (MaxBlockSize - 1)
  IN  IF first > MaxBlockSize * 2
      THEN [b \in 1 .. n |-> MakeBlock(MaxBlockSize, (b % n) + 1)]
      ELSE <<MakeBlock(first, 1)>>

Init ==
  /\ \E size \in Sizes : blocks = InitialBlocks(size)
  /\ frontBlock = 1 /\ tailBlock = 1
  /\ largestBlockSize = blocks[1].size
  /\ mCount = 0 /\ mSema = 0
  /\ producer = [pc |-> "idle", canAlloc |-> FALSE]
  /\ consumer = [pc |-> "idle", op |-> "none", value |-> None]
  /\ sent = 0 /\ taken = None

-----------------------------------------------------------------------------
(* The producer: enqueue and try_enqueue.                                  *)

After(i, size) == (i + 1) % size

Back == blocks[tailBlock]
NextTail(b) == After(b.tail, b.size)
Element == sent + 1

ProducerAt(pc) ==
  /\ producer.pc = pc
  /\ UNCHANGED <<frontBlock, consumer, taken>>

ProducerTo(pc) == producer' = [producer EXCEPT !.pc = pc]

(* The call, up to what it can tell from its own copies.                   *)
Enqueue(canAlloc) ==
  /\ ProducerAt("idle") /\ sent < Enqueues
  /\ producer' = [pc |-> IF NextTail(Back) # Back.localFront THEN "store" ELSE "front",
                  canAlloc |-> canAlloc]
  /\ UNCHANGED <<blocks, tailBlock, largestBlockSize, mCount, mSema, sent>>

ReadFront ==
  /\ ProducerAt("front")
  /\ blocks' = [blocks EXCEPT ![tailBlock].localFront = Back.front]
  /\ ProducerTo(IF NextTail(Back) # Back.front THEN "store" ELSE "next")
  /\ UNCHANGED <<tailBlock, largestBlockSize, mCount, mSema, sent>>

StoreElement ==
  /\ ProducerAt("store")
  /\ blocks' = [blocks EXCEPT ![tailBlock].data[Back.tail] = Element]
  /\ ProducerTo("publish")
  /\ UNCHANGED <<tailBlock, largestBlockSize, mCount, mSema, sent>>

PublishElement ==
  /\ ProducerAt("publish")
  /\ blocks' = [blocks EXCEPT ![tailBlock].tail = NextTail(Back)]
  /\ ProducerTo("signal")
  /\ sent' = sent + 1
  /\ UNCHANGED <<tailBlock, largestBlockSize, mCount, mSema>>

(* Mutant of CheckNext: the block that is read may be written next.        *)
CheckNextAny ==
  /\ ProducerAt("next")
  /\ ProducerTo("useNext")
  /\ UNCHANGED <<blocks, tailBlock, largestBlockSize, mCount, mSema, sent>>

(* The block is full; the one that the consumer reads cannot be the next.  *)
CheckNext ==
  /\ ProducerAt("next")
  /\ ProducerTo(IF Back.next # frontBlock THEN "useNext"
                ELSE IF producer.canAlloc THEN "newBlock" ELSE "idle")
  /\ UNCHANGED <<blocks, tailBlock, largestBlockSize, mCount, mSema, sent>>

UseNextBlock ==
  LET b == Back.next IN
  /\ ProducerAt("useNext")
  /\ blocks' = [blocks EXCEPT ![b].localFront = blocks[b].front,
                              ![b].data[blocks[b].tail] = Element]
  /\ ProducerTo("publishNext")
  /\ UNCHANGED <<tailBlock, largestBlockSize, mCount, mSema, sent>>

PublishInNextBlock ==
  LET b == Back.next IN
  /\ ProducerAt("publishNext")
  /\ blocks' = [blocks EXCEPT ![b].tail = NextTail(blocks[b])]
  /\ ProducerTo("advance")
  /\ UNCHANGED <<tailBlock, largestBlockSize, mCount, mSema, sent>>

(* A block of twice the size, when there is memory for it.                 *)
NewBlock ==
  LET size == IF largestBlockSize >= MaxBlockSize THEN largestBlockSize
              ELSE largestBlockSize * 2
      b == [MakeBlock(size, Back.next) EXCEPT !.data[0] = Element, !.tail = 1, !.localTail = 1]
  IN  /\ ProducerAt("newBlock")
      /\ blocks' = Append(blocks, b)
      /\ largestBlockSize' = size
      /\ ProducerTo("link")
      /\ UNCHANGED <<tailBlock, mCount, mSema, sent>>

NoMemory ==
  /\ ProducerAt("newBlock")
  /\ ProducerTo("idle")
  /\ UNCHANGED <<blocks, tailBlock, largestBlockSize, mCount, mSema, sent>>

(* Mutant of LinkBlock: the block before it still has the old next one.     *)
LinkNothing ==
  /\ ProducerAt("link")
  /\ ProducerTo("advance")
  /\ UNCHANGED <<blocks, tailBlock, largestBlockSize, mCount, mSema, sent>>

LinkBlock ==
  /\ ProducerAt("link")
  /\ blocks' = [blocks EXCEPT ![tailBlock].next = Len(blocks)]
  /\ ProducerTo("advance")
  /\ UNCHANGED <<tailBlock, largestBlockSize, mCount, mSema, sent>>

AdvanceTail ==
  /\ ProducerAt("advance")
  /\ tailBlock' = Back.next
  /\ ProducerTo("signal")
  /\ sent' = sent + 1
  /\ UNCHANGED <<blocks, largestBlockSize, mCount, mSema>>

(* Mutant of SignalCount: a consumer that waits is overlooked.             *)
SignalCountOnly ==
  /\ ProducerAt("signal")
  /\ mCount' = mCount + 1
  /\ ProducerTo(IF mCount < -1 THEN "post" ELSE "idle")
  /\ UNCHANGED <<blocks, tailBlock, largestBlockSize, mSema, sent>>

(* LightweightSemaphore::signal.                                           *)
SignalCount ==
  /\ ProducerAt("signal")
  /\ mCount' = mCount + 1
  /\ ProducerTo(IF mCount < 0 THEN "post" ELSE "idle")
  /\ UNCHANGED <<blocks, tailBlock, largestBlockSize, mSema, sent>>

SignalSema ==
  /\ ProducerAt("post")
  /\ mSema' = mSema + 1
  /\ ProducerTo("idle")
  /\ UNCHANGED <<blocks, tailBlock, largestBlockSize, mCount, sent>>

-----------------------------------------------------------------------------
(* The consumer: first the semaphore.  "pop" is try_dequeue too, which     *)
(* keeps the element that pop destroys; "head" asks for the size before it *)
(* peeks, as the tiles do.                                                 *)

ConsumerAt(pc) ==
  /\ consumer.pc = pc
  /\ UNCHANGED <<tailBlock, largestBlockSize, producer, sent>>

ConsumerTo(pc) == consumer' = [consumer EXCEPT !.pc = pc]

ConsumerOps == {"head", "peek", "pop", "wait", "timed"}

Call(op) ==
  /\ ConsumerAt("idle")
  /\ consumer' = [pc |-> IF op = "head" THEN "size"
                        ELSE IF op = "peek" THEN "blockFront" ELSE "tryWait",
                  op |-> op, value |-> None]
  /\ UNCHANGED <<blocks, frontBlock, mCount, mSema, taken>>

(* size_approx.                                                            *)
Size ==
  /\ ConsumerAt("size")
  /\ ConsumerTo(IF mCount > 0 THEN "blockFront" ELSE "idle")
  /\ UNCHANGED <<blocks, frontBlock, mCount, mSema, taken>>

TryWait ==
  /\ ConsumerAt("tryWait")
  /\ ConsumerTo(IF mCount > 0 THEN "takeCount"
                ELSE IF consumer.op = "pop" THEN "idle" ELSE "spin")
  /\ UNCHANGED <<blocks, frontBlock, mCount, mSema, taken>>

(* A load of the spinning loop: the one that finds something or the last.  *)
Spin ==
  /\ ConsumerAt("spin")
  /\ ConsumerTo(IF mCount > 0 THEN "takeCount" ELSE "decrement")
  /\ UNCHANGED <<blocks, frontBlock, mCount, mSema, taken>>

TakeCount ==
  /\ ConsumerAt("takeCount")
  /\ mCount' = mCount - 1
  /\ ConsumerTo("blockFront")
  /\ UNCHANGED <<blocks, frontBlock, mSema, taken>>

Decrement ==
  /\ ConsumerAt("decrement")
  /\ mCount' = mCount - 1
  /\ ConsumerTo(IF mCount > 0 THEN "blockFront" ELSE "semaWait")
  /\ UNCHANGED <<blocks, frontBlock, mSema, taken>>

SemaWait ==
  /\ ConsumerAt("semaWait") /\ mSema > 0
  /\ mSema' = mSema - 1
  /\ ConsumerTo("blockFront")
  /\ UNCHANGED <<blocks, frontBlock, mCount, taken>>

TimeOut ==
  /\ ConsumerAt("semaWait") /\ consumer.op = "timed" /\ mSema = 0
  /\ ConsumerTo("restore")
  /\ UNCHANGED <<blocks, frontBlock, mCount, mSema, taken>>

(* Mutant of Restore: a signal that came after the time is ignored.        *)
RestoreOnly ==
  /\ ConsumerAt("restore")
  /\ mCount' = mCount + 1
  /\ ConsumerTo("idle")
  /\ UNCHANGED <<blocks, frontBlock, mSema, taken>>

Restore ==
  /\ ConsumerAt("restore")
  /\ mCount' = mCount + 1
  /\ ConsumerTo(IF mCount < 0 THEN "idle" ELSE "again")
  /\ UNCHANGED <<blocks, frontBlock, mSema, taken>>

(* The producer signalled after all.                                       *)
DecrementAgain ==
  /\ ConsumerAt("again")
  /\ mCount' = mCount - 1
  /\ ConsumerTo(IF mCount > 0 THEN "semaTry" ELSE "restore")
  /\ UNCHANGED <<blocks, frontBlock, mSema, taken>>

SemaTry ==
  /\ ConsumerAt("semaTry")
  /\ mSema' = IF mSema > 0 THEN mSema - 1 ELSE mSema
  /\ ConsumerTo(IF mSema > 0 THEN "blockFront" ELSE "restore")
  /\ UNCHANGED <<blocks, frontBlock, mCount, taken>>

-----------------------------------------------------------------------------
(* The consumer: then the blocks.                                          *)

Front == blocks[frontBlock]
Peeks == consumer.op \in {"head", "peek"}

CheckFront ==
  /\ ConsumerAt("blockFront")
  /\ ConsumerTo(IF Front.front # Front.localTail THEN "take" ELSE "blockTail")
  /\ UNCHANGED <<blocks, frontBlock, mCount, mSema, taken>>

ReadTail(pc, otherwise) ==
  /\ ConsumerAt(pc)
  /\ blocks' = [blocks EXCEPT ![frontBlock].localTail = Front.tail]
  /\ ConsumerTo(IF Front.front # Front.tail THEN "take" ELSE otherwise)
  /\ UNCHANGED <<frontBlock, mCount, mSema, taken>>

(* Mutant of CheckTailBlock: the tail is not read once more.               *)
CheckTailBlockOnce ==
  /\ ConsumerAt("tailBlock")
  /\ ConsumerTo(IF frontBlock # tailBlock THEN "nextBlock" ELSE "idle")
  /\ UNCHANGED <<blocks, frontBlock, mCount, mSema, taken>>

(* There is nothing to be had if there is no other block.                  *)
CheckTailBlock ==
  /\ ConsumerAt("tailBlock")
  /\ ConsumerTo(IF frontBlock # tailBlock THEN "reread" ELSE "idle")
  /\ UNCHANGED <<blocks, frontBlock, mCount, mSema, taken>>

(* The ends of the next block; peek leaves everything where it is.         *)
ReadNextBlock ==
  LET b == Front.next IN
  /\ ConsumerAt("nextBlock")
  /\ blocks' = IF Peeks THEN blocks ELSE [blocks EXCEPT ![b].localTail = blocks[b].tail]
  /\ ConsumerTo(IF Peeks THEN "peekNext" ELSE "advance")
  /\ UNCHANGED <<frontBlock, mCount, mSema, taken>>

(* Mutant of AdvanceFront: the consumer goes on to the producer's block.   *)
AdvanceFrontToTail ==
  /\ ConsumerAt("advance")
  /\ frontBlock' = tailBlock
  /\ ConsumerTo("take")
  /\ UNCHANGED <<blocks, mCount, mSema, taken>>

AdvanceFront ==
  /\ ConsumerAt("advance")
  /\ frontBlock' = Front.next
  /\ ConsumerTo("take")
  /\ UNCHANGED <<blocks, mCount, mSema, taken>>

PeekNext ==
  LET b == blocks[Front.next] IN
  /\ ConsumerAt("peekNext")
  /\ consumer' = [consumer EXCEPT !.pc = "idle", !.value = b.data[b.front]]
  /\ UNCHANGED <<blocks, frontBlock, mCount, mSema, taken>>

(* The element is moved out of its place and destroyed.                    *)
TakeElement ==
  /\ ConsumerAt("take")
  /\ consumer' = [consumer EXCEPT !.pc = IF Peeks THEN "idle" ELSE "release",
                                  !.value = Front.data[Front.front]]
  /\ blocks' = IF Peeks THEN blocks
               ELSE [blocks EXCEPT ![frontBlock].data[Front.front] = None]
  /\ UNCHANGED <<frontBlock, mCount, mSema, taken>>

ReleaseElement ==
  /\ ConsumerAt("release")
  /\ blocks' = [blocks EXCEPT ![frontBlock].front = After(@, Front.size)]
  /\ ConsumerTo("idle")
  /\ taken' = consumer.value
  /\ UNCHANGED <<frontBlock, mCount, mSema>>

-----------------------------------------------------------------------------

ProducerStep ==
  \/ ReadFront \/ StoreElement \/ PublishElement \/ CheckNext \/ UseNextBlock
  \/ PublishInNextBlock \/ NewBlock \/ NoMemory \/ LinkBlock \/ AdvanceTail
  \/ SignalCount \/ SignalSema

ConsumerStep ==
  \/ Size \/ TryWait \/ Spin \/ TakeCount \/ Decrement \/ SemaWait \/ TimeOut
  \/ Restore \/ DecrementAgain \/ SemaTry
  \/ CheckFront \/ ReadTail("blockTail", "tailBlock") \/ CheckTailBlock
  \/ ReadTail("reread", "nextBlock") \/ ReadNextBlock \/ AdvanceFront \/ PeekNext
  \/ TakeElement \/ ReleaseElement

Next ==
  \/ \E canAlloc \in BOOLEAN : Enqueue(canAlloc)
  \/ ProducerStep
  \/ \E op \in ConsumerOps : Call(op)
  \/ ConsumerStep

(* Both threads go on with what they have begun.                           *)
Spec == Init /\ [][Next]_vars /\ WF_vars(ProducerStep) /\ WF_vars(ConsumerStep)

-----------------------------------------------------------------------------
(* The elements from the front to the back, with the one that is moved out *)
(* of its place and that only the consumer has.  They are numbered as they *)
(* are enqueued, so that their order is that of their numbers.             *)
ElementAt(b, i) ==
  IF consumer.pc = "release" /\ b = frontBlock /\ i = blocks[b].front THEN consumer.value
  ELSE blocks[b].data[i]

(* The places between two ends of a block.                                 *)
Between(front, tail, size) ==
  IF front <= tail THEN front .. tail - 1 ELSE (front .. size - 1) \cup (0 .. tail - 1)

Occupied(b) == Between(blocks[b].front, blocks[b].tail, blocks[b].size)

(* The block that the consumer cannot come to yet: its element is next.    *)
Unreached ==
  {b \in DOMAIN blocks :
    \/ producer.pc = "link" /\ b = Len(blocks)
    \/ producer.pc = "advance" /\ b = Back.next}

Reached == DOMAIN blocks \ Unreached

Held == (UNION {{ElementAt(b, i) : i \in Occupied(b)} : b \in Reached}) \ {None}

Contents ==
  LET held == Held
  IN  [k \in 1 .. Cardinality(held) |-> CHOOSE v \in held : Cardinality({w \in held : w <= v}) = k]

(* The consumer comes to the elements in this order: v is at the front of  *)
(* its block or of the next one, the one after it is in the place after    *)
(* its own or at the front of the block after its own.                     *)
Holds(b, i, v) == b \in Reached /\ i \in Occupied(b) /\ ElementAt(b, i) = v

AtFront(b, v) == Holds(b, blocks[b].front, v)

First(v) ==
  \/ Front.front # Front.tail /\ AtFront(frontBlock, v)
  \/ Front.front = Front.tail /\ frontBlock # tailBlock /\ AtFront(Front.next, v)
  \/ Front.front = Front.tail /\ frontBlock = tailBlock /\ v = sent + 1

Follows(b, i, v) ==
  LET j == After(i, blocks[b].size) IN
  \/ j # blocks[b].tail /\ Holds(b, j, v)
  \/ j = blocks[b].tail /\ b # tailBlock /\ AtFront(blocks[b].next, v)
  \/ j = blocks[b].tail /\ b = tailBlock /\ v = sent + 1

Lowest == IF taken = None THEN 1 ELSE taken + 1

InOrder ==
  /\ First(Lowest)
  /\ \A b \in Reached : \A i \in Occupied(b) : Follows(b, i, ElementAt(b, i) + 1)

(* What the code asserts: a block is empty when the producer takes it and  *)
(* not when the consumer does, a count that was taken stands for an        *)
(* element (so that pop and the waits find one, and so does a peek after   *)
(* size_approx), at most one consumer waits; and a place is free when it   *)
(* is written.                                                             *)
Asserted ==
  /\ producer.pc = "useNext" => blocks[Back.next].front = blocks[Back.next].tail
  /\ producer.pc = "store" => Back.data[Back.tail] = None
  /\ consumer.pc = "nextBlock" => blocks[Front.next].front # blocks[Front.next].tail
  /\ consumer.pc = "tailBlock" /\ frontBlock = tailBlock => consumer.op = "peek"
  /\ producer.pc = "signal" => mCount >= -1

(* What peek has shown, of which a tile has a pointer, stays the first     *)
(* until it is popped, whatever the producer does in the meantime.         *)
PeekedStays ==
  consumer.pc = "idle" /\ Peeks /\ consumer.value # None =>
    Contents # <<>> /\ consumer.value = Head(Contents)

(* No signal is lost and none is left over: with both threads idle, the    *)
(* semaphore counts the elements.                                          *)
Counted ==
  producer.pc = "idle" /\ consumer.pc = "idle" => mCount = Len(Contents) /\ mSema = 0

(* The promise: a FIFO in which an operation takes effect in one step.     *)
Fifo == INSTANCE BoundedFifo WITH
  Values <- 1 .. Enqueues, Capacity <- Enqueues + 1,
  queue <- Contents, refused <- FALSE

ImplementsFifo == Fifo!Spec

(* wait_dequeue returns when there is something to be had.                 *)
Delivered ==
  consumer.op = "wait" /\ consumer.pc # "idle" /\ Contents # <<>> ~> consumer.pc = "idle"
=============================================================================
