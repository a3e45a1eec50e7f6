-------------------------- MODULE RingBufferProofs --------------------------
(***************************************************************************)
(* The ring never overruns, for every size and every width of its          *)
(* counters.                                                               *)
(***************************************************************************)
EXTENDS RingBuffer, SequenceTheorems, TLAPS

-----------------------------------------------------------------------------
(* Arithmetic of quotients and remainders.                                 *)

(* The remainder of a number in 0 .. w - 1 is the number itself.           *)
LEMMA PlainMod ==
  ASSUME NEW w \in Nat \ {0}, NEW x \in Int, 0 <= x, x < w
  PROVE  x % w = x
OBVIOUS

(* The remainder of a negative number less than one period below 0.        *)
LEMMA BelowMod ==
  ASSUME NEW w \in Nat \ {0}, NEW x \in Int, -w <= x, x < 0
  PROVE  x % w = x + w
OBVIOUS

(* A whole period has no remainder.                                        *)
LEMMA WholeMod ==
  ASSUME NEW w \in Nat \ {0}
  PROVE  w % w = 0
OBVIOUS

(* Quotient and remainder of a number.                                     *)
LEMMA Division ==
  ASSUME NEW n \in Nat \ {0}, NEW x \in Int
  PROVE  /\ x \div n \in Int
         /\ x % n \in 0 .. n - 1
         /\ x = n * (x \div n) + (x % n)
OBVIOUS

(* The sign and the least size of a multiple.                              *)
LEMMA Multiples ==
  ASSUME NEW n \in Nat \ {0}, NEW d \in Int
  PROVE  /\ n * d \in Int
         /\ d >= 1 => n * d >= n
         /\ d <= 0 => n * d <= 0
         /\ d <= -1 => n * d <= -n
OBVIOUS

(* The remainder of a number is unique.                                    *)
LEMMA UniqueRemainder ==
  ASSUME NEW n \in Nat \ {0}, NEW q \in Int, NEW r \in 0 .. n - 1
  PROVE  (n * q + r) % n = r
<1> DEFINE x == n * q + r
           d == q - (x \div n)
<1>1. x \in Int /\ d \in Int
  BY Multiples, Division
<1>2. x = n * (x \div n) + (x % n) /\ x % n \in 0 .. n - 1 /\ x \div n \in Int
  BY <1>1, Division
<1>3. n * d = n * q - n * (x \div n)
  BY <1>2
<1>4. n * d = (x % n) - r
  <2>1. n * q = x - r /\ n * q \in Int
    BY Multiples
  <2>2. n * (x \div n) = x - (x % n)
    <3> HIDE DEF x
    <3> QED BY <1>1, <1>2, Multiples
  <2> HIDE DEF d, x
  <2>3. QED
    BY <1>1, <1>2, <1>3, <2>1, <2>2
<1>5. n * d < n /\ n * d > -n /\ n * d \in Int
  BY <1>2, <1>4
<1>6. d = 0
  <2> HIDE DEF d, x
  <2> QED BY <1>1, <1>5, Multiples
<1>7. QED
  BY <1>2, <1>4, <1>6

(* Counters less than num apart are in different slots.                    *)
LEMMA DifferentSlots ==
  ASSUME NEW n \in Nat \ {0}, NEW x \in Int, NEW k \in 1 .. n - 1
  PROVE  (x + k) % n # x % n
<1> SUFFICES ASSUME (x + k) % n = x % n PROVE FALSE
  OBVIOUS
<1> DEFINE d == ((x + k) \div n) - (x \div n)
<1>1. /\ x = n * (x \div n) + (x % n)
      /\ x + k = n * ((x + k) \div n) + ((x + k) % n)
      /\ x % n \in Int /\ x \div n \in Int /\ (x + k) \div n \in Int
  BY Division
<1>2. n * d = n * ((x + k) \div n) - n * (x \div n) /\ d \in Int
  BY <1>1
<1>3. n * d = k
  BY <1>1, <1>2, Multiples
<1>4. QED
  <2> HIDE DEF d
  <2> QED BY <1>2, <1>3, Multiples

(* Num divides Wrap: the wrap of a counter does not move its slot.         *)
LEMMA Period ==
  ASSUME NEW n \in Nat \ {0}, NEW w \in Nat, w % n = 0, NEW x \in Int
  PROVE  (x + w) % n = x % n
<1>1. w = n * (w \div n) /\ w \div n \in Int
  BY Division
<1>2. x = n * (x \div n) + (x % n) /\ x \div n \in Int /\ x % n \in 0 .. n - 1
  BY Division
<1>3. x + w = n * ((x \div n) + (w \div n)) + (x % n)
  BY <1>1, <1>2
<1> DEFINE q == (x \div n) + (w \div n)
           r == x % n
<1>4. q \in Int /\ r \in 0 .. n - 1 /\ x + w = n * q + r
  BY <1>1, <1>2, <1>3
<1>5. (n * q + r) % n = r
  <2> HIDE DEF q, r
  <2> QED BY <1>4, UniqueRemainder
<1>6. QED
  BY <1>4, <1>5

-----------------------------------------------------------------------------
(* The constants.                                                          *)

(* SizeAssumption without the divisibility, which only Period needs.       *)
LEMMA Sizes == Num \in Nat \ {0} /\ Wrap \in Nat \ {0} /\ Wrap > Num
BY SizeAssumption

USE Sizes

-----------------------------------------------------------------------------
(* How the unsigned difference moves with the counters.                    *)
Behind(p, c) == (p - c) % Wrap
Succ(x) == (x + 1) % Wrap

LEMMA Differences ==
  ASSUME NEW p \in 0 .. Wrap - 1, NEW c \in 0 .. Wrap - 1
  PROVE  /\ Behind(p, c) \in 0 .. Wrap - 1
         /\ p = c + Behind(p, c) \/ p = c + Behind(p, c) - Wrap
         /\ Behind(p, c) < Wrap - 1 => Behind(Succ(p), c) = Behind(p, c) + 1
         /\ Behind(p, c) > 0 => Behind(p, Succ(c)) = Behind(p, c) - 1
         /\ Succ(p) \in 0 .. Wrap - 1
         /\ Succ(c) \in 0 .. Wrap - 1
<1> USE DEF Behind, Succ
<1>1. \A x, y \in 0 .. Wrap - 1 :
        (x - y) % Wrap = IF x >= y THEN x - y ELSE x - y + Wrap
  <2> TAKE x, y \in 0 .. Wrap - 1
  <2>1. x - y \in Int /\ -Wrap <= x - y /\ x - y < Wrap
    OBVIOUS
  <2>2. CASE x >= y
    BY <2>1, <2>2, PlainMod
  <2>3. CASE x < y
    <3>1. x - y < 0
      BY <2>3
    <3>2. (x - y) % Wrap = x - y + Wrap
      BY <2>1, <3>1, BelowMod
    <3>3. QED
      BY <2>3, <3>2
  <2>4. QED
    BY <2>2, <2>3
<1>2. \A x \in 0 .. Wrap - 1 : (x + 1) % Wrap = IF x + 1 = Wrap THEN 0 ELSE x + 1
  <2> TAKE x \in 0 .. Wrap - 1
  <2>1. CASE x + 1 < Wrap
    BY <2>1, PlainMod
  <2>2. CASE x + 1 = Wrap
    BY <2>2, WholeMod
  <2>3. QED
    BY <2>1, <2>2
<1> DEFINE p1 == IF p + 1 = Wrap THEN 0 ELSE p + 1
           c1 == IF c + 1 = Wrap THEN 0 ELSE c + 1
<1>3. p1 \in 0 .. Wrap - 1 /\ c1 \in 0 .. Wrap - 1
  OBVIOUS
<1>4. (p + 1) % Wrap = p1 /\ (c + 1) % Wrap = c1
  BY <1>2
<1>5. /\ (p - c) % Wrap = IF p >= c THEN p - c ELSE p - c + Wrap
      /\ (p1 - c) % Wrap = IF p1 >= c THEN p1 - c ELSE p1 - c + Wrap
      /\ (p - c1) % Wrap = IF p >= c1 THEN p - c1 ELSE p - c1 + Wrap
  <2> HIDE DEF p1, c1
  <2> QED BY <1>1, <1>3
<1>6. QED
  BY <1>3, <1>4, <1>5

(* The slot k elements after the oldest one, and where the next one goes.  *)
LEMMA Positions ==
  ASSUME TypeOK, Outstanding <= Num
  PROVE  /\ Slot(produceCount) = Slot(consumeCount + Outstanding)
         /\ \A k \in Nat :
              Slot(((consumeCount + 1) % Wrap) + k) = Slot(consumeCount + 1 + k)
         /\ \A k \in 0 .. Outstanding - 1 :
              Outstanding < Num => Slot(consumeCount + k) # Slot(produceCount)
         /\ \A x \in Int : Slot(x) \in Slots
<1> DEFINE d == Outstanding
<1>1. /\ produceCount \in Int /\ consumeCount \in Int /\ d \in 0 .. Wrap - 1
      /\ produceCount = consumeCount + d \/ produceCount = consumeCount + d - Wrap
  <2>1. produceCount \in 0 .. Wrap - 1 /\ consumeCount \in 0 .. Wrap - 1
    BY DEF TypeOK
  <2>2. d = Behind(produceCount, consumeCount)
    BY DEF Outstanding, Behind
  <2> HIDE DEF d
  <2>3. QED
    BY <2>1, <2>2, Differences
<1>2. \A x \in Int : Slot(x + Wrap) = Slot(x)
  BY Period, SizeAssumption DEF Slot
<1> HIDE DEF d
<1>3. Slot(produceCount) = Slot(consumeCount + d)
  <2>1. CASE produceCount = consumeCount + d
    BY <2>1
  <2>2. CASE produceCount = consumeCount + d - Wrap
    <3>1. produceCount + Wrap = consumeCount + d
      BY <1>1, <2>2
    <3>2. QED
      BY <1>1, <1>2, <3>1
  <2>3. QED
    BY <1>1, <2>1, <2>2
<1>4. ASSUME NEW k \in Nat
      PROVE  Slot(((consumeCount + 1) % Wrap) + k) = Slot(consumeCount + 1 + k)
  <2>1. CASE consumeCount + 1 < Wrap
    <3>1. (consumeCount + 1) % Wrap = consumeCount + 1
      BY <1>1, <2>1, PlainMod DEF TypeOK
    <3>2. QED
      BY <3>1
  <2>2. CASE consumeCount + 1 = Wrap
    <3>1. (consumeCount + 1) % Wrap = 0
      BY <2>2, WholeMod
    <3>2. consumeCount + 1 + k = k + Wrap
      BY <1>1, <2>2
    <3>3. Slot(k + Wrap) = Slot(k)
      BY <1>2
    <3>4. QED
      BY <3>1, <3>2, <3>3
  <2>3. QED
    BY <2>1, <2>2 DEF TypeOK
<1>5. ASSUME NEW k \in 0 .. d - 1, d < Num
      PROVE  Slot(consumeCount + k) # Slot(produceCount)
  <2>1. d - k \in 1 .. Num - 1 /\ consumeCount + k \in Int
    BY <1>1, <1>5
  <2>2. Slot(consumeCount + k + (d - k)) # Slot(consumeCount + k)
    BY <2>1, DifferentSlots DEF Slot
  <2>3. consumeCount + k + (d - k) = consumeCount + d
    BY <1>1, <1>5
  <2>4. QED
    BY <1>3, <2>2, <2>3
<1>6. \A x \in Int : Slot(x) \in Slots
  BY Division DEF Slot, Slots
<1>7. QED
  BY <1>3, <1>4, <1>5, <1>6 DEF d

-----------------------------------------------------------------------------
(* The invariant.  The counters are only looked at through Outstanding and *)
(* Slot, which the lemmas above describe.                                  *)
LEMMA Counters ==
  ASSUME TypeOK
  PROVE  /\ Outstanding = Behind(produceCount, consumeCount)
         /\ Outstanding' = Behind(produceCount', consumeCount')
         /\ (produceCount + 1) % Wrap = Succ(produceCount)
         /\ (consumeCount + 1) % Wrap = Succ(consumeCount)
         /\ Outstanding \in 0 .. Wrap - 1
<1>1. produceCount \in 0 .. Wrap - 1 /\ consumeCount \in 0 .. Wrap - 1
  BY DEF TypeOK
<1>2. Behind(produceCount, consumeCount) \in 0 .. Wrap - 1
  BY <1>1, Differences
<1>3. Outstanding = Behind(produceCount, consumeCount)
  BY DEF Outstanding, Behind
<1>4. QED
  BY <1>2, <1>3 DEF Outstanding, Behind, Succ

LEMMA InitRing == Init => RingInv
<1> SUFFICES ASSUME Init PROVE RingInv
  OBVIOUS
<1>1. Outstanding = 0
  BY PlainMod DEF Init, Outstanding
<1>2. TypeOK
  <2>1. 0 \in 0 .. Wrap - 1
    OBVIOUS
  <2>2. buffer \in [Slots -> Values \cup {None}]
    BY DEF Init
  <2>3. QED
    BY <2>1, <2>2 DEF Init, TypeOK
<1>3. QED
  BY <1>1, <1>2 DEF Init, RingInv

(* What a step does to Outstanding.                                        *)
LEMMA PublishCount ==
  ASSUME RingInv, PushPublish
  PROVE  /\ Outstanding' = Outstanding + 1
         /\ produceCount' \in 0 .. Wrap - 1
<1>1. /\ Outstanding < Wrap - 1
      /\ produceCount \in 0 .. Wrap - 1 /\ consumeCount \in 0 .. Wrap - 1
      /\ Outstanding \in 0 .. Wrap - 1
  BY Counters DEF RingInv, TypeOK, PushPublish
<1>2. /\ produceCount' = Succ(produceCount) /\ consumeCount' = consumeCount
      /\ Outstanding = Behind(produceCount, consumeCount)
      /\ Outstanding' = Behind(produceCount', consumeCount')
  BY Counters DEF RingInv, PushPublish
<1>3. QED
  BY <1>1, <1>2, Differences

LEMMA ReleaseCount ==
  ASSUME RingInv, PullRelease
  PROVE  /\ Outstanding' = Outstanding - 1
         /\ consumeCount' \in 0 .. Wrap - 1
<1>1. /\ Outstanding > 0
      /\ produceCount \in 0 .. Wrap - 1 /\ consumeCount \in 0 .. Wrap - 1
  BY DEF RingInv, TypeOK, PullRelease
<1>2. /\ consumeCount' = Succ(consumeCount) /\ produceCount' = produceCount
      /\ Outstanding = Behind(produceCount, consumeCount)
      /\ Outstanding' = Behind(produceCount', consumeCount')
  BY Counters DEF RingInv, PullRelease
<1>3. QED
  BY <1>1, <1>2, Differences

LEMMA NextRing == RingInv /\ [Next]_vars => RingInv'
<1> SUFFICES ASSUME RingInv, [Next]_vars PROVE RingInv'
  OBVIOUS
<1>0. Outstanding \in 0 .. Wrap - 1
  BY Counters DEF RingInv
<1>a. ASSUME UNCHANGED <<produceCount, consumeCount>>
      PROVE  Outstanding' = Outstanding
  BY <1>a DEF Outstanding
<1>1. ASSUME NEW v \in Values, PushCheck(v) PROVE RingInv'
  <2>1. /\ Slot(produceCount)' = Slot(produceCount)
        /\ Slot(consumeCount)' = Slot(consumeCount)
    BY <1>1 DEF PushCheck, Slot
  <2>2. Outstanding' = Outstanding
    BY <1>1, <1>a DEF PushCheck
  <2>3. TypeOK'
    BY <1>1 DEF PushCheck, RingInv, TypeOK
  <2>4. /\ UNCHANGED <<buffer, cpc, temp>>
        /\ item' = v /\ ppc' \in {"check", "write"}
        /\ Outstanding # Num \/ ppc' = "check"
    BY <1>1 DEF PushCheck
  <2>5. QED
    BY <1>0, <2>1, <2>2, <2>3, <2>4 DEF RingInv
<1>2. CASE PushWrite
  <2>1. Slot(produceCount) \in Slots
    BY Positions DEF RingInv, TypeOK
  <2>2. cpc # "check" => Slot(consumeCount) # Slot(produceCount)
    <3>1. ASSUME cpc # "check" PROVE Slot(consumeCount + 0) # Slot(produceCount)
      BY <1>0, <1>2, <3>1, Positions DEF RingInv, PushWrite
    <3>2. QED
      BY <3>1 DEF RingInv, TypeOK
  <2>3. buffer'[Slot(produceCount)] = item
    BY <1>2, <2>1 DEF PushWrite, RingInv, TypeOK
  <2>4. cpc # "check" => buffer'[Slot(consumeCount)] = buffer[Slot(consumeCount)]
    BY <1>2, <2>2 DEF PushWrite, RingInv, TypeOK
  <2>5. Slot(produceCount)' = Slot(produceCount) /\ Slot(consumeCount)' = Slot(consumeCount)
    BY <1>2 DEF PushWrite, Slot
  <2>6. QED
    BY <1>0, <1>2, <1>a, <2>1, <2>3, <2>4, <2>5 DEF PushWrite, RingInv, TypeOK
<1>3. CASE PushPublish
  <2>1. Slot(consumeCount)' = Slot(consumeCount)
    BY <1>3 DEF PushPublish, Slot
  <2>2. /\ UNCHANGED <<consumeCount, buffer, item, cpc, temp, taken>>
        /\ ppc = "publish" /\ ppc' = "check" /\ refused' = FALSE
    BY <1>3 DEF PushPublish
  <2>3. /\ Outstanding' = Outstanding + 1
        /\ produceCount' \in 0 .. Wrap - 1
    BY <1>3, PublishCount
  <2>4. TypeOK'
    BY <2>2, <2>3 DEF RingInv, TypeOK
  <2>5. Outstanding' <= Num /\ (cpc' # "check" => Outstanding' > 0)
    BY <1>0, <2>2, <2>3 DEF RingInv
  <2>6. cpc' = "release" => temp' = buffer'[Slot(consumeCount)']
    BY <2>1, <2>2 DEF RingInv
  <2>7. QED
    BY <2>2, <2>4, <2>5, <2>6 DEF RingInv
<1>4. CASE PullCheck
  <2>1. Slot(produceCount)' = Slot(produceCount)
    BY <1>4 DEF PullCheck, Slot
  <2>2. QED
    BY <1>0, <1>4, <1>a, <2>1 DEF PullCheck, RingInv, TypeOK
<1>5. CASE PullRead
  <2>1. /\ Slot(produceCount)' = Slot(produceCount)
        /\ Slot(consumeCount)' = Slot(consumeCount)
    BY <1>5 DEF PullRead, Slot
  <2>2. Slot(consumeCount) \in Slots
    BY Positions DEF RingInv, TypeOK
  <2>3. QED
    BY <1>0, <1>5, <1>a, <2>1, <2>2 DEF PullRead, RingInv, TypeOK
<1>6. CASE PullRelease
  <2>1. Slot(produceCount)' = Slot(produceCount)
    BY <1>6 DEF PullRelease, Slot
  <2>2. /\ UNCHANGED <<produceCount, buffer, ppc, item, refused, temp>>
        /\ cpc = "release" /\ cpc' = "check" /\ taken' = temp
    BY <1>6 DEF PullRelease
  <2>3. /\ Outstanding' = Outstanding - 1
        /\ consumeCount' \in 0 .. Wrap - 1
    BY <1>6, ReleaseCount
  <2>4. TypeOK'
    BY <2>2, <2>3 DEF RingInv, TypeOK
  <2>5. Outstanding' <= Num /\ (ppc' # "check" => Outstanding' < Num /\ item' \in Values)
    BY <1>0, <2>2, <2>3 DEF RingInv
  <2>6. ppc' = "publish" => buffer'[Slot(produceCount)'] = item'
    BY <2>1, <2>2 DEF RingInv
  <2>7. QED
    BY <2>2, <2>4, <2>5, <2>6 DEF RingInv
<1>7. CASE UNCHANGED vars
  BY <1>7, <1>a DEF vars, RingInv, TypeOK, Slot
<1>8. QED
  BY <1>1, <1>2, <1>3, <1>4, <1>5, <1>6, <1>7 DEF Next, Producer, Consumer

(* RingInv holds throughout, for every ring size and counter width.        *)
THEOREM RingInvariant == Spec => []RingInv
BY InitRing, NextRing, PTL DEF Spec

THEOREM RingTypes == Spec => []TypeOK
<1>1. RingInv => TypeOK
  BY DEF RingInv
<1>2. QED
  BY <1>1, RingInvariant, PTL

(* The producer and the consumer never meet in a slot.                     *)
THEOREM RingSafety == Spec => []NoOverrun
<1>1. ASSUME RingInv PROVE NoOverrun
  <2>1. ASSUME ppc = "write", cpc = "read"
        PROVE  Slot(produceCount) # Slot(consumeCount + 0)
    <3>1. Outstanding \in 0 .. Wrap - 1
      BY <1>1, Counters DEF RingInv
    <3>2. QED
      BY <1>1, <2>1, <3>1, Positions DEF RingInv
  <2>2. QED
    BY <1>1, <2>1 DEF RingInv, NoOverrun, TypeOK
<1>2. QED
  BY <1>1, RingInvariant, PTL

-----------------------------------------------------------------------------
(* The elements that were published and not given back, oldest first.      *)
Waiting == [i \in 1 .. Outstanding |-> buffer[Slot(consumeCount + i - 1)]]

LEMMA WaitingSeq ==
  ASSUME RingInv
  PROVE  /\ Waiting \in Seq(Values \cup {None})
         /\ Len(Waiting) = Outstanding
         /\ Outstanding \in Nat
<1>1. Outstanding \in 0 .. Wrap - 1
  BY Counters DEF RingInv
<1>2. \A i \in 1 .. Outstanding :
        buffer[Slot(consumeCount + i - 1)] \in Values \cup {None}
  <2> TAKE i \in 1 .. Outstanding
  <2>1. consumeCount + i - 1 \in Int
    BY <1>1 DEF RingInv, TypeOK
  <2>2. Slot(consumeCount + i - 1) \in Slots
    BY <2>1, Positions DEF RingInv
  <2>3. QED
    BY <2>2 DEF RingInv, TypeOK
<1>3. QED
  BY <1>1, <1>2 DEF Waiting

(* Slots of waiting elements, and what publishing and releasing do.        *)
LEMMA WriteWaiting ==
  ASSUME RingInv, PushWrite
  PROVE  Waiting' = Waiting
<1>1. Outstanding' = Outstanding /\ Outstanding \in 0 .. Wrap - 1
  BY Counters DEF RingInv, PushWrite, Outstanding
<1>2. \A i \in 1 .. Outstanding :
        buffer'[Slot(consumeCount + i - 1)] = buffer[Slot(consumeCount + i - 1)]
  <2> TAKE i \in 1 .. Outstanding
  <2>1. i - 1 \in 0 .. Outstanding - 1 /\ consumeCount + i - 1 = consumeCount + (i - 1)
    BY <1>1 DEF RingInv, TypeOK
  <2>2. Slot(consumeCount + (i - 1)) # Slot(produceCount)
    BY <2>1, Positions DEF RingInv, PushWrite
  <2>3. QED
    BY <2>1, <2>2 DEF PushWrite, RingInv, TypeOK
<1>3. \A i \in 1 .. Outstanding :
        Slot(consumeCount + i - 1)' = Slot(consumeCount + i - 1)
  BY DEF PushWrite, Slot
<1>4. QED
  BY <1>1, <1>2, <1>3 DEF Waiting, PushWrite

LEMMA PublishWaiting ==
  ASSUME RingInv, PushPublish
  PROVE  Waiting' = Append(Waiting, item)
<1>1. Outstanding' = Outstanding + 1 /\ Outstanding \in Nat
  BY PublishCount, WaitingSeq
<1>2. Waiting' = [i \in 1 .. Outstanding + 1 |-> buffer[Slot(consumeCount + i - 1)]]
  BY <1>1 DEF Waiting, PushPublish, Slot
<1>3. buffer[Slot(consumeCount + (Outstanding + 1) - 1)] = item
  <2>1. consumeCount + (Outstanding + 1) - 1 = consumeCount + Outstanding
    BY <1>1 DEF RingInv, TypeOK
  <2>2. QED
    BY <2>1, Positions DEF RingInv, PushPublish
<1>4. QED
  BY <1>1, <1>2, <1>3, WaitingSeq DEF Waiting

LEMMA ReleaseWaiting ==
  ASSUME RingInv, PullRelease
  PROVE  /\ Waiting # <<>>
         /\ taken' = Head(Waiting)
         /\ Waiting' = Tail(Waiting)
<1>1. /\ Outstanding' = Outstanding - 1 /\ Outstanding \in Nat
      /\ Outstanding > 0 /\ Len(Waiting) = Outstanding
  BY ReleaseCount, WaitingSeq DEF RingInv, PullRelease
<1>2. Waiting[1] = buffer[Slot(consumeCount)]
  <2>1. consumeCount + 1 - 1 = consumeCount /\ 1 \in 1 .. Outstanding
    BY <1>1 DEF RingInv, TypeOK
  <2>2. QED
    BY <2>1 DEF Waiting
<1>3. Waiting # <<>> /\ taken' = Head(Waiting)
  BY <1>1, <1>2, WaitingSeq DEF RingInv, PullRelease
<1>4. \A i \in 1 .. Outstanding - 1 :
        buffer'[Slot(consumeCount' + i - 1)] = buffer[Slot(consumeCount + (i + 1) - 1)]
  <2> TAKE i \in 1 .. Outstanding - 1
  <2>1. /\ i - 1 \in Nat
        /\ consumeCount + 1 + (i - 1) = consumeCount + (i + 1) - 1
        /\ consumeCount' = (consumeCount + 1) % Wrap
        /\ consumeCount' \in Int
        /\ consumeCount' + i - 1 = consumeCount' + (i - 1)
    <3>1. consumeCount' \in Int /\ consumeCount \in Int /\ i \in Int /\ i >= 1
      BY <1>1, ReleaseCount DEF RingInv, TypeOK
    <3>2. QED
      BY <3>1 DEF PullRelease
  <2>2. Slot(consumeCount' + (i - 1)) = Slot(consumeCount + 1 + (i - 1))
    BY <2>1, Positions DEF RingInv
  <2>3. QED
    BY <2>1, <2>2 DEF PullRelease
<1>5. Waiting' = [i \in 1 .. Outstanding - 1 |-> Waiting[i + 1]]
  <2>1. \A i \in 1 .. Outstanding - 1 :
          Waiting[i + 1] = buffer[Slot(consumeCount + (i + 1) - 1)]
    BY <1>1 DEF Waiting
  <2>2. Waiting' = [i \in 1 .. Outstanding - 1 |-> buffer'[Slot(consumeCount' + i - 1)]]
    BY <1>1 DEF Waiting, Slot
  <2>3. QED
    BY <1>4, <2>1, <2>2
<1>6. /\ Tail(Waiting) \in Seq(Values \cup {None})
      /\ Len(Tail(Waiting)) = Outstanding - 1
      /\ \A i \in 1 .. Outstanding - 1 : Tail(Waiting)[i] = Waiting[i + 1]
  BY <1>1, <1>3, WaitingSeq, HeadTailProperties
<1>7. Waiting' = Tail(Waiting)
  <2> DEFINE W == Waiting
             T == Tail(W)
             n == Outstanding
  <2>1. DOMAIN T = 1 .. n - 1 /\ T = [i \in DOMAIN T |-> T[i]]
    BY <1>1, <1>6, LenProperties
  <2>2. QED
    BY <1>5, <1>6, <2>1
<1>8. QED
  BY <1>3, <1>7

LEMMA InitFifo == Init => Fifo!Init
<1> SUFFICES ASSUME Init PROVE Fifo!Init
  OBVIOUS
<1>1. RingInv
  BY InitRing
<1>2. Outstanding = 0
  BY PlainMod DEF Init, Outstanding
<1>3. Waiting = <<>>
  BY <1>1, <1>2, WaitingSeq
<1>4. QED
  BY <1>3 DEF Init, Fifo!Init, Waiting

LEMMA NextFifo == RingInv /\ [Next]_vars => [Fifo!Next]_(Fifo!vars)
<1> SUFFICES ASSUME RingInv, [Next]_vars PROVE [Fifo!Next]_(Fifo!vars)
  OBVIOUS
<1>0. Len(Waiting) = Outstanding /\ Outstanding \in Nat /\ (Outstanding = 0 <=> Waiting = <<>>)
  BY WaitingSeq
<1>a. ASSUME UNCHANGED <<produceCount, consumeCount, buffer>>
      PROVE  Waiting' = Waiting
  BY <1>a DEF Waiting, Outstanding, Slot
<1>1. ASSUME NEW v \in Values, PushCheck(v) PROVE [Fifo!Next]_(Fifo!vars)
  <2>1. Waiting' = Waiting
    BY <1>1, <1>a DEF PushCheck
  <2>2. QED
    BY <1>0, <1>1, <2>1 DEF PushCheck, Waiting, Fifo!Next, Fifo!Refuse, Fifo!vars
<1>2. CASE PushWrite
  BY <1>2, WriteWaiting DEF PushWrite, Waiting, Fifo!vars
<1>3. CASE PushPublish
  <2>1. Outstanding < Num /\ item \in Values
    BY <1>3 DEF RingInv, PushPublish
  <2>2. QED
    BY <1>0, <1>3, <2>1, PublishWaiting DEF PushPublish, Waiting, Fifo!Next, Fifo!Push
<1>4. CASE PullCheck
  <2>1. Waiting' = Waiting
    BY <1>4, <1>a DEF PullCheck
  <2>2. QED
    BY <1>0, <1>4, <2>1 DEF PullCheck, Waiting, Fifo!Next, Fifo!Miss, Fifo!vars
<1>5. CASE PullRead
  <2>1. Waiting' = Waiting
    BY <1>5, <1>a DEF PullRead
  <2>2. QED
    BY <1>5, <2>1 DEF PullRead, Waiting, Fifo!vars
<1>6. CASE PullRelease
  BY <1>6, ReleaseWaiting DEF PullRelease, Waiting, Fifo!Next, Fifo!Pull
<1>7. CASE UNCHANGED vars
  <2>1. Waiting' = Waiting
    BY <1>7, <1>a DEF vars
  <2>2. QED
    BY <1>7, <2>1 DEF vars, Waiting, Fifo!vars
<1>8. QED
  BY <1>1, <1>2, <1>3, <1>4, <1>5, <1>6, <1>7 DEF Next, Producer, Consumer

(* The ring is a FIFO of num elements, wherever its counters wrap.         *)
THEOREM RingIsFifo == Spec => ImplementsFifo
BY InitFifo, NextFifo, RingInvariant, PTL DEF Spec, ImplementsFifo, Fifo!Spec
=============================================================================
