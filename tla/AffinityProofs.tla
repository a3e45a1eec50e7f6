--------------------------- MODULE AffinityProofs ---------------------------
(***************************************************************************)
(* Proofs about Affinity: for every machine and every number of threads,   *)
(* no two threads are bound to one unit, and each mode keeps what its name *)
(* says.                                                                   *)
(*                                                                         *)
(* The modes differ in the address of the unit that a thread gets, a       *)
(* number below totalUnits.  Thread t gets one address whatever was placed *)
(* before it (Positions), and the counters of the code are the address of  *)
(* the next thread (NextUnit).  The rest is arithmetic on addresses.       *)
(***************************************************************************)
EXTENDS Affinity, TLAPS

-----------------------------------------------------------------------------
(* Arithmetic of quotients and remainders.                                 *)

(* The remainder of a number in 0 .. w - 1 is the number itself.           *)
LEMMA PlainMod ==
  ASSUME NEW w \in Nat \ {0}, NEW x \in Int, 0 <= x, x < w
  PROVE  x % w = x
OBVIOUS

(* Quotient and remainder of a number.                                     *)
LEMMA Division ==
  ASSUME NEW n \in Nat \ {0}, NEW x \in Int
  PROVE  /\ x \div n \in Int
         /\ x % n \in 0 .. n - 1
         /\ x = n * (x \div n) + (x % n)
OBVIOUS

(* The sign and the least size of a multiple.                              *)
LEMMA Multiples ==
  ASSUME NEW n \in Nat \ {0}, NEW d \in Int
  PROVE  /\ n * d \in Int
         /\ d >= 1 => n * d >= n
         /\ d <= 0 => n * d <= 0
         /\ d <= -1 => n * d <= -n
OBVIOUS

(* The remainder of a number is unique ...                                 *)
LEMMA UniqueRemainder ==
  ASSUME NEW n \in Nat \ {0}, NEW q \in Int, NEW r \in 0 .. n - 1
  PROVE  (n * q + r) % n = r
<1> DEFINE x == n * q + r
           d == q - (x \div n)
<1>1. x \in Int /\ d \in Int
  BY Multiples, Division
<1>2. x = n * (x \div n) + (x % n) /\ x % n \in 0 .. n - 1 /\ x \div n \in Int
  BY <1>1, Division
<1>3. n * d = n * q - n * (x \div n)
  BY <1>2
<1>4. n * d = (x % n) - r
  <2>1. n * q = x - r /\ n * q \in Int
    BY Multiples
  <2>2. n * (x \div n) = x - (x % n)
    <3> HIDE DEF x
    <3> QED BY <1>1, <1>2, Multiples
  <2> HIDE DEF d, x
  <2>3. QED
    BY <1>1, <1>2, <1>3, <2>1, <2>2
<1>5. n * d < n /\ n * d > -n /\ n * d \in Int
  BY <1>2, <1>4
<1>6. d = 0
  <2> HIDE DEF d, x
  <2> QED BY <1>1, <1>5, Multiples
<1>7. QED
  BY <1>2, <1>4, <1>6

(* ... and so is the quotient.                                             *)
LEMMA UniqueQuotient ==
  ASSUME NEW n \in Nat \ {0}, NEW q \in Int, NEW r \in 0 .. n - 1
  PROVE  (n * q + r) \div n = q
<1> DEFINE x == n * q + r
           d == q - (x \div n)
<1>1. x \in Int /\ n * q \in Int
  BY Multiples
<1>2. x % n = r
  BY UniqueRemainder
<1>3. x = n * (x \div n) + (x % n) /\ x \div n \in Int
  <2> HIDE DEF x
  <2> QED BY <1>1, Division
<1>4. d \in Int /\ n * d = n * q - n * (x \div n)
  BY <1>3
<1>5. n * (x \div n) = x - r /\ n * (x \div n) \in Int
  <2>1. n * (x \div n) \in Int
    BY <1>3, Multiples
  <2> HIDE DEF x
  <2>2. QED BY <1>1, <1>2, <1>3, <2>1
<1>6. n * d = 0
  <2>1. x = n * q + r
    OBVIOUS
  <2> HIDE DEF x, d
  <2>2. QED BY <1>1, <1>4, <1>5, <2>1
<1>7. d = 0
  <2> HIDE DEF x, d
  <2> QED BY <1>4, <1>6, Multiples
<1>8. QED
  BY <1>3, <1>7

(* Multiplication keeps the order.                                         *)
LEMMA Ordered ==
  ASSUME NEW n \in Nat, NEW a \in Int, NEW b \in Int, a <= b
  PROVE  /\ n * a \in Int /\ n * b \in Int
         /\ n * a <= n * b
OBVIOUS

(* What a division by n does to the next number.                           *)
LEMMA NextQuotient ==
  ASSUME NEW n \in Nat \ {0}, NEW x \in Nat
  PROVE  /\ x % n = n - 1 => (x + 1) \div n = x \div n + 1 /\ (x + 1) % n = 0
         /\ x % n # n - 1 => (x + 1) \div n = x \div n /\ (x + 1) % n = (x % n) + 1
<1>1. PICK q, r : q = x \div n /\ r = x % n
  OBVIOUS
<1>2. x = n * q + r /\ q \in Int /\ r \in 0 .. n - 1 /\ n * q \in Int
  BY <1>1, Division, Multiples
<1>3. CASE r = n - 1
  <2>1. x + 1 = n * (q + 1) + 0
    BY <1>2, <1>3
  <2>2. (n * (q + 1) + 0) \div n = q + 1 /\ (n * (q + 1) + 0) % n = 0
    BY <1>2, UniqueQuotient, UniqueRemainder
  <2>3. QED
    BY <1>1, <1>3, <2>1, <2>2
<1>4. CASE r # n - 1
  <2>1. x + 1 = n * q + (r + 1) /\ r + 1 \in 0 .. n - 1
    BY <1>2, <1>4
  <2>2. (n * q + (r + 1)) \div n = q /\ (n * q + (r + 1)) % n = r + 1
    BY <1>2, <2>1, UniqueQuotient, UniqueRemainder
  <2>3. QED
    BY <1>1, <1>4, <2>1, <2>2
<1>5. QED
  BY <1>3, <1>4

(* Numbers below n * k have quotients below k.                             *)
LEMMA QuotientBelow ==
  ASSUME NEW n \in Nat \ {0}, NEW k \in Nat, NEW x \in Nat, x < n * k
  PROVE  x \div n \in 0 .. k - 1 /\ x % n \in 0 .. n - 1
<1>1. PICK q, r : q = x \div n /\ r = x % n
  OBVIOUS
<1>2. x = n * q + r /\ q \in Int /\ r \in 0 .. n - 1 /\ n * q \in Int
  BY <1>1, Division, Multiples
<1>3. q <= k - 1
  <2>1. SUFFICES ASSUME q >= k PROVE FALSE
    BY <1>2
  <2>2. n * k <= n * q /\ n * k \in Int
    BY <1>2, <2>1, Ordered
  <2>3. QED
    BY <1>2, <2>2
<1>4. q >= 0
  BY <1>2, Multiples
<1>5. QED
  BY <1>1, <1>2, <1>3, <1>4

-----------------------------------------------------------------------------
(* The inductive invariant.                                                *)

TypeOK ==
  /\ mode \in Modes /\ maxCluster \in Nat \ {0} /\ maxUnit \in Nat \ {0}
  /\ numTPS \in Nat /\ mcPerTp \in Nat
  /\ result \in {"unknown", "placing", "yes", "no"}
  /\ count \in Nat /\ smt_cnt \in Nat
  /\ clusterCount \in [0 .. numTPS -> Nat]
  /\ mask \in Seq(Nat \X Nat)

Wanted == RequestedUnits * numTPS

(* The units of a TP in SPREAD mode, whole clusters.                       *)
Share == maxUnit * check

(* The first units of all cores.                                           *)
half == (totalUnits + 1) \div hardware_smt

(* The unit of thread t, counted through the whole machine.                *)
Address(t) ==
  IF mode = "SPREAD" THEN Share * (t \div RequestedUnits) + (t % RequestedUnits)
  ELSE IF mode = "COMPACT" THEN t
  ELSE IF t < half THEN 2 * t ELSE 2 * (t - half) + 1

Admitted ==
  IF result \in {"unknown", "no"}
  THEN mask = <<>> /\ count = 0 /\ smt_cnt = 0 /\ clusterCount = [k \in 0 .. numTPS |-> 0]
  ELSE Fits /\ Len(mask) <= Wanted /\ (result = "yes" => Len(mask) = Wanted)

Positions == \A t \in Thread :
  UnitOf(t) = <<Address(t) \div maxUnit, Address(t) % maxUnit>>

InCluster == mode = "SPREAD" /\ RequestedUnits < maxUnit

NextUnit == result = "placing" /\ Len(mask) < Wanted =>
  /\ InCluster => /\ clusterCount[i] = Len(mask) % RequestedUnits
                  /\ \A k \in 0 .. numTPS : k > i => clusterCount[k] = 0
  /\ ~ InCluster => count = Address(Len(mask))
  /\ mode = "COMPACT_NO_SMT" => smt_cnt = IF Len(mask) < half THEN 0 ELSE 1

AInv == TypeOK /\ Admitted /\ Positions /\ NextUnit

-----------------------------------------------------------------------------
(* Addresses.                                                              *)

(* The numbers of a request.                                               *)
LEMMA Numbers ==
  ASSUME TypeOK
  PROVE  /\ RequestedUnits \in Nat \ {0} /\ totalUnits \in Nat \ {0}
         /\ Wanted \in Nat /\ half \in Nat \ {0} /\ Len(mask) \in Nat
         /\ totalUnits = 2 * half \/ totalUnits = 2 * half - 1
<1>1. RequestedUnits \in Nat \ {0} /\ Len(mask) \in Nat
  BY DEF TypeOK, RequestedUnits
<1>2. totalUnits \in Nat \ {0}
  BY DEF TypeOK, totalUnits
<1>3. Wanted \in Nat
  BY <1>1, Ordered DEF TypeOK, Wanted
<1>4. half \in Nat \ {0} /\ (totalUnits = 2 * half \/ totalUnits = 2 * half - 1)
  BY <1>2 DEF half, hardware_smt
<1>5. QED
  BY <1>1, <1>2, <1>3, <1>4

(* A TP's share is as many clusters as it needs.                           *)
LEMMA Shares ==
  ASSUME TypeOK
  PROVE  /\ check \in Nat \ {0} /\ Share \in Nat \ {0} /\ RequestedUnits <= Share
         /\ RequestedUnits < maxUnit => check = 1 /\ Share = maxUnit
         /\ RequestedUnits % maxUnit = 0 => check = RequestedUnits \div maxUnit
         /\ RequestedUnits % maxUnit # 0 => check = RequestedUnits \div maxUnit + 1
<1>1. PICK q, r : q = RequestedUnits \div maxUnit /\ r = RequestedUnits % maxUnit
  OBVIOUS
<1>0. RequestedUnits \in Nat \ {0} /\ maxUnit \in Nat \ {0}
  BY Numbers DEF TypeOK
<1>2. /\ q \in Int /\ r \in 0 .. maxUnit - 1 /\ RequestedUnits = maxUnit * q + r
      /\ maxUnit * q \in Int
  BY <1>0, <1>1, Division, Multiples
<1>3. check = IF r = 0 THEN q ELSE q + 1
  BY <1>1, <1>2 DEF check
<1>4. q >= 0 /\ (r = 0 => q >= 1)
  BY <1>0, <1>2, Multiples
<1>5. check \in Nat \ {0}
  BY <1>2, <1>3, <1>4
<1>6. Share \in Nat \ {0} /\ RequestedUnits <= Share
  <2>1. maxUnit * (q + 1) = maxUnit * q + maxUnit
    BY <1>0, <1>2
  <2>2. QED
    BY <1>0, <1>2, <1>3, <2>1 DEF Share
<1>7. ASSUME RequestedUnits < maxUnit PROVE check = 1 /\ Share = maxUnit
  <2>1. q = 0 /\ r # 0
    BY <1>0, <1>2, <1>4, <1>7, Multiples
  <2>2. QED
    BY <1>0, <1>3, <2>1 DEF Share
<1>8. QED
  BY <1>1, <1>3, <1>5, <1>6, <1>7

(* Where a SPREAD thread is: cluster and unit of the share of its TP.      *)
LEMMA Spreading ==
  ASSUME TypeOK, mode = "SPREAD", NEW t \in Nat,
         NEW q, q = t \div RequestedUnits, NEW r, r = t % RequestedUnits
  PROVE  /\ q \in Nat /\ r \in 0 .. RequestedUnits - 1 /\ r \in 0 .. Share - 1
         /\ t = RequestedUnits * q + r
         /\ Address(t) = Share * q + r /\ Address(t) \in Nat
         /\ Address(t) \div maxUnit = check * q + (r \div maxUnit)
         /\ Address(t) % maxUnit = r % maxUnit
         /\ r \div maxUnit \in 0 .. check - 1
<1>0. PICK n, R, a, s : n = maxUnit /\ R = RequestedUnits /\ a = check /\ s = Share
  OBVIOUS
<1>1. /\ R \in Nat \ {0} /\ n \in Nat \ {0} /\ a \in Nat \ {0}
      /\ s \in Nat \ {0} /\ R <= s /\ s = n * a
  BY <1>0, Numbers, Shares DEF TypeOK, Share
<1>2. q \in Int /\ r \in 0 .. R - 1 /\ t = R * q + r
  BY <1>0, <1>1, Division
<1>3. q \in Nat
  BY <1>1, <1>2, Multiples
<1>4. Address(t) = s * q + r
  BY <1>0 DEF Address
<1>5. Address(t) \in Nat
  BY <1>1, <1>2, <1>3, <1>4
<1>6. PICK c, k : c = r \div n /\ k = r % n
  OBVIOUS
<1>7. c \in 0 .. a - 1 /\ k \in 0 .. n - 1 /\ r = n * c + k
  <2>1. r \in Nat /\ r \in Int /\ r < n * a /\ a \in Nat
    BY <1>1, <1>2
  <2>2. c \in 0 .. a - 1 /\ k \in 0 .. n - 1
    BY <1>1, <1>6, <2>1, QuotientBelow
  <2>3. r = n * c + k
    BY <1>1, <1>6, <2>1, Division
  <2>4. QED
    BY <2>2, <2>3
<1>8. s * q + r = n * (a * q + c) + k
  <2>1. (n * a) * q = n * (a * q)
    BY <1>1, <1>3
  <2>2. n * (a * q + c) = n * (a * q) + n * c
    BY <1>1, <1>3, <1>7
  <2>3. a * q \in Int /\ n * (a * q) \in Int /\ n * c \in Int
    BY <1>1, <1>3, <1>7, Multiples
  <2>4. QED
    BY <1>1, <1>7, <2>1, <2>2, <2>3
<1>9. PICK e : e = a * q + c
  OBVIOUS
<1>10. e \in Int
  BY <1>1, <1>3, <1>7, <1>9
<1>11. (n * e + k) \div n = e /\ (n * e + k) % n = k
  BY <1>1, <1>7, <1>10, UniqueQuotient, UniqueRemainder
<1>12. Address(t) \div n = a * q + c /\ Address(t) % n = k
  BY <1>4, <1>8, <1>9, <1>11
<1>13. /\ r \in 0 .. RequestedUnits - 1 /\ t = RequestedUnits * q + r
       /\ Address(t) = Share * q + r
  BY <1>0, <1>2, <1>4
<1>14. r \in 0 .. Share - 1
  BY <1>0, <1>1, <1>2
<1>15. /\ Address(t) \div maxUnit = check * q + (r \div maxUnit)
       /\ Address(t) % maxUnit = r % maxUnit
       /\ r \div maxUnit \in 0 .. check - 1
  BY <1>0, <1>6, <1>7, <1>12
<1>16. QED
  BY <1>3, <1>5, <1>13, <1>14, <1>15

(* All threads of an admitted request have addresses of the machine.       *)
LEMMA AddressInMachine ==
  ASSUME TypeOK, Fits, NEW t \in Nat, t < Wanted
  PROVE  Address(t) \in Nat /\ Address(t) < totalUnits
<1>0. /\ RequestedUnits \in Nat \ {0} /\ totalUnits \in Nat /\ Wanted \in Nat
      /\ half \in Nat /\ (totalUnits = 2 * half \/ totalUnits = 2 * half - 1)
  BY Numbers
<1>1. t < totalUnits
  BY <1>0 DEF Fits, Wanted, TypeOK
<1>2. CASE mode = "SPREAD"
  <2>1. PICK q, r : q = t \div RequestedUnits /\ r = t % RequestedUnits
    OBVIOUS
  <2>2. q \in Nat /\ r \in 0 .. Share - 1 /\ Address(t) = Share * q + r /\ Address(t) \in Nat
    BY <1>2, <2>1, Spreading
  <2>3. q + 1 <= numTPS
    <3>1. PICK R, k : R = RequestedUnits /\ k = numTPS
      OBVIOUS
    <3>2. R \in Nat \ {0} /\ k \in Nat /\ t < R * k
      BY <1>0, <3>1 DEF TypeOK, Wanted
    <3>3. t \div R \in 0 .. k - 1
      BY <3>2, QuotientBelow
    <3>4. QED
      BY <2>1, <3>1, <3>2, <3>3
  <2>4. Share \in Nat /\ Share * numTPS <= totalUnits
    BY <1>2, Shares DEF Fits, Share, TypeOK
  <2>5. Share * (q + 1) <= Share * numTPS /\ Share * numTPS \in Int
    BY <2>2, <2>3, <2>4, Ordered DEF TypeOK
  <2>6. Share * (q + 1) = Share * q + Share
    BY <2>2, <2>4
  <2>7. QED
    BY <1>0, <2>2, <2>4, <2>5, <2>6
<1>3. CASE mode = "COMPACT"
  BY <1>1, <1>3 DEF Address
<1>4. CASE mode = "COMPACT_NO_SMT"
  BY <1>0, <1>1, <1>4 DEF Address
<1>5. QED
  BY <1>2, <1>3, <1>4 DEF TypeOK, Modes

(* No two threads have the same address.                                   *)
LEMMA AddressesDiffer ==
  ASSUME TypeOK, NEW t \in Nat, NEW u \in Nat, Address(t) = Address(u)
  PROVE  t = u
<1>1. CASE mode = "SPREAD"
  <2>1. PICK q, r : q = t \div RequestedUnits /\ r = t % RequestedUnits
    OBVIOUS
  <2>2. PICK x, y : x = u \div RequestedUnits /\ y = u % RequestedUnits
    OBVIOUS
  <2>3. /\ q \in Nat /\ r \in 0 .. Share - 1 /\ t = RequestedUnits * q + r
        /\ Address(t) = Share * q + r
    BY <1>1, <2>1, Spreading
  <2>4. /\ x \in Nat /\ y \in 0 .. Share - 1 /\ u = RequestedUnits * x + y
        /\ Address(u) = Share * x + y
    BY <1>1, <2>2, Spreading
  <2>5. Share \in Nat \ {0}
    BY Shares
  <2>6. PICK s : s = Share
    OBVIOUS
  <2>7. (s * q + r) \div s = q /\ (s * q + r) % s = r
    BY <2>3, <2>5, <2>6, UniqueQuotient, UniqueRemainder
  <2>8. (s * x + y) \div s = x /\ (s * x + y) % s = y
    BY <2>4, <2>5, <2>6, UniqueQuotient, UniqueRemainder
  <2>9. s * q + r = s * x + y
    BY <2>3, <2>4, <2>6
  <2>10. q = x /\ r = y
    BY <2>7, <2>8, <2>9
  <2>11. QED
    BY <2>3, <2>4, <2>10
<1>2. CASE mode = "COMPACT"
  BY <1>2 DEF Address
<1>3. CASE mode = "COMPACT_NO_SMT"
  BY <1>3, Numbers DEF Address
<1>4. QED
  BY <1>1, <1>2, <1>3 DEF TypeOK, Modes

-----------------------------------------------------------------------------
(* The inductive invariant.                                                *)

(* What is made of the request alone does not change with a step.          *)
LEMMA RequestFixed ==
  ASSUME request' = request
  PROVE  /\ mode' = mode /\ maxCluster' = maxCluster /\ maxUnit' = maxUnit
         /\ numTPS' = numTPS /\ mcPerTp' = mcPerTp
         /\ RequestedUnits' = RequestedUnits /\ totalUnits' = totalUnits
         /\ Wanted' = Wanted /\ check' = check /\ Share' = Share /\ half' = half
         /\ (Fits' <=> Fits) /\ (InCluster' <=> InCluster)
         /\ \A t : Address(t)' = Address(t)
<1>1. /\ mode' = mode /\ maxCluster' = maxCluster /\ maxUnit' = maxUnit
      /\ numTPS' = numTPS /\ mcPerTp' = mcPerTp
  BY DEF request
<1>2. RequestedUnits' = RequestedUnits /\ totalUnits' = totalUnits
  BY <1>1 DEF RequestedUnits, totalUnits
<1>3. Wanted' = Wanted /\ check' = check /\ half' = half /\ (InCluster' <=> InCluster)
  BY <1>1, <1>2 DEF Wanted, check, half, InCluster
<1>4. Share' = Share /\ (Fits' <=> Fits)
  BY <1>1, <1>2, <1>3 DEF Share, Fits
<1>5. \A t : Address(t)' = Address(t)
  BY <1>1, <1>2, <1>3, <1>4 DEF Address
<1>6. QED
  BY <1>1, <1>2, <1>3, <1>4, <1>5

(* While threads are placed, there is one to place.                        *)
LEMMA OneToPlace ==
  ASSUME AInv, Placing
  PROVE  /\ Fits /\ Len(mask) \in Nat /\ Len(mask) < Wanted /\ i \in Nat /\ i < numTPS
         /\ mask \in Seq(Nat \X Nat)
<1>1. PICK R, x, k : R = RequestedUnits /\ x = Len(mask) /\ k = numTPS
  OBVIOUS
<1>2. R \in Nat \ {0} /\ x \in Nat /\ k \in Nat
  BY <1>1, Numbers DEF AInv, TypeOK
<1>3. PICK q : q = x \div R
  OBVIOUS
<1>4. q \in Int /\ x % R \in 0 .. R - 1 /\ x = R * q + (x % R)
  BY <1>2, <1>3, Division
<1>5. q < k /\ q = i
  BY <1>1, <1>3 DEF Placing, i
<1>6. R * (q + 1) <= R * k /\ R * (q + 1) = R * q + R /\ R * k \in Int /\ R * q \in Int
  BY <1>2, <1>4, <1>5, Ordered
<1>7. x < R * k
  BY <1>2, <1>4, <1>6
<1>8. q >= 0
  BY <1>2, <1>4, Multiples
<1>9. QED
  BY <1>1, <1>2, <1>4, <1>5, <1>7, <1>8 DEF AInv, TypeOK, Admitted, Placing, Wanted

(* A step that places the next thread where its address says.              *)
LEMMA PlacedNext ==
  ASSUME AInv, Placing, request' = request, result' = result,
         mask' = Append(mask, <<Address(Len(mask)) \div maxUnit, Address(Len(mask)) % maxUnit>>),
         count' \in Nat, smt_cnt' \in Nat, clusterCount' \in [0 .. numTPS -> Nat]
  PROVE  /\ TypeOK' /\ Admitted' /\ Positions'
         /\ Len(mask) \in Nat /\ Len(mask') = Len(mask) + 1
<1>1. PICK x, a, n : x = Len(mask) /\ a = Address(x) /\ n = maxUnit
  OBVIOUS
<1>2. Fits /\ x \in Nat /\ x < Wanted /\ mask \in Seq(Nat \X Nat) /\ n \in Nat \ {0}
  BY <1>1, OneToPlace DEF AInv, TypeOK
<1>3. a \in Nat /\ totalUnits \in Nat /\ a < totalUnits /\ Wanted \in Nat
  BY <1>1, <1>2, AddressInMachine, Numbers DEF AInv
<1>4. a \div n \in Nat /\ a % n \in Nat
  <2>1. a < n * maxCluster /\ maxCluster \in Nat
    BY <1>1, <1>3 DEF totalUnits, AInv, TypeOK
  <2>2. PICK k : k = maxCluster
    OBVIOUS
  <2>3. a \div n \in 0 .. k - 1 /\ a % n \in 0 .. n - 1
    BY <1>2, <1>3, <2>1, <2>2, QuotientBelow
  <2>4. QED
    BY <1>2, <2>1, <2>2, <2>3
<1>5. /\ mask' \in Seq(Nat \X Nat) /\ Len(mask') = x + 1
      /\ mask'[x + 1] = <<a \div n, a % n>>
      /\ \A k \in 1 .. x : mask'[k] = mask[k]
  BY <1>1, <1>2, <1>4
<1>6. TypeOK'
  BY <1>5, RequestFixed DEF AInv, TypeOK
<1>7. Admitted'
  BY <1>2, <1>3, <1>5, RequestFixed DEF AInv, Admitted, Placing
<1>8. Positions'
  <2>1. SUFFICES ASSUME NEW t \in 0 .. x
                 PROVE  mask'[t + 1] = <<Address(t) \div n, Address(t) % n>>
    <3>1. /\ maxUnit' = n /\ Thread' = 0 .. x /\ \A t : Address(t)' = Address(t)
      BY <1>1, <1>2, <1>5, RequestFixed DEF Thread
    <3>2. QED
      BY <3>1 DEF Positions, UnitOf
  <2>2. CASE t = x
    BY <1>1, <1>5, <2>2
  <2>3. CASE t # x
    <3>1. t \in Thread /\ UnitOf(t) = mask[t + 1] /\ t + 1 \in 1 .. x
      BY <1>1, <1>2, <2>1, <2>3 DEF Thread, UnitOf
    <3>2. UnitOf(t) = <<Address(t) \div n, Address(t) % n>>
      BY <1>1, <3>1 DEF AInv, Positions
    <3>3. QED
      BY <1>5, <3>1, <3>2
  <2>4. QED
    BY <2>2, <2>3
<1>9. QED
  BY <1>1, <1>2, <1>5, <1>6, <1>7, <1>8

(* The invariant holds at the start.                                       *)
LEMMA AInvInit == Init => AInv
<1> SUFFICES ASSUME Init PROVE AInv
  OBVIOUS
<1>1. TypeOK
  BY RequestsAssumption DEF Init, TypeOK
<1>2. mask = <<>> /\ result = "unknown" /\ Len(mask) = 0
  BY DEF Init
<1>3. Admitted /\ NextUnit
  BY <1>2 DEF Init, Admitted, NextUnit
<1>4. Positions
  BY <1>2 DEF Positions, Thread
<1>5. QED
  BY <1>1, <1>3, <1>4 DEF AInv

(* A TP within a cluster.                                                  *)
LEMMA SpreadInClusterStep == AInv /\ SpreadInCluster => AInv'
<1> SUFFICES ASSUME AInv, SpreadInCluster PROVE AInv'
  OBVIOUS
<1>0. PICK x, R, n, q, r : x = Len(mask) /\ R = RequestedUnits /\ n = maxUnit
                           /\ q = x \div R /\ r = x % R
  OBVIOUS
<1>1. /\ Placing /\ InCluster /\ request' = request /\ result' = result /\ q = i
      /\ mode = "SPREAD"
  BY <1>0 DEF SpreadInCluster, InCluster, i
<1>2. Fits /\ x \in Nat /\ x < Wanted /\ q < numTPS
  BY <1>0, <1>1, OneToPlace
<1>3. /\ R \in Nat \ {0} /\ n \in Nat \ {0} /\ R < n /\ check = 1 /\ Share = n
      /\ numTPS \in Nat /\ maxCluster \in Nat \ {0}
  BY <1>0, <1>1, Numbers, Shares DEF AInv, TypeOK, InCluster
<1>4. q \in Nat /\ r \in 0 .. R - 1 /\ r \div n \in 0 .. 0 /\ clusterCount[i] = r
      /\ Address(x) \div n = q + (r \div n) /\ Address(x) % n = r % n
  <2>1. /\ q \in Nat /\ r \in 0 .. R - 1 /\ r \div maxUnit \in 0 .. check - 1
        /\ Address(x) \div maxUnit = check * q + (r \div maxUnit)
        /\ Address(x) % maxUnit = r % maxUnit
    BY <1>0, <1>1, <1>2, Spreading DEF AInv
  <2>2. clusterCount[i] = r
    BY <1>0, <1>1, <1>2 DEF AInv, NextUnit, Placing
  <2>3. QED
    BY <1>0, <1>3, <2>1, <2>2
<1>5. q % maxCluster = q
  <2>1. PICK m, k : m = maxCluster /\ k = numTPS
    OBVIOUS
  <2>2. n * k <= m * n
    <3>1. check * maxUnit * numTPS <= maxCluster * maxUnit
      BY <1>1, <1>2 DEF Fits, totalUnits
    <3>2. check * maxUnit = n
      BY <1>0, <1>3
    <3>3. QED
      BY <1>0, <2>1, <3>1, <3>2
  <2>3. k <= m
    <3>1. n * (k - m) = n * k - m * n /\ n * k \in Int /\ m * n \in Int
      BY <1>3, <2>1
    <3>2. k - m \in Int /\ n * (k - m) <= 0
      BY <1>3, <2>1, <2>2, <3>1
    <3>3. ~ (k - m >= 1)
      BY <1>3, <3>2, Multiples
    <3>4. QED
      BY <1>3, <2>1, <3>3
  <2>4. QED
    BY <1>2, <1>3, <1>4, <2>1, <2>3, PlainMod
<1>6. r % n = r
  BY <1>3, <1>4, PlainMod
<1>7. mask' = Append(mask, <<Address(Len(mask)) \div maxUnit, Address(Len(mask)) % maxUnit>>)
  BY <1>0, <1>1, <1>4, <1>5, <1>6 DEF SpreadInCluster, PlaceAt
<1>8. /\ count' \in Nat /\ smt_cnt' \in Nat /\ clusterCount' \in [0 .. numTPS -> Nat]
      /\ clusterCount' = [clusterCount EXCEPT ![q] = r + 1]
      /\ clusterCount \in [0 .. numTPS -> Nat]
  <2>1. clusterCount \in [0 .. numTPS -> Nat] /\ q \in 0 .. numTPS /\ r + 1 \in Nat
    BY <1>2, <1>3, <1>4 DEF AInv, TypeOK
  <2>2. clusterCount' = [clusterCount EXCEPT ![q] = r + 1]
    BY <1>1, <1>4 DEF SpreadInCluster
  <2>3. count' = count /\ smt_cnt' = smt_cnt /\ count \in Nat /\ smt_cnt \in Nat
    BY DEF SpreadInCluster, AInv, TypeOK
  <2>4. QED
    BY <2>1, <2>2, <2>3
<1>9. TypeOK' /\ Admitted' /\ Positions' /\ Len(mask') = x + 1
  BY <1>0, <1>1, <1>7, <1>8, PlacedNext
<1>10. NextUnit'
  <2>1. /\ InCluster' /\ mode' = "SPREAD" /\ numTPS' = numTPS
        /\ i' = (x + 1) \div R /\ RequestedUnits' = R
    BY <1>0, <1>1, <1>9, RequestFixed DEF i
  <2>2. \A k \in 0 .. numTPS : k > q => clusterCount[k] = 0
    BY <1>0, <1>1, <1>2 DEF AInv, NextUnit, Placing
  <2>3. CASE r = R - 1
    <3>1. (x + 1) \div R = q + 1 /\ (x + 1) % R = 0
      BY <1>0, <1>2, <1>3, <2>3, NextQuotient
    <3>2. clusterCount'[q + 1] = 0
      BY <1>2, <1>3, <1>4, <1>8, <2>2
    <3>3. \A k \in 0 .. numTPS : k > q + 1 => clusterCount'[k] = 0
      BY <1>3, <1>4, <1>8, <2>2
    <3>4. QED
      BY <1>9, <2>1, <3>1, <3>2, <3>3 DEF NextUnit
  <2>4. CASE r # R - 1
    <3>1. (x + 1) \div R = q /\ (x + 1) % R = r + 1
      BY <1>0, <1>2, <1>3, <2>4, NextQuotient
    <3>2. clusterCount'[q] = r + 1
      BY <1>2, <1>3, <1>4, <1>8
    <3>3. \A k \in 0 .. numTPS : k > q => clusterCount'[k] = 0
      BY <1>3, <1>4, <1>8, <2>2
    <3>4. QED
      BY <1>9, <2>1, <3>1, <3>2, <3>3 DEF NextUnit
  <2>5. QED
    BY <2>3, <2>4
<1>11. QED
  BY <1>9, <1>10 DEF AInv

(* The modes that count addresses: the next unit is the one at count.      *)
LEMMA AtCount ==
  ASSUME AInv, Placing, ~ InCluster, request' = request, result' = result, PlaceAtCount,
         count' \in Nat, smt_cnt' \in Nat, clusterCount' = clusterCount
  PROVE  /\ TypeOK' /\ Admitted' /\ Positions'
         /\ Len(mask) \in Nat /\ Len(mask') = Len(mask) + 1
         /\ count = Address(Len(mask)) /\ Len(mask) < Wanted
<1>1. count = Address(Len(mask)) /\ Len(mask) < Wanted
  BY OneToPlace DEF AInv, NextUnit, Placing
<1>2. QED
  BY <1>1, PlacedNext DEF PlaceAtCount, PlaceAt, AInv, TypeOK

(* A TP that takes whole clusters.                                         *)
LEMMA SpreadOverClustersStep == AInv /\ SpreadOverClusters => AInv'
<1> SUFFICES ASSUME AInv, SpreadOverClusters PROVE AInv'
  OBVIOUS
<1>0. PICK x, R, n, q, r, a, s :
        /\ x = Len(mask) /\ R = RequestedUnits /\ n = maxUnit
        /\ q = x \div R /\ r = x % R /\ a = check /\ s = Share
  OBVIOUS
<1>1. /\ R \in Nat \ {0} /\ n \in Nat \ {0} /\ a \in Nat \ {0} /\ s \in Nat \ {0}
      /\ s = n * a
  BY <1>0, Numbers, Shares DEF AInv, TypeOK, Share
<1>2. /\ Placing /\ ~ InCluster /\ request' = request /\ result' = result
      /\ mode = "SPREAD" /\ PlaceAtCount /\ clusterCount' = clusterCount
      /\ smt_cnt' = smt_cnt
  BY <1>0, <1>1 DEF SpreadOverClusters, InCluster
<1>3. x \in Nat /\ count = Address(x) /\ count \in Nat
  BY <1>0, <1>2, OneToPlace DEF AInv, NextUnit, Placing, TypeOK
<1>4. q \in Nat /\ r \in 0 .. R - 1 /\ count = s * q + r
  <2>1. q \in Nat /\ r \in 0 .. R - 1 /\ Address(x) = s * q + r
    BY <1>0, <1>2, <1>3, Spreading DEF AInv
  <2>2. QED
    BY <1>3, <2>1
<1>5. LastOfTP <=> r = R - 1
  BY <1>0, <1>1, <1>4 DEF LastOfTP, RequestedUnits, AInv, TypeOK
<1>6. Address(x + 1) = s * ((x + 1) \div R) + ((x + 1) % R)
  BY <1>0, <1>2 DEF Address
<1>7. count' = Address(x + 1) /\ count' \in Nat
  <2>1. CASE r # R - 1
    <3>1. (x + 1) \div R = q /\ (x + 1) % R = r + 1
      BY <1>0, <1>1, <1>3, <2>1, NextQuotient
    <3>2. count' = count + 1
      BY <1>5, <2>1 DEF SpreadOverClusters
    <3>3. s * q \in Int
      BY <1>1, <1>4, Multiples
    <3>4. QED
      BY <1>3, <1>4, <1>6, <3>1, <3>2, <3>3
  <2>2. CASE r = R - 1
    <3>1. (x + 1) \div R = q + 1 /\ (x + 1) % R = 0
      BY <1>0, <1>1, <1>3, <2>2, NextQuotient
    <3>2. Address(x + 1) = s * (q + 1) /\ s * (q + 1) \in Int
      BY <1>1, <1>4, <1>6, <3>1, Multiples
    <3>3. PICK c, k, e : c = R \div n /\ k = R % n /\ e = a * q + c
      OBVIOUS
    <3>4. c \in Int /\ k \in 0 .. n - 1 /\ R = n * c + k /\ a * q \in Int /\ e \in Int
      BY <1>1, <1>4, <3>3, Division, Multiples
    <3>5. count + 1 = n * e + k
      <4>1. (n * a) * q = n * (a * q)
        BY <1>1, <1>4
      <4>2. n * e = n * (a * q) + n * c
        BY <1>1, <3>3, <3>4
      <4>3. n * (a * q) \in Int /\ n * c \in Int /\ s * q = n * (a * q)
        BY <1>1, <3>4, <4>1, Multiples
      <4>4. QED
        BY <1>1, <1>3, <1>4, <2>2, <3>4, <4>2, <4>3
    <3>6. (count + 1) \div n = e /\ (count + 1) % n = k
      BY <1>1, <3>4, <3>5, UniqueQuotient, UniqueRemainder
    <3>7. count' = IF k # 0 THEN (e + 1) * n ELSE count + 1
      BY <1>0, <1>5, <2>2, <3>6 DEF SpreadOverClusters
    <3>8. a = IF k = 0 THEN c ELSE c + 1
      BY <1>0, <3>3, Shares DEF AInv
    <3>9. s * (q + 1) = n * (a * q + a)
      <4>1. (n * a) * (q + 1) = n * (a * (q + 1)) /\ a * (q + 1) = a * q + a
        BY <1>1, <1>4
      <4>2. QED
        BY <1>1, <4>1
    <3>10. count' = s * (q + 1)
      <4>1. CASE k = 0
        BY <1>1, <1>3, <3>3, <3>4, <3>5, <3>7, <3>8, <3>9, <4>1, Multiples
      <4>2. CASE k # 0
        <5>1. e + 1 = a * q + a
          <6>1. PICK z : z = a * q
            OBVIOUS
          <6>2. z \in Int /\ e = z + c /\ a = c + 1
            BY <3>3, <3>4, <3>8, <4>2, <6>1
          <6>3. e + 1 = z + a
            BY <1>1, <3>4, <6>2
          <6>4. QED
            BY <6>1, <6>3
        <5>2. QED
          BY <1>1, <3>4, <3>7, <3>9, <4>2, <5>1
      <4>3. QED
        BY <4>1, <4>2
    <3>11. s * (q + 1) >= 0
      BY <1>1, <1>4, Multiples
    <3>12. QED
      BY <3>2, <3>10, <3>11
  <2>3. QED
    BY <2>1, <2>2
<1>8. TypeOK' /\ Admitted' /\ Positions' /\ Len(mask') = x + 1
  BY <1>0, <1>2, <1>7, AtCount DEF AInv, TypeOK
<1>9. NextUnit'
  BY <1>2, <1>7, <1>8, RequestFixed DEF NextUnit
<1>10. QED
  BY <1>8, <1>9 DEF AInv

(* One unit after the other.                                               *)
LEMMA CompactStep == AInv /\ Compact => AInv'
<1> SUFFICES ASSUME AInv, Compact PROVE AInv'
  OBVIOUS
<1>1. /\ Placing /\ ~ InCluster /\ request' = request /\ result' = result
      /\ mode = "COMPACT" /\ PlaceAtCount /\ clusterCount' = clusterCount
      /\ smt_cnt' = smt_cnt /\ count' = count + 1 /\ count \in Nat /\ smt_cnt \in Nat
  BY DEF Compact, InCluster, AInv, TypeOK
<1>2. /\ TypeOK' /\ Admitted' /\ Positions' /\ Len(mask) \in Nat
      /\ Len(mask') = Len(mask) + 1 /\ count = Address(Len(mask))
  BY <1>1, AtCount
<1>3. count' = Address(Len(mask)) + 1 /\ Address(Len(mask)) = Len(mask)
  BY <1>1, <1>2 DEF Address
<1>4. Address(Len(mask))' = Len(mask')
  BY <1>1, RequestFixed DEF Address
<1>5. NextUnit'
  BY <1>1, <1>2, <1>3, <1>4, RequestFixed DEF NextUnit
<1>6. QED
  BY <1>2, <1>5 DEF AInv

(* Every second unit.                                                      *)
LEMMA CompactNoSMTStep == AInv /\ CompactNoSMT => AInv'
<1> SUFFICES ASSUME AInv, CompactNoSMT PROVE AInv'
  OBVIOUS
<1>0. PICK x, h, T : x = Len(mask) /\ h = half /\ T = totalUnits
  OBVIOUS
<1>1. /\ Placing /\ ~ InCluster /\ request' = request /\ result' = result
      /\ mode = "COMPACT_NO_SMT" /\ PlaceAtCount /\ clusterCount' = clusterCount
      /\ count \in Nat /\ smt_cnt \in Nat
  BY DEF CompactNoSMT, InCluster, AInv, TypeOK
<1>2. IF count + 2 >= T THEN smt_cnt' = smt_cnt + 1 /\ count' = smt_cnt'
                        ELSE count' = count + 2 /\ smt_cnt' = smt_cnt
  BY <1>0 DEF CompactNoSMT, hardware_smt
<1>3. count' \in Nat /\ smt_cnt' \in Nat
  BY <1>1, <1>2
<1>4. /\ TypeOK' /\ Admitted' /\ Positions' /\ x \in Nat
      /\ Len(mask') = x + 1 /\ count = Address(x) /\ x < Wanted
  BY <1>0, <1>1, <1>3, AtCount
<1>5. h \in Nat \ {0} /\ (T = 2 * h \/ T = 2 * h - 1)
  BY <1>0, Numbers DEF AInv
<1>6. /\ Address(x) = IF x < h THEN 2 * x ELSE 2 * (x - h) + 1
      /\ smt_cnt = IF x < h THEN 0 ELSE 1
  BY <1>0, <1>1, <1>4 DEF Address, AInv, NextUnit, Placing
<1>7. NextUnit'
  <2>1. SUFFICES ASSUME x + 1 < Wanted
                 PROVE  /\ count' = Address(x + 1)
                        /\ smt_cnt' = IF x + 1 < h THEN 0 ELSE 1
    BY <1>0, <1>1, <1>4, RequestFixed DEF NextUnit
  <2>2. x + 1 < T
    <3>1. Fits /\ Wanted \in Nat /\ RequestedUnits \in Nat /\ numTPS \in Nat
      BY <1>1, OneToPlace, Numbers DEF AInv, TypeOK
    <3>2. numTPS * RequestedUnits <= T /\ Wanted = numTPS * RequestedUnits
      BY <1>0, <3>1 DEF Fits, Wanted
    <3>3. QED
      BY <1>4, <1>5, <2>1, <3>1, <3>2
  <2>3. Address(x + 1) = IF x + 1 < h THEN 2 * (x + 1) ELSE 2 * (x + 1 - h) + 1
    <3>1. mode # "SPREAD" /\ mode # "COMPACT" /\ half = h
      BY <1>0, <1>1
    <3>2. QED
      BY <1>4, <1>5, <3>1 DEF Address
  <2>4. QED
    BY <1>2, <1>4, <1>5, <1>6, <2>2, <2>3
<1>8. QED
  BY <1>4, <1>7 DEF AInv

(* The test of the request and the end.                                    *)
LEMMA TestStep == AInv /\ Test => AInv'
<1> SUFFICES ASSUME AInv, Test PROVE AInv'
  OBVIOUS
<1>1. /\ request' = request /\ UNCHANGED <<count, smt_cnt, clusterCount, mask>>
      /\ result = "unknown" /\ result' = IF Fits THEN "placing" ELSE "no"
  BY DEF Test
<1>2. /\ mask = <<>> /\ count = 0 /\ smt_cnt = 0 /\ Len(mask) = 0
      /\ clusterCount = [k \in 0 .. numTPS |-> 0]
  BY <1>1 DEF AInv, Admitted
<1>3. TypeOK'
  BY <1>1, RequestFixed DEF AInv, TypeOK
<1>4. Admitted'
  BY <1>1, <1>2, RequestFixed, Numbers DEF AInv, Admitted
<1>5. Positions'
  BY <1>1, <1>2 DEF Positions, Thread
<1>6. NextUnit'
  <2>1. /\ RequestedUnits \in Nat \ {0} /\ half \in Nat \ {0} /\ 0 % RequestedUnits = 0
        /\ 0 \div RequestedUnits = 0 /\ numTPS \in Nat /\ Share \in Nat
    <3>1. PICK R : R = RequestedUnits
      OBVIOUS
    <3>2. R \in Nat \ {0}
      BY <3>1, Numbers DEF AInv
    <3>3. 0 % R = 0 /\ 0 \div R = 0
      <4>1. R * 0 + 0 = 0 /\ 0 \in 0 .. R - 1 /\ 0 \in Int
        BY <3>2
      <4>2. QED
        BY <3>2, <4>1, UniqueRemainder, UniqueQuotient
    <3>4. QED
      BY <3>1, <3>2, <3>3, Numbers, Shares DEF AInv, TypeOK
  <2>2. Address(0) = 0
    BY <2>1 DEF Address
  <2>3. i = 0
    BY <1>2, <2>1 DEF i
  <2>4. NextUnit
    BY <1>1 DEF NextUnit
  <2>5. /\ clusterCount'[0] = 0 /\ \A k \in 0 .. numTPS : clusterCount'[k] = 0
    BY <1>1, <1>2, <2>1
  <2>6. i' = 0 /\ Len(mask') = 0
    BY <1>1, <1>2, <2>3, RequestFixed DEF i
  <2>7. QED
    BY <1>1, <1>2, <2>1, <2>2, <2>5, <2>6, RequestFixed DEF NextUnit
<1>7. QED
  BY <1>3, <1>4, <1>5, <1>6 DEF AInv

LEMMA FinishStep == AInv /\ Finish => AInv'
<1> SUFFICES ASSUME AInv, Finish PROVE AInv'
  OBVIOUS
<1>1. /\ request' = request /\ UNCHANGED <<count, smt_cnt, clusterCount, mask>>
      /\ result = "placing" /\ result' = "yes" /\ i = numTPS
  BY DEF Finish
<1>2. Len(mask) = Wanted
  <2>1. PICK R, x : R = RequestedUnits /\ x = Len(mask)
    OBVIOUS
  <2>2. R \in Nat \ {0} /\ x \in Nat /\ Wanted \in Nat
    BY <2>1, Numbers DEF AInv
  <2>3. x = R * (x \div R) + (x % R) /\ x % R \in 0 .. R - 1
    BY <2>2, Division
  <2>4. x \div R = numTPS /\ Wanted = R * numTPS /\ x <= Wanted
    BY <1>1, <2>1 DEF i, Wanted, AInv, Admitted
  <2>5. QED
    BY <2>1, <2>2, <2>3, <2>4
<1>3. TypeOK' /\ Admitted' /\ Positions' /\ NextUnit'
  BY <1>1, <1>2, RequestFixed DEF AInv, TypeOK, Admitted, Positions, NextUnit, Thread, UnitOf
<1>4. QED
  BY <1>3 DEF AInv

(* AInv is inductive.                                                      *)
LEMMA AInvStep == AInv /\ [Next]_vars => AInv'
<1>1. AInv /\ UNCHANGED vars => AInv'
  <2> SUFFICES ASSUME AInv, UNCHANGED vars PROVE AInv'
    OBVIOUS
  <2>1. request' = request /\ UNCHANGED <<result, count, smt_cnt, clusterCount, mask>>
    BY DEF vars
  <2>2. i' = i
    BY <2>1, RequestFixed DEF i
  <2>3. QED
    BY <2>1, <2>2, RequestFixed
    DEF AInv, TypeOK, Admitted, Positions, NextUnit, Thread, UnitOf
<1>2. QED
  BY <1>1, TestStep, FinishStep, SpreadInClusterStep, SpreadOverClustersStep, CompactStep,
     CompactNoSMTStep DEF Next

(* The invariant, and with it the place of every thread.                   *)
THEOREM Placement == Spec => []AInv
<1>1. QED
  BY AInvInit, AInvStep, PTL DEF Spec

-----------------------------------------------------------------------------
(* What the invariant says of the units.                                   *)

(* The unit of a thread, and what it tells of its address.                 *)
LEMMA Units ==
  ASSUME AInv, NEW t \in Thread, NEW a, a = Address(t)
  PROVE  /\ t \in Nat /\ t < Len(mask) /\ Len(mask) \in Nat /\ a \in Nat /\ a < totalUnits
         /\ Fits /\ t < Wanted
         /\ UnitOf(t) = <<a \div maxUnit, a % maxUnit>>
         /\ UnitOf(t)[1] = a \div maxUnit /\ UnitOf(t)[2] = a % maxUnit
         /\ a \div maxUnit \in 0 .. maxCluster - 1 /\ a % maxUnit \in 0 .. maxUnit - 1
         /\ a = maxUnit * (a \div maxUnit) + (a % maxUnit)
<1>1. t \in Nat /\ Len(mask) \in Nat /\ t < Len(mask) /\ Wanted \in Nat
  BY Numbers DEF Thread, AInv
<1>2. Fits /\ Len(mask) <= Wanted
  <2>1. mask # <<>>
    BY <1>1
  <2>2. QED
    BY <2>1 DEF AInv, Admitted
<1>3. a \in Nat /\ a < totalUnits
  BY <1>1, <1>2, AddressInMachine DEF AInv
<1>4. UnitOf(t) = <<a \div maxUnit, a % maxUnit>>
  BY DEF AInv, Positions
<1>5. PICK n, k : n = maxUnit /\ k = maxCluster
  OBVIOUS
<1>6. n \in Nat \ {0} /\ k \in Nat /\ a < n * k
  BY <1>3, <1>5 DEF AInv, TypeOK, totalUnits
<1>7. a \div n \in 0 .. k - 1 /\ a % n \in 0 .. n - 1 /\ a = n * (a \div n) + (a % n)
  <2>1. a = n * (a \div n) + (a % n)
    <3>1. a \in Int /\ n \in Nat \ {0}
      BY <1>3, <1>6
    <3>2. QED
      BY <3>1, Division
  <2>2. a \div n \in 0 .. k - 1 /\ a % n \in 0 .. n - 1
    BY <1>3, <1>6, QuotientBelow
  <2>3. QED
    BY <2>1, <2>2
<1>8. QED
  BY <1>1, <1>2, <1>3, <1>4, <1>5, <1>7

LEMMA AInvExclusive == AInv => Exclusive
<1> SUFFICES ASSUME AInv PROVE Exclusive
  OBVIOUS
<1>1. ASSUME NEW t \in Thread
      PROVE  UnitOf(t) \in (0 .. maxCluster - 1) \X (0 .. maxUnit - 1)
  BY Units
<1>2. ASSUME NEW t \in Thread, NEW u \in Thread, UnitOf(t) = UnitOf(u)
      PROVE  t = u
  <2>1. PICK a, b : a = Address(t) /\ b = Address(u)
    OBVIOUS
  <2>2. /\ t \in Nat /\ UnitOf(t)[1] = a \div maxUnit /\ UnitOf(t)[2] = a % maxUnit
        /\ a = maxUnit * (a \div maxUnit) + (a % maxUnit)
    BY <2>1, Units
  <2>3. /\ u \in Nat /\ UnitOf(u)[1] = b \div maxUnit /\ UnitOf(u)[2] = b % maxUnit
        /\ b = maxUnit * (b \div maxUnit) + (b % maxUnit)
    BY <2>1, Units
  <2>4. a = b
    BY <1>2, <2>2, <2>3
  <2>5. QED
    BY <2>1, <2>2, <2>3, <2>4, AddressesDiffer DEF AInv
<1>3. result = "yes" => Len(mask) = numTPS * RequestedUnits
  <2>1. Wanted = numTPS * RequestedUnits
    BY Numbers DEF Wanted, AInv, TypeOK
  <2>2. QED
    BY <2>1 DEF AInv, Admitted
<1>4. QED
  BY <1>1, <1>2, <1>3 DEF Exclusive

(* Two TPs have two shares, and a share is made of whole clusters.         *)
LEMMA SpreadKept ==
  ASSUME AInv, mode = "SPREAD", NEW t \in Thread, NEW u \in Thread,
         UnitOf(t)[1] = UnitOf(u)[1]
  PROVE  TPOf(t) = TPOf(u)
<1>1. PICK q, r, x, y : /\ q = t \div RequestedUnits /\ r = t % RequestedUnits
                        /\ x = u \div RequestedUnits /\ y = u % RequestedUnits
  OBVIOUS
<1>2. PICK c, d, k : c = r \div maxUnit /\ d = y \div maxUnit /\ k = check
  OBVIOUS
<1>3. /\ t \in Nat /\ u \in Nat /\ UnitOf(t)[1] = Address(t) \div maxUnit
      /\ UnitOf(u)[1] = Address(u) \div maxUnit
  BY Units
<1>4. q \in Nat /\ c \in 0 .. k - 1 /\ Address(t) \div maxUnit = k * q + c
  BY <1>1, <1>2, <1>3, Spreading DEF AInv
<1>5. x \in Nat /\ d \in 0 .. k - 1 /\ Address(u) \div maxUnit = k * x + d
  BY <1>1, <1>2, <1>3, Spreading DEF AInv
<1>6. k \in Nat \ {0}
  BY <1>2, Shares DEF AInv
<1>7. (k * q + c) \div k = q
  BY <1>4, <1>6, UniqueQuotient
<1>8. (k * x + d) \div k = x
  BY <1>5, <1>6, UniqueQuotient
<1>9. QED
  BY <1>1, <1>3, <1>4, <1>5, <1>7, <1>8 DEF TPOf

(* Clusters are filled in their order.                                     *)
LEMMA CompactKept ==
  ASSUME AInv, mode = "COMPACT", NEW t \in Thread,
         NEW c \in 0 .. UnitOf(t)[1] - 1, NEW k \in 0 .. maxUnit - 1
  PROVE  \E u \in Thread : UnitOf(u) = <<c, k>>
<1>1. PICK n, q, x : n = maxUnit /\ q = t \div n /\ x = n * c + k
  OBVIOUS
<1>2. /\ t \in Nat /\ t < Len(mask) /\ Len(mask) \in Nat
      /\ n \in Nat \ {0} /\ UnitOf(t)[1] = q /\ t = n * q + (t % n) /\ t % n \in 0 .. n - 1
      /\ q \in Nat
  <2>1. Address(t) = t
    BY DEF Address
  <2>2. /\ t \in Nat /\ t < Len(mask) /\ Len(mask) \in Nat
        /\ UnitOf(t)[1] = t \div maxUnit /\ t % maxUnit \in 0 .. maxUnit - 1
        /\ t = maxUnit * (t \div maxUnit) + (t % maxUnit)
        /\ t \div maxUnit \in Nat
    BY <2>1, Units DEF AInv, TypeOK
  <2>3. QED
    BY <1>1, <2>2 DEF AInv, TypeOK
<1>3. n * (c + 1) <= n * q /\ n * (c + 1) = n * c + n /\ n * q \in Int /\ n * c \in Int
  BY <1>2, Ordered
<1>4. x \in Nat /\ x < t
  <2>1. c \in Nat /\ k \in 0 .. n - 1
    BY <1>1, <1>2
  <2>2. n * c >= 0
    BY <1>2, <2>1, Multiples
  <2>3. QED
    BY <1>1, <1>2, <1>3, <2>1, <2>2
<1>5. x \in Thread /\ Address(x) = x
  BY <1>2, <1>4 DEF Thread, Address
<1>6. x \div n = c /\ x % n = k
  <2>1. n \in Nat \ {0} /\ c \in Int /\ k \in 0 .. n - 1
    BY <1>1, <1>2
  <2>2. (n * c + k) \div n = c /\ (n * c + k) % n = k
    BY <2>1, UniqueQuotient, UniqueRemainder
  <2>3. QED
    BY <1>1, <2>2
<1>7. UnitOf(x) = <<c, k>>
  BY <1>1, <1>5, <1>6, Units
<1>8. QED
  BY <1>5, <1>7

(* The second unit of a core is taken when the first of each is.           *)
LEMMA NoSMTKept ==
  ASSUME AInv, mode = "COMPACT_NO_SMT", NEW t \in Thread, NEW u \in Thread, t # u,
         Core(UnitOf(t)) = Core(UnitOf(u))
  PROVE  hardware_smt * Len(mask) > totalUnits
<1>1. PICK a, b, h : a = Address(t) /\ b = Address(u) /\ h = half
  OBVIOUS
<1>2. /\ t \in Nat /\ t < Len(mask) /\ a \in Nat /\ Len(mask) \in Nat
      /\ UnitOf(t)[1] * maxUnit + UnitOf(t)[2] = a
  <2>1. /\ t \in Nat /\ t < Len(mask) /\ a \in Nat /\ Len(mask) \in Nat
        /\ UnitOf(t)[1] = a \div maxUnit /\ UnitOf(t)[2] = a % maxUnit
        /\ a \div maxUnit \in 0 .. maxCluster - 1
        /\ a = maxUnit * (a \div maxUnit) + (a % maxUnit)
    BY <1>1, Units
  <2>2. maxUnit * (a \div maxUnit) = (a \div maxUnit) * maxUnit
    BY <2>1 DEF AInv, TypeOK
  <2>3. QED
    BY <2>1, <2>2
<1>3. /\ u \in Nat /\ u < Len(mask) /\ b \in Nat
      /\ UnitOf(u)[1] * maxUnit + UnitOf(u)[2] = b
  <2>1. /\ u \in Nat /\ u < Len(mask) /\ b \in Nat
        /\ UnitOf(u)[1] = b \div maxUnit /\ UnitOf(u)[2] = b % maxUnit
        /\ b \div maxUnit \in 0 .. maxCluster - 1
        /\ b = maxUnit * (b \div maxUnit) + (b % maxUnit)
    BY <1>1, Units
  <2>2. maxUnit * (b \div maxUnit) = (b \div maxUnit) * maxUnit
    BY <2>1 DEF AInv, TypeOK
  <2>3. QED
    BY <2>1, <2>2
<1>4. a \div 2 = b \div 2
  BY <1>2, <1>3 DEF Core, hardware_smt
<1>5. /\ a = IF t < h THEN 2 * t ELSE 2 * (t - h) + 1
      /\ b = IF u < h THEN 2 * u ELSE 2 * (u - h) + 1
  BY <1>1 DEF Address
<1>6. h \in Nat \ {0} /\ (totalUnits = 2 * h \/ totalUnits = 2 * h - 1)
  BY <1>1, Numbers DEF AInv
<1>7. t >= h \/ u >= h
  BY <1>2, <1>3, <1>4, <1>5, <1>6
<1>8. QED
  BY <1>2, <1>3, <1>6, <1>7 DEF hardware_smt

LEMMA AInvKeepsMode == AInv => KeepsMode
BY SpreadKept, CompactKept, NoSMTKept DEF KeepsMode

-----------------------------------------------------------------------------
(* generateMask binds no two threads to one unit, and every thread to a    *)
(* unit of the machine, whatever the machine, the mode and the number of   *)
(* threads.                                                                *)
THEOREM UnitsExclusive == Spec => []Exclusive
BY Placement, AInvExclusive, PTL

(* SPREAD keeps TPs on clusters of their own, COMPACT fills one cluster    *)
(* before the next, COMPACT_NO_SMT one unit of every core before a second. *)
THEOREM ModesKept == Spec => []KeepsMode
BY Placement, AInvKeepsMode, PTL

=============================================================================
