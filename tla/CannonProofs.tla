---------------------------- MODULE CannonProofs ----------------------------
(***************************************************************************)
(* Cannon's algorithm on queues computes the product, for every number of  *)
(* tiles, whatever the order in which the workers take turns.              *)
(***************************************************************************)
EXTENDS CannonDfswp, FiniteSetTheorems, TLAPS

-----------------------------------------------------------------------------
(* Arithmetic of quotients and remainders.                                 *)

(* The remainder of a number in 0 .. w - 1 is the number itself.           *)
LEMMA PlainMod ==
  ASSUME NEW w \in Nat \ {0}, NEW x \in Int, 0 <= x, x < w
  PROVE  x % w = x
OBVIOUS

(* The remainder of a negative number less than one period below 0.        *)
LEMMA BelowMod ==
  ASSUME NEW w \in Nat \ {0}, NEW x \in Int, -w <= x, x < 0
  PROVE  x % w = x + w
OBVIOUS

(* A whole period has no remainder.                                        *)
LEMMA WholeMod ==
  ASSUME NEW w \in Nat \ {0}
  PROVE  w % w = 0
OBVIOUS

(* Quotient and remainder of a number.                                     *)
LEMMA Division ==
  ASSUME NEW n \in Nat \ {0}, NEW x \in Int
  PROVE  /\ x \div n \in Int
         /\ x % n \in 0 .. n - 1
         /\ x = n * (x \div n) + (x % n)
OBVIOUS

(* The sign and the least size of a multiple.                              *)
LEMMA Multiples ==
  ASSUME NEW n \in Nat \ {0}, NEW d \in Int
  PROVE  /\ n * d \in Int
         /\ d >= 1 => n * d >= n
         /\ d <= 0 => n * d <= 0
         /\ d <= -1 => n * d <= -n
OBVIOUS

(* The remainder of a number is unique.                                    *)
LEMMA UniqueRemainder ==
  ASSUME NEW n \in Nat \ {0}, NEW q \in Int, NEW r \in 0 .. n - 1
  PROVE  (n * q + r) % n = r
<1> DEFINE x == n * q + r
           d == q - (x \div n)
<1>1. x \in Int /\ d \in Int
  BY Multiples, Division
<1>2. x = n * (x \div n) + (x % n) /\ x % n \in 0 .. n - 1 /\ x \div n \in Int
  BY <1>1, Division
<1>3. n * d = n * q - n * (x \div n)
  BY <1>2
<1>4. n * d = (x % n) - r
  <2>1. n * q = x - r /\ n * q \in Int
    BY Multiples
  <2>2. n * (x \div n) = x - (x % n)
    <3> HIDE DEF x
    <3> QED BY <1>1, <1>2, Multiples
  <2> HIDE DEF d, x
  <2>3. QED
    BY <1>1, <1>2, <1>3, <2>1, <2>2
<1>5. n * d < n /\ n * d > -n /\ n * d \in Int
  BY <1>2, <1>4
<1>6. d = 0
  <2> HIDE DEF d, x
  <2> QED BY <1>1, <1>5, Multiples
<1>7. QED
  BY <1>2, <1>4, <1>6

(* A number of which n is a divisor does not change the remainder.         *)
LEMMA Period ==
  ASSUME NEW n \in Nat \ {0}, NEW w \in Nat, w % n = 0, NEW x \in Int
  PROVE  (x + w) % n = x % n
<1>1. w = n * (w \div n) /\ w \div n \in Int
  BY Division
<1>2. x = n * (x \div n) + (x % n) /\ x \div n \in Int /\ x % n \in 0 .. n - 1
  BY Division
<1>3. x + w = n * ((x \div n) + (w \div n)) + (x % n)
  BY <1>1, <1>2
<1> DEFINE q == (x \div n) + (w \div n)
           r == x % n
<1>4. q \in Int /\ r \in 0 .. n - 1 /\ x + w = n * q + r
  BY <1>1, <1>2, <1>3
<1>5. (n * q + r) % n = r
  <2> HIDE DEF q, r
  <2> QED BY <1>4, UniqueRemainder
<1>6. QED
  BY <1>4, <1>5

-----------------------------------------------------------------------------
(* Tiles and their neighbours.                                             *)

(* The remainder of a number that is not far from Side.                    *)
LEMMA NearMod ==
  ASSUME S \in Nat \ {0}
  PROVE  \A x \in -S .. 2 * S - 1 :
           x % S = IF x < 0 THEN x + S ELSE IF x < S THEN x ELSE x - S
<1> TAKE x \in -S .. 2 * S - 1
<1>1. CASE x < 0
  BY <1>1, BelowMod
<1>2. CASE x >= 0 /\ x < S
  BY <1>2, PlainMod
<1>3. CASE x >= S
  <2>1. 1 \in Int /\ x - S \in 0 .. S - 1 /\ S * 1 + (x - S) = x
    BY <1>3
  <2>2. (S * 1 + (x - S)) % S = x - S
    BY <2>1, UniqueRemainder
  <2>3. QED
    BY <1>3, <2>1, <2>2
<1>4. QED
  BY <1>1, <1>2, <1>3

(* Coordinates, and neighbours, of a tile.                                 *)
LEMMA Torus ==
  ASSUME S \in Nat \ {0}, NEW t \in Tile
  PROVE  /\ t = <<t[1], t[2]>> /\ t[1] \in Side /\ t[2] \in Side
         /\ DestRow(t) \in Tile /\ NextRow(t) \in Tile /\ PrevRow(t) \in Tile
         /\ DestCol(t) \in Tile /\ NextCol(t) \in Tile /\ PrevCol(t) \in Tile
         /\ \A n \in Int : NthA(t, n) \in Tile /\ NthB(t, n) \in Tile
<1>1. t = <<t[1], t[2]>> /\ t[1] \in Side /\ t[2] \in Side
  BY DEF Tile
<1>2. \A x \in Int : x % S \in Side
  BY Division DEF Side
<1>3. t[1] \in Int /\ t[2] \in Int
  BY <1>1 DEF Side
<1>4. QED
  BY <1>1, <1>2, <1>3
     DEF Tile, DestRow, NextRow, PrevRow, DestCol, NextCol, PrevCol, NthA, NthB

(* What a skew codelet sends to t is the first tile of t.                  *)
LEMMA Skewing ==
  ASSUME S \in Nat \ {0}, NEW s \in Tile, NEW t \in Tile
  PROVE  /\ DestRow(s) = t <=> NthA(t, 0) = s
         /\ DestCol(s) = t <=> NthB(t, 0) = s
<1>1. /\ s = <<s[1], s[2]>> /\ s[1] \in 0 .. S - 1 /\ s[2] \in 0 .. S - 1
      /\ t = <<t[1], t[2]>> /\ t[1] \in 0 .. S - 1 /\ t[2] \in 0 .. S - 1
  BY Torus DEF Side
<1>2. \A x, y, z \in 0 .. S - 1 : (y - x + S) % S = z <=> (x + z - 0) % S = y
  <2> TAKE x, y, z \in 0 .. S - 1
  <2>1. y - x + S \in -S .. 2 * S - 1 /\ x + z - 0 \in -S .. 2 * S - 1
    OBVIOUS
  <2>2. (y - x + S) % S = IF y - x + S < S THEN y - x + S ELSE y - x
    BY <2>1, NearMod
  <2>3. (x + z - 0) % S = IF x + z < S THEN x + z ELSE x + z - S
    BY <2>1, NearMod
  <2>4. QED
    BY <2>2, <2>3
<1>3. QED
  BY <1>1, <1>2 DEF DestRow, DestCol, NthA, NthB

(* Who passes tiles on to t.                                               *)
LEMMA Passing ==
  ASSUME S \in Nat \ {0}, NEW s \in Tile, NEW t \in Tile
  PROVE  /\ NextRow(s) = t <=> PrevRow(t) = s
         /\ NextCol(s) = t <=> PrevCol(t) = s
<1>1. /\ s = <<s[1], s[2]>> /\ s[1] \in 0 .. S - 1 /\ s[2] \in 0 .. S - 1
      /\ t = <<t[1], t[2]>> /\ t[1] \in 0 .. S - 1 /\ t[2] \in 0 .. S - 1
  BY Torus DEF Side
<1>2. \A x, y \in 0 .. S - 1 : (x + 1) % S = y <=> (y - 1 + S) % S = x
  <2> TAKE x, y \in 0 .. S - 1
  <2>1. x + 1 \in -S .. 2 * S - 1 /\ y - 1 + S \in -S .. 2 * S - 1
    OBVIOUS
  <2>2. (x + 1) % S = IF x + 1 < S THEN x + 1 ELSE x + 1 - S
    BY <2>1, NearMod
  <2>3. (y - 1 + S) % S = IF y - 1 + S < S THEN y - 1 + S ELSE y - 1
    BY <2>1, NearMod
  <2>4. QED
    BY <2>2, <2>3
<1>3. QED
  BY <1>1, <1>2 DEF NextRow, NextCol, PrevRow, PrevCol

(* The n-th tile of t is the next one of its neighbour.                    *)
LEMMA Shifting ==
  ASSUME S \in Nat \ {0}, NEW t \in Tile, NEW n \in Int
  PROVE  /\ NthA(NextRow(t), n + 1) = NthA(t, n)
         /\ NthB(NextCol(t), n + 1) = NthB(t, n)
<1>1. t = <<t[1], t[2]>> /\ t[1] \in 0 .. S - 1 /\ t[2] \in 0 .. S - 1
  BY Torus DEF Side
<1>2. \A x, y \in 0 .. S - 1 : (x + ((y + 1) % S) - (n + 1)) % S = (x + y - n) % S
  <2> TAKE x, y \in 0 .. S - 1
  <2>1. (y + 1) % S = IF y + 1 < S THEN y + 1 ELSE y + 1 - S
    <3>1. y + 1 \in -S .. 2 * S - 1
      OBVIOUS
    <3>2. QED
      BY <3>1, NearMod
  <2>2. CASE y + 1 < S
    <3>1. x + ((y + 1) % S) - (n + 1) = x + y - n
      BY <2>1, <2>2
    <3>2. QED
      BY <3>1
  <2>3. CASE ~ (y + 1 < S)
    <3> DEFINE z == x + ((y + 1) % S) - (n + 1)
    <3>1. z \in Int /\ z + S = x + y - n
      BY <2>1, <2>3
    <3>2. S % S = 0 /\ S \in Nat
      BY WholeMod
    <3>3. (z + S) % S = z % S
      <4> HIDE DEF z
      <4> QED BY <3>1, <3>2, Period
    <3>4. QED
      BY <3>1, <3>3
  <2>4. QED
    BY <2>2, <2>3
<1>3. \A x, y \in 0 .. S - 1 : (((y + 1) % S) + x - (n + 1)) % S = (y + x - n) % S
  <2> TAKE x, y \in 0 .. S - 1
  <2>1. (y + 1) % S \in Int
    BY Division
  <2>2. ((y + 1) % S) + x - (n + 1) = x + ((y + 1) % S) - (n + 1) /\ x + y - n = y + x - n
    BY <2>1
  <2>3. QED
    BY <1>2, <2>2
<1>4. QED
  BY <1>1, <1>2, <1>3 DEF NextRow, NextCol, NthA, NthB

(* The first S tiles are the terms of the product.                         *)
LEMMA Covering ==
  ASSUME S \in Nat \ {0}, NEW t \in Tile
  PROVE  {<<NthA(t, i - 1), NthB(t, i - 1)>> : i \in 1 .. S} = Terms(t)
<1>1. PICK a \in 0 .. S - 1, b \in 0 .. S - 1 : t = <<a, b>>
  BY DEF Tile, Side
<1> DEFINE nth(i) == (a + b - (i - 1)) % S
<1>2. \A i \in 1 .. S : nth(i) \in Side
  <2> TAKE i \in 1 .. S
  <2>1. a + b - (i - 1) \in Int
    OBVIOUS
  <2>2. QED
    BY <2>1, Division DEF Side
<1>3. \A k \in Side : \E i \in 1 .. S : nth(i) = k
  <2> TAKE k \in Side
  <2> DEFINE x == (a + b - k) % S
  <2>1. k \in 0 .. S - 1
    BY DEF Side
  <2>2. x = IF a + b - k < 0 THEN a + b - k + S
            ELSE IF a + b - k < S THEN a + b - k ELSE a + b - k - S
    <3>1. a + b - k \in -S .. 2 * S - 1
      BY <1>1, <2>1
    <3>2. QED
      BY <2>1, <3>1, NearMod
  <2>3. x \in 0 .. S - 1
    BY <1>1, <2>1, <2>2
  <2> HIDE DEF x
  <2>4. nth(x + 1) = (a + b - x) % S
    <3>1. (x + 1) - 1 = x
      BY <2>3
    <3>2. QED
      BY <3>1
  <2>5. (a + b - x) % S =
          IF a + b - x < 0 THEN a + b - x + S
          ELSE IF a + b - x < S THEN a + b - x ELSE a + b - x - S
    <3>1. a + b - x \in -S .. 2 * S - 1
      BY <1>1, <2>3
    <3>2. QED
      BY <2>3, <3>1, NearMod
  <2>6. (a + b - x) % S = k
    BY <1>1, <2>1, <2>2, <2>3, <2>5
  <2>7. x + 1 \in 1 .. S
    BY <2>3
  <2>8. QED
    BY <2>4, <2>6, <2>7
<1>4. /\ t[1] = a /\ t[2] = b
      /\ \A i \in 1 .. S : NthA(t, i - 1) = <<a, nth(i)>> /\ NthB(t, i - 1) = <<nth(i), b>>
  BY <1>1 DEF NthA, NthB
<1> HIDE DEF nth
<1> DEFINE term(k) == <<<<a, k>>, <<k, b>>>>
<1>5. {<<NthA(t, i - 1), NthB(t, i - 1)>> : i \in 1 .. S} = {term(nth(i)) : i \in 1 .. S}
  BY <1>4
<1>6. Terms(t) = {term(k) : k \in Side}
  BY <1>4 DEF Terms
<1> HIDE DEF term
<1>7. {term(nth(i)) : i \in 1 .. S} = {term(k) : k \in Side}
  BY <1>2, <1>3
<1>8. QED
  BY <1>5, <1>6, <1>7

-----------------------------------------------------------------------------
(* Types, and what a signal finds.                                         *)
LEMMA Squares ==
  ASSUME S \in Nat \ {0}
  PROVE  IsFiniteSet(Tile) /\ Cardinality(Tile) = S * S /\ S * S \in Nat
<1>1. IsFiniteSet(Side) /\ Cardinality(Side) = S
  BY FS_Interval DEF Side
<1>2. S * S \in Nat
  <2>1. S \in Int /\ S >= 1
    OBVIOUS
  <2>2. QED
    BY <2>1, Multiples
<1>3. QED
  BY <1>1, <1>2, FS_Product DEF Tile

(* There is at least one tile.                                             *)
LEMMA SizeIs == Inv => S \in Nat \ {0}
BY SizeAssumption DEF Inv, TypeOK

(* A codelet that is not done is one of those counted.                     *)
LEMMA Counted ==
  ASSUME S \in Nat \ {0}, NEW k, NEW t \in Tile, at[<<k, t>>] # "done"
  PROVE  /\ Cardinality(Undone(k)) \in Nat /\ Cardinality(Undone(k)) > 0
         /\ Cardinality(Undone(k) \ {t}) = Cardinality(Undone(k)) - 1
         /\ Cardinality(Undone(k)) = 1 => Undone(k) = {t}
<1>1. IsFiniteSet(Undone(k)) /\ t \in Undone(k)
  BY Squares, FS_Subset DEF Undone
<1>2. /\ IsFiniteSet(Undone(k) \ {t})
      /\ Cardinality(Undone(k) \ {t}) = Cardinality(Undone(k)) - 1
  BY <1>1, FS_RemoveElement
<1>3. Cardinality(Undone(k)) \in Nat /\ Cardinality(Undone(k) \ {t}) \in Nat
  BY <1>1, <1>2, FS_CardinalityType
<1>4. Cardinality(Undone(k)) = 1 => Undone(k) \ {t} = {}
  BY <1>2, <1>3, FS_EmptySet
<1>5. QED
  BY <1>1, <1>2, <1>3, <1>4

(* Names of codelets are different, and none is None.                      *)
LEMMA Names ==
  ASSUME S \in Nat \ {0}
  PROVE  /\ Barrier \in Codelets /\ End \in Codelets /\ None \notin Codelets
         /\ \A k \in TileKinds, t \in Tile : <<k, t>> \in Codelets
         /\ \A t \in Tile : t # None
<1>1. Tile \subseteq Nat \X Nat
  BY DEF Tile, Side
<1>2. Codelets \subseteq (TileKinds \cup {"barrier", "end"}) \X ((Nat \X Nat) \cup {None})
  BY <1>1 DEF Codelets, TileKinds, Barrier, End
<1>3. QED
  BY <1>1, <1>2, NoneAssumption DEF Codelets

-----------------------------------------------------------------------------
(* Queues.                                                                 *)
LEMMA Appended ==
  ASSUME NEW X, NEW q \in Seq(X), NEW x \in X
  PROVE  /\ Append(q, x) \in Seq(X) /\ Append(q, x) # <<>>
         /\ Len(q) \in Nat /\ Len(Append(q, x)) = Len(q) + 1
         /\ \A i \in 1 .. Len(q) : Append(q, x)[i] = q[i]
         /\ Append(q, x)[Len(q) + 1] = x
OBVIOUS

(* What is left of a queue, and its head.                                  *)
LEMMA Popped ==
  ASSUME NEW X, NEW q \in Seq(X), q # <<>>
  PROVE  /\ Head(q) \in X /\ Head(q) = q[1] /\ Tail(q) \in Seq(X)
         /\ Len(q) \in Nat \ {0} /\ Len(Tail(q)) = Len(q) - 1
         /\ \A i \in 1 .. Len(q) - 1 : Tail(q)[i] = q[i + 1]
OBVIOUS

(* The two halves of TypeOK.                                               *)
Control ==
  /\ S \in Sizes
  /\ dep \in [Codelets -> 0 .. S * S + 2]
  /\ at \in [Codelets -> InBody \cup {"wait", "ready", "done"}]
  /\ run \in [Worker -> Codelets \cup {None}]
  /\ signalled \in BOOLEAN

Data ==
  /\ scratchA \in [Tile -> Tile \cup {None}] /\ scratchB \in [Tile -> Tile \cup {None}]
  /\ aq \in [Tile -> Seq(Tile)] /\ bq \in [Tile -> Seq(Tile)]
  /\ iter \in [Tile -> 0 .. S]
  /\ prods \in [Tile -> Seq(Tile \X Tile)] /\ C \in [Tile -> Seq(Tile \X Tile)]

(* TypeOK is both of them.                                                 *)
LEMMA Halves == (TypeOK <=> Control /\ Data) /\ (TypeOK' <=> Control' /\ Data')
BY DEF TypeOK, Control, Data

(* Tiles and codelets depend on their number only.                         *)
LEMMA SameTiles == S' = S => Tile' = Tile /\ Codelets' = Codelets
BY DEF Tile, Side, Codelets, Barrier, End

(* Control, when a worker goes on in a codelet and when it returns.        *)
LEMMA GotoTypes ==
  ASSUME Control, NEW c, NEW l \in InBody, Goto(c, l)
  PROVE  Control' /\ S' = S
<1>1. /\ S' = S /\ dep' = dep /\ run' = run /\ signalled' = signalled
      /\ at' \in [Codelets -> InBody \cup {"wait", "ready", "done"}]
  BY DEF Control, Goto
<1>2. QED
  BY <1>1, SameTiles DEF Control

(* Control, when a codelet signals others and returns.                     *)
LEMMA ReturnTypes ==
  ASSUME Control, S * S \in Nat, NEW w, NEW c, NEW ds, SignalAndReturn(w, c, ds),
         \A d \in ds : d \in Codelets => dep[d] > 0
  PROVE  Control' /\ S' = S
<1>1. /\ S' = S /\ signalled' = signalled
      /\ at' \in [Codelets -> InBody \cup {"wait", "ready", "done"}]
      /\ run' \in [Worker -> Codelets \cup {None}]
  BY DEF Control, SignalAndReturn
<1>2. dep' \in [Codelets -> 0 .. S * S + 2]
  BY DEF Control, SignalAndReturn
<1>3. QED
  BY <1>1, <1>2, SameTiles DEF Control

(* Data, from what a step does to it.                                      *)
LEMMA DataTypes ==
  ASSUME S' = S, Data,
         scratchA' = scratchA \/ scratchA' \in [Tile -> Tile \cup {None}],
         scratchB' = scratchB \/ scratchB' \in [Tile -> Tile \cup {None}],
         aq' = aq \/ aq' \in [Tile -> Seq(Tile)], bq' = bq \/ bq' \in [Tile -> Seq(Tile)],
         iter' = iter \/ iter' \in [Tile -> 0 .. S],
         prods' = prods \/ prods' \in [Tile -> Seq(Tile \X Tile)],
         C' = C \/ C' \in [Tile -> Seq(Tile \X Tile)]
  PROVE  Data'
BY SameTiles DEF Data

(* The counters of the codelets that no compute codelet is.                *)
LEMMA Waits ==
  ASSUME Inv
  PROVE  /\ at[Barrier] = "wait" <=> dep[Barrier] > 0
         /\ at[End] = "wait" <=> dep[End] > 0
         /\ \A t \in Tile : /\ at[<<"skew", t>>] = "wait" <=> dep[<<"skew", t>>] > 0
                            /\ at[<<"copyC", t>>] = "wait" <=> dep[<<"copyC", t>>] > 0
<1>1. /\ Barrier \in Codelets /\ End \in Codelets
      /\ \A t \in Tile : <<"skew", t>> \in Codelets /\ <<"copyC", t>> \in Codelets
  BY SizeIs, Names DEF TileKinds
<1>2. QED
  BY <1>1 DEF Inv, Waiting, Barrier, End

(* What holds when a skew codelet is fired: it has its tiles, and no tile  *)
(* is multiplied yet.                                                      *)
LEMMA AtSkew ==
  ASSUME Inv, NEW t \in Tile, at[<<"skew", t>>] \notin {"wait", "done"}
  PROVE  /\ at[<<"copyA", t>>] = "done" /\ at[<<"copyB", t>>] = "done"
         /\ scratchA[t] = t /\ scratchB[t] = t
         /\ dep[Barrier] > 0 /\ at[Barrier] = "wait"
         /\ \A u \in Tile : at[<<"compute", u>>] = "wait" /\ iter[u] = 0
<1>1. /\ dep[<<"skew", t>>] = Due(<<"copyA", t>>) + Due(<<"copyB", t>>)
      /\ ~ (dep[<<"skew", t>>] > 0)
  BY Waits DEF Inv, Counts
<1>2. at[<<"copyA", t>>] = "done" /\ at[<<"copyB", t>>] = "done"
  BY <1>1 DEF Due
<1>3. dep[Barrier] > 0
  BY SizeIs, Counted DEF Inv, Counts
<1>4. at[Barrier] = "wait"
  BY <1>3, Waits
<1>5. \A u \in Tile : at[<<"compute", u>>] = "wait"
  BY <1>4 DEF Inv, Waiting
<1>6. QED
  BY <1>2, <1>3, <1>4, <1>5 DEF Inv, Progress

(* What holds when a compute codelet is fired: all tiles are skewed, and   *)
(* its result is not copied yet.                                           *)
LEMMA AtCompute ==
  ASSUME Inv, NEW t \in Tile, at[<<"compute", t>>] # "wait"
  PROVE  \A s \in Tile : at[<<"skew", s>>] = "done"
<1>1. at[Barrier] = "done"
  BY DEF Inv, Waiting
<1>2. ~ (dep[Barrier] > 0)
  BY <1>1, Waits
<1>3. QED
  BY <1>2, SizeIs, Counted DEF Inv, Counts

(* What holds when the barrier is fired, and when the last codelet is.     *)
LEMMA AtBarrier ==
  ASSUME Inv, at[Barrier] # "done"
  PROVE  \A t \in Tile : at[<<"compute", t>>] = "wait" /\ dep[<<"compute", t>>] = 1
BY DEF Inv, Waiting

(* What holds when the last codelet is fired: all results are copied.      *)
LEMMA AtEnd ==
  ASSUME Inv, at[End] # "wait"
  PROVE  \A t \in Tile : at[<<"copyC", t>>] = "done" /\ at[<<"compute", t>>] = "done"
<1>1. ~ (dep[End] > 0)
  BY Waits
<1>2. \A t \in Tile : at[<<"copyC", t>>] = "done"
  BY <1>1, SizeIs, Counted DEF Inv, Counts
<1>3. ASSUME NEW t \in Tile PROVE at[<<"compute", t>>] = "done"
  <2>1. /\ dep[<<"copyC", t>>] = Due(<<"compute", t>>)
        /\ ~ (dep[<<"copyC", t>>] > 0)
    BY <1>2, Waits DEF Inv, Counts
  <2>2. at[<<"compute", t>>] # "done" => Due(<<"compute", t>>) = 1
    BY DEF Due
  <2>3. QED
    BY <2>1, <2>2
<1>4. QED
  BY <1>2, <1>3

(* Whoever is to be signalled is waiting.                                  *)
LEMMA Targets ==
  ASSUME Inv, NEW t \in Tile
  PROVE  /\ at[<<"copyA", t>>] # "done" \/ at[<<"copyB", t>>] # "done" =>
              dep[<<"skew", t>>] > 0 /\ at[<<"skew", t>>] = "wait"
         /\ at[<<"skew", t>>] # "done" => dep[Barrier] > 0 /\ at[Barrier] = "wait"
         /\ at[<<"compute", t>>] # "done" =>
              dep[<<"copyC", t>>] > 0 /\ at[<<"copyC", t>>] = "wait"
         /\ at[<<"copyC", t>>] # "done" => dep[End] > 0 /\ at[End] = "wait"
<1>1. /\ dep[<<"skew", t>>] = Due(<<"copyA", t>>) + Due(<<"copyB", t>>)
      /\ dep[<<"copyC", t>>] = Due(<<"compute", t>>)
  BY DEF Inv, Counts
<1>2. \A c : Due(c) \in {0, 1} /\ (at[c] # "done" => Due(c) = 1)
  BY DEF Due
<1>3. /\ at[<<"skew", t>>] # "done" => dep[Barrier] > 0
      /\ at[<<"copyC", t>>] # "done" => dep[End] > 0
  BY SizeIs, Counted DEF Inv, Counts
<1>4. QED
  BY <1>1, <1>2, <1>3, Waits

(* The first label of each codelet.                                        *)
LEMMA Entries ==
  /\ \A t : /\ Entry(<<"copyA", t>>) = "copy" /\ Entry(<<"copyB", t>>) = "copy"
            /\ Entry(<<"skew", t>>) = "pushA" /\ Entry(<<"compute", t>>) = "test"
            /\ Entry(<<"copyC", t>>) = "copy"
  /\ Entry(Barrier) = "signal" /\ Entry(End) = "signal"
  /\ \A c \in Codelets : Entry(c) \in InBody
<1>1. \A t : /\ Entry(<<"copyA", t>>) = "copy" /\ Entry(<<"copyB", t>>) = "copy"
            /\ Entry(<<"skew", t>>) = "pushA" /\ Entry(<<"compute", t>>) = "test"
            /\ Entry(<<"copyC", t>>) = "copy"
  BY DEF Entry, Barrier, End
<1>2. Entry(Barrier) = "signal" /\ Entry(End) = "signal"
  BY DEF Entry, Barrier, End
<1>3. ASSUME NEW c \in Codelets PROVE Entry(c) \in InBody
  <2>1. c \in {Barrier, End} \/ \E k \in TileKinds, t \in Tile : c = <<k, t>>
    BY DEF Codelets
  <2>2. QED
    BY <1>1, <1>2, <2>1 DEF TileKinds, InBody
<1>4. QED
  BY <1>1, <1>2, <1>3

(* Types.                                                                  *)
LEMMA TypeStep == Inv /\ [Next]_vars => TypeOK'
<1> SUFFICES ASSUME Inv, [Next]_vars PROVE TypeOK'
  OBVIOUS
<1>a. S \in Nat \ {0} /\ S * S \in Nat
  BY SizeIs, Squares
<1>b. Control /\ Data
  BY Halves DEF Inv
<1>c. S' = S /\ Control' /\ UNCHANGED data => TypeOK'
  BY <1>b, DataTypes, Halves DEF data
<1>d. S' = S /\ Control' /\ Data' => TypeOK'
  BY Halves
<1>1. ASSUME NEW w \in Worker, NEW c \in Codelets, Take(w, c) PROVE TypeOK'
  <2>1. /\ S' = S /\ signalled' = signalled
        /\ run' \in [Worker -> Codelets \cup {None}]
        /\ at' \in [Codelets -> InBody \cup {"wait", "ready", "done"}]
        /\ dep' \in [Codelets -> 0 .. S * S + 2]
    BY <1>1, <1>a, <1>b, Entries DEF Take, Control
  <2>2. S' = S /\ Control'
    BY <1>b, <2>1, SameTiles DEF Control
  <2>3. QED
    BY <1>1, <1>c, <2>2 DEF Take
<1>2. ASSUME NEW w \in Worker, NEW t \in Tile, CopyA(w, t) PROVE TypeOK'
  <2>1. \A d \in {<<"skew", t>>} : d \in Codelets => dep[d] > 0
    BY <1>2, Targets DEF CopyA, In
  <2>2. S' = S /\ Control'
    BY <1>2, <1>a, <1>b, <2>1, ReturnTypes DEF CopyA
  <2>3. scratchA' \in [Tile -> Tile \cup {None}]
    BY <1>2, <1>a, <1>b, Torus DEF CopyA, Data
  <2>4. Data'
    BY <1>2, <1>b, <2>2, <2>3, DataTypes DEF CopyA
  <2>5. QED
    BY <1>d, <2>2, <2>4
<1>3. ASSUME NEW w \in Worker, NEW t \in Tile, CopyB(w, t) PROVE TypeOK'
  <2>1. \A d \in {<<"skew", t>>} : d \in Codelets => dep[d] > 0
    BY <1>3, Targets DEF CopyB, In
  <2>2. S' = S /\ Control'
    BY <1>3, <1>a, <1>b, <2>1, ReturnTypes DEF CopyB
  <2>3. scratchB' \in [Tile -> Tile \cup {None}]
    BY <1>3, <1>a, <1>b, Torus DEF CopyB, Data
  <2>4. Data'
    BY <1>3, <1>b, <2>2, <2>3, DataTypes DEF CopyB
  <2>5. QED
    BY <1>d, <2>2, <2>4
<1>4. ASSUME NEW w \in Worker, NEW t \in Tile, SkewA(w, t) PROVE TypeOK'
  <2>2. S' = S /\ Control'
    BY <1>4, <1>b, GotoTypes DEF SkewA, InBody
  <2>3. aq' \in [Tile -> Seq(Tile)]
    <3>1. DestRow(t) \in Tile /\ scratchA[t] \in Tile
      BY <1>4, <1>a, <1>b, AtSkew, Torus DEF SkewA, In, Data
    <3>2. Append(aq[DestRow(t)], scratchA[t]) \in Seq(Tile)
      BY <1>b, <3>1, Appended DEF Data
    <3>3. QED
      BY <1>4, <1>b, <3>2 DEF SkewA, Data
  <2>4. Data'
    BY <1>4, <1>b, <2>2, <2>3, DataTypes DEF SkewA
  <2>5. QED
    BY <1>d, <2>2, <2>4
<1>5. ASSUME NEW w \in Worker, NEW t \in Tile, SkewB(w, t) PROVE TypeOK'
  <2>2. S' = S /\ Control'
    BY <1>5, <1>b, GotoTypes DEF SkewB, InBody
  <2>3. bq' \in [Tile -> Seq(Tile)]
    <3>1. DestCol(t) \in Tile /\ scratchB[t] \in Tile
      BY <1>5, <1>a, <1>b, AtSkew, Torus DEF SkewB, In, Data
    <3>2. Append(bq[DestCol(t)], scratchB[t]) \in Seq(Tile)
      BY <1>b, <3>1, Appended DEF Data
    <3>3. QED
      BY <1>5, <1>b, <3>2 DEF SkewB, Data
  <2>4. Data'
    BY <1>5, <1>b, <2>2, <2>3, DataTypes DEF SkewB
  <2>5. QED
    BY <1>d, <2>2, <2>4
<1>6. ASSUME NEW w \in Worker, NEW t \in Tile, SkewSignal(w, t) PROVE TypeOK'
  <2>1. \A d \in {Barrier} : d \in Codelets => dep[d] > 0
    BY <1>6, Targets DEF SkewSignal, In
  <2>2. S' = S /\ Control'
    BY <1>6, <1>a, <1>b, <2>1, ReturnTypes DEF SkewSignal
  <2>3. QED
    BY <1>6, <1>c, <2>2 DEF SkewSignal
<1>7. ASSUME NEW w \in Worker, BarrierFire(w) PROVE TypeOK'
  <2>1. \A d \in {"compute"} \X Tile : d \in Codelets => dep[d] > 0
    BY <1>7, <1>a, Names, AtBarrier DEF BarrierFire, Inv, Places, Alone, InBody
  <2>2. S' = S /\ Control'
    BY <1>7, <1>a, <1>b, <2>1, ReturnTypes DEF BarrierFire
  <2>3. QED
    BY <1>7, <1>c, <2>2 DEF BarrierFire
<1>8. ASSUME NEW w \in Worker, NEW t \in Tile, Multiply(w, t) PROVE TypeOK'
  <2>2. S' = S /\ Control'
    BY <1>8, <1>b, GotoTypes DEF Multiply, InBody
  <2>3. prods' \in [Tile -> Seq(Tile \X Tile)]
    <3>1. <<Head(aq[t]), Head(bq[t])>> \in Tile \X Tile
      BY <1>8, <1>b, Popped DEF Multiply, Data
    <3>2. Append(prods[t], <<Head(aq[t]), Head(bq[t])>>) \in Seq(Tile \X Tile)
      BY <1>b, <3>1, Appended DEF Data
    <3>3. QED
      BY <1>8, <1>b, <3>2 DEF Multiply, Data
  <2>4. Data'
    BY <1>8, <1>b, <2>2, <2>3, DataTypes DEF Multiply
  <2>5. QED
    BY <1>d, <2>2, <2>4
<1>9. ASSUME NEW w \in Worker, NEW t \in Tile, PushA(w, t) PROVE TypeOK'
  <2>1. aq[t] # <<>>
    BY <1>9 DEF PushA, In, Inv, QueuesA, Holding
  <2>2. S' = S /\ Control'
    BY <1>9, <1>b, GotoTypes DEF PushA, InBody
  <2>3. aq' \in [Tile -> Seq(Tile)]
    <3>1. NextRow(t) \in Tile /\ Head(aq[t]) \in Tile
      BY <1>9, <1>a, <1>b, <2>1, Torus, Popped DEF PushA, In, Data
    <3>2. Append(aq[NextRow(t)], Head(aq[t])) \in Seq(Tile)
      BY <1>b, <3>1, Appended DEF Data
    <3>3. QED
      BY <1>9, <1>b, <3>2 DEF PushA, Data
  <2>4. Data'
    BY <1>9, <1>b, <2>2, <2>3, DataTypes DEF PushA
  <2>5. QED
    BY <1>d, <2>2, <2>4
<1>10. ASSUME NEW w \in Worker, NEW t \in Tile, PushB(w, t) PROVE TypeOK'
  <2>1. bq[t] # <<>>
    BY <1>10 DEF PushB, In, Inv, QueuesB, Holding
  <2>2. S' = S /\ Control'
    BY <1>10, <1>b, GotoTypes DEF PushB, InBody
  <2>3. bq' \in [Tile -> Seq(Tile)]
    <3>1. NextCol(t) \in Tile /\ Head(bq[t]) \in Tile
      BY <1>10, <1>a, <1>b, <2>1, Torus, Popped DEF PushB, In, Data
    <3>2. Append(bq[NextCol(t)], Head(bq[t])) \in Seq(Tile)
      BY <1>b, <3>1, Appended DEF Data
    <3>3. QED
      BY <1>10, <1>b, <3>2 DEF PushB, Data
  <2>4. Data'
    BY <1>10, <1>b, <2>2, <2>3, DataTypes DEF PushB
  <2>5. QED
    BY <1>d, <2>2, <2>4
<1>11. ASSUME NEW w \in Worker, NEW t \in Tile, PopA(w, t) PROVE TypeOK'
  <2>1. aq[t] # <<>>
    BY <1>11 DEF PopA, In, Inv, QueuesA, Holding
  <2>2. S' = S /\ Control'
    BY <1>11, <1>b, GotoTypes DEF PopA, InBody
  <2>3. aq' \in [Tile -> Seq(Tile)]
    BY <1>11, <1>a, <1>b, <2>1, Torus DEF PopA, Data
  <2>4. Data'
    BY <1>11, <1>b, <2>2, <2>3, DataTypes DEF PopA
  <2>5. QED
    BY <1>d, <2>2, <2>4
<1>12. ASSUME NEW w \in Worker, NEW t \in Tile, PopB(w, t) PROVE TypeOK'
  <2>1. bq[t] # <<>> /\ iter[t] < S
    BY <1>12 DEF PopB, In, Inv, QueuesB, Progress, Holding
  <2>2. S' = S /\ Control'
    BY <1>12, <1>b, GotoTypes DEF PopB, InBody
  <2>3. bq' \in [Tile -> Seq(Tile)] /\ iter' \in [Tile -> 0 .. S]
    <3>1. Tail(bq[t]) \in Seq(Tile) /\ iter[t] + 1 \in 0 .. S
      <4>1. bq[t] \in Seq(Tile) /\ iter[t] \in 0 .. S /\ S \in Nat
        BY <1>a, <1>b DEF Data
      <4>2. Tail(bq[t]) \in Seq(Tile)
        BY <2>1, <4>1, Popped
      <4>3. QED
        BY <2>1, <4>1, <4>2
    <3>2. QED
      BY <1>12, <1>b, <3>1 DEF PopB, Data
  <2>4. Data'
    BY <1>12, <1>b, <2>2, <2>3, DataTypes DEF PopB
  <2>5. QED
    BY <1>d, <2>2, <2>4
<1>13. ASSUME NEW w \in Worker, NEW t \in Tile, Finish(w, t) PROVE TypeOK'
  <2>1. \A d \in {<<"copyC", t>>} : d \in Codelets => dep[d] > 0
    BY <1>13, Targets DEF Finish, In
  <2>2. S' = S /\ Control'
    BY <1>13, <1>a, <1>b, <2>1, ReturnTypes DEF Finish
  <2>3. QED
    BY <1>13, <1>c, <2>2 DEF Finish
<1>14. ASSUME NEW w \in Worker, NEW t \in Tile, CopyC(w, t) PROVE TypeOK'
  <2>1. \A d \in {End} : d \in Codelets => dep[d] > 0
    BY <1>14, Targets DEF CopyC, In
  <2>2. S' = S /\ Control'
    BY <1>14, <1>a, <1>b, <2>1, ReturnTypes DEF CopyC
  <2>3. C' \in [Tile -> Seq(Tile \X Tile)]
    BY <1>14, <1>a, <1>b, Torus DEF CopyC, Data
  <2>4. Data'
    BY <1>14, <1>b, <2>2, <2>3, DataTypes DEF CopyC
  <2>5. QED
    BY <1>d, <2>2, <2>4
<1>15. ASSUME NEW w \in Worker, EndFire(w) PROVE TypeOK'
  <2>1. /\ S' = S /\ signalled' \in BOOLEAN /\ dep' = dep
        /\ run' \in [Worker -> Codelets \cup {None}]
        /\ at' \in [Codelets -> InBody \cup {"wait", "ready", "done"}]
    BY <1>15, <1>b DEF EndFire, Control
  <2>2. S' = S /\ Control'
    BY <1>b, <2>1, SameTiles DEF Control
  <2>3. QED
    BY <1>15, <1>c, <2>2 DEF EndFire
<1>16. CASE UNCHANGED vars
  <2>1. S' = S /\ UNCHANGED data /\ UNCHANGED <<dep, at, run, signalled>>
    BY <1>16 DEF vars
  <2>2. Control'
    BY <1>b, <2>1, SameTiles DEF Control
  <2>3. QED
    BY <1>c, <2>1, <2>2
<1>17. QED
  BY <1>1, <1>2, <1>3, <1>4, <1>5, <1>6, <1>7, <1>8, <1>9, <1>10, <1>11,
     <1>12, <1>13, <1>14, <1>15, <1>16 DEF Next, Step, Fire

(* A worker that goes on in its codelet, and one that returns.             *)
LEMMA GoOn ==
  ASSUME Inv, NEW w \in Worker, NEW l \in InBody, run[w] # None, Goto(run[w], l)
  PROVE  Alone'
<1>1. /\ TypeOK /\ Alone /\ run' = run /\ at' = [at EXCEPT ![run[w]] = l]
  BY DEF Inv, Goto
<1>2. ASSUME NEW v \in Worker, run[v] # None PROVE at'[run[v]] \in InBody
  BY <1>1, <1>2 DEF TypeOK, Alone
<1>3. QED
  BY <1>1, <1>2 DEF Alone

(* A worker that returns fires nothing, nor does anybody what it signals.  *)
LEMMA Return ==
  ASSUME Inv, NEW w \in Worker, NEW ds, run[w] # None, SignalAndReturn(w, run[w], ds),
         \A d \in ds : d \in Codelets => at[d] \notin InBody
  PROVE  Alone'
<1>1. /\ TypeOK /\ Alone /\ run' = [run EXCEPT ![w] = None]
      /\ \A d \in Codelets : at[d] \in InBody /\ d # run[w] => at'[d] = at[d]
  BY DEF Inv, SignalAndReturn
<1>2. ASSUME NEW v \in Worker, run'[v] # None PROVE at'[run'[v]] \in InBody
  BY <1>1, <1>2 DEF TypeOK, Alone
<1>3. QED
  BY <1>1, <1>2 DEF Alone, TypeOK

(* Who takes a codelet takes one that nobody fires.                        *)
LEMMA AloneStep == Inv /\ [Next]_vars => Alone'
<1> SUFFICES ASSUME Inv, [Next]_vars PROVE Alone'
  OBVIOUS
<1>a. S \in Nat \ {0} /\ TypeOK /\ Alone
  BY SizeIs DEF Inv
<1>b. \A k \in TileKinds, t \in Tile : <<k, t>> # None
  BY <1>a, Names
<1>1. ASSUME NEW w \in Worker, NEW c \in Codelets, Take(w, c) PROVE Alone'
  <2>1. /\ run' = [run EXCEPT ![w] = c] /\ run[w] = None /\ at[c] = "ready"
        /\ at' = [at EXCEPT ![c] = Entry(c)] /\ Entry(c) \in InBody
    BY <1>1, Entries DEF Take
  <2>2. \A v \in Worker : run[v] # c
    BY <1>a, <2>1, Names, <1>1 DEF Alone, InBody
  <2>3. ASSUME NEW v \in Worker, run'[v] # None PROVE at'[run'[v]] \in InBody
    BY <1>a, <2>1, <2>2, <2>3 DEF TypeOK, Alone
  <2>4. QED
    BY <1>a, <2>1, <2>2, <2>3 DEF TypeOK, Alone
<1>2. ASSUME NEW w \in Worker, NEW t \in Tile, CopyA(w, t) PROVE Alone'
  <2>1. run[w] = <<"copyA", t>> /\ run[w] # None
    BY <1>2, <1>b DEF CopyA, In, TileKinds
  <2>2. \A d \in {<<"skew", t>>} : at[d] \notin InBody
    BY <1>2, Targets DEF CopyA, In, InBody
  <2>3. QED
    BY <1>2, <2>1, <2>2, Return DEF CopyA
<1>3. ASSUME NEW w \in Worker, NEW t \in Tile, CopyB(w, t) PROVE Alone'
  <2>1. run[w] = <<"copyB", t>> /\ run[w] # None
    BY <1>3, <1>b DEF CopyB, In, TileKinds
  <2>2. \A d \in {<<"skew", t>>} : at[d] \notin InBody
    BY <1>3, Targets DEF CopyB, In, InBody
  <2>3. QED
    BY <1>3, <2>1, <2>2, Return DEF CopyB
<1>4. ASSUME NEW w \in Worker, NEW t \in Tile, SkewA(w, t) PROVE Alone'
  <2>1. run[w] = <<"skew", t>> /\ run[w] # None /\ "pushB" \in InBody
    BY <1>4, <1>b DEF SkewA, In, InBody, TileKinds
  <2>2. QED
    BY <1>4, <2>1, GoOn DEF SkewA
<1>5. ASSUME NEW w \in Worker, NEW t \in Tile, SkewB(w, t) PROVE Alone'
  <2>1. run[w] = <<"skew", t>> /\ run[w] # None /\ "signal" \in InBody
    BY <1>5, <1>b DEF SkewB, In, InBody, TileKinds
  <2>2. QED
    BY <1>5, <2>1, GoOn DEF SkewB
<1>6. ASSUME NEW w \in Worker, NEW t \in Tile, SkewSignal(w, t) PROVE Alone'
  <2>1. run[w] = <<"skew", t>> /\ run[w] # None
    BY <1>6, <1>b DEF SkewSignal, In, TileKinds
  <2>2. \A d \in {Barrier} : at[d] \notin InBody
    BY <1>6, Targets DEF SkewSignal, In, InBody
  <2>3. QED
    BY <1>6, <2>1, <2>2, Return DEF SkewSignal
<1>7. ASSUME NEW w \in Worker, BarrierFire(w) PROVE Alone'
  <2>1. run[w] # None /\ at[Barrier] # "done"
    BY <1>7, <1>a, Names DEF BarrierFire, Alone, InBody
  <2>2. \A d \in {"compute"} \X Tile : at[d] \notin InBody
    BY <2>1, AtBarrier DEF InBody
  <2>3. QED
    BY <1>7, <2>1, <2>2, Return DEF BarrierFire
<1>8. ASSUME NEW w \in Worker, NEW t \in Tile, Multiply(w, t) PROVE Alone'
  <2>1. run[w] = <<"compute", t>> /\ run[w] # None /\ "pushA" \in InBody
    BY <1>8, <1>b DEF Multiply, In, InBody, TileKinds
  <2>2. QED
    BY <1>8, <2>1, GoOn DEF Multiply
<1>9. ASSUME NEW w \in Worker, NEW t \in Tile, PushA(w, t) PROVE Alone'
  <2>1. run[w] = <<"compute", t>> /\ run[w] # None /\ "pushB" \in InBody
    BY <1>9, <1>b DEF PushA, In, InBody, TileKinds
  <2>2. QED
    BY <1>9, <2>1, GoOn DEF PushA
<1>10. ASSUME NEW w \in Worker, NEW t \in Tile, PushB(w, t) PROVE Alone'
  <2>1. run[w] = <<"compute", t>> /\ run[w] # None /\ "popA" \in InBody
    BY <1>10, <1>b DEF PushB, In, InBody, TileKinds
  <2>2. QED
    BY <1>10, <2>1, GoOn DEF PushB
<1>11. ASSUME NEW w \in Worker, NEW t \in Tile, PopA(w, t) PROVE Alone'
  <2>1. run[w] = <<"compute", t>> /\ run[w] # None /\ "popB" \in InBody
    BY <1>11, <1>b DEF PopA, In, InBody, TileKinds
  <2>2. QED
    BY <1>11, <2>1, GoOn DEF PopA
<1>12. ASSUME NEW w \in Worker, NEW t \in Tile, PopB(w, t) PROVE Alone'
  <2>1. run[w] = <<"compute", t>> /\ run[w] # None /\ "test" \in InBody
    BY <1>12, <1>b DEF PopB, In, InBody, TileKinds
  <2>2. QED
    BY <1>12, <2>1, GoOn DEF PopB
<1>13. ASSUME NEW w \in Worker, NEW t \in Tile, Finish(w, t) PROVE Alone'
  <2>1. run[w] = <<"compute", t>> /\ run[w] # None
    BY <1>13, <1>b DEF Finish, In, TileKinds
  <2>2. \A d \in {<<"copyC", t>>} : at[d] \notin InBody
    BY <1>13, Targets DEF Finish, In, InBody
  <2>3. QED
    BY <1>13, <2>1, <2>2, Return DEF Finish
<1>14. ASSUME NEW w \in Worker, NEW t \in Tile, CopyC(w, t) PROVE Alone'
  <2>1. run[w] = <<"copyC", t>> /\ run[w] # None
    BY <1>14, <1>b DEF CopyC, In, TileKinds
  <2>2. \A d \in {End} : at[d] \notin InBody
    BY <1>14, Targets DEF CopyC, In, InBody
  <2>3. QED
    BY <1>14, <2>1, <2>2, Return DEF CopyC
<1>15. ASSUME NEW w \in Worker, EndFire(w) PROVE Alone'
  <2>1. /\ run' = [run EXCEPT ![w] = None] /\ run[w] = End
        /\ \A d \in Codelets : d # End => at'[d] = at[d]
    BY <1>15, <1>a DEF EndFire, TypeOK
  <2>2. ASSUME NEW v \in Worker, run'[v] # None PROVE at'[run'[v]] \in InBody
    BY <1>a, <2>1, <2>2, Names DEF TypeOK, Alone
  <2>3. QED
    BY <1>a, <2>1, <2>2, Names DEF TypeOK, Alone
<1>16. CASE UNCHANGED vars
  BY <1>16, <1>a DEF vars, Alone
<1>17. QED
  BY <1>1, <1>2, <1>3, <1>4, <1>5, <1>6, <1>7, <1>8, <1>9, <1>10, <1>11,
     <1>12, <1>13, <1>14, <1>15, <1>16 DEF Next, Step, Fire

(* Where each codelet is after a worker has returned.                      *)
LEMMA Returned ==
  ASSUME Inv, NEW w, NEW c \in Codelets, NEW ds, SignalAndReturn(w, c, ds)
  PROVE  /\ S' = S /\ TypeOK
         /\ at'[c] = "done"
         /\ \A d \in Codelets : d # c => at'[d] \in {at[d], "ready"}
         /\ \A d \in Codelets : d # c /\ d \notin ds => at'[d] = at[d]
         /\ \A d \in Codelets : d # c /\ d \in ds =>
              at'[d] = IF dep[d] = 1 THEN "ready" ELSE at[d]
         /\ \A d \in Codelets : dep'[d] = IF d \in ds THEN dep[d] - 1 ELSE dep[d]
BY DEF Inv, SignalAndReturn

(* A codelet is moved to one of the places of its kind.                    *)
LEMMA PlacesAre ==
  /\ \A t : PlacesOf[<<"copyA", t>>[1]] = {"ready", "copy", "done"}
  /\ \A t : PlacesOf[<<"copyB", t>>[1]] = {"ready", "copy", "done"}
  /\ \A t : PlacesOf[<<"skew", t>>[1]] =
             {"wait", "ready", "pushA", "pushB", "signal", "done"}
  /\ \A t : PlacesOf[<<"compute", t>>[1]] = {"wait", "ready", "test", "done"} \cup Holding
  /\ \A t : PlacesOf[<<"copyC", t>>[1]] = {"wait", "ready", "copy", "done"}
  /\ PlacesOf[Barrier[1]] = {"wait", "ready", "signal", "done"}
  /\ PlacesOf[End[1]] = {"wait", "ready", "signal", "done"}
  /\ \A c \in Codelets : {"ready", "done", Entry(c)} \subseteq PlacesOf[c[1]]
<1>1. /\ \A t : PlacesOf[<<"copyA", t>>[1]] = {"ready", "copy", "done"}
      /\ \A t : PlacesOf[<<"copyB", t>>[1]] = {"ready", "copy", "done"}
      /\ \A t : PlacesOf[<<"skew", t>>[1]] =
                 {"wait", "ready", "pushA", "pushB", "signal", "done"}
      /\ \A t : PlacesOf[<<"compute", t>>[1]] = {"wait", "ready", "test", "done"} \cup Holding
      /\ \A t : PlacesOf[<<"copyC", t>>[1]] = {"wait", "ready", "copy", "done"}
  BY DEF PlacesOf
<1>2. /\ PlacesOf[Barrier[1]] = {"wait", "ready", "signal", "done"}
      /\ PlacesOf[End[1]] = {"wait", "ready", "signal", "done"}
  BY DEF PlacesOf, Barrier, End
<1>3. ASSUME NEW c \in Codelets PROVE {"ready", "done", Entry(c)} \subseteq PlacesOf[c[1]]
  <2>1. c \in {Barrier, End} \/ \E k \in TileKinds, t \in Tile : c = <<k, t>>
    BY DEF Codelets
  <2>2. QED
    BY <1>1, <1>2, <2>1, Entries DEF TileKinds
<1>4. QED
  BY <1>1, <1>2, <1>3

(* A step in which codelets move within the places of their kind.          *)
LEMMA Moves ==
  ASSUME Inv, S' = S, \A d \in Codelets : at'[d] = at[d] \/ at'[d] \in PlacesOf[d[1]]
  PROVE  Places'
BY SameTiles DEF Inv, Places

(* Each step of a codelet leads to the next.                               *)
LEMMA PlacesStep == Inv /\ [Next]_vars => Places'
<1> SUFFICES ASSUME Inv, [Next]_vars PROVE Places'
  OBVIOUS
<1>a. S \in Nat \ {0} /\ TypeOK
  BY SizeIs DEF Inv
<1>b. /\ Barrier \in Codelets /\ End \in Codelets
      /\ \A k \in TileKinds, t \in Tile : <<k, t>> \in Codelets
  BY <1>a, Names
<1>1. ASSUME NEW w \in Worker, NEW c \in Codelets, Take(w, c) PROVE Places'
  <2>1. S' = S /\ \A d \in Codelets : at'[d] \in {at[d], Entry(d)}
    BY <1>1, <1>a DEF Take, TypeOK
  <2>2. QED
    BY <2>1, Moves, PlacesAre
<1>2. ASSUME NEW w \in Worker, NEW t \in Tile, CopyA(w, t) PROVE Places'
  <2>1. <<"copyA", t>> \in Codelets
    BY <1>b DEF TileKinds
  <2>2. S' = S /\ \A d \in Codelets : at'[d] \in {at[d], "ready", "done"}
    BY <1>2, <2>1, Returned DEF CopyA
  <2>3. QED
    BY <2>2, Moves, PlacesAre
<1>3. ASSUME NEW w \in Worker, NEW t \in Tile, CopyB(w, t) PROVE Places'
  <2>1. <<"copyB", t>> \in Codelets
    BY <1>b DEF TileKinds
  <2>2. S' = S /\ \A d \in Codelets : at'[d] \in {at[d], "ready", "done"}
    BY <1>3, <2>1, Returned DEF CopyB
  <2>3. QED
    BY <2>2, Moves, PlacesAre
<1>4. ASSUME NEW w \in Worker, NEW t \in Tile, SkewA(w, t) PROVE Places'
  <2>1. S' = S /\ \A d \in Codelets : at'[d] = IF d = <<"skew", t>> THEN "pushB" ELSE at[d]
    BY <1>4, <1>a DEF SkewA, Goto, TypeOK
  <2>2. "pushB" \in PlacesOf[<<"skew", t>>[1]]
    BY PlacesAre DEF Holding
  <2>3. QED
    BY <2>1, <2>2, Moves
<1>5. ASSUME NEW w \in Worker, NEW t \in Tile, SkewB(w, t) PROVE Places'
  <2>1. S' = S /\ \A d \in Codelets : at'[d] = IF d = <<"skew", t>> THEN "signal" ELSE at[d]
    BY <1>5, <1>a DEF SkewB, Goto, TypeOK
  <2>2. "signal" \in PlacesOf[<<"skew", t>>[1]]
    BY PlacesAre DEF Holding
  <2>3. QED
    BY <2>1, <2>2, Moves
<1>6. ASSUME NEW w \in Worker, NEW t \in Tile, SkewSignal(w, t) PROVE Places'
  <2>1. <<"skew", t>> \in Codelets
    BY <1>b DEF TileKinds
  <2>2. S' = S /\ \A d \in Codelets : at'[d] \in {at[d], "ready", "done"}
    BY <1>6, <2>1, Returned DEF SkewSignal
  <2>3. QED
    BY <2>2, Moves, PlacesAre
<1>7. ASSUME NEW w \in Worker, BarrierFire(w) PROVE Places'
  <2>1. Barrier \in Codelets
    BY <1>b DEF TileKinds
  <2>2. S' = S /\ \A d \in Codelets : at'[d] \in {at[d], "ready", "done"}
    BY <1>7, <2>1, Returned DEF BarrierFire
  <2>3. QED
    BY <2>2, Moves, PlacesAre
<1>8. ASSUME NEW w \in Worker, NEW t \in Tile, Multiply(w, t) PROVE Places'
  <2>1. S' = S /\ \A d \in Codelets : at'[d] = IF d = <<"compute", t>> THEN "pushA" ELSE at[d]
    BY <1>8, <1>a DEF Multiply, Goto, TypeOK
  <2>2. "pushA" \in PlacesOf[<<"compute", t>>[1]]
    BY PlacesAre DEF Holding
  <2>3. QED
    BY <2>1, <2>2, Moves
<1>9. ASSUME NEW w \in Worker, NEW t \in Tile, PushA(w, t) PROVE Places'
  <2>1. S' = S /\ \A d \in Codelets : at'[d] = IF d = <<"compute", t>> THEN "pushB" ELSE at[d]
    BY <1>9, <1>a DEF PushA, Goto, TypeOK
  <2>2. "pushB" \in PlacesOf[<<"compute", t>>[1]]
    BY PlacesAre DEF Holding
  <2>3. QED
    BY <2>1, <2>2, Moves
<1>10. ASSUME NEW w \in Worker, NEW t \in Tile, PushB(w, t) PROVE Places'
  <2>1. S' = S /\ \A d \in Codelets : at'[d] = IF d = <<"compute", t>> THEN "popA" ELSE at[d]
    BY <1>10, <1>a DEF PushB, Goto, TypeOK
  <2>2. "popA" \in PlacesOf[<<"compute", t>>[1]]
    BY PlacesAre DEF Holding
  <2>3. QED
    BY <2>1, <2>2, Moves
<1>11. ASSUME NEW w \in Worker, NEW t \in Tile, PopA(w, t) PROVE Places'
  <2>1. S' = S /\ \A d \in Codelets : at'[d] = IF d = <<"compute", t>> THEN "popB" ELSE at[d]
    BY <1>11, <1>a DEF PopA, Goto, TypeOK
  <2>2. "popB" \in PlacesOf[<<"compute", t>>[1]]
    BY PlacesAre DEF Holding
  <2>3. QED
    BY <2>1, <2>2, Moves
<1>12. ASSUME NEW w \in Worker, NEW t \in Tile, PopB(w, t) PROVE Places'
  <2>1. S' = S /\ \A d \in Codelets : at'[d] = IF d = <<"compute", t>> THEN "test" ELSE at[d]
    BY <1>12, <1>a DEF PopB, Goto, TypeOK
  <2>2. "test" \in PlacesOf[<<"compute", t>>[1]]
    BY PlacesAre DEF Holding
  <2>3. QED
    BY <2>1, <2>2, Moves
<1>13. ASSUME NEW w \in Worker, NEW t \in Tile, Finish(w, t) PROVE Places'
  <2>1. <<"compute", t>> \in Codelets
    BY <1>b DEF TileKinds
  <2>2. S' = S /\ \A d \in Codelets : at'[d] \in {at[d], "ready", "done"}
    BY <1>13, <2>1, Returned DEF Finish
  <2>3. QED
    BY <2>2, Moves, PlacesAre
<1>14. ASSUME NEW w \in Worker, NEW t \in Tile, CopyC(w, t) PROVE Places'
  <2>1. <<"copyC", t>> \in Codelets
    BY <1>b DEF TileKinds
  <2>2. S' = S /\ \A d \in Codelets : at'[d] \in {at[d], "ready", "done"}
    BY <1>14, <2>1, Returned DEF CopyC
  <2>3. QED
    BY <2>2, Moves, PlacesAre
<1>15. ASSUME NEW w \in Worker, EndFire(w) PROVE Places'
  <2>1. S' = S /\ \A d \in Codelets : at'[d] \in {at[d], "done"}
    BY <1>15, <1>a DEF EndFire, TypeOK
  <2>2. QED
    BY <2>1, Moves, PlacesAre
<1>16. CASE UNCHANGED vars
  BY <1>16, Moves DEF vars
<1>17. QED
  BY <1>1, <1>2, <1>3, <1>4, <1>5, <1>6, <1>7, <1>8, <1>9, <1>10, <1>11,
     <1>12, <1>13, <1>14, <1>15, <1>16 DEF Next, Step, Fire

(* What the barrier changes: compute codelets, and itself.                 *)
LEMMA BarrierReturned ==
  ASSUME Inv, NEW w, BarrierFire(w)
  PROVE  /\ S' = S /\ at'[Barrier] = "done"
         /\ \A d \in Codelets : d # Barrier => at'[d] \in {at[d], "ready"}
         /\ \A d \in Codelets : d[1] # "compute" /\ d # Barrier => at'[d] = at[d]
         /\ \A d \in Codelets : d[1] # "compute" => dep'[d] = dep[d]
         /\ \A t \in Tile : dep[<<"compute", t>>] = 1 => at'[<<"compute", t>>] = "ready"
<1>1. PICK ds : ds = {"compute"} \X Tile
  OBVIOUS
<1>2. SignalAndReturn(w, Barrier, ds) /\ Barrier \in Codelets /\ \A d \in ds : d[1] = "compute"
  BY <1>1, SizeIs, Names DEF BarrierFire
<1>3. /\ S' = S /\ at'[Barrier] = "done"
      /\ \A d \in Codelets : d # Barrier => at'[d] \in {at[d], "ready"}
      /\ \A d \in Codelets : d # Barrier /\ d \notin ds => at'[d] = at[d]
      /\ \A d \in Codelets : dep'[d] = IF d \in ds THEN dep[d] - 1 ELSE dep[d]
  BY <1>2, Returned
<1>r. \A d \in Codelets : d # Barrier /\ d \in ds =>
        at'[d] = IF dep[d] = 1 THEN "ready" ELSE at[d]
  BY <1>2, Returned
<1>4. ASSUME NEW t \in Tile, dep[<<"compute", t>>] = 1
      PROVE  at'[<<"compute", t>>] = "ready"
  <2>1. <<"compute", t>> \in Codelets
    BY SizeIs, Names DEF TileKinds
  <2>2. <<"compute", t>> \in ds /\ <<"compute", t>> # Barrier
    BY <1>1 DEF Barrier
  <2>3. QED
    BY <1>r, <1>4, <2>1, <2>2
<1>5. QED
  BY <1>2, <1>3, <1>4

(* Steps that signal nobody, and those that do.                            *)
LEMMA WaitsOn ==
  ASSUME Inv, S' = S, at'[Barrier] = "done" <=> at[Barrier] = "done",
         \A d \in Codelets : at'[d] = "wait" <=> at[d] = "wait",
         \A d \in Codelets : d[1] # "compute" \/ at[d] = "wait" => dep'[d] = dep[d]
  PROVE  Waiting'
<1>1. \A t \in Tile : <<"compute", t>> \in Codelets
  BY SizeIs, Names DEF TileKinds
<1>2. QED
  BY <1>1, SameTiles DEF Inv, Waiting

(* A codelet that is done with signals to waiting ones.                    *)
LEMMA WaitsNoMore ==
  ASSUME Inv, NEW w, NEW c \in Codelets, NEW ds, SignalAndReturn(w, c, ds),
         at[c] # "wait", c # Barrier,
         \A d \in ds : d \in Codelets /\ d[1] # "compute" /\ dep[d] > 0 /\ at[d] = "wait"
  PROVE  Waiting'
<1>1. /\ S' = S /\ at'[c] = "done"
      /\ \A d \in Codelets : d # c /\ d \notin ds => at'[d] = at[d]
      /\ \A d \in ds : at'[d] = IF dep[d] = 1 THEN "ready" ELSE "wait"
      /\ \A d \in Codelets : dep'[d] = IF d \in ds THEN dep[d] - 1 ELSE dep[d]
  BY Returned
<1>2. /\ \A t \in Tile : <<"compute", t>> \in Codelets
      /\ \A d \in Codelets : dep[d] \in Int
      /\ Barrier \in Codelets /\ Barrier[1] # "compute"
  BY SizeIs, Names, Squares DEF TileKinds, Barrier, Inv, TypeOK
<1>3. ASSUME NEW d \in Codelets, d[1] # "compute" PROVE at'[d] = "wait" <=> dep'[d] > 0
  <2>1. at[d] = "wait" <=> dep[d] > 0
    BY <1>3 DEF Inv, Waiting
  <2>2. CASE d \in ds
    BY <1>1, <1>2, <2>1, <2>2
  <2>3. CASE d \notin ds
    BY <1>1, <2>1, <2>3
  <2>4. QED
    BY <2>2, <2>3
<1>4. ASSUME NEW t \in Tile
      PROVE  /\ at'[<<"compute", t>>] = "wait" <=> at[<<"compute", t>>] = "wait"
             /\ dep'[<<"compute", t>>] = dep[<<"compute", t>>]
  <2>1. <<"compute", t>> \notin ds /\ <<"compute", t>> \in Codelets
    BY <1>2
  <2>2. QED
    BY <1>1, <2>1
<1>5. at'[Barrier] = "done" <=> at[Barrier] = "done"
  BY <1>1, <1>2
<1>6. QED
  BY <1>1, <1>3, <1>4, <1>5, SameTiles DEF Inv, Waiting

(* A signal of a counter that becomes zero ends the wait.                  *)
LEMMA WaitingStep == Inv /\ [Next]_vars => Waiting'
<1> SUFFICES ASSUME Inv, [Next]_vars PROVE Waiting'
  OBVIOUS
<1>a. S \in Nat \ {0} /\ TypeOK /\ Counts
  BY SizeIs DEF Inv
<1>b. /\ Barrier \in Codelets /\ End \in Codelets
      /\ \A k \in TileKinds, t \in Tile : <<k, t>> \in Codelets
  BY <1>a, Names
<1>1. ASSUME NEW w \in Worker, NEW c \in Codelets, Take(w, c) PROVE Waiting'
  <2>1. /\ S' = S /\ at[c] = "ready" /\ Entry(c) \in InBody
        /\ \A d \in Codelets : at'[d] = IF d = c THEN Entry(c) ELSE at[d]
        /\ \A d \in Codelets : d # c \/ d[1] # "compute" => dep'[d] = dep[d]
    BY <1>1, <1>a, Entries DEF Take, TypeOK
  <2>2. QED
    BY <1>b, <2>1, WaitsOn DEF InBody
<1>2. ASSUME NEW w \in Worker, NEW t \in Tile, CopyA(w, t) PROVE Waiting'
  <2>1. /\ <<"copyA", t>> \in Codelets /\ <<"copyA", t>> # Barrier
        /\ at[<<"copyA", t>>] \notin {"wait", "done"}
        /\ <<"skew", t>> \in Codelets /\ <<"skew", t>>[1] # "compute"
    BY <1>2, <1>b DEF CopyA, In, TileKinds, Barrier, End
  <2>2. dep[<<"skew", t>>] > 0 /\ at[<<"skew", t>>] = "wait"
    BY <2>1, Targets
  <2>3. \A d \in {<<"skew", t>>} : d \in Codelets /\ d[1] # "compute" /\ dep[d] > 0 /\ at[d] = "wait"
    BY <2>1, <2>2
  <2>4. QED
    BY <1>2, <2>1, <2>3, WaitsNoMore DEF CopyA
<1>3. ASSUME NEW w \in Worker, NEW t \in Tile, CopyB(w, t) PROVE Waiting'
  <2>1. /\ <<"copyB", t>> \in Codelets /\ <<"copyB", t>> # Barrier
        /\ at[<<"copyB", t>>] \notin {"wait", "done"}
        /\ <<"skew", t>> \in Codelets /\ <<"skew", t>>[1] # "compute"
    BY <1>3, <1>b DEF CopyB, In, TileKinds, Barrier, End
  <2>2. dep[<<"skew", t>>] > 0 /\ at[<<"skew", t>>] = "wait"
    BY <2>1, Targets
  <2>3. \A d \in {<<"skew", t>>} : d \in Codelets /\ d[1] # "compute" /\ dep[d] > 0 /\ at[d] = "wait"
    BY <2>1, <2>2
  <2>4. QED
    BY <1>3, <2>1, <2>3, WaitsNoMore DEF CopyB
<1>4. ASSUME NEW w \in Worker, NEW t \in Tile, SkewA(w, t) PROVE Waiting'
  <2>1. /\ S' = S /\ dep' = dep /\ at[<<"skew", t>>] \notin {"wait", "done"}
        /\ \A d \in Codelets : at'[d] = IF d = <<"skew", t>> THEN "pushB" ELSE at[d]
    BY <1>4, <1>a DEF SkewA, In, Goto, TypeOK
  <2>2. QED
    BY <1>b, <2>1, WaitsOn
<1>5. ASSUME NEW w \in Worker, NEW t \in Tile, SkewB(w, t) PROVE Waiting'
  <2>1. /\ S' = S /\ dep' = dep /\ at[<<"skew", t>>] \notin {"wait", "done"}
        /\ \A d \in Codelets : at'[d] = IF d = <<"skew", t>> THEN "signal" ELSE at[d]
    BY <1>5, <1>a DEF SkewB, In, Goto, TypeOK
  <2>2. QED
    BY <1>b, <2>1, WaitsOn
<1>6. ASSUME NEW w \in Worker, NEW t \in Tile, SkewSignal(w, t) PROVE Waiting'
  <2>1. /\ <<"skew", t>> \in Codelets /\ <<"skew", t>> # Barrier
        /\ at[<<"skew", t>>] \notin {"wait", "done"}
        /\ Barrier \in Codelets /\ Barrier[1] # "compute"
    BY <1>6, <1>b DEF SkewSignal, In, TileKinds, Barrier, End
  <2>2. dep[Barrier] > 0 /\ at[Barrier] = "wait"
    BY <2>1, Targets
  <2>3. \A d \in {Barrier} : d \in Codelets /\ d[1] # "compute" /\ dep[d] > 0 /\ at[d] = "wait"
    BY <2>1, <2>2
  <2>4. QED
    BY <1>6, <2>1, <2>3, WaitsNoMore DEF SkewSignal
<1>7. ASSUME NEW w \in Worker, BarrierFire(w) PROVE Waiting'
  <2>1. at[Barrier] \notin {"wait", "done"}
    BY <1>7, <1>a, Names DEF BarrierFire, Inv, Alone, InBody
  <2>2. /\ S' = S /\ at'[Barrier] = "done"
        /\ \A d \in Codelets : d[1] # "compute" /\ d # Barrier => at'[d] = at[d]
        /\ \A d \in Codelets : d[1] # "compute" => dep'[d] = dep[d]
    BY <1>7, BarrierReturned
  <2>3. ASSUME NEW t \in Tile PROVE at'[<<"compute", t>>] = "ready"
    <3>1. dep[<<"compute", t>>] = 1
      BY <2>1, AtBarrier
    <3>2. QED
      BY <1>7, <3>1, BarrierReturned
  <2>4. Barrier[1] # "compute" /\ ~ (dep[Barrier] > 0)
    BY <2>1, Waits DEF Barrier
  <2>5. QED
    BY <1>b, <2>2, <2>3, <2>4, SameTiles DEF Inv, Waiting
<1>8. ASSUME NEW w \in Worker, NEW t \in Tile, Multiply(w, t) PROVE Waiting'
  <2>1. /\ S' = S /\ dep' = dep /\ at[<<"compute", t>>] \notin {"wait", "done"}
        /\ \A d \in Codelets : at'[d] = IF d = <<"compute", t>> THEN "pushA" ELSE at[d]
    BY <1>8, <1>a DEF Multiply, In, Goto, TypeOK
  <2>2. QED
    BY <1>b, <2>1, WaitsOn
<1>9. ASSUME NEW w \in Worker, NEW t \in Tile, PushA(w, t) PROVE Waiting'
  <2>1. /\ S' = S /\ dep' = dep /\ at[<<"compute", t>>] \notin {"wait", "done"}
        /\ \A d \in Codelets : at'[d] = IF d = <<"compute", t>> THEN "pushB" ELSE at[d]
    BY <1>9, <1>a DEF PushA, In, Goto, TypeOK
  <2>2. QED
    BY <1>b, <2>1, WaitsOn
<1>10. ASSUME NEW w \in Worker, NEW t \in Tile, PushB(w, t) PROVE Waiting'
  <2>1. /\ S' = S /\ dep' = dep /\ at[<<"compute", t>>] \notin {"wait", "done"}
        /\ \A d \in Codelets : at'[d] = IF d = <<"compute", t>> THEN "popA" ELSE at[d]
    BY <1>10, <1>a DEF PushB, In, Goto, TypeOK
  <2>2. QED
    BY <1>b, <2>1, WaitsOn
<1>11. ASSUME NEW w \in Worker, NEW t \in Tile, PopA(w, t) PROVE Waiting'
  <2>1. /\ S' = S /\ dep' = dep /\ at[<<"compute", t>>] \notin {"wait", "done"}
        /\ \A d \in Codelets : at'[d] = IF d = <<"compute", t>> THEN "popB" ELSE at[d]
    BY <1>11, <1>a DEF PopA, In, Goto, TypeOK
  <2>2. QED
    BY <1>b, <2>1, WaitsOn
<1>12. ASSUME NEW w \in Worker, NEW t \in Tile, PopB(w, t) PROVE Waiting'
  <2>1. /\ S' = S /\ dep' = dep /\ at[<<"compute", t>>] \notin {"wait", "done"}
        /\ \A d \in Codelets : at'[d] = IF d = <<"compute", t>> THEN "test" ELSE at[d]
    BY <1>12, <1>a DEF PopB, In, Goto, TypeOK
  <2>2. QED
    BY <1>b, <2>1, WaitsOn
<1>13. ASSUME NEW w \in Worker, NEW t \in Tile, Finish(w, t) PROVE Waiting'
  <2>1. /\ <<"compute", t>> \in Codelets /\ <<"compute", t>> # Barrier
        /\ at[<<"compute", t>>] \notin {"wait", "done"}
        /\ <<"copyC", t>> \in Codelets /\ <<"copyC", t>>[1] # "compute"
    BY <1>13, <1>b DEF Finish, In, TileKinds, Barrier, End
  <2>2. dep[<<"copyC", t>>] > 0 /\ at[<<"copyC", t>>] = "wait"
    BY <2>1, Targets
  <2>3. \A d \in {<<"copyC", t>>} : d \in Codelets /\ d[1] # "compute" /\ dep[d] > 0 /\ at[d] = "wait"
    BY <2>1, <2>2
  <2>4. QED
    BY <1>13, <2>1, <2>3, WaitsNoMore DEF Finish
<1>14. ASSUME NEW w \in Worker, NEW t \in Tile, CopyC(w, t) PROVE Waiting'
  <2>1. /\ <<"copyC", t>> \in Codelets /\ <<"copyC", t>> # Barrier
        /\ at[<<"copyC", t>>] \notin {"wait", "done"}
        /\ End \in Codelets /\ End[1] # "compute"
    BY <1>14, <1>b DEF CopyC, In, TileKinds, Barrier, End
  <2>2. dep[End] > 0 /\ at[End] = "wait"
    BY <2>1, Targets
  <2>3. \A d \in {End} : d \in Codelets /\ d[1] # "compute" /\ dep[d] > 0 /\ at[d] = "wait"
    BY <2>1, <2>2
  <2>4. QED
    BY <1>14, <2>1, <2>3, WaitsNoMore DEF CopyC
<1>15. ASSUME NEW w \in Worker, EndFire(w) PROVE Waiting'
  <2>1. at[End] # "wait" /\ End # Barrier
    BY <1>15, <1>a, Names DEF EndFire, Inv, Alone, InBody, Barrier, End
  <2>2. S' = S /\ dep' = dep /\ \A d \in Codelets : at'[d] = IF d = End THEN "done" ELSE at[d]
    BY <1>15, <1>a DEF EndFire, TypeOK
  <2>3. QED
    BY <1>b, <2>1, <2>2, WaitsOn
<1>16. CASE UNCHANGED vars
  BY <1>16, WaitsOn DEF vars
<1>17. QED
  BY <1>1, <1>2, <1>3, <1>4, <1>5, <1>6, <1>7, <1>8, <1>9, <1>10, <1>11,
     <1>12, <1>13, <1>14, <1>15, <1>16 DEF Next, Step, Fire

(* Steps at the end of which as many codelets are done.                    *)
LEMMA CountsOn ==
  ASSUME Inv, S' = S,
         \A d \in Codelets : d \notin {Barrier, End} => (at'[d] = "done" <=> at[d] = "done"),
         \A d \in Codelets : d[1] # "compute" => dep'[d] = dep[d]
  PROVE  Counts'
<1>1. /\ Barrier \in Codelets /\ End \in Codelets
      /\ \A k \in TileKinds, t \in Tile : <<k, t>> \in Codelets
  BY SizeIs, Names
<1>2. \A k \in TileKinds, t \in Tile : /\ Due(<<k, t>>)' = Due(<<k, t>>)
                                       /\ at'[<<k, t>>] = "done" <=> at[<<k, t>>] = "done"
  BY <1>1 DEF Due, TileKinds, Barrier, End
<1>3. Undone("skew")' = Undone("skew") /\ Undone("copyC")' = Undone("copyC")
  BY <1>2, SameTiles DEF Undone, TileKinds
<1>4. dep'[Barrier] = dep[Barrier] /\ dep'[End] = dep[End]
  BY <1>1 DEF Barrier, End
<1>5. ASSUME NEW t \in Tile
      PROVE  /\ dep'[<<"skew", t>>] = (Due(<<"copyA", t>>) + Due(<<"copyB", t>>))'
             /\ dep'[<<"copyC", t>>] = Due(<<"compute", t>>)'
  BY <1>1, <1>2 DEF Inv, Counts, TileKinds
<1>6. QED
  BY <1>3, <1>4, <1>5, SameTiles DEF Inv, Counts

(* One codelet is done, and one that waits for it is signalled.            *)
LEMMA CountsDown ==
  ASSUME Inv, NEW w, NEW c \in Codelets, NEW e \in Codelets, SignalAndReturn(w, c, {e}), c # e,
         at[c] # "done", at[e] # "done"
  PROVE  /\ S' = S /\ at'[c] = "done"
         /\ \A d \in Codelets : d # c => (at'[d] = "done" <=> at[d] = "done")
         /\ Due(c) = 1 /\ Due(c)' = 0
         /\ \A d \in Codelets : d # c => Due(d)' = Due(d)
         /\ dep'[e] = dep[e] - 1
         /\ \A d \in Codelets : d # e => dep'[d] = dep[d]
<1>1. /\ S' = S /\ at'[c] = "done" /\ at'[e] \in {at[e], "ready"}
      /\ \A d \in Codelets : d # c /\ d # e => at'[d] = at[d]
      /\ \A d \in Codelets : dep'[d] = IF d = e THEN dep[d] - 1 ELSE dep[d]
  BY DEF SignalAndReturn
<1>2. QED
  BY <1>1 DEF Due

(* Each signal is counted once.                                            *)
LEMMA CountsStep == Inv /\ [Next]_vars => Counts'
<1> SUFFICES ASSUME Inv, [Next]_vars PROVE Counts'
  OBVIOUS
<1>a. S \in Nat \ {0} /\ TypeOK /\ Counts
  BY SizeIs DEF Inv
<1>b. /\ Barrier \in Codelets /\ End \in Codelets
      /\ \A k \in TileKinds, t \in Tile : <<k, t>> \in Codelets
  BY <1>a, Names
<1>1. ASSUME NEW w \in Worker, NEW c \in Codelets, Take(w, c) PROVE Counts'
  <2>1. /\ S' = S /\ at[c] = "ready" /\ Entry(c) \in InBody
        /\ \A d \in Codelets : at'[d] = IF d = c THEN Entry(c) ELSE at[d]
        /\ \A d \in Codelets : d[1] # "compute" => dep'[d] = dep[d]
    BY <1>1, <1>a, Entries DEF Take, TypeOK
  <2>2. QED
    BY <2>1, CountsOn DEF InBody
<1>2. ASSUME NEW w \in Worker, NEW t \in Tile, CopyA(w, t) PROVE Counts'
  <2>1. /\ <<"copyA", t>> \in Codelets /\ <<"skew", t>> \in Codelets
        /\ <<"copyA", t>> # <<"skew", t>>
        /\ at[<<"copyA", t>>] # "done" /\ at[<<"skew", t>>] # "done"
    BY <1>2, <1>b, Targets DEF CopyA, In, TileKinds, Barrier, End
  <2>2. /\ S' = S /\ at'[<<"copyA", t>>] = "done"
        /\ \A d \in Codelets : d # <<"copyA", t>> => (at'[d] = "done" <=> at[d] = "done")
        /\ Due(<<"copyA", t>>) = 1 /\ Due(<<"copyA", t>>)' = 0
        /\ \A d \in Codelets : d # <<"copyA", t>> => Due(d)' = Due(d)
        /\ dep'[<<"skew", t>>] = dep[<<"skew", t>>] - 1
        /\ \A d \in Codelets : d # <<"skew", t>> => dep'[d] = dep[d]
    BY <1>2, <2>1, CountsDown DEF CopyA
  <2>3. Undone("skew")' = Undone("skew") /\ Undone("copyC")' = Undone("copyC")
    BY <1>b, <2>2, SameTiles DEF Undone, TileKinds
  <2>4. dep'[Barrier] = dep[Barrier] /\ dep'[End] = dep[End]
    BY <1>b, <2>2 DEF Barrier, End
  <2>5. ASSUME NEW u \in Tile
        PROVE  /\ dep'[<<"skew", u>>] = (Due(<<"copyA", u>>) + Due(<<"copyB", u>>))'
               /\ dep'[<<"copyC", u>>] = Due(<<"compute", u>>)'
    <3>1. /\ dep[<<"skew", u>>] = Due(<<"copyA", u>>) + Due(<<"copyB", u>>)
          /\ dep[<<"copyC", u>>] = Due(<<"compute", u>>)
      BY <1>a DEF Counts
    <3>2. \A k \in TileKinds : <<k, u>> \in Codelets
      BY <1>b
    <3>3. \A e : Due(e) \in {0, 1}
      BY DEF Due
    <3>4. CASE u = t
      BY <2>2, <3>1, <3>2, <3>3, <3>4 DEF TileKinds
    <3>5. CASE u # t
      BY <2>2, <3>1, <3>2, <3>5 DEF TileKinds
    <3>6. QED
      BY <3>4, <3>5
  <2>6. QED
    BY <1>a, <2>2, <2>3, <2>4, <2>5, SameTiles DEF Counts
<1>3. ASSUME NEW w \in Worker, NEW t \in Tile, CopyB(w, t) PROVE Counts'
  <2>1. /\ <<"copyB", t>> \in Codelets /\ <<"skew", t>> \in Codelets
        /\ <<"copyB", t>> # <<"skew", t>>
        /\ at[<<"copyB", t>>] # "done" /\ at[<<"skew", t>>] # "done"
    BY <1>3, <1>b, Targets DEF CopyB, In, TileKinds, Barrier, End
  <2>2. /\ S' = S /\ at'[<<"copyB", t>>] = "done"
        /\ \A d \in Codelets : d # <<"copyB", t>> => (at'[d] = "done" <=> at[d] = "done")
        /\ Due(<<"copyB", t>>) = 1 /\ Due(<<"copyB", t>>)' = 0
        /\ \A d \in Codelets : d # <<"copyB", t>> => Due(d)' = Due(d)
        /\ dep'[<<"skew", t>>] = dep[<<"skew", t>>] - 1
        /\ \A d \in Codelets : d # <<"skew", t>> => dep'[d] = dep[d]
    BY <1>3, <2>1, CountsDown DEF CopyB
  <2>3. Undone("skew")' = Undone("skew") /\ Undone("copyC")' = Undone("copyC")
    BY <1>b, <2>2, SameTiles DEF Undone, TileKinds
  <2>4. dep'[Barrier] = dep[Barrier] /\ dep'[End] = dep[End]
    BY <1>b, <2>2 DEF Barrier, End
  <2>5. ASSUME NEW u \in Tile
        PROVE  /\ dep'[<<"skew", u>>] = (Due(<<"copyA", u>>) + Due(<<"copyB", u>>))'
               /\ dep'[<<"copyC", u>>] = Due(<<"compute", u>>)'
    <3>1. /\ dep[<<"skew", u>>] = Due(<<"copyA", u>>) + Due(<<"copyB", u>>)
          /\ dep[<<"copyC", u>>] = Due(<<"compute", u>>)
      BY <1>a DEF Counts
    <3>2. \A k \in TileKinds : <<k, u>> \in Codelets
      BY <1>b
    <3>3. \A e : Due(e) \in {0, 1}
      BY DEF Due
    <3>4. CASE u = t
      BY <2>2, <3>1, <3>2, <3>3, <3>4 DEF TileKinds
    <3>5. CASE u # t
      BY <2>2, <3>1, <3>2, <3>5 DEF TileKinds
    <3>6. QED
      BY <3>4, <3>5
  <2>6. QED
    BY <1>a, <2>2, <2>3, <2>4, <2>5, SameTiles DEF Counts
<1>4. ASSUME NEW w \in Worker, NEW t \in Tile, SkewA(w, t) PROVE Counts'
  <2>1. /\ S' = S /\ dep' = dep /\ at[<<"skew", t>>] \notin {"wait", "done"}
        /\ \A d \in Codelets : at'[d] = IF d = <<"skew", t>> THEN "pushB" ELSE at[d]
    BY <1>4, <1>a DEF SkewA, In, Goto, TypeOK
  <2>2. QED
    BY <1>b, <2>1, CountsOn
<1>5. ASSUME NEW w \in Worker, NEW t \in Tile, SkewB(w, t) PROVE Counts'
  <2>1. /\ S' = S /\ dep' = dep /\ at[<<"skew", t>>] \notin {"wait", "done"}
        /\ \A d \in Codelets : at'[d] = IF d = <<"skew", t>> THEN "signal" ELSE at[d]
    BY <1>5, <1>a DEF SkewB, In, Goto, TypeOK
  <2>2. QED
    BY <1>b, <2>1, CountsOn
<1>6. ASSUME NEW w \in Worker, NEW t \in Tile, SkewSignal(w, t) PROVE Counts'
  <2>1. /\ <<"skew", t>> \in Codelets /\ Barrier \in Codelets /\ <<"skew", t>> # Barrier
        /\ at[<<"skew", t>>] # "done" /\ at[Barrier] # "done"
    BY <1>6, <1>b, Targets DEF SkewSignal, In, TileKinds, Barrier, End
  <2>2. /\ S' = S /\ at'[<<"skew", t>>] = "done"
        /\ \A d \in Codelets : d # <<"skew", t>> => (at'[d] = "done" <=> at[d] = "done")
        /\ Due(<<"skew", t>>) = 1 /\ Due(<<"skew", t>>)' = 0
        /\ \A d \in Codelets : d # <<"skew", t>> => Due(d)' = Due(d)
        /\ dep'[Barrier] = dep[Barrier] - 1
        /\ \A d \in Codelets : d # Barrier => dep'[d] = dep[d]
    BY <1>6, <2>1, CountsDown DEF SkewSignal
  <2>3. Undone("skew")' = Undone("skew") \ {t} /\ Undone("copyC")' = Undone("copyC")
    BY <1>b, <2>2, SameTiles DEF Undone, TileKinds
  <2>4. dep'[Barrier] = Cardinality(Undone("skew"))' /\ dep'[End] = dep[End]
    <3>1. Cardinality(Undone("skew") \ {t}) = dep[Barrier] - 1
      BY <1>a, <2>1, Counted DEF Counts
    <3>2. QED
      BY <1>b, <2>2, <2>3, <3>1 DEF Barrier, End
  <2>5. ASSUME NEW u \in Tile
        PROVE  /\ dep'[<<"skew", u>>] = (Due(<<"copyA", u>>) + Due(<<"copyB", u>>))'
               /\ dep'[<<"copyC", u>>] = Due(<<"compute", u>>)'
    <3>1. /\ dep[<<"skew", u>>] = Due(<<"copyA", u>>) + Due(<<"copyB", u>>)
          /\ dep[<<"copyC", u>>] = Due(<<"compute", u>>)
      BY <1>a DEF Counts
    <3>2. \A k \in TileKinds : <<k, u>> \in Codelets /\ <<k, u>> # Barrier
      BY <1>b DEF TileKinds, Barrier, End
    <3>3. QED
      BY <2>2, <3>1, <3>2 DEF TileKinds
  <2>6. QED
    BY <1>a, <2>2, <2>3, <2>4, <2>5, SameTiles DEF Counts
<1>7. ASSUME NEW w \in Worker, BarrierFire(w) PROVE Counts'
  <2>1. /\ S' = S /\ \A d \in Codelets : d # Barrier => at'[d] \in {at[d], "ready"}
        /\ \A d \in Codelets : d[1] # "compute" => dep'[d] = dep[d]
    BY <1>7, BarrierReturned
  <2>2. ASSUME NEW d \in Codelets, d \notin {Barrier, End} PROVE at'[d] = "done" <=> at[d] = "done"
    <3>1. at[Barrier] # "done"
      BY <1>7, <1>a, Names DEF BarrierFire, Inv, Alone, InBody
    <3>2. \A t \in Tile : at[<<"compute", t>>] = "wait"
      BY <3>1, AtBarrier
    <3>3. CASE d[1] = "compute"
      <4>1. \E t \in Tile : d = <<"compute", t>>
        BY <2>2, <3>3 DEF Codelets, TileKinds
      <4>2. QED
        BY <2>1, <2>2, <3>2, <4>1
    <3>4. CASE d[1] # "compute"
      BY <1>7, <2>2, <3>4, BarrierReturned
    <3>5. QED
      BY <3>3, <3>4
  <2>3. QED
    BY <2>1, <2>2, CountsOn
<1>8. ASSUME NEW w \in Worker, NEW t \in Tile, Multiply(w, t) PROVE Counts'
  <2>1. /\ S' = S /\ dep' = dep /\ at[<<"compute", t>>] \notin {"wait", "done"}
        /\ \A d \in Codelets : at'[d] = IF d = <<"compute", t>> THEN "pushA" ELSE at[d]
    BY <1>8, <1>a DEF Multiply, In, Goto, TypeOK
  <2>2. QED
    BY <1>b, <2>1, CountsOn
<1>9. ASSUME NEW w \in Worker, NEW t \in Tile, PushA(w, t) PROVE Counts'
  <2>1. /\ S' = S /\ dep' = dep /\ at[<<"compute", t>>] \notin {"wait", "done"}
        /\ \A d \in Codelets : at'[d] = IF d = <<"compute", t>> THEN "pushB" ELSE at[d]
    BY <1>9, <1>a DEF PushA, In, Goto, TypeOK
  <2>2. QED
    BY <1>b, <2>1, CountsOn
<1>10. ASSUME NEW w \in Worker, NEW t \in Tile, PushB(w, t) PROVE Counts'
  <2>1. /\ S' = S /\ dep' = dep /\ at[<<"compute", t>>] \notin {"wait", "done"}
        /\ \A d \in Codelets : at'[d] = IF d = <<"compute", t>> THEN "popA" ELSE at[d]
    BY <1>10, <1>a DEF PushB, In, Goto, TypeOK
  <2>2. QED
    BY <1>b, <2>1, CountsOn
<1>11. ASSUME NEW w \in Worker, NEW t \in Tile, PopA(w, t) PROVE Counts'
  <2>1. /\ S' = S /\ dep' = dep /\ at[<<"compute", t>>] \notin {"wait", "done"}
        /\ \A d \in Codelets : at'[d] = IF d = <<"compute", t>> THEN "popB" ELSE at[d]
    BY <1>11, <1>a DEF PopA, In, Goto, TypeOK
  <2>2. QED
    BY <1>b, <2>1, CountsOn
<1>12. ASSUME NEW w \in Worker, NEW t \in Tile, PopB(w, t) PROVE Counts'
  <2>1. /\ S' = S /\ dep' = dep /\ at[<<"compute", t>>] \notin {"wait", "done"}
        /\ \A d \in Codelets : at'[d] = IF d = <<"compute", t>> THEN "test" ELSE at[d]
    BY <1>12, <1>a DEF PopB, In, Goto, TypeOK
  <2>2. QED
    BY <1>b, <2>1, CountsOn
<1>13. ASSUME NEW w \in Worker, NEW t \in Tile, Finish(w, t) PROVE Counts'
  <2>1. /\ <<"compute", t>> \in Codelets /\ <<"copyC", t>> \in Codelets
        /\ <<"compute", t>> # <<"copyC", t>>
        /\ at[<<"compute", t>>] # "done" /\ at[<<"copyC", t>>] # "done"
    BY <1>13, <1>b, Targets DEF Finish, In, TileKinds, Barrier, End
  <2>2. /\ S' = S /\ at'[<<"compute", t>>] = "done"
        /\ \A d \in Codelets : d # <<"compute", t>> => (at'[d] = "done" <=> at[d] = "done")
        /\ Due(<<"compute", t>>) = 1 /\ Due(<<"compute", t>>)' = 0
        /\ \A d \in Codelets : d # <<"compute", t>> => Due(d)' = Due(d)
        /\ dep'[<<"copyC", t>>] = dep[<<"copyC", t>>] - 1
        /\ \A d \in Codelets : d # <<"copyC", t>> => dep'[d] = dep[d]
    BY <1>13, <2>1, CountsDown DEF Finish
  <2>3. Undone("skew")' = Undone("skew") /\ Undone("copyC")' = Undone("copyC")
    BY <1>b, <2>2, SameTiles DEF Undone, TileKinds
  <2>4. dep'[Barrier] = dep[Barrier] /\ dep'[End] = dep[End]
    BY <1>b, <2>2 DEF Barrier, End
  <2>5. ASSUME NEW u \in Tile
        PROVE  /\ dep'[<<"skew", u>>] = (Due(<<"copyA", u>>) + Due(<<"copyB", u>>))'
               /\ dep'[<<"copyC", u>>] = Due(<<"compute", u>>)'
    <3>1. /\ dep[<<"skew", u>>] = Due(<<"copyA", u>>) + Due(<<"copyB", u>>)
          /\ dep[<<"copyC", u>>] = Due(<<"compute", u>>)
      BY <1>a DEF Counts
    <3>2. \A k \in TileKinds : <<k, u>> \in Codelets
      BY <1>b
    <3>3. \A e : Due(e) \in {0, 1}
      BY DEF Due
    <3>4. CASE u = t
      BY <2>2, <3>1, <3>2, <3>3, <3>4 DEF TileKinds
    <3>5. CASE u # t
      BY <2>2, <3>1, <3>2, <3>5 DEF TileKinds
    <3>6. QED
      BY <3>4, <3>5
  <2>6. QED
    BY <1>a, <2>2, <2>3, <2>4, <2>5, SameTiles DEF Counts
<1>14. ASSUME NEW w \in Worker, NEW t \in Tile, CopyC(w, t) PROVE Counts'
  <2>1. /\ <<"copyC", t>> \in Codelets /\ End \in Codelets /\ <<"copyC", t>> # End
        /\ at[<<"copyC", t>>] # "done" /\ at[End] # "done"
    BY <1>14, <1>b, Targets DEF CopyC, In, TileKinds, Barrier, End
  <2>2. /\ S' = S /\ at'[<<"copyC", t>>] = "done"
        /\ \A d \in Codelets : d # <<"copyC", t>> => (at'[d] = "done" <=> at[d] = "done")
        /\ Due(<<"copyC", t>>) = 1 /\ Due(<<"copyC", t>>)' = 0
        /\ \A d \in Codelets : d # <<"copyC", t>> => Due(d)' = Due(d)
        /\ dep'[End] = dep[End] - 1
        /\ \A d \in Codelets : d # End => dep'[d] = dep[d]
    BY <1>14, <2>1, CountsDown DEF CopyC
  <2>3. Undone("copyC")' = Undone("copyC") \ {t} /\ Undone("skew")' = Undone("skew")
    BY <1>b, <2>2, SameTiles DEF Undone, TileKinds
  <2>4. dep'[End] = Cardinality(Undone("copyC"))' /\ dep'[Barrier] = dep[Barrier]
    <3>1. Cardinality(Undone("copyC") \ {t}) = dep[End] - 1
      BY <1>a, <2>1, Counted DEF Counts
    <3>2. QED
      BY <1>b, <2>2, <2>3, <3>1 DEF Barrier, End
  <2>5. ASSUME NEW u \in Tile
        PROVE  /\ dep'[<<"skew", u>>] = (Due(<<"copyA", u>>) + Due(<<"copyB", u>>))'
               /\ dep'[<<"copyC", u>>] = Due(<<"compute", u>>)'
    <3>1. /\ dep[<<"skew", u>>] = Due(<<"copyA", u>>) + Due(<<"copyB", u>>)
          /\ dep[<<"copyC", u>>] = Due(<<"compute", u>>)
      BY <1>a DEF Counts
    <3>2. \A k \in TileKinds : <<k, u>> \in Codelets /\ <<k, u>> # End
      BY <1>b DEF TileKinds, Barrier, End
    <3>3. QED
      BY <2>2, <3>1, <3>2 DEF TileKinds
  <2>6. QED
    BY <1>a, <2>2, <2>3, <2>4, <2>5, SameTiles DEF Counts
<1>15. ASSUME NEW w \in Worker, EndFire(w) PROVE Counts'
  <2>1. S' = S /\ dep' = dep /\ \A d \in Codelets : at'[d] = IF d = End THEN "done" ELSE at[d]
    BY <1>15, <1>a DEF EndFire, TypeOK
  <2>2. QED
    BY <2>1, CountsOn
<1>16. CASE UNCHANGED vars
  BY <1>16, CountsOn DEF vars
<1>17. QED
  BY <1>1, <1>2, <1>3, <1>4, <1>5, <1>6, <1>7, <1>8, <1>9, <1>10, <1>11,
     <1>12, <1>13, <1>14, <1>15, <1>16 DEF Next, Step, Fire

(* A step disturbs the progress of no tile but its own.                    *)
Advanced(t) ==
  /\ at[<<"copyA", t>>] = "done" => scratchA[t] = t
  /\ at[<<"copyB", t>>] = "done" => scratchB[t] = t
  /\ at[<<"compute", t>>] \in {"wait", "ready"} => iter[t] = 0
  /\ at[<<"compute", t>>] \in Holding => iter[t] < S
  /\ at[<<"compute", t>>] = "done" => iter[t] = S
  /\ at[<<"copyC", t>>] = "done" => C[t] = prods[t]

(* A step after which every tile has advanced.                             *)
LEMMA ProgressOn ==
  ASSUME S' = S, Inv, \A u \in Tile : Advanced(u)', signalled' => at'[End] = "done"
  PROVE  Progress'
BY SameTiles DEF Progress, Advanced

(* Progress, tile by tile.                                                 *)
LEMMA AdvancedTiles == Inv => \A u \in Tile : Advanced(u)
BY DEF Inv, Progress, Advanced

(* What was copied or multiplied stays.                                    *)
LEMMA ProgressStep == Inv /\ [Next]_vars => Progress'
<1> SUFFICES ASSUME Inv, [Next]_vars PROVE Progress'
  OBVIOUS
<1>a. S \in Nat \ {0} /\ TypeOK /\ Progress
  BY SizeIs DEF Inv
<1>b. /\ Barrier \in Codelets /\ End \in Codelets
      /\ \A k \in TileKinds, t \in Tile : <<k, t>> \in Codelets
  BY <1>a, Names
<1>c. \A u \in Tile : Advanced(u)
  BY AdvancedTiles
<1>1. ASSUME NEW w \in Worker, NEW c \in Codelets, Take(w, c) PROVE Progress'
  <2>1. /\ S' = S /\ UNCHANGED data /\ signalled' = signalled /\ at[c] = "ready"
        /\ \A d \in Codelets : at'[d] = IF d = c THEN Entry(c) ELSE at[d]
    BY <1>1, <1>a DEF Take, TypeOK
  <2>2. ASSUME NEW u \in Tile PROVE Advanced(u)'
    <3>1. /\ at'[<<"copyA", u>>] \in {at[<<"copyA", u>>], "copy"}
          /\ at'[<<"copyB", u>>] \in {at[<<"copyB", u>>], "copy"}
          /\ at'[<<"copyC", u>>] \in {at[<<"copyC", u>>], "copy"}
          /\ at'[<<"compute", u>>] \in {at[<<"compute", u>>], "test"}
      BY <1>b, <2>1, Entries DEF TileKinds
    <3>2. QED
      BY <1>c, <2>1, <3>1 DEF Advanced, data, Holding
  <2>3. signalled' => at'[End] = "done"
    BY <1>a, <1>b, <2>1, Entries DEF Progress
  <2>4. QED
    BY <2>1, <2>2, <2>3, ProgressOn
<1>2. ASSUME NEW w \in Worker, NEW t \in Tile, CopyA(w, t) PROVE Progress'
  <2>1. /\ <<"copyA", t>> \in Codelets /\ <<"skew", t>> \in Codelets
        /\ <<"copyA", t>> # <<"skew", t>>
        /\ at[<<"copyA", t>>] # "done" /\ at[<<"skew", t>>] # "done"
    BY <1>2, <1>b, Targets DEF CopyA, In, TileKinds, Barrier, End
  <2>2. /\ S' = S /\ at'[<<"copyA", t>>] = "done"
        /\ at'[<<"skew", t>>] \in {at[<<"skew", t>>], "ready"}
        /\ \A e \in Codelets : e # <<"copyA", t>> /\ e # <<"skew", t>> => at'[e] = at[e]
    BY <1>2, <2>1 DEF CopyA, SignalAndReturn
  <2>3. UNCHANGED <<scratchB, iter, prods, C, signalled>> /\ scratchA' = [scratchA EXCEPT ![t] = t]
    BY <1>2 DEF CopyA, SignalAndReturn, data
  <2>4. \A u \in Tile : scratchA'[u] = IF u = t THEN t ELSE scratchA[u]
    BY <1>a, <2>3 DEF TypeOK
  <2>5. ASSUME NEW u \in Tile PROVE Advanced(u)'
    BY <1>a, <1>b, <1>c, <2>1, <2>2, <2>3, <2>4, <2>5
       DEF Advanced, TileKinds, Holding, Barrier, End
  <2>6. signalled' => at'[End] = "done"
    BY <1>a, <1>b, <2>1, <2>2, <2>3 DEF Progress, End
  <2>7. QED
    BY <2>2, <2>5, <2>6, ProgressOn
<1>3. ASSUME NEW w \in Worker, NEW t \in Tile, CopyB(w, t) PROVE Progress'
  <2>1. /\ <<"copyB", t>> \in Codelets /\ <<"skew", t>> \in Codelets
        /\ <<"copyB", t>> # <<"skew", t>>
        /\ at[<<"copyB", t>>] # "done" /\ at[<<"skew", t>>] # "done"
    BY <1>3, <1>b, Targets DEF CopyB, In, TileKinds, Barrier, End
  <2>2. /\ S' = S /\ at'[<<"copyB", t>>] = "done"
        /\ at'[<<"skew", t>>] \in {at[<<"skew", t>>], "ready"}
        /\ \A e \in Codelets : e # <<"copyB", t>> /\ e # <<"skew", t>> => at'[e] = at[e]
    BY <1>3, <2>1 DEF CopyB, SignalAndReturn
  <2>3. UNCHANGED <<scratchA, iter, prods, C, signalled>> /\ scratchB' = [scratchB EXCEPT ![t] = t]
    BY <1>3 DEF CopyB, SignalAndReturn, data
  <2>4. \A u \in Tile : scratchB'[u] = IF u = t THEN t ELSE scratchB[u]
    BY <1>a, <2>3 DEF TypeOK
  <2>5. ASSUME NEW u \in Tile PROVE Advanced(u)'
    BY <1>a, <1>b, <1>c, <2>1, <2>2, <2>3, <2>4, <2>5
       DEF Advanced, TileKinds, Holding, Barrier, End
  <2>6. signalled' => at'[End] = "done"
    BY <1>a, <1>b, <2>1, <2>2, <2>3 DEF Progress, End
  <2>7. QED
    BY <2>2, <2>5, <2>6, ProgressOn
<1>4. ASSUME NEW w \in Worker, NEW t \in Tile, SkewA(w, t) PROVE Progress'
  <2>1. /\ S' = S /\ UNCHANGED <<scratchA, scratchB, iter, prods, C, signalled>>
        /\ at[<<"skew", t>>] \notin {"wait", "ready", "done"}
        /\ \A d \in Codelets : at'[d] = IF d = <<"skew", t>> THEN "pushB" ELSE at[d]
    BY <1>4, <1>a DEF SkewA, In, Goto, TypeOK
  <2>3. ASSUME NEW u \in Tile PROVE Advanced(u)'
    BY <1>a, <1>b, <1>c, <2>1, <2>3 DEF Advanced, TileKinds, Holding
  <2>4. signalled' => at'[End] = "done"
    BY <1>a, <1>b, <2>1 DEF Progress, End
  <2>5. QED
    BY <2>1, <2>3, <2>4, ProgressOn
<1>5. ASSUME NEW w \in Worker, NEW t \in Tile, SkewB(w, t) PROVE Progress'
  <2>1. /\ S' = S /\ UNCHANGED <<scratchA, scratchB, iter, prods, C, signalled>>
        /\ at[<<"skew", t>>] \notin {"wait", "ready", "done"}
        /\ \A d \in Codelets : at'[d] = IF d = <<"skew", t>> THEN "signal" ELSE at[d]
    BY <1>5, <1>a DEF SkewB, In, Goto, TypeOK
  <2>3. ASSUME NEW u \in Tile PROVE Advanced(u)'
    BY <1>a, <1>b, <1>c, <2>1, <2>3 DEF Advanced, TileKinds, Holding
  <2>4. signalled' => at'[End] = "done"
    BY <1>a, <1>b, <2>1 DEF Progress, End
  <2>5. QED
    BY <2>1, <2>3, <2>4, ProgressOn
<1>6. ASSUME NEW w \in Worker, NEW t \in Tile, SkewSignal(w, t) PROVE Progress'
  <2>1. /\ <<"skew", t>> \in Codelets /\ Barrier \in Codelets /\ <<"skew", t>> # Barrier
        /\ at[<<"skew", t>>] # "done" /\ at[Barrier] # "done"
    BY <1>6, <1>b, Targets DEF SkewSignal, In, TileKinds, Barrier, End
  <2>2. /\ S' = S /\ at'[<<"skew", t>>] = "done"
        /\ at'[Barrier] \in {at[Barrier], "ready"}
        /\ \A e \in Codelets : e # <<"skew", t>> /\ e # Barrier => at'[e] = at[e]
    BY <1>6, <2>1 DEF SkewSignal, SignalAndReturn
  <2>3. UNCHANGED <<scratchA, scratchB, iter, prods, C, signalled>>
    BY <1>6 DEF SkewSignal, SignalAndReturn, data
  <2>5. ASSUME NEW u \in Tile PROVE Advanced(u)'
    BY <1>a, <1>b, <1>c, <2>1, <2>2, <2>3, <2>5
       DEF Advanced, TileKinds, Holding, Barrier, End
  <2>6. signalled' => at'[End] = "done"
    BY <1>a, <1>b, <2>1, <2>2, <2>3 DEF Progress, End
  <2>7. QED
    BY <2>2, <2>5, <2>6, ProgressOn
<1>7. ASSUME NEW w \in Worker, BarrierFire(w) PROVE Progress'
  <2>1. /\ S' = S /\ UNCHANGED data /\ signalled' = signalled
        /\ \A d \in Codelets : d # Barrier => at'[d] \in {at[d], "ready"}
        /\ \A d \in Codelets : d[1] # "compute" /\ d # Barrier => at'[d] = at[d]
    BY <1>7, BarrierReturned DEF BarrierFire, SignalAndReturn
  <2>2. \A u \in Tile : at[<<"compute", u>>] = "wait"
    BY <1>7, <1>a, Names, AtBarrier DEF BarrierFire, Inv, Alone, InBody
  <2>3. ASSUME NEW u \in Tile PROVE Advanced(u)'
    <3>1. /\ at'[<<"copyA", u>>] = at[<<"copyA", u>>]
          /\ at'[<<"copyB", u>>] = at[<<"copyB", u>>]
          /\ at'[<<"copyC", u>>] = at[<<"copyC", u>>]
          /\ at'[<<"compute", u>>] \in {at[<<"compute", u>>], "ready"}
      BY <1>b, <2>1 DEF TileKinds, Barrier
    <3>2. QED
      BY <1>c, <2>1, <2>2, <3>1 DEF Advanced, data, Holding
  <2>4. signalled' => at'[End] = "done"
    BY <1>a, <1>b, <2>1 DEF Progress, End, Barrier
  <2>5. QED
    BY <2>1, <2>3, <2>4, ProgressOn
<1>8. ASSUME NEW w \in Worker, NEW t \in Tile, Multiply(w, t) PROVE Progress'
  <2>1. /\ S' = S /\ UNCHANGED <<scratchA, scratchB, iter, C, signalled>>
        /\ at[<<"compute", t>>] \notin {"wait", "ready", "done"}
        /\ \A d \in Codelets : at'[d] = IF d = <<"compute", t>> THEN "pushA" ELSE at[d]
        /\ \A u \in Tile : u # t => prods'[u] = prods[u]
    BY <1>8, <1>a DEF Multiply, In, Goto, TypeOK
  <2>2. at[<<"copyC", t>>] = "wait" /\ iter[t] < S
    BY <1>8, <2>1, Targets DEF Multiply
  <2>3. ASSUME NEW u \in Tile PROVE Advanced(u)'
    BY <1>a, <1>b, <1>c, <2>1, <2>2, <2>3 DEF Advanced, TileKinds, Holding
  <2>4. signalled' => at'[End] = "done"
    BY <1>a, <1>b, <2>1 DEF Progress, End
  <2>5. QED
    BY <2>1, <2>3, <2>4, ProgressOn
<1>9. ASSUME NEW w \in Worker, NEW t \in Tile, PushA(w, t) PROVE Progress'
  <2>1. /\ S' = S /\ UNCHANGED <<scratchA, scratchB, iter, prods, C, signalled>>
        /\ at[<<"compute", t>>] \notin {"wait", "ready", "done"}
        /\ \A d \in Codelets : at'[d] = IF d = <<"compute", t>> THEN "pushB" ELSE at[d]
    BY <1>9, <1>a DEF PushA, In, Goto, TypeOK
  <2>2. iter[t] < S /\ iter[t] \in 0 .. S
    BY <1>9, <1>a DEF PushA, In, Progress, Holding, TypeOK
  <2>3. ASSUME NEW u \in Tile PROVE Advanced(u)'
    BY <1>a, <1>b, <1>c, <2>1, <2>2, <2>3 DEF Advanced, TileKinds, Holding
  <2>4. signalled' => at'[End] = "done"
    BY <1>a, <1>b, <2>1 DEF Progress, End
  <2>5. QED
    BY <2>1, <2>3, <2>4, ProgressOn
<1>10. ASSUME NEW w \in Worker, NEW t \in Tile, PushB(w, t) PROVE Progress'
  <2>1. /\ S' = S /\ UNCHANGED <<scratchA, scratchB, iter, prods, C, signalled>>
        /\ at[<<"compute", t>>] \notin {"wait", "ready", "done"}
        /\ \A d \in Codelets : at'[d] = IF d = <<"compute", t>> THEN "popA" ELSE at[d]
    BY <1>10, <1>a DEF PushB, In, Goto, TypeOK
  <2>2. iter[t] < S /\ iter[t] \in 0 .. S
    BY <1>10, <1>a DEF PushB, In, Progress, Holding, TypeOK
  <2>3. ASSUME NEW u \in Tile PROVE Advanced(u)'
    BY <1>a, <1>b, <1>c, <2>1, <2>2, <2>3 DEF Advanced, TileKinds, Holding
  <2>4. signalled' => at'[End] = "done"
    BY <1>a, <1>b, <2>1 DEF Progress, End
  <2>5. QED
    BY <2>1, <2>3, <2>4, ProgressOn
<1>11. ASSUME NEW w \in Worker, NEW t \in Tile, PopA(w, t) PROVE Progress'
  <2>1. /\ S' = S /\ UNCHANGED <<scratchA, scratchB, iter, prods, C, signalled>>
        /\ at[<<"compute", t>>] \notin {"wait", "ready", "done"}
        /\ \A d \in Codelets : at'[d] = IF d = <<"compute", t>> THEN "popB" ELSE at[d]
    BY <1>11, <1>a DEF PopA, In, Goto, TypeOK
  <2>2. iter[t] < S /\ iter[t] \in 0 .. S
    BY <1>11, <1>a DEF PopA, In, Progress, Holding, TypeOK
  <2>3. ASSUME NEW u \in Tile PROVE Advanced(u)'
    BY <1>a, <1>b, <1>c, <2>1, <2>2, <2>3 DEF Advanced, TileKinds, Holding
  <2>4. signalled' => at'[End] = "done"
    BY <1>a, <1>b, <2>1 DEF Progress, End
  <2>5. QED
    BY <2>1, <2>3, <2>4, ProgressOn
<1>12. ASSUME NEW w \in Worker, NEW t \in Tile, PopB(w, t) PROVE Progress'
  <2>1. /\ S' = S /\ UNCHANGED <<scratchA, scratchB, prods, C, signalled>>
        /\ at[<<"compute", t>>] \notin {"wait", "ready", "done"}
        /\ \A d \in Codelets : at'[d] = IF d = <<"compute", t>> THEN "test" ELSE at[d]
        /\ iter' = [iter EXCEPT ![t] = @ + 1] /\ iter \in [Tile -> 0 .. S]
    BY <1>12, <1>a DEF PopB, In, Goto, TypeOK
  <2>2. iter[t] < S /\ iter[t] \in 0 .. S
    BY <1>12, <1>a DEF PopB, In, Progress, Holding, TypeOK
  <2>3. ASSUME NEW u \in Tile PROVE Advanced(u)'
    BY <1>a, <1>b, <1>c, <2>1, <2>2, <2>3 DEF Advanced, TileKinds, Holding
  <2>4. signalled' => at'[End] = "done"
    BY <1>a, <1>b, <2>1 DEF Progress, End
  <2>5. QED
    BY <2>1, <2>3, <2>4, ProgressOn
<1>13. ASSUME NEW w \in Worker, NEW t \in Tile, Finish(w, t) PROVE Progress'
  <2>1. /\ <<"compute", t>> \in Codelets /\ <<"copyC", t>> \in Codelets
        /\ <<"compute", t>> # <<"copyC", t>>
        /\ at[<<"compute", t>>] # "done" /\ at[<<"copyC", t>>] # "done"
    BY <1>13, <1>b, Targets DEF Finish, In, TileKinds, Barrier, End
  <2>2. /\ S' = S /\ at'[<<"compute", t>>] = "done"
        /\ at'[<<"copyC", t>>] \in {at[<<"copyC", t>>], "ready"}
        /\ \A e \in Codelets : e # <<"compute", t>> /\ e # <<"copyC", t>> => at'[e] = at[e]
    BY <1>13, <2>1 DEF Finish, SignalAndReturn
  <2>3. UNCHANGED <<scratchA, scratchB, iter, prods, C, signalled>>
    BY <1>13 DEF Finish, SignalAndReturn, data
  <2>4. iter[t] = S
    BY <1>13 DEF Finish
  <2>5. ASSUME NEW u \in Tile PROVE Advanced(u)'
    BY <1>a, <1>b, <1>c, <2>1, <2>2, <2>3, <2>4, <2>5
       DEF Advanced, TileKinds, Holding, Barrier, End
  <2>6. signalled' => at'[End] = "done"
    BY <1>a, <1>b, <2>1, <2>2, <2>3 DEF Progress, End
  <2>7. QED
    BY <2>2, <2>5, <2>6, ProgressOn
<1>14. ASSUME NEW w \in Worker, NEW t \in Tile, CopyC(w, t) PROVE Progress'
  <2>1. /\ <<"copyC", t>> \in Codelets /\ End \in Codelets /\ <<"copyC", t>> # End
        /\ at[<<"copyC", t>>] # "done" /\ at[End] # "done"
    BY <1>14, <1>b, Targets DEF CopyC, In, TileKinds, Barrier, End
  <2>2. /\ S' = S /\ at'[<<"copyC", t>>] = "done" /\ at'[End] \in {at[End], "ready"}
        /\ \A e \in Codelets : e # <<"copyC", t>> /\ e # End => at'[e] = at[e]
    BY <1>14, <2>1 DEF CopyC, SignalAndReturn
  <2>3. UNCHANGED <<scratchA, scratchB, iter, prods, signalled>> /\ C' = [C EXCEPT ![t] = prods[t]]
    BY <1>14 DEF CopyC, SignalAndReturn, data
  <2>4. \A u \in Tile : C'[u] = IF u = t THEN prods[t] ELSE C[u]
    BY <1>a, <2>3 DEF TypeOK
  <2>5. ASSUME NEW u \in Tile PROVE Advanced(u)'
    BY <1>a, <1>b, <1>c, <2>1, <2>2, <2>3, <2>4, <2>5
       DEF Advanced, TileKinds, Holding, Barrier, End
  <2>6. signalled' => at'[End] = "done"
    BY <1>a, <1>b, <2>1, <2>2, <2>3 DEF Progress, End
  <2>7. QED
    BY <2>2, <2>5, <2>6, ProgressOn
<1>15. ASSUME NEW w \in Worker, EndFire(w) PROVE Progress'
  <2>1. /\ S' = S /\ UNCHANGED data
        /\ \A d \in Codelets : at'[d] = IF d = End THEN "done" ELSE at[d]
    BY <1>15, <1>a DEF EndFire, TypeOK
  <2>2. ASSUME NEW u \in Tile PROVE Advanced(u)'
    <3>1. \A k \in TileKinds : at'[<<k, u>>] = at[<<k, u>>]
      BY <1>b, <2>1 DEF TileKinds, End
    <3>2. QED
      BY <1>c, <2>1, <3>1 DEF Advanced, data, TileKinds
  <2>3. QED
    BY <1>b, <2>1, <2>2, ProgressOn
<1>16. CASE UNCHANGED vars
  <2>1. S' = S /\ UNCHANGED <<data, at, signalled>>
    BY <1>16 DEF vars
  <2>2. QED
    BY <1>a, <1>c, <2>1, ProgressOn DEF Advanced, Progress, data
<1>17. QED
  BY <1>1, <1>2, <1>3, <1>4, <1>5, <1>6, <1>7, <1>8, <1>9, <1>10, <1>11,
     <1>12, <1>13, <1>14, <1>15, <1>16 DEF Next, Step, Fire

(* A skew codelet that waits for nothing has its tiles.                    *)
LEMMA FilledStep == Inv /\ [Next]_vars => Filled'
<1> SUFFICES ASSUME Inv, [Next]_vars, NEW t \in Tile', at'[<<"skew", t>>] \notin {"wait", "done"}
             PROVE  scratchA'[t] = t /\ scratchB'[t] = t
  BY DEF Filled
<1>1. Counts' /\ Waiting' /\ Progress' /\ S' \in Nat \ {0}
  BY CountsStep, WaitingStep, ProgressStep, TypeStep, SizeAssumption DEF TypeOK
<1>2. <<"skew", t>> \in Codelets'
  BY DEF Codelets, TileKinds
<1>3. /\ dep'[<<"skew", t>>] = Due(<<"copyA", t>>)' + Due(<<"copyB", t>>)'
      /\ ~ (dep'[<<"skew", t>>] > 0)
  BY <1>1, <1>2 DEF Counts, Waiting
<1>4. at'[<<"copyA", t>>] = "done" /\ at'[<<"copyB", t>>] = "done"
  BY <1>3 DEF Due
<1>5. QED
  BY <1>1, <1>4 DEF Progress

-----------------------------------------------------------------------------
(* The queues of A, tile by tile.                                          *)
Row(t) ==
  /\ PoppedA(t) + Len(aq[t]) = SkewedA(NthA(t, 0)) + SentA(PrevRow(t))
  /\ at[<<"compute", t>>] \in Holding \ {"popB"} => aq[t] # <<>>
  /\ \A i \in 1 .. Len(aq[t]) : aq[t][i] = NthA(t, PoppedA(t) + i - 1)

Rows == \A t \in Tile : Row(t)

(* A step that leaves the queue of a tile, and those that fill it, alone.  *)
LEMMA RowOn ==
  ASSUME S' = S, NEW u \in Tile, Row(u), aq'[u] = aq[u], PoppedA(u)' = PoppedA(u),
         SkewedA(NthA(u, 0))' = SkewedA(NthA(u, 0)), SentA(PrevRow(u))' = SentA(PrevRow(u)),
         at'[<<"compute", u>>] \in Holding \ {"popB"} => aq[u] # <<>>
  PROVE  Row(u)'
<1>1. \A n : NthA(u, n)' = NthA(u, n)
  BY DEF NthA
<1>2. QED
  BY <1>1 DEF Row

(* A step that moves no tile of A keeps them all.                          *)
LEMMA RowsOn ==
  ASSUME Inv, Rows, S' = S, aq' = aq,
         \A v \in Tile : /\ SentA(v)' = SentA(v) /\ PoppedA(v)' = PoppedA(v)
                         /\ SkewedA(v)' = SkewedA(v)
                         /\ at'[<<"compute", v>>] \in Holding \ {"popB"} => aq[v] # <<>>
  PROVE  Rows'
<1>1. ASSUME NEW u \in Tile PROVE Row(u)'
  <2>1. PrevRow(u) \in Tile /\ NthA(u, 0) \in Tile
    BY SizeIs, Torus
  <2>2. PrevRow(u)' = PrevRow(u) /\ NthA(u, 0)' = NthA(u, 0)
    BY DEF PrevRow, NthA
  <2>3. /\ SentA(PrevRow(u))' = SentA(PrevRow(u))
        /\ SkewedA(NthA(u, 0))' = SkewedA(NthA(u, 0))
    BY <2>1, <2>2 DEF SentA, SkewedA
  <2>4. QED
    BY <2>3, RowOn DEF Rows
<1>2. QED
  BY <1>1, SameTiles DEF Rows

(* Rows is the part of the invariant that is about the queues of A.        *)
LEMMA RowsAre ==
  /\ Inv => Rows
  /\ S' = S /\ Rows' => QueuesA' /\ LaneA'
BY DEF Inv, Aligned, QueuesA, Rows, Row, LaneA

(* Tiles arrive in the order of the algorithm.                             *)
LEMMA RowsStep == Inv /\ [Next]_vars => Rows'
<1> SUFFICES ASSUME Inv, [Next]_vars PROVE Rows'
  OBVIOUS
<1>a. S \in Nat \ {0} /\ TypeOK /\ Rows
  BY SizeIs, RowsAre DEF Inv
<1>b. /\ Barrier \in Codelets /\ End \in Codelets
      /\ \A k \in TileKinds, t \in Tile : <<k, t>> \in Codelets
  BY <1>a, Names
<1>1. ASSUME NEW w \in Worker, NEW c \in Codelets, Take(w, c) PROVE Rows'
  <2>1. /\ S' = S /\ aq' = aq /\ iter' = iter /\ at[c] = "ready"
        /\ \A d \in Codelets : at'[d] = IF d = c THEN Entry(c) ELSE at[d]
    BY <1>1, <1>a DEF Take, TypeOK, data
  <2>3. ASSUME NEW v \in Tile
        PROVE  /\ SentA(v)' = SentA(v) /\ PoppedA(v)' = PoppedA(v)
               /\ SkewedA(v)' = SkewedA(v)
               /\ at'[<<"compute", v>>] \in Holding \ {"popB"} => aq[v] # <<>>
    <3>1. /\ at'[<<"compute", v>>] = at[<<"compute", v>>]
             \/ (at[<<"compute", v>>] = "ready" /\ at'[<<"compute", v>>] = "test")
          /\ at'[<<"skew", v>>] = at[<<"skew", v>>]
             \/ (at[<<"skew", v>>] = "ready" /\ at'[<<"skew", v>>] = "pushA")
          /\ at[<<"compute", v>>] \in Holding \ {"popB"} => aq[v] # <<>>
      BY <1>a, <1>b, <2>1, Entries DEF TileKinds, Rows, Row
    <3>2. QED
      BY <2>1, <3>1 DEF SentA, PoppedA, SkewedA, Holding
  <2>4. QED
    BY <1>a, <2>1, <2>3, RowsOn
<1>2. ASSUME NEW w \in Worker, NEW t \in Tile, CopyA(w, t) PROVE Rows'
  <2>1. /\ <<"copyA", t>> \in Codelets /\ <<"skew", t>> \in Codelets
        /\ <<"copyA", t>> # <<"skew", t>> /\ at[<<"copyA", t>>] = "copy"
        /\ at[<<"skew", t>>] = "wait"
    BY <1>2, <1>b, Targets DEF CopyA, In, TileKinds, Barrier, End
  <2>2. /\ S' = S /\ at'[<<"copyA", t>>] = "done"
        /\ at'[<<"skew", t>>] \in {"wait", "ready"}
        /\ \A e \in Codelets : e # <<"copyA", t>> /\ e # <<"skew", t>> => at'[e] = at[e]
        /\ aq' = aq /\ iter' = iter
    BY <1>2, <2>1 DEF CopyA, SignalAndReturn, data
  <2>3. ASSUME NEW v \in Tile
        PROVE  /\ SentA(v)' = SentA(v) /\ PoppedA(v)' = PoppedA(v)
               /\ SkewedA(v)' = SkewedA(v)
               /\ at'[<<"compute", v>>] \in Holding \ {"popB"} => aq[v] # <<>>
    <3>1. /\ <<"compute", v>> \in Codelets /\ <<"skew", v>> \in Codelets
          /\ at[<<"compute", v>>] \in Holding \ {"popB"} => aq[v] # <<>>
      BY <1>a, <1>b DEF TileKinds, Rows, Row
    <3>2. QED
      BY <2>1, <2>2, <3>1 DEF SentA, PoppedA, SkewedA, Holding, Barrier, End
  <2>4. QED
    BY <1>a, <2>2, <2>3, RowsOn
<1>3. ASSUME NEW w \in Worker, NEW t \in Tile, CopyB(w, t) PROVE Rows'
  <2>1. /\ <<"copyB", t>> \in Codelets /\ <<"skew", t>> \in Codelets
        /\ <<"copyB", t>> # <<"skew", t>> /\ at[<<"copyB", t>>] = "copy"
        /\ at[<<"skew", t>>] = "wait"
    BY <1>3, <1>b, Targets DEF CopyB, In, TileKinds, Barrier, End
  <2>2. /\ S' = S /\ at'[<<"copyB", t>>] = "done"
        /\ at'[<<"skew", t>>] \in {"wait", "ready"}
        /\ \A e \in Codelets : e # <<"copyB", t>> /\ e # <<"skew", t>> => at'[e] = at[e]
        /\ aq' = aq /\ iter' = iter
    BY <1>3, <2>1 DEF CopyB, SignalAndReturn, data
  <2>3. ASSUME NEW v \in Tile
        PROVE  /\ SentA(v)' = SentA(v) /\ PoppedA(v)' = PoppedA(v)
               /\ SkewedA(v)' = SkewedA(v)
               /\ at'[<<"compute", v>>] \in Holding \ {"popB"} => aq[v] # <<>>
    <3>1. /\ <<"compute", v>> \in Codelets /\ <<"skew", v>> \in Codelets
          /\ at[<<"compute", v>>] \in Holding \ {"popB"} => aq[v] # <<>>
      BY <1>a, <1>b DEF TileKinds, Rows, Row
    <3>2. QED
      BY <2>1, <2>2, <3>1 DEF SentA, PoppedA, SkewedA, Holding, Barrier, End
  <2>4. QED
    BY <1>a, <2>2, <2>3, RowsOn
<1>4. ASSUME NEW w \in Worker, NEW t \in Tile, SkewA(w, t) PROVE Rows'
  <2>0. PICK u : u = DestRow(t)
    OBVIOUS
  <2>1. /\ S' = S /\ aq' = [aq EXCEPT ![u] = Append(@, t)] /\ iter' = iter
        /\ at[<<"skew", t>>] = "pushA"
        /\ \A d \in Codelets : at'[d] = IF d = <<"skew", t>> THEN "pushB" ELSE at[d]
    BY <1>4, <1>a, <2>0, AtSkew DEF SkewA, In, Goto, TypeOK
  <2>2. \A v \in Tile : at[<<"compute", v>>] = "wait" /\ iter[v] = 0
    BY <2>1, AtSkew
  <2>3. /\ \A v \in Tile : at'[<<"compute", v>>] = at[<<"compute", v>>]
        /\ \A v \in Tile : v # t => at'[<<"skew", v>>] = at[<<"skew", v>>]
        /\ at'[<<"skew", t>>] = "pushB"
    BY <1>b, <2>1 DEF TileKinds
  <2>4. u \in Tile /\ NthA(u, 0) = t /\ PrevRow(u) \in Tile
    BY <1>a, <2>0, Skewing, Torus
  <2>5. ASSUME NEW v \in Tile
        PROVE  SentA(v)' = 0 /\ SentA(v) = 0 /\ PoppedA(v)' = 0 /\ PoppedA(v) = 0
    <3>1. /\ at'[<<"compute", v>>] = "wait" /\ at[<<"compute", v>>] = "wait"
          /\ iter[v] = 0 /\ iter'[v] = 0
      BY <2>1, <2>2, <2>3
    <3>2. QED
      BY <3>1 DEF SentA, PoppedA
  <2>6. Row(u)'
    <3>1. SkewedA(t) = 0 /\ SkewedA(t)' = 1
      BY <2>1, <2>3 DEF SkewedA
    <3>2. aq[u] \in Seq(Tile) /\ Len(aq[u]) = 0 /\ aq'[u] = Append(aq[u], t)
      <4>1. PoppedA(u) + Len(aq[u]) = SkewedA(NthA(u, 0)) + SentA(PrevRow(u))
        BY <1>a, <2>4 DEF Rows, Row
      <4>2. aq[u] \in Seq(Tile) /\ Len(aq[u]) \in Nat
        BY <1>a, <2>4 DEF TypeOK
      <4>3. SentA(PrevRow(u)) = 0 /\ PoppedA(u) = 0
        BY <2>4, <2>5
      <4>4. Len(aq[u]) = 0
        BY <2>4, <3>1, <4>1, <4>2, <4>3
      <4>5. aq'[u] = Append(aq[u], t)
        BY <1>a, <2>1, <2>4 DEF TypeOK
      <4>6. QED
        BY <4>2, <4>4, <4>5
    <3>3. Len(aq'[u]) = 1 /\ aq'[u][1] = t /\ aq'[u] # <<>>
      BY <3>2, Appended
    <3>4. NthA(u, 0)' = t /\ PrevRow(u)' = PrevRow(u) /\ NthA(u, 0)' = NthA(u, 0)
      BY <2>1, <2>4 DEF NthA, PrevRow
    <3>5. PoppedA(u)' + Len(aq'[u]) = SkewedA(NthA(u, 0))' + SentA(PrevRow(u))'
      <4>1. SkewedA(NthA(u, 0))' = 1
        BY <3>1, <3>4 DEF SkewedA
      <4>2. SentA(PrevRow(u))' = 0
        BY <2>4, <2>5, <3>4 DEF SentA
      <4>3. QED
        BY <2>4, <2>5, <3>3, <4>1, <4>2
    <3>6. \A i \in 1 .. Len(aq'[u]) : aq'[u][i] = NthA(u, PoppedA(u) + i - 1)'
      <4>1. SUFFICES NthA(u, PoppedA(u) + 1 - 1)' = t
        BY <3>3
      <4>2. (PoppedA(u) + 1 - 1)' = 0
        BY <2>4, <2>5
      <4>3. QED
        BY <3>4, <4>2 DEF NthA
    <3>7. QED
      BY <3>3, <3>5, <3>6 DEF Row
  <2>7. ASSUME NEW v \in Tile, v # u PROVE Row(v)'
    <3>1. NthA(v, 0) # t /\ NthA(v, 0) \in Tile /\ NthA(v, 0)' = NthA(v, 0)
      <4>1. NthA(v, 0) # t /\ NthA(v, 0) \in Tile
        BY <1>a, <2>0, <2>7, Skewing, Torus
      <4>2. QED
        BY <2>1, <4>1 DEF NthA
    <3>2. SkewedA(NthA(v, 0))' = SkewedA(NthA(v, 0))
      BY <2>3, <3>1 DEF SkewedA
    <3>3. PrevRow(v) \in Tile /\ PrevRow(v)' = PrevRow(v)
      <4>1. PrevRow(v) \in Tile
        BY <1>a, Torus
      <4>2. QED
        BY <2>1, <4>1 DEF PrevRow
    <3>4. SentA(PrevRow(v))' = SentA(PrevRow(v))
      BY <2>3, <3>3, <2>1 DEF SentA
    <3>5. aq'[v] = aq[v]
      BY <1>a, <2>1, <2>7 DEF TypeOK
    <3>6. Row(v) /\ PoppedA(v)' = PoppedA(v) /\ at'[<<"compute", v>>] = "wait"
      BY <1>a, <2>2, <2>3, <2>5 DEF Rows
    <3>7. QED
      BY <2>1, <3>2, <3>4, <3>5, <3>6, RowOn DEF Holding
  <2>8. QED
    BY <2>1, <2>6, <2>7, SameTiles DEF Rows
<1>5. ASSUME NEW w \in Worker, NEW t \in Tile, SkewB(w, t) PROVE Rows'
  <2>1. /\ S' = S /\ aq' = aq /\ iter' = iter
        /\ at[<<"skew", t>>] = "pushB"
        /\ \A d \in Codelets : at'[d] = IF d = <<"skew", t>> THEN "signal" ELSE at[d]
    BY <1>5, <1>a DEF SkewB, In, Goto, TypeOK
  <2>2. ASSUME NEW v \in Tile
        PROVE  /\ SentA(v)' = SentA(v) /\ PoppedA(v)' = PoppedA(v)
               /\ SkewedA(v)' = SkewedA(v)
               /\ at'[<<"compute", v>>] \in Holding \ {"popB"} => aq[v] # <<>>
    <3>1. /\ <<"compute", v>> \in Codelets /\ <<"skew", v>> \in Codelets
          /\ at[<<"compute", v>>] \in Holding \ {"popB"} => aq[v] # <<>>
          /\ iter \in [Tile -> 0 .. S]
      BY <1>a, <1>b DEF TileKinds, Rows, Row, TypeOK
    <3>2. QED
      BY <2>1, <3>1 DEF SentA, PoppedA, SkewedA, Holding
  <2>3. QED
    BY <1>a, <2>1, <2>2, RowsOn
<1>6. ASSUME NEW w \in Worker, NEW t \in Tile, SkewSignal(w, t) PROVE Rows'
  <2>1. /\ <<"skew", t>> \in Codelets /\ Barrier \in Codelets
        /\ <<"skew", t>> # Barrier /\ at[<<"skew", t>>] = "signal"
        /\ at[Barrier] = "wait"
    BY <1>6, <1>b, Targets DEF SkewSignal, In, TileKinds, Barrier, End
  <2>2. /\ S' = S /\ at'[<<"skew", t>>] = "done" /\ at'[Barrier] \in {"wait", "ready"}
        /\ \A e \in Codelets : e # <<"skew", t>> /\ e # Barrier => at'[e] = at[e]
        /\ aq' = aq /\ iter' = iter
    BY <1>6, <2>1 DEF SkewSignal, SignalAndReturn, data
  <2>3. ASSUME NEW v \in Tile
        PROVE  /\ SentA(v)' = SentA(v) /\ PoppedA(v)' = PoppedA(v)
               /\ SkewedA(v)' = SkewedA(v)
               /\ at'[<<"compute", v>>] \in Holding \ {"popB"} => aq[v] # <<>>
    <3>1. /\ <<"compute", v>> \in Codelets /\ <<"skew", v>> \in Codelets
          /\ at[<<"compute", v>>] \in Holding \ {"popB"} => aq[v] # <<>>
      BY <1>a, <1>b DEF TileKinds, Rows, Row
    <3>2. QED
      BY <2>1, <2>2, <3>1 DEF SentA, PoppedA, SkewedA, Holding, Barrier, End
  <2>4. QED
    BY <1>a, <2>2, <2>3, RowsOn
<1>7. ASSUME NEW w \in Worker, BarrierFire(w) PROVE Rows'
  <2>1. /\ S' = S /\ aq' = aq /\ iter' = iter
        /\ \A d \in Codelets : d # Barrier => at'[d] \in {at[d], "ready"}
        /\ \A d \in Codelets : d[1] # "compute" /\ d # Barrier => at'[d] = at[d]
    BY <1>7, BarrierReturned DEF BarrierFire, SignalAndReturn, data
  <2>2. \A u \in Tile : at[<<"compute", u>>] = "wait"
    BY <1>7, <1>a, Names, AtBarrier DEF BarrierFire, Inv, Alone, InBody
  <2>3. ASSUME NEW v \in Tile
        PROVE  /\ SentA(v)' = SentA(v) /\ PoppedA(v)' = PoppedA(v)
               /\ SkewedA(v)' = SkewedA(v)
               /\ at'[<<"compute", v>>] \in Holding \ {"popB"} => aq[v] # <<>>
    <3>1. /\ at'[<<"compute", v>>] \in {"wait", "ready"}
          /\ at[<<"compute", v>>] = "wait"
          /\ at'[<<"skew", v>>] = at[<<"skew", v>>]
      BY <1>b, <2>1, <2>2 DEF TileKinds, Barrier
    <3>2. QED
      BY <2>1, <2>2, <3>1 DEF SentA, PoppedA, SkewedA, Holding
  <2>4. QED
    BY <1>a, <2>1, <2>3, RowsOn
<1>8. ASSUME NEW w \in Worker, NEW t \in Tile, Multiply(w, t) PROVE Rows'
  <2>1. /\ S' = S /\ aq' = aq /\ iter' = iter /\ aq[t] # <<>>
        /\ at[<<"compute", t>>] = "test"
        /\ \A d \in Codelets : at'[d] = IF d = <<"compute", t>> THEN "pushA" ELSE at[d]
    BY <1>8, <1>a DEF Multiply, In, Goto, TypeOK
  <2>2. ASSUME NEW v \in Tile
        PROVE  /\ SentA(v)' = SentA(v) /\ PoppedA(v)' = PoppedA(v)
               /\ SkewedA(v)' = SkewedA(v)
               /\ at'[<<"compute", v>>] \in Holding \ {"popB"} => aq[v] # <<>>
    <3>1. /\ <<"compute", v>> \in Codelets /\ <<"skew", v>> \in Codelets
          /\ at[<<"compute", v>>] \in Holding \ {"popB"} => aq[v] # <<>>
          /\ iter \in [Tile -> 0 .. S]
      BY <1>a, <1>b DEF TileKinds, Rows, Row, TypeOK
    <3>2. QED
      BY <2>1, <3>1 DEF SentA, PoppedA, SkewedA, Holding
  <2>3. QED
    BY <1>a, <2>1, <2>2, RowsOn
<1>9. ASSUME NEW w \in Worker, NEW t \in Tile, PushA(w, t) PROVE Rows'
  <2>0. PICK u, h : u = NextRow(t) /\ h = Head(aq[t])
    OBVIOUS
  <2>1. /\ S' = S /\ aq' = [aq EXCEPT ![u] = Append(@, h)] /\ iter' = iter
        /\ at[<<"compute", t>>] = "pushA"
        /\ \A d \in Codelets : at'[d] = IF d = <<"compute", t>> THEN "pushB" ELSE at[d]
    BY <1>9, <1>a, <2>0 DEF PushA, In, Goto, TypeOK
  <2>2. \A s \in Tile : at[<<"skew", s>>] = "done"
    BY <2>1, AtCompute
  <2>3. /\ \A v \in Tile : v # t => at'[<<"compute", v>>] = at[<<"compute", v>>]
        /\ at'[<<"compute", t>>] = "pushB"
        /\ \A v \in Tile : at'[<<"skew", v>>] = "done"
    BY <1>b, <2>1, <2>2 DEF TileKinds
  <2>4. u \in Tile /\ PrevRow(u) = t
    BY <1>a, <2>0, Passing, Torus
  <2>5. /\ iter[t] \in Nat /\ SentA(t) = iter[t] /\ SentA(t)' = iter[t] + 1
        /\ PoppedA(t) = iter[t]
        /\ \A v \in Tile : /\ v # t => SentA(v)' = SentA(v)
                           /\ PoppedA(v)' = PoppedA(v)
                           /\ SkewedA(v)' = 1 /\ SkewedA(v) = 1
    <3>1. iter[t] \in Nat
      BY <1>a DEF TypeOK
    <3>2. /\ SentA(t) = iter[t] /\ SentA(t)' = iter[t] + 1
          /\ PoppedA(t) = iter[t] /\ PoppedA(t)' = iter[t]
      BY <2>1, <2>3, <3>1 DEF SentA, PoppedA
    <3>3. ASSUME NEW v \in Tile
          PROVE  /\ v # t => SentA(v)' = SentA(v)
                 /\ PoppedA(v)' = PoppedA(v)
                 /\ SkewedA(v)' = 1 /\ SkewedA(v) = 1
      BY <2>1, <2>2, <2>3 DEF SentA, PoppedA, SkewedA
    <3>4. QED
      BY <3>1, <3>2, <3>3
  <2>6. h \in Tile /\ h = NthA(u, iter[t] + 1)
    <3>1. aq[t] \in Seq(Tile) /\ aq[t] # <<>> /\ h = Head(aq[t])
      BY <1>a, <2>0, <2>1 DEF TypeOK, Rows, Row, Holding
    <3>2. h = aq[t][1] /\ h \in Tile /\ 1 \in 1 .. Len(aq[t])
      BY <3>1, Popped
    <3>3. aq[t][1] = NthA(t, PoppedA(t) + 1 - 1)
      BY <1>a, <3>2 DEF Rows, Row
    <3>4. PoppedA(t) + 1 - 1 = iter[t] /\ iter[t] \in Int
      BY <2>5
    <3>5. QED
      BY <1>a, <2>0, <3>2, <3>3, <3>4, Shifting
  <2>7. Row(u)'
    <3>1. aq[u] \in Seq(Tile) /\ PoppedA(u) \in Nat /\ NthA(u, 0) \in Tile
      <4>1. aq[u] \in Seq(Tile) /\ iter[u] \in Nat
        BY <1>a, <2>4 DEF TypeOK
      <4>2. QED
        BY <1>a, <2>4, <4>1, Torus DEF PoppedA
    <3>2. PoppedA(u) + Len(aq[u]) = 1 + iter[t]
      BY <1>a, <2>4, <2>5, <3>1 DEF Rows, Row
    <3>3. aq'[u] = Append(aq[u], h)
      BY <1>a, <2>1, <2>4 DEF TypeOK
    <3>4. /\ Len(aq[u]) \in Nat /\ Len(aq'[u]) = Len(aq[u]) + 1 /\ aq'[u] # <<>>
          /\ \A i \in 1 .. Len(aq[u]) : aq'[u][i] = aq[u][i]
          /\ aq'[u][Len(aq[u]) + 1] = h
      BY <2>6, <3>1, <3>3, Appended
    <3>5. /\ PrevRow(u)' = PrevRow(u) /\ \A n : NthA(u, n)' = NthA(u, n)
      BY <2>1 DEF PrevRow, NthA
    <3>6. PoppedA(u)' + Len(aq'[u]) = SkewedA(NthA(u, 0))' + SentA(PrevRow(u))'
      <4>1. SkewedA(NthA(u, 0))' = 1
        BY <2>3, <3>1, <3>5 DEF SkewedA
      <4>2. SentA(PrevRow(u))' = iter[t] + 1
        BY <2>4, <2>5, <3>5 DEF SentA
      <4>3. QED
        BY <2>4, <2>5, <3>1, <3>2, <3>4, <4>1, <4>2
    <3>7. ASSUME NEW i \in 1 .. Len(aq'[u])
          PROVE  aq'[u][i] = NthA(u, PoppedA(u) + i - 1)'
      <4>1. SUFFICES aq'[u][i] = NthA(u, PoppedA(u) + i - 1)
        BY <2>4, <2>5, <3>5 DEF NthA
      <4>2. CASE i \in 1 .. Len(aq[u])
        BY <1>a, <2>4, <3>4, <4>2 DEF Rows, Row
      <4>3. CASE i = Len(aq[u]) + 1
        <5>1. PoppedA(u) + i - 1 = iter[t] + 1
          BY <2>5, <3>1, <3>2, <3>4, <4>3
        <5>2. QED
          BY <2>6, <3>4, <4>3, <5>1
      <4>4. QED
        BY <3>4, <4>2, <4>3
    <3>8. QED
      BY <3>4, <3>6, <3>7 DEF Row
  <2>8. ASSUME NEW v \in Tile, v # u PROVE Row(v)'
    <3>1. /\ PrevRow(v) \in Tile /\ PrevRow(v) # t /\ NthA(v, 0) \in Tile
          /\ PrevRow(v)' = PrevRow(v) /\ NthA(v, 0)' = NthA(v, 0)
      <4>1. PrevRow(v) \in Tile /\ PrevRow(v) # t /\ NthA(v, 0) \in Tile
        BY <1>a, <2>0, <2>8, Passing, Torus
      <4>2. QED
        BY <2>1, <4>1 DEF PrevRow, NthA
    <3>2. SkewedA(NthA(v, 0))' = SkewedA(NthA(v, 0))
      BY <2>2, <2>3, <3>1 DEF SkewedA
    <3>3. SentA(PrevRow(v))' = SentA(PrevRow(v))
      BY <2>1, <2>3, <3>1 DEF SentA
    <3>4. aq'[v] = aq[v] /\ Row(v) /\ PoppedA(v)' = PoppedA(v)
      BY <1>a, <2>1, <2>5, <2>8 DEF TypeOK, Rows
    <3>5. at'[<<"compute", v>>] \in Holding \ {"popB"} => aq[v] # <<>>
      BY <2>1, <2>3, <3>4 DEF Row, Holding
    <3>6. QED
      BY <2>1, <3>2, <3>3, <3>4, <3>5, RowOn
  <2>9. QED
    BY <2>1, <2>7, <2>8, SameTiles DEF Rows
<1>10. ASSUME NEW w \in Worker, NEW t \in Tile, PushB(w, t) PROVE Rows'
  <2>1. /\ S' = S /\ aq' = aq /\ iter' = iter
        /\ at[<<"compute", t>>] = "pushB"
        /\ \A d \in Codelets : at'[d] = IF d = <<"compute", t>> THEN "popA" ELSE at[d]
    BY <1>10, <1>a DEF PushB, In, Goto, TypeOK
  <2>2. ASSUME NEW v \in Tile
        PROVE  /\ SentA(v)' = SentA(v) /\ PoppedA(v)' = PoppedA(v)
               /\ SkewedA(v)' = SkewedA(v)
               /\ at'[<<"compute", v>>] \in Holding \ {"popB"} => aq[v] # <<>>
    <3>1. /\ <<"compute", v>> \in Codelets /\ <<"skew", v>> \in Codelets
          /\ at[<<"compute", v>>] \in Holding \ {"popB"} => aq[v] # <<>>
          /\ iter \in [Tile -> 0 .. S]
      BY <1>a, <1>b DEF TileKinds, Rows, Row, TypeOK
    <3>2. QED
      BY <2>1, <3>1 DEF SentA, PoppedA, SkewedA, Holding
  <2>3. QED
    BY <1>a, <2>1, <2>2, RowsOn
<1>11. ASSUME NEW w \in Worker, NEW t \in Tile, PopA(w, t) PROVE Rows'
  <2>1. /\ S' = S /\ aq' = [aq EXCEPT ![t] = Tail(@)] /\ iter' = iter
        /\ at[<<"compute", t>>] = "popA"
        /\ \A d \in Codelets : at'[d] = IF d = <<"compute", t>> THEN "popB" ELSE at[d]
    BY <1>11, <1>a DEF PopA, In, Goto, TypeOK
  <2>2. /\ \A v \in Tile : v # t => at'[<<"compute", v>>] = at[<<"compute", v>>]
        /\ at'[<<"compute", t>>] = "popB"
        /\ \A v \in Tile : at'[<<"skew", v>>] = at[<<"skew", v>>]
    BY <1>b, <2>1 DEF TileKinds
  <2>3. /\ PoppedA(t) = iter[t] /\ PoppedA(t)' = iter[t] + 1 /\ iter[t] \in Nat
        /\ \A v \in Tile : /\ v # t => PoppedA(v)' = PoppedA(v)
                           /\ SentA(v)' = SentA(v) /\ SkewedA(v)' = SkewedA(v)
    <3>1. iter[t] \in Nat /\ \A v \in Tile : iter'[v] = IF v = t THEN iter[t] ELSE iter[v]
      BY <1>a, <2>1 DEF TypeOK
    <3>2. /\ PoppedA(t) = iter[t] /\ PoppedA(t)' = iter[t] + 1 /\ SentA(t)' = SentA(t)
      BY <2>1, <2>2, <3>1 DEF SentA, PoppedA
    <3>3. ASSUME NEW v \in Tile
          PROVE  /\ v # t => PoppedA(v)' = PoppedA(v)
                 /\ SentA(v)' = SentA(v)
                 /\ SkewedA(v)' = SkewedA(v)
      BY <2>2, <3>1, <3>2 DEF SentA, PoppedA, SkewedA
    <3>4. QED
      BY <3>1, <3>2, <3>3
  <2>4. ASSUME NEW v \in Tile
        PROVE  /\ SkewedA(NthA(v, 0))' = SkewedA(NthA(v, 0))
               /\ SentA(PrevRow(v))' = SentA(PrevRow(v))
    <3>0. PICK p, n : p = PrevRow(v) /\ n = NthA(v, 0)
      OBVIOUS
    <3>1. p \in Tile /\ n \in Tile
      BY <1>a, <3>0, Torus
    <3>2. PrevRow(v)' = p /\ NthA(v, 0)' = n
      BY <2>1, <3>0 DEF PrevRow, NthA
    <3>3. SentA(p)' = SentA(p) /\ SkewedA(n)' = SkewedA(n)
      BY <2>3, <3>1
    <3>4. SentA(PrevRow(v))' = SentA(p)' /\ SkewedA(NthA(v, 0))' = SkewedA(n)'
      BY <3>2 DEF SentA, SkewedA
    <3>5. QED
      BY <3>0, <3>3, <3>4
  <2>5. Row(t)'
    <3>1. aq[t] \in Seq(Tile) /\ aq[t] # <<>> /\ aq'[t] = Tail(aq[t])
      BY <1>a, <2>1 DEF TypeOK, Rows, Row, Holding
    <3>2. /\ Len(aq[t]) \in Nat \ {0} /\ Len(aq'[t]) = Len(aq[t]) - 1
          /\ \A i \in 1 .. Len(aq[t]) - 1 : aq'[t][i] = aq[t][i + 1]
      BY <3>1, Popped
    <3>3. PoppedA(t) + Len(aq[t]) = SkewedA(NthA(t, 0)) + SentA(PrevRow(t))
      BY <1>a DEF Rows, Row
    <3>4. PoppedA(t)' + Len(aq'[t]) = SkewedA(NthA(t, 0))' + SentA(PrevRow(t))'
      <4>1. /\ SkewedA(NthA(t, 0))' = SkewedA(NthA(t, 0))
            /\ SentA(PrevRow(t))' = SentA(PrevRow(t))
        BY <2>4
      <4>2. PoppedA(t)' + Len(aq'[t]) = PoppedA(t) + Len(aq[t])
        <5>1. PoppedA(t) \in Nat /\ PoppedA(t)' = PoppedA(t) + 1
          BY <2>3
        <5>2. Len(aq[t]) \in Nat /\ Len(aq'[t]) = Len(aq[t]) - 1
          BY <3>2
        <5>3. QED
          BY <5>1, <5>2
      <4>3. QED
        BY <3>3, <4>1, <4>2
    <3>5. ASSUME NEW i \in 1 .. Len(aq'[t])
          PROVE  aq'[t][i] = NthA(t, PoppedA(t) + i - 1)'
      <4>1. aq'[t][i] = aq[t][i + 1] /\ i + 1 \in 1 .. Len(aq[t])
        BY <3>2
      <4>2. aq[t][i + 1] = NthA(t, PoppedA(t) + (i + 1) - 1)
        BY <1>a, <4>1 DEF Rows, Row
      <4>3. (PoppedA(t) + i - 1)' = PoppedA(t) + (i + 1) - 1
        BY <2>3
      <4>4. QED
        BY <2>1, <4>1, <4>2, <4>3 DEF NthA
    <3>6. at'[<<"compute", t>>] \notin Holding \ {"popB"}
      BY <2>2 DEF Holding
    <3>7. QED
      BY <3>4, <3>5, <3>6 DEF Row
  <2>6. ASSUME NEW v \in Tile, v # t PROVE Row(v)'
    <3>1. aq'[v] = aq[v] /\ Row(v) /\ PoppedA(v)' = PoppedA(v)
      BY <1>a, <2>1, <2>3, <2>6 DEF TypeOK, Rows
    <3>2. at'[<<"compute", v>>] \in Holding \ {"popB"} => aq[v] # <<>>
      BY <2>2, <2>6, <3>1 DEF Row
    <3>3. QED
      BY <2>1, <2>4, <3>1, <3>2, RowOn
  <2>7. QED
    BY <2>1, <2>5, <2>6, SameTiles DEF Rows
<1>12. ASSUME NEW w \in Worker, NEW t \in Tile, PopB(w, t) PROVE Rows'
  <2>1. /\ S' = S /\ aq' = aq /\ iter' = [iter EXCEPT ![t] = @ + 1]
        /\ at[<<"compute", t>>] = "popB"
        /\ \A d \in Codelets : at'[d] = IF d = <<"compute", t>> THEN "test" ELSE at[d]
    BY <1>12, <1>a DEF PopB, In, Goto, TypeOK
  <2>2. ASSUME NEW v \in Tile
        PROVE  /\ SentA(v)' = SentA(v) /\ PoppedA(v)' = PoppedA(v)
               /\ SkewedA(v)' = SkewedA(v)
               /\ at'[<<"compute", v>>] \in Holding \ {"popB"} => aq[v] # <<>>
    <3>1. /\ <<"compute", v>> \in Codelets /\ <<"skew", v>> \in Codelets
          /\ at[<<"compute", v>>] \in Holding \ {"popB"} => aq[v] # <<>>
          /\ iter \in [Tile -> 0 .. S]
      BY <1>a, <1>b DEF TileKinds, Rows, Row, TypeOK
    <3>2. /\ iter[v] \in Nat /\ iter'[v] = IF v = t THEN iter[v] + 1 ELSE iter[v]
          /\ at'[<<"compute", v>>] = IF v = t THEN "test" ELSE at[<<"compute", v>>]
          /\ at'[<<"skew", v>>] = at[<<"skew", v>>]
      BY <2>1, <3>1
    <3>3. QED
      BY SMTT(30), <2>1, <3>1, <3>2 DEF SentA, PoppedA, SkewedA, Holding
  <2>3. QED
    BY <1>a, <2>1, <2>2, RowsOn
<1>13. ASSUME NEW w \in Worker, NEW t \in Tile, Finish(w, t) PROVE Rows'
  <2>1. /\ <<"compute", t>> \in Codelets /\ <<"copyC", t>> \in Codelets
        /\ <<"compute", t>> # <<"copyC", t>> /\ at[<<"compute", t>>] = "test"
        /\ at[<<"copyC", t>>] = "wait"
    BY <1>13, <1>b, Targets DEF Finish, In, TileKinds, Barrier, End
  <2>2. /\ S' = S /\ at'[<<"compute", t>>] = "done"
        /\ at'[<<"copyC", t>>] \in {"wait", "ready"}
        /\ \A e \in Codelets : e # <<"compute", t>> /\ e # <<"copyC", t>> => at'[e] = at[e]
        /\ aq' = aq /\ iter' = iter
    BY <1>13, <2>1 DEF Finish, SignalAndReturn, data
  <2>3. ASSUME NEW v \in Tile
        PROVE  /\ SentA(v)' = SentA(v) /\ PoppedA(v)' = PoppedA(v)
               /\ SkewedA(v)' = SkewedA(v)
               /\ at'[<<"compute", v>>] \in Holding \ {"popB"} => aq[v] # <<>>
    <3>1. /\ <<"compute", v>> \in Codelets /\ <<"skew", v>> \in Codelets
          /\ at[<<"compute", v>>] \in Holding \ {"popB"} => aq[v] # <<>>
      BY <1>a, <1>b DEF TileKinds, Rows, Row
    <3>2. QED
      BY <2>1, <2>2, <3>1 DEF SentA, PoppedA, SkewedA, Holding, Barrier, End
  <2>4. QED
    BY <1>a, <2>2, <2>3, RowsOn
<1>14. ASSUME NEW w \in Worker, NEW t \in Tile, CopyC(w, t) PROVE Rows'
  <2>1. /\ <<"copyC", t>> \in Codelets /\ End \in Codelets /\ <<"copyC", t>> # End
        /\ at[<<"copyC", t>>] = "copy"
        /\ at[End] = "wait"
    BY <1>14, <1>b, Targets DEF CopyC, In, TileKinds, Barrier, End
  <2>2. /\ S' = S /\ at'[<<"copyC", t>>] = "done" /\ at'[End] \in {"wait", "ready"}
        /\ \A e \in Codelets : e # <<"copyC", t>> /\ e # End => at'[e] = at[e]
        /\ aq' = aq /\ iter' = iter
    BY <1>14, <2>1 DEF CopyC, SignalAndReturn, data
  <2>3. ASSUME NEW v \in Tile
        PROVE  /\ SentA(v)' = SentA(v) /\ PoppedA(v)' = PoppedA(v)
               /\ SkewedA(v)' = SkewedA(v)
               /\ at'[<<"compute", v>>] \in Holding \ {"popB"} => aq[v] # <<>>
    <3>1. /\ <<"compute", v>> \in Codelets /\ <<"skew", v>> \in Codelets
          /\ at[<<"compute", v>>] \in Holding \ {"popB"} => aq[v] # <<>>
      BY <1>a, <1>b DEF TileKinds, Rows, Row
    <3>2. QED
      BY <2>1, <2>2, <3>1 DEF SentA, PoppedA, SkewedA, Holding, Barrier, End
  <2>4. QED
    BY <1>a, <2>2, <2>3, RowsOn
<1>15. ASSUME NEW w \in Worker, EndFire(w) PROVE Rows'
  <2>1. /\ S' = S /\ aq' = aq /\ iter' = iter
        /\ \A d \in Codelets : at'[d] = IF d = End THEN "done" ELSE at[d]
    BY <1>15, <1>a DEF EndFire, TypeOK, data
  <2>2. \A k \in TileKinds, u \in Tile : at'[<<k, u>>] = at[<<k, u>>]
    BY <1>b, <2>1 DEF TileKinds, End
  <2>3. ASSUME NEW v \in Tile
        PROVE  /\ SentA(v)' = SentA(v) /\ PoppedA(v)' = PoppedA(v)
               /\ SkewedA(v)' = SkewedA(v)
               /\ at'[<<"compute", v>>] \in Holding \ {"popB"} => aq[v] # <<>>
    <3>1. /\ at'[<<"compute", v>>] = at[<<"compute", v>>]
          /\ at'[<<"skew", v>>] = at[<<"skew", v>>]
          /\ at[<<"compute", v>>] \in Holding \ {"popB"} => aq[v] # <<>>
      BY <1>a, <2>2 DEF TileKinds, Rows, Row
    <3>2. QED
      BY <2>1, <2>2, <3>1 DEF SentA, PoppedA, SkewedA, Holding
  <2>4. QED
    BY <1>a, <2>1, <2>3, RowsOn
<1>16. CASE UNCHANGED vars
  <2>1. S' = S /\ UNCHANGED <<at, iter, aq>>
    BY <1>16 DEF vars, data
  <2>2. \A v \in Tile : /\ SentA(v)' = SentA(v) /\ PoppedA(v)' = PoppedA(v)
                        /\ SkewedA(v)' = SkewedA(v)
                        /\ at[<<"compute", v>>] \in Holding \ {"popB"} => aq[v] # <<>>
    BY <1>a, <2>1 DEF SentA, PoppedA, SkewedA, Rows, Row
  <2>3. QED
    BY <1>a, <2>1, <2>2, RowsOn
<1>17. QED
  BY <1>1, <1>2, <1>3, <1>4, <1>5, <1>6, <1>7, <1>8, <1>9, <1>10, <1>11,
     <1>12, <1>13, <1>14, <1>15, <1>16 DEF Next, Step, Fire

-----------------------------------------------------------------------------
(* The queues of B, tile by tile.                                          *)
Column(t) ==
  /\ PoppedB(t) + Len(bq[t]) = SkewedB(NthB(t, 0)) + SentB(PrevCol(t))
  /\ at[<<"compute", t>>] \in Holding => bq[t] # <<>>
  /\ \A i \in 1 .. Len(bq[t]) : bq[t][i] = NthB(t, PoppedB(t) + i - 1)

Columns == \A t \in Tile : Column(t)

(* A step that leaves the queue of a tile, and those that fill it, alone.  *)
LEMMA ColumnOn ==
  ASSUME S' = S, NEW u \in Tile, Column(u), bq'[u] = bq[u], PoppedB(u)' = PoppedB(u),
         SkewedB(NthB(u, 0))' = SkewedB(NthB(u, 0)), SentB(PrevCol(u))' = SentB(PrevCol(u)),
         at'[<<"compute", u>>] \in Holding => bq[u] # <<>>
  PROVE  Column(u)'
<1>1. \A n : NthB(u, n)' = NthB(u, n)
  BY DEF NthB
<1>2. QED
  BY <1>1 DEF Column

(* A step that moves no tile of B keeps them all.                          *)
LEMMA ColumnsOn ==
  ASSUME Inv, Columns, S' = S, bq' = bq,
         \A v \in Tile : /\ SentB(v)' = SentB(v) /\ PoppedB(v)' = PoppedB(v)
                         /\ SkewedB(v)' = SkewedB(v)
                         /\ at'[<<"compute", v>>] \in Holding => bq[v] # <<>>
  PROVE  Columns'
<1>1. ASSUME NEW u \in Tile PROVE Column(u)'
  <2>1. PrevCol(u) \in Tile /\ NthB(u, 0) \in Tile
    BY SizeIs, Torus
  <2>2. PrevCol(u)' = PrevCol(u) /\ NthB(u, 0)' = NthB(u, 0)
    BY DEF PrevCol, NthB
  <2>3. /\ SentB(PrevCol(u))' = SentB(PrevCol(u))
        /\ SkewedB(NthB(u, 0))' = SkewedB(NthB(u, 0))
    BY <2>1, <2>2 DEF SentB, SkewedB
  <2>4. QED
    BY <2>3, ColumnOn DEF Columns
<1>2. QED
  BY <1>1, SameTiles DEF Columns

(* Columns is the part of the invariant that is about the queues of B.     *)
LEMMA ColumnsAre ==
  /\ Inv => Columns
  /\ S' = S /\ Columns' => QueuesB' /\ LaneB'
BY DEF Inv, Aligned, QueuesB, Columns, Column, LaneB

(* Tiles arrive in the order of the algorithm.                             *)
LEMMA ColumnsStep == Inv /\ [Next]_vars => Columns'
<1> SUFFICES ASSUME Inv, [Next]_vars PROVE Columns'
  OBVIOUS
<1>a. S \in Nat \ {0} /\ TypeOK /\ Columns
  BY SizeIs, ColumnsAre DEF Inv
<1>b. /\ Barrier \in Codelets /\ End \in Codelets
      /\ \A k \in TileKinds, t \in Tile : <<k, t>> \in Codelets
  BY <1>a, Names
<1>1. ASSUME NEW w \in Worker, NEW c \in Codelets, Take(w, c) PROVE Columns'
  <2>1. /\ S' = S /\ bq' = bq /\ iter' = iter /\ at[c] = "ready"
        /\ \A d \in Codelets : at'[d] = IF d = c THEN Entry(c) ELSE at[d]
    BY <1>1, <1>a DEF Take, TypeOK, data
  <2>3. ASSUME NEW v \in Tile
        PROVE  /\ SentB(v)' = SentB(v) /\ PoppedB(v)' = PoppedB(v)
               /\ SkewedB(v)' = SkewedB(v)
               /\ at'[<<"compute", v>>] \in Holding => bq[v] # <<>>
    <3>1. /\ at'[<<"compute", v>>] = at[<<"compute", v>>]
             \/ (at[<<"compute", v>>] = "ready" /\ at'[<<"compute", v>>] = "test")
          /\ at'[<<"skew", v>>] = at[<<"skew", v>>]
             \/ (at[<<"skew", v>>] = "ready" /\ at'[<<"skew", v>>] = "pushA")
          /\ at[<<"compute", v>>] \in Holding => bq[v] # <<>>
      BY <1>a, <1>b, <2>1, Entries DEF TileKinds, Columns, Column
    <3>2. QED
      BY <2>1, <3>1 DEF SentB, PoppedB, SkewedB, Holding
  <2>4. QED
    BY <1>a, <2>1, <2>3, ColumnsOn
<1>2. ASSUME NEW w \in Worker, NEW t \in Tile, CopyA(w, t) PROVE Columns'
  <2>1. /\ <<"copyA", t>> \in Codelets /\ <<"skew", t>> \in Codelets
        /\ <<"copyA", t>> # <<"skew", t>> /\ at[<<"copyA", t>>] = "copy"
        /\ at[<<"skew", t>>] = "wait"
    BY <1>2, <1>b, Targets DEF CopyA, In, TileKinds, Barrier, End
  <2>2. /\ S' = S /\ at'[<<"copyA", t>>] = "done"
        /\ at'[<<"skew", t>>] \in {"wait", "ready"}
        /\ \A e \in Codelets : e # <<"copyA", t>> /\ e # <<"skew", t>> => at'[e] = at[e]
        /\ bq' = bq /\ iter' = iter
    BY <1>2, <2>1 DEF CopyA, SignalAndReturn, data
  <2>3. ASSUME NEW v \in Tile
        PROVE  /\ SentB(v)' = SentB(v) /\ PoppedB(v)' = PoppedB(v)
               /\ SkewedB(v)' = SkewedB(v)
               /\ at'[<<"compute", v>>] \in Holding => bq[v] # <<>>
    <3>1. /\ <<"compute", v>> \in Codelets /\ <<"skew", v>> \in Codelets
          /\ at[<<"compute", v>>] \in Holding => bq[v] # <<>>
      BY <1>a, <1>b DEF TileKinds, Columns, Column
    <3>2. QED
      BY <2>1, <2>2, <3>1 DEF SentB, PoppedB, SkewedB, Holding, Barrier, End
  <2>4. QED
    BY <1>a, <2>2, <2>3, ColumnsOn
<1>3. ASSUME NEW w \in Worker, NEW t \in Tile, CopyB(w, t) PROVE Columns'
  <2>1. /\ <<"copyB", t>> \in Codelets /\ <<"skew", t>> \in Codelets
        /\ <<"copyB", t>> # <<"skew", t>> /\ at[<<"copyB", t>>] = "copy"
        /\ at[<<"skew", t>>] = "wait"
    BY <1>3, <1>b, Targets DEF CopyB, In, TileKinds, Barrier, End
  <2>2. /\ S' = S /\ at'[<<"copyB", t>>] = "done"
        /\ at'[<<"skew", t>>] \in {"wait", "ready"}
        /\ \A e \in Codelets : e # <<"copyB", t>> /\ e # <<"skew", t>> => at'[e] = at[e]
        /\ bq' = bq /\ iter' = iter
    BY <1>3, <2>1 DEF CopyB, SignalAndReturn, data
  <2>3. ASSUME NEW v \in Tile
        PROVE  /\ SentB(v)' = SentB(v) /\ PoppedB(v)' = PoppedB(v)
               /\ SkewedB(v)' = SkewedB(v)
               /\ at'[<<"compute", v>>] \in Holding => bq[v] # <<>>
    <3>1. /\ <<"compute", v>> \in Codelets /\ <<"skew", v>> \in Codelets
          /\ at[<<"compute", v>>] \in Holding => bq[v] # <<>>
      BY <1>a, <1>b DEF TileKinds, Columns, Column
    <3>2. QED
      BY <2>1, <2>2, <3>1 DEF SentB, PoppedB, SkewedB, Holding, Barrier, End
  <2>4. QED
    BY <1>a, <2>2, <2>3, ColumnsOn
<1>4. ASSUME NEW w \in Worker, NEW t \in Tile, SkewA(w, t) PROVE Columns'
  <2>1. /\ S' = S /\ bq' = bq /\ iter' = iter
        /\ at[<<"skew", t>>] = "pushA"
        /\ \A d \in Codelets : at'[d] = IF d = <<"skew", t>> THEN "pushB" ELSE at[d]
    BY <1>4, <1>a DEF SkewA, In, Goto, TypeOK
  <2>2. ASSUME NEW v \in Tile
        PROVE  /\ SentB(v)' = SentB(v) /\ PoppedB(v)' = PoppedB(v)
               /\ SkewedB(v)' = SkewedB(v)
               /\ at'[<<"compute", v>>] \in Holding => bq[v] # <<>>
    <3>1. /\ <<"compute", v>> \in Codelets /\ <<"skew", v>> \in Codelets
          /\ at[<<"compute", v>>] \in Holding => bq[v] # <<>>
          /\ iter \in [Tile -> 0 .. S]
      BY <1>a, <1>b DEF TileKinds, Columns, Column, TypeOK
    <3>2. QED
      BY <2>1, <3>1 DEF SentB, PoppedB, SkewedB, Holding
  <2>3. QED
    BY <1>a, <2>1, <2>2, ColumnsOn
<1>5. ASSUME NEW w \in Worker, NEW t \in Tile, SkewB(w, t) PROVE Columns'
  <2>0. PICK u : u = DestCol(t)
    OBVIOUS
  <2>1. /\ S' = S /\ bq' = [bq EXCEPT ![u] = Append(@, t)] /\ iter' = iter
        /\ at[<<"skew", t>>] = "pushB"
        /\ \A d \in Codelets : at'[d] = IF d = <<"skew", t>> THEN "signal" ELSE at[d]
    BY <1>5, <1>a, <2>0, AtSkew DEF SkewB, In, Goto, TypeOK
  <2>2. \A v \in Tile : at[<<"compute", v>>] = "wait" /\ iter[v] = 0
    BY <2>1, AtSkew
  <2>3. /\ \A v \in Tile : at'[<<"compute", v>>] = at[<<"compute", v>>]
        /\ \A v \in Tile : v # t => at'[<<"skew", v>>] = at[<<"skew", v>>]
        /\ at'[<<"skew", t>>] = "signal"
    BY <1>b, <2>1 DEF TileKinds
  <2>4. u \in Tile /\ NthB(u, 0) = t /\ PrevCol(u) \in Tile
    BY <1>a, <2>0, Skewing, Torus
  <2>5. ASSUME NEW v \in Tile
        PROVE  SentB(v)' = 0 /\ SentB(v) = 0 /\ PoppedB(v)' = 0 /\ PoppedB(v) = 0
    <3>1. /\ at'[<<"compute", v>>] = "wait" /\ at[<<"compute", v>>] = "wait"
          /\ iter[v] = 0 /\ iter'[v] = 0
      BY <2>1, <2>2, <2>3
    <3>2. QED
      BY <3>1 DEF SentB, PoppedB
  <2>6. Column(u)'
    <3>1. SkewedB(t) = 0 /\ SkewedB(t)' = 1
      BY <2>1, <2>3 DEF SkewedB
    <3>2. bq[u] \in Seq(Tile) /\ Len(bq[u]) = 0 /\ bq'[u] = Append(bq[u], t)
      <4>1. PoppedB(u) + Len(bq[u]) = SkewedB(NthB(u, 0)) + SentB(PrevCol(u))
        BY <1>a, <2>4 DEF Columns, Column
      <4>2. bq[u] \in Seq(Tile) /\ Len(bq[u]) \in Nat
        BY <1>a, <2>4 DEF TypeOK
      <4>3. SentB(PrevCol(u)) = 0 /\ PoppedB(u) = 0
        BY <2>4, <2>5
      <4>4. Len(bq[u]) = 0
        BY <2>4, <3>1, <4>1, <4>2, <4>3
      <4>5. bq'[u] = Append(bq[u], t)
        BY <1>a, <2>1, <2>4 DEF TypeOK
      <4>6. QED
        BY <4>2, <4>4, <4>5
    <3>3. Len(bq'[u]) = 1 /\ bq'[u][1] = t /\ bq'[u] # <<>>
      BY <3>2, Appended
    <3>4. NthB(u, 0)' = t /\ PrevCol(u)' = PrevCol(u) /\ NthB(u, 0)' = NthB(u, 0)
      BY <2>1, <2>4 DEF NthB, PrevCol
    <3>5. PoppedB(u)' + Len(bq'[u]) = SkewedB(NthB(u, 0))' + SentB(PrevCol(u))'
      <4>1. SkewedB(NthB(u, 0))' = 1
        BY <3>1, <3>4 DEF SkewedB
      <4>2. SentB(PrevCol(u))' = 0
        BY <2>4, <2>5, <3>4 DEF SentB
      <4>3. QED
        BY <2>4, <2>5, <3>3, <4>1, <4>2
    <3>6. \A i \in 1 .. Len(bq'[u]) : bq'[u][i] = NthB(u, PoppedB(u) + i - 1)'
      <4>1. SUFFICES NthB(u, PoppedB(u) + 1 - 1)' = t
        BY <3>3
      <4>2. (PoppedB(u) + 1 - 1)' = 0
        BY <2>4, <2>5
      <4>3. QED
        BY <3>4, <4>2 DEF NthB
    <3>7. QED
      BY <3>3, <3>5, <3>6 DEF Column
  <2>7. ASSUME NEW v \in Tile, v # u PROVE Column(v)'
    <3>1. NthB(v, 0) # t /\ NthB(v, 0) \in Tile /\ NthB(v, 0)' = NthB(v, 0)
      <4>1. NthB(v, 0) # t /\ NthB(v, 0) \in Tile
        BY <1>a, <2>0, <2>7, Skewing, Torus
      <4>2. QED
        BY <2>1, <4>1 DEF NthB
    <3>2. SkewedB(NthB(v, 0))' = SkewedB(NthB(v, 0))
      BY <2>3, <3>1 DEF SkewedB
    <3>3. PrevCol(v) \in Tile /\ PrevCol(v)' = PrevCol(v)
      <4>1. PrevCol(v) \in Tile
        BY <1>a, Torus
      <4>2. QED
        BY <2>1, <4>1 DEF PrevCol
    <3>4. SentB(PrevCol(v))' = SentB(PrevCol(v))
      BY <2>3, <3>3, <2>1 DEF SentB
    <3>5. bq'[v] = bq[v]
      BY <1>a, <2>1, <2>7 DEF TypeOK
    <3>6. Column(v) /\ PoppedB(v)' = PoppedB(v) /\ at'[<<"compute", v>>] = "wait"
      BY <1>a, <2>2, <2>3, <2>5 DEF Columns
    <3>7. QED
      BY <2>1, <3>2, <3>4, <3>5, <3>6, ColumnOn DEF Holding
  <2>8. QED
    BY <2>1, <2>6, <2>7, SameTiles DEF Columns
<1>6. ASSUME NEW w \in Worker, NEW t \in Tile, SkewSignal(w, t) PROVE Columns'
  <2>1. /\ <<"skew", t>> \in Codelets /\ Barrier \in Codelets
        /\ <<"skew", t>> # Barrier /\ at[<<"skew", t>>] = "signal"
        /\ at[Barrier] = "wait"
    BY <1>6, <1>b, Targets DEF SkewSignal, In, TileKinds, Barrier, End
  <2>2. /\ S' = S /\ at'[<<"skew", t>>] = "done" /\ at'[Barrier] \in {"wait", "ready"}
        /\ \A e \in Codelets : e # <<"skew", t>> /\ e # Barrier => at'[e] = at[e]
        /\ bq' = bq /\ iter' = iter
    BY <1>6, <2>1 DEF SkewSignal, SignalAndReturn, data
  <2>3. ASSUME NEW v \in Tile
        PROVE  /\ SentB(v)' = SentB(v) /\ PoppedB(v)' = PoppedB(v)
               /\ SkewedB(v)' = SkewedB(v)
               /\ at'[<<"compute", v>>] \in Holding => bq[v] # <<>>
    <3>1. /\ <<"compute", v>> \in Codelets /\ <<"skew", v>> \in Codelets
          /\ at[<<"compute", v>>] \in Holding => bq[v] # <<>>
      BY <1>a, <1>b DEF TileKinds, Columns, Column
    <3>2. QED
      BY <2>1, <2>2, <3>1 DEF SentB, PoppedB, SkewedB, Holding, Barrier, End
  <2>4. QED
    BY <1>a, <2>2, <2>3, ColumnsOn
<1>7. ASSUME NEW w \in Worker, BarrierFire(w) PROVE Columns'
  <2>1. /\ S' = S /\ bq' = bq /\ iter' = iter
        /\ \A d \in Codelets : d # Barrier => at'[d] \in {at[d], "ready"}
        /\ \A d \in Codelets : d[1] # "compute" /\ d # Barrier => at'[d] = at[d]
    BY <1>7, BarrierReturned DEF BarrierFire, SignalAndReturn, data
  <2>2. \A u \in Tile : at[<<"compute", u>>] = "wait"
    BY <1>7, <1>a, Names, AtBarrier DEF BarrierFire, Inv, Alone, InBody
  <2>3. ASSUME NEW v \in Tile
        PROVE  /\ SentB(v)' = SentB(v) /\ PoppedB(v)' = PoppedB(v)
               /\ SkewedB(v)' = SkewedB(v)
               /\ at'[<<"compute", v>>] \in Holding => bq[v] # <<>>
    <3>1. /\ at'[<<"compute", v>>] \in {"wait", "ready"}
          /\ at[<<"compute", v>>] = "wait"
          /\ at'[<<"skew", v>>] = at[<<"skew", v>>]
      BY <1>b, <2>1, <2>2 DEF TileKinds, Barrier
    <3>2. QED
      BY <2>1, <2>2, <3>1 DEF SentB, PoppedB, SkewedB, Holding
  <2>4. QED
    BY <1>a, <2>1, <2>3, ColumnsOn
<1>8. ASSUME NEW w \in Worker, NEW t \in Tile, Multiply(w, t) PROVE Columns'
  <2>1. /\ S' = S /\ bq' = bq /\ iter' = iter /\ bq[t] # <<>>
        /\ at[<<"compute", t>>] = "test"
        /\ \A d \in Codelets : at'[d] = IF d = <<"compute", t>> THEN "pushA" ELSE at[d]
    BY <1>8, <1>a DEF Multiply, In, Goto, TypeOK
  <2>2. ASSUME NEW v \in Tile
        PROVE  /\ SentB(v)' = SentB(v) /\ PoppedB(v)' = PoppedB(v)
               /\ SkewedB(v)' = SkewedB(v)
               /\ at'[<<"compute", v>>] \in Holding => bq[v] # <<>>
    <3>1. /\ <<"compute", v>> \in Codelets /\ <<"skew", v>> \in Codelets
          /\ at[<<"compute", v>>] \in Holding => bq[v] # <<>>
          /\ iter \in [Tile -> 0 .. S]
      BY <1>a, <1>b DEF TileKinds, Columns, Column, TypeOK
    <3>2. QED
      BY <2>1, <3>1 DEF SentB, PoppedB, SkewedB, Holding
  <2>3. QED
    BY <1>a, <2>1, <2>2, ColumnsOn
<1>9. ASSUME NEW w \in Worker, NEW t \in Tile, PushA(w, t) PROVE Columns'
  <2>1. /\ S' = S /\ bq' = bq /\ iter' = iter
        /\ at[<<"compute", t>>] = "pushA"
        /\ \A d \in Codelets : at'[d] = IF d = <<"compute", t>> THEN "pushB" ELSE at[d]
    BY <1>9, <1>a DEF PushA, In, Goto, TypeOK
  <2>2. ASSUME NEW v \in Tile
        PROVE  /\ SentB(v)' = SentB(v) /\ PoppedB(v)' = PoppedB(v)
               /\ SkewedB(v)' = SkewedB(v)
               /\ at'[<<"compute", v>>] \in Holding => bq[v] # <<>>
    <3>1. /\ <<"compute", v>> \in Codelets /\ <<"skew", v>> \in Codelets
          /\ at[<<"compute", v>>] \in Holding => bq[v] # <<>>
          /\ iter \in [Tile -> 0 .. S]
      BY <1>a, <1>b DEF TileKinds, Columns, Column, TypeOK
    <3>2. QED
      BY <2>1, <3>1 DEF SentB, PoppedB, SkewedB, Holding
  <2>3. QED
    BY <1>a, <2>1, <2>2, ColumnsOn
<1>10. ASSUME NEW w \in Worker, NEW t \in Tile, PushB(w, t) PROVE Columns'
  <2>0. PICK u, h : u = NextCol(t) /\ h = Head(bq[t])
    OBVIOUS
  <2>1. /\ S' = S /\ bq' = [bq EXCEPT ![u] = Append(@, h)] /\ iter' = iter
        /\ at[<<"compute", t>>] = "pushB"
        /\ \A d \in Codelets : at'[d] = IF d = <<"compute", t>> THEN "popA" ELSE at[d]
    BY <1>10, <1>a, <2>0 DEF PushB, In, Goto, TypeOK
  <2>2. \A s \in Tile : at[<<"skew", s>>] = "done"
    BY <2>1, AtCompute
  <2>3. /\ \A v \in Tile : v # t => at'[<<"compute", v>>] = at[<<"compute", v>>]
        /\ at'[<<"compute", t>>] = "popA"
        /\ \A v \in Tile : at'[<<"skew", v>>] = "done"
    BY <1>b, <2>1, <2>2 DEF TileKinds
  <2>4. u \in Tile /\ PrevCol(u) = t
    BY <1>a, <2>0, Passing, Torus
  <2>5. /\ iter[t] \in Nat /\ SentB(t) = iter[t] /\ SentB(t)' = iter[t] + 1
        /\ PoppedB(t) = iter[t]
        /\ \A v \in Tile : /\ v # t => SentB(v)' = SentB(v)
                           /\ PoppedB(v)' = PoppedB(v)
                           /\ SkewedB(v)' = 1 /\ SkewedB(v) = 1
    <3>1. iter[t] \in Nat
      BY <1>a DEF TypeOK
    <3>2. /\ SentB(t) = iter[t] /\ SentB(t)' = iter[t] + 1
          /\ PoppedB(t) = iter[t] /\ PoppedB(t)' = iter[t]
      BY <2>1, <2>3, <3>1 DEF SentB, PoppedB
    <3>3. ASSUME NEW v \in Tile
          PROVE  /\ v # t => SentB(v)' = SentB(v)
                 /\ PoppedB(v)' = PoppedB(v)
                 /\ SkewedB(v)' = 1 /\ SkewedB(v) = 1
      BY <2>1, <2>2, <2>3 DEF SentB, PoppedB, SkewedB
    <3>4. QED
      BY <3>1, <3>2, <3>3
  <2>6. h \in Tile /\ h = NthB(u, iter[t] + 1)
    <3>1. bq[t] \in Seq(Tile) /\ bq[t] # <<>> /\ h = Head(bq[t])
      BY <1>a, <2>0, <2>1 DEF TypeOK, Columns, Column, Holding
    <3>2. h = bq[t][1] /\ h \in Tile /\ 1 \in 1 .. Len(bq[t])
      BY <3>1, Popped
    <3>3. bq[t][1] = NthB(t, PoppedB(t) + 1 - 1)
      BY <1>a, <3>2 DEF Columns, Column
    <3>4. PoppedB(t) + 1 - 1 = iter[t] /\ iter[t] \in Int
      BY <2>5
    <3>5. QED
      BY <1>a, <2>0, <3>2, <3>3, <3>4, Shifting
  <2>7. Column(u)'
    <3>1. bq[u] \in Seq(Tile) /\ PoppedB(u) \in Nat /\ NthB(u, 0) \in Tile
      <4>1. bq[u] \in Seq(Tile) /\ iter[u] \in Nat
        BY <1>a, <2>4 DEF TypeOK
      <4>2. QED
        BY <1>a, <2>4, <4>1, Torus DEF PoppedB
    <3>2. PoppedB(u) + Len(bq[u]) = 1 + iter[t]
      BY <1>a, <2>4, <2>5, <3>1 DEF Columns, Column
    <3>3. bq'[u] = Append(bq[u], h)
      BY <1>a, <2>1, <2>4 DEF TypeOK
    <3>4. /\ Len(bq[u]) \in Nat /\ Len(bq'[u]) = Len(bq[u]) + 1 /\ bq'[u] # <<>>
          /\ \A i \in 1 .. Len(bq[u]) : bq'[u][i] = bq[u][i]
          /\ bq'[u][Len(bq[u]) + 1] = h
      BY <2>6, <3>1, <3>3, Appended
    <3>5. /\ PrevCol(u)' = PrevCol(u) /\ \A n : NthB(u, n)' = NthB(u, n)
      BY <2>1 DEF PrevCol, NthB
    <3>6. PoppedB(u)' + Len(bq'[u]) = SkewedB(NthB(u, 0))' + SentB(PrevCol(u))'
      <4>1. SkewedB(NthB(u, 0))' = 1
        BY <2>3, <3>1, <3>5 DEF SkewedB
      <4>2. SentB(PrevCol(u))' = iter[t] + 1
        BY <2>4, <2>5, <3>5 DEF SentB
      <4>3. QED
        BY <2>4, <2>5, <3>1, <3>2, <3>4, <4>1, <4>2
    <3>7. ASSUME NEW i \in 1 .. Len(bq'[u])
          PROVE  bq'[u][i] = NthB(u, PoppedB(u) + i - 1)'
      <4>1. SUFFICES bq'[u][i] = NthB(u, PoppedB(u) + i - 1)
        BY <2>4, <2>5, <3>5 DEF NthB
      <4>2. CASE i \in 1 .. Len(bq[u])
        BY <1>a, <2>4, <3>4, <4>2 DEF Columns, Column
      <4>3. CASE i = Len(bq[u]) + 1
        <5>1. PoppedB(u) + i - 1 = iter[t] + 1
          BY <2>5, <3>1, <3>2, <3>4, <4>3
        <5>2. QED
          BY <2>6, <3>4, <4>3, <5>1
      <4>4. QED
        BY <3>4, <4>2, <4>3
    <3>8. QED
      BY <3>4, <3>6, <3>7 DEF Column
  <2>8. ASSUME NEW v \in Tile, v # u PROVE Column(v)'
    <3>1. /\ PrevCol(v) \in Tile /\ PrevCol(v) # t /\ NthB(v, 0) \in Tile
          /\ PrevCol(v)' = PrevCol(v) /\ NthB(v, 0)' = NthB(v, 0)
      <4>1. PrevCol(v) \in Tile /\ PrevCol(v) # t /\ NthB(v, 0) \in Tile
        BY <1>a, <2>0, <2>8, Passing, Torus
      <4>2. QED
        BY <2>1, <4>1 DEF PrevCol, NthB
    <3>2. SkewedB(NthB(v, 0))' = SkewedB(NthB(v, 0))
      BY <2>2, <2>3, <3>1 DEF SkewedB
    <3>3. SentB(PrevCol(v))' = SentB(PrevCol(v))
      BY <2>1, <2>3, <3>1 DEF SentB
    <3>4. bq'[v] = bq[v] /\ Column(v) /\ PoppedB(v)' = PoppedB(v)
      BY <1>a, <2>1, <2>5, <2>8 DEF TypeOK, Columns
    <3>5. at'[<<"compute", v>>] \in Holding => bq[v] # <<>>
      BY <2>1, <2>3, <3>4 DEF Column, Holding
    <3>6. QED
      BY <2>1, <3>2, <3>3, <3>4, <3>5, ColumnOn
  <2>9. QED
    BY <2>1, <2>7, <2>8, SameTiles DEF Columns
<1>11. ASSUME NEW w \in Worker, NEW t \in Tile, PopA(w, t) PROVE Columns'
  <2>1. /\ S' = S /\ bq' = bq /\ iter' = iter
        /\ at[<<"compute", t>>] = "popA"
        /\ \A d \in Codelets : at'[d] = IF d = <<"compute", t>> THEN "popB" ELSE at[d]
    BY <1>11, <1>a DEF PopA, In, Goto, TypeOK
  <2>2. ASSUME NEW v \in Tile
        PROVE  /\ SentB(v)' = SentB(v) /\ PoppedB(v)' = PoppedB(v)
               /\ SkewedB(v)' = SkewedB(v)
               /\ at'[<<"compute", v>>] \in Holding => bq[v] # <<>>
    <3>1. /\ <<"compute", v>> \in Codelets /\ <<"skew", v>> \in Codelets
          /\ at[<<"compute", v>>] \in Holding => bq[v] # <<>>
          /\ iter \in [Tile -> 0 .. S]
      BY <1>a, <1>b DEF TileKinds, Columns, Column, TypeOK
    <3>2. QED
      BY <2>1, <3>1 DEF SentB, PoppedB, SkewedB, Holding
  <2>3. QED
    BY <1>a, <2>1, <2>2, ColumnsOn
<1>12. ASSUME NEW w \in Worker, NEW t \in Tile, PopB(w, t) PROVE Columns'
  <2>1. /\ S' = S /\ bq' = [bq EXCEPT ![t] = Tail(@)]
        /\ iter' = [iter EXCEPT ![t] = @ + 1]
        /\ at[<<"compute", t>>] = "popB"
        /\ \A d \in Codelets : at'[d] = IF d = <<"compute", t>> THEN "test" ELSE at[d]
    BY <1>12, <1>a DEF PopB, In, Goto, TypeOK
  <2>2. /\ \A v \in Tile : v # t => at'[<<"compute", v>>] = at[<<"compute", v>>]
        /\ at'[<<"compute", t>>] = "test"
        /\ \A v \in Tile : at'[<<"skew", v>>] = at[<<"skew", v>>]
    BY <1>b, <2>1 DEF TileKinds
  <2>3. /\ PoppedB(t) = iter[t] /\ PoppedB(t)' = iter[t] + 1 /\ iter[t] \in Nat
        /\ \A v \in Tile : /\ v # t => PoppedB(v)' = PoppedB(v)
                           /\ SentB(v)' = SentB(v) /\ SkewedB(v)' = SkewedB(v)
    <3>1. iter[t] \in Nat /\ \A v \in Tile : iter'[v] = IF v = t THEN iter[t] + 1 ELSE iter[v]
      BY <1>a, <2>1 DEF TypeOK
    <3>2. /\ PoppedB(t) = iter[t] /\ PoppedB(t)' = iter[t] + 1 /\ SentB(t)' = SentB(t)
      BY <2>1, <2>2, <3>1 DEF SentB, PoppedB
    <3>3. ASSUME NEW v \in Tile
          PROVE  /\ v # t => PoppedB(v)' = PoppedB(v)
                 /\ SentB(v)' = SentB(v)
                 /\ SkewedB(v)' = SkewedB(v)
      BY <2>2, <3>1, <3>2 DEF SentB, PoppedB, SkewedB
    <3>4. QED
      BY <3>1, <3>2, <3>3
  <2>4. ASSUME NEW v \in Tile
        PROVE  /\ SkewedB(NthB(v, 0))' = SkewedB(NthB(v, 0))
               /\ SentB(PrevCol(v))' = SentB(PrevCol(v))
    <3>0. PICK p, n : p = PrevCol(v) /\ n = NthB(v, 0)
      OBVIOUS
    <3>1. p \in Tile /\ n \in Tile
      BY <1>a, <3>0, Torus
    <3>2. PrevCol(v)' = p /\ NthB(v, 0)' = n
      BY <2>1, <3>0 DEF PrevCol, NthB
    <3>3. SentB(p)' = SentB(p) /\ SkewedB(n)' = SkewedB(n)
      BY <2>3, <3>1
    <3>4. SentB(PrevCol(v))' = SentB(p)' /\ SkewedB(NthB(v, 0))' = SkewedB(n)'
      BY <3>2 DEF SentB, SkewedB
    <3>5. QED
      BY <3>0, <3>3, <3>4
  <2>5. Column(t)'
    <3>1. bq[t] \in Seq(Tile) /\ bq[t] # <<>> /\ bq'[t] = Tail(bq[t])
      BY <1>a, <2>1 DEF TypeOK, Columns, Column, Holding
    <3>2. /\ Len(bq[t]) \in Nat \ {0} /\ Len(bq'[t]) = Len(bq[t]) - 1
          /\ \A i \in 1 .. Len(bq[t]) - 1 : bq'[t][i] = bq[t][i + 1]
      BY <3>1, Popped
    <3>3. PoppedB(t) + Len(bq[t]) = SkewedB(NthB(t, 0)) + SentB(PrevCol(t))
      BY <1>a DEF Columns, Column
    <3>4. PoppedB(t)' + Len(bq'[t]) = SkewedB(NthB(t, 0))' + SentB(PrevCol(t))'
      <4>1. /\ SkewedB(NthB(t, 0))' = SkewedB(NthB(t, 0))
            /\ SentB(PrevCol(t))' = SentB(PrevCol(t))
        BY <2>4
      <4>2. PoppedB(t)' + Len(bq'[t]) = PoppedB(t) + Len(bq[t])
        <5>1. PoppedB(t) \in Nat /\ PoppedB(t)' = PoppedB(t) + 1
          BY <2>3
        <5>2. Len(bq[t]) \in Nat /\ Len(bq'[t]) = Len(bq[t]) - 1
          BY <3>2
        <5>3. QED
          BY <5>1, <5>2
      <4>3. QED
        BY <3>3, <4>1, <4>2
    <3>5. ASSUME NEW i \in 1 .. Len(bq'[t])
          PROVE  bq'[t][i] = NthB(t, PoppedB(t) + i - 1)'
      <4>1. bq'[t][i] = bq[t][i + 1] /\ i + 1 \in 1 .. Len(bq[t])
        BY <3>2
      <4>2. bq[t][i + 1] = NthB(t, PoppedB(t) + (i + 1) - 1)
        BY <1>a, <4>1 DEF Columns, Column
      <4>3. (PoppedB(t) + i - 1)' = PoppedB(t) + (i + 1) - 1
        BY <2>3
      <4>4. QED
        BY <2>1, <4>1, <4>2, <4>3 DEF NthB
    <3>6. at'[<<"compute", t>>] \notin Holding
      BY <2>2 DEF Holding
    <3>7. QED
      BY <3>4, <3>5, <3>6 DEF Column
  <2>6. ASSUME NEW v \in Tile, v # t PROVE Column(v)'
    <3>1. bq'[v] = bq[v] /\ Column(v) /\ PoppedB(v)' = PoppedB(v)
      BY <1>a, <2>1, <2>3, <2>6 DEF TypeOK, Columns
    <3>2. at'[<<"compute", v>>] \in Holding => bq[v] # <<>>
      BY <2>2, <2>6, <3>1 DEF Column
    <3>3. QED
      BY <2>1, <2>4, <3>1, <3>2, ColumnOn
  <2>7. QED
    BY <2>1, <2>5, <2>6, SameTiles DEF Columns
<1>13. ASSUME NEW w \in Worker, NEW t \in Tile, Finish(w, t) PROVE Columns'
  <2>1. /\ <<"compute", t>> \in Codelets /\ <<"copyC", t>> \in Codelets
        /\ <<"compute", t>> # <<"copyC", t>> /\ at[<<"compute", t>>] = "test"
        /\ at[<<"copyC", t>>] = "wait"
    BY <1>13, <1>b, Targets DEF Finish, In, TileKinds, Barrier, End
  <2>2. /\ S' = S /\ at'[<<"compute", t>>] = "done"
        /\ at'[<<"copyC", t>>] \in {"wait", "ready"}
        /\ \A e \in Codelets : e # <<"compute", t>> /\ e # <<"copyC", t>> => at'[e] = at[e]
        /\ bq' = bq /\ iter' = iter
    BY <1>13, <2>1 DEF Finish, SignalAndReturn, data
  <2>3. ASSUME NEW v \in Tile
        PROVE  /\ SentB(v)' = SentB(v) /\ PoppedB(v)' = PoppedB(v)
               /\ SkewedB(v)' = SkewedB(v)
               /\ at'[<<"compute", v>>] \in Holding => bq[v] # <<>>
    <3>1. /\ <<"compute", v>> \in Codelets /\ <<"skew", v>> \in Codelets
          /\ at[<<"compute", v>>] \in Holding => bq[v] # <<>>
      BY <1>a, <1>b DEF TileKinds, Columns, Column
    <3>2. QED
      BY <2>1, <2>2, <3>1 DEF SentB, PoppedB, SkewedB, Holding, Barrier, End
  <2>4. QED
    BY <1>a, <2>2, <2>3, ColumnsOn
<1>14. ASSUME NEW w \in Worker, NEW t \in Tile, CopyC(w, t) PROVE Columns'
  <2>1. /\ <<"copyC", t>> \in Codelets /\ End \in Codelets /\ <<"copyC", t>> # End
        /\ at[<<"copyC", t>>] = "copy"
        /\ at[End] = "wait"
    BY <1>14, <1>b, Targets DEF CopyC, In, TileKinds, Barrier, End
  <2>2. /\ S' = S /\ at'[<<"copyC", t>>] = "done" /\ at'[End] \in {"wait", "ready"}
        /\ \A e \in Codelets : e # <<"copyC", t>> /\ e # End => at'[e] = at[e]
        /\ bq' = bq /\ iter' = iter
    BY <1>14, <2>1 DEF CopyC, SignalAndReturn, data
  <2>3. ASSUME NEW v \in Tile
        PROVE  /\ SentB(v)' = SentB(v) /\ PoppedB(v)' = PoppedB(v)
               /\ SkewedB(v)' = SkewedB(v)
               /\ at'[<<"compute", v>>] \in Holding => bq[v] # <<>>
    <3>1. /\ <<"compute", v>> \in Codelets /\ <<"skew", v>> \in Codelets
          /\ at[<<"compute", v>>] \in Holding => bq[v] # <<>>
      BY <1>a, <1>b DEF TileKinds, Columns, Column
    <3>2. QED
      BY <2>1, <2>2, <3>1 DEF SentB, PoppedB, SkewedB, Holding, Barrier, End
  <2>4. QED
    BY <1>a, <2>2, <2>3, ColumnsOn
<1>15. ASSUME NEW w \in Worker, EndFire(w) PROVE Columns'
  <2>1. /\ S' = S /\ bq' = bq /\ iter' = iter
        /\ \A d \in Codelets : at'[d] = IF d = End THEN "done" ELSE at[d]
    BY <1>15, <1>a DEF EndFire, TypeOK, data
  <2>2. \A k \in TileKinds, u \in Tile : at'[<<k, u>>] = at[<<k, u>>]
    BY <1>b, <2>1 DEF TileKinds, End
  <2>3. ASSUME NEW v \in Tile
        PROVE  /\ SentB(v)' = SentB(v) /\ PoppedB(v)' = PoppedB(v)
               /\ SkewedB(v)' = SkewedB(v)
               /\ at'[<<"compute", v>>] \in Holding => bq[v] # <<>>
    <3>1. /\ at'[<<"compute", v>>] = at[<<"compute", v>>]
          /\ at'[<<"skew", v>>] = at[<<"skew", v>>]
          /\ at[<<"compute", v>>] \in Holding => bq[v] # <<>>
      BY <1>a, <2>2 DEF TileKinds, Columns, Column
    <3>2. QED
      BY <2>1, <2>2, <3>1 DEF SentB, PoppedB, SkewedB, Holding
  <2>4. QED
    BY <1>a, <2>1, <2>3, ColumnsOn
<1>16. CASE UNCHANGED vars
  <2>1. S' = S /\ UNCHANGED <<at, iter, bq>>
    BY <1>16 DEF vars, data
  <2>2. \A v \in Tile : /\ SentB(v)' = SentB(v) /\ PoppedB(v)' = PoppedB(v)
                        /\ SkewedB(v)' = SkewedB(v)
                        /\ at[<<"compute", v>>] \in Holding => bq[v] # <<>>
    BY <1>a, <2>1 DEF SentB, PoppedB, SkewedB, Columns, Column
  <2>3. QED
    BY <1>a, <2>1, <2>2, ColumnsOn
<1>17. QED
  BY <1>1, <1>2, <1>3, <1>4, <1>5, <1>6, <1>7, <1>8, <1>9, <1>10, <1>11,
     <1>12, <1>13, <1>14, <1>15, <1>16 DEF Next, Step, Fire

-----------------------------------------------------------------------------
(* The products of a tile.                                                 *)
Multiplied(t) == iter[t] + IF at[<<"compute", t>>] \in Holding THEN 1 ELSE 0

Product(t) ==
  /\ Len(prods[t]) = Multiplied(t)
  /\ \A i \in 1 .. Len(prods[t]) : prods[t][i] = <<NthA(t, i - 1), NthB(t, i - 1)>>

(* Products, tile by tile.                                                 *)
LEMMA ProductsAre == (Products <=> \A t \in Tile : Product(t)) /\ (Inv => Products)
BY DEF Inv, Products, Product, Multiplied

(* A step that multiplies nothing.                                         *)
LEMMA ProductsOn ==
  ASSUME Inv, S' = S, prods' = prods, \A u \in Tile : Multiplied(u)' = Multiplied(u)
  PROVE  Products'
<1>1. ASSUME NEW u \in Tile PROVE Product(u)'
  <2>1. Product(u) /\ Multiplied(u)' = Multiplied(u)
    BY <1>1, ProductsAre
  <2>2. \A n : NthA(u, n)' = NthA(u, n) /\ NthB(u, n)' = NthB(u, n)
    BY DEF NthA, NthB
  <2>3. QED
    BY <2>1, <2>2 DEF Product
<1>2. QED
  BY <1>1, SameTiles DEF Products, Product, Multiplied

(* Tiles are multiplied in the order of the algorithm.                     *)
LEMMA ProductsStep == Inv /\ [Next]_vars => Products'
<1> SUFFICES ASSUME Inv, [Next]_vars PROVE Products'
  OBVIOUS
<1>a. S \in Nat \ {0} /\ TypeOK
  BY SizeIs DEF Inv
<1>b. /\ Barrier \in Codelets /\ End \in Codelets
      /\ \A k \in TileKinds, t \in Tile : <<k, t>> \in Codelets
  BY <1>a, Names
<1>1. ASSUME NEW w \in Worker, NEW c \in Codelets, Take(w, c) PROVE Products'
  <2>1. /\ S' = S /\ prods' = prods /\ iter' = iter /\ at[c] = "ready"
        /\ \A d \in Codelets : at'[d] = IF d = c THEN Entry(c) ELSE at[d]
    BY <1>1, <1>a DEF Take, TypeOK, data
  <2>3. ASSUME NEW v \in Tile PROVE Multiplied(v)' = Multiplied(v)
    <3>1. \/ at'[<<"compute", v>>] = at[<<"compute", v>>]
          \/ at[<<"compute", v>>] = "ready" /\ at'[<<"compute", v>>] = "test"
      BY <1>b, <2>1, Entries DEF TileKinds
    <3>2. QED
      BY <2>1, <3>1 DEF Multiplied, Holding
  <2>4. QED
    BY <2>1, <2>3, ProductsOn
<1>2. ASSUME NEW w \in Worker, NEW t \in Tile, CopyA(w, t) PROVE Products'
  <2>1. /\ <<"copyA", t>> \in Codelets /\ <<"skew", t>> \in Codelets
        /\ <<"copyA", t>> # <<"skew", t>> /\ at[<<"copyA", t>>] = "copy"
        /\ at[<<"skew", t>>] = "wait"
    BY <1>2, <1>b, Targets DEF CopyA, In, TileKinds, Barrier, End
  <2>2. /\ S' = S /\ at'[<<"copyA", t>>] = "done"
        /\ at'[<<"skew", t>>] \in {"wait", "ready"}
        /\ \A e \in Codelets : e # <<"copyA", t>> /\ e # <<"skew", t>> => at'[e] = at[e]
        /\ prods' = prods /\ iter' = iter
    BY <1>2, <2>1 DEF CopyA, SignalAndReturn, data
  <2>3. ASSUME NEW v \in Tile PROVE Multiplied(v)' = Multiplied(v)
    BY <1>b, <2>1, <2>2 DEF TileKinds, Multiplied, Holding, Barrier, End
  <2>4. QED
    BY <2>2, <2>3, ProductsOn
<1>3. ASSUME NEW w \in Worker, NEW t \in Tile, CopyB(w, t) PROVE Products'
  <2>1. /\ <<"copyB", t>> \in Codelets /\ <<"skew", t>> \in Codelets
        /\ <<"copyB", t>> # <<"skew", t>> /\ at[<<"copyB", t>>] = "copy"
        /\ at[<<"skew", t>>] = "wait"
    BY <1>3, <1>b, Targets DEF CopyB, In, TileKinds, Barrier, End
  <2>2. /\ S' = S /\ at'[<<"copyB", t>>] = "done"
        /\ at'[<<"skew", t>>] \in {"wait", "ready"}
        /\ \A e \in Codelets : e # <<"copyB", t>> /\ e # <<"skew", t>> => at'[e] = at[e]
        /\ prods' = prods /\ iter' = iter
    BY <1>3, <2>1 DEF CopyB, SignalAndReturn, data
  <2>3. ASSUME NEW v \in Tile PROVE Multiplied(v)' = Multiplied(v)
    BY <1>b, <2>1, <2>2 DEF TileKinds, Multiplied, Holding, Barrier, End
  <2>4. QED
    BY <2>2, <2>3, ProductsOn
<1>4. ASSUME NEW w \in Worker, NEW t \in Tile, SkewA(w, t) PROVE Products'
  <2>1. /\ S' = S /\ prods' = prods /\ iter' = iter
        /\ at[<<"skew", t>>] = "pushA"
        /\ \A d \in Codelets : at'[d] = IF d = <<"skew", t>> THEN "pushB" ELSE at[d]
    BY <1>4, <1>a DEF SkewA, In, Goto, TypeOK
  <2>2. iter \in [Tile -> 0 .. S]
    BY <1>a DEF TypeOK
  <2>3. ASSUME NEW v \in Tile PROVE Multiplied(v)' = Multiplied(v)
    BY <1>b, <2>1, <2>2 DEF TileKinds, Multiplied, Holding
  <2>4. QED
    BY <2>1, <2>3, ProductsOn
<1>5. ASSUME NEW w \in Worker, NEW t \in Tile, SkewB(w, t) PROVE Products'
  <2>1. /\ S' = S /\ prods' = prods /\ iter' = iter
        /\ at[<<"skew", t>>] = "pushB"
        /\ \A d \in Codelets : at'[d] = IF d = <<"skew", t>> THEN "signal" ELSE at[d]
    BY <1>5, <1>a DEF SkewB, In, Goto, TypeOK
  <2>2. iter \in [Tile -> 0 .. S]
    BY <1>a DEF TypeOK
  <2>3. ASSUME NEW v \in Tile PROVE Multiplied(v)' = Multiplied(v)
    BY <1>b, <2>1, <2>2 DEF TileKinds, Multiplied, Holding
  <2>4. QED
    BY <2>1, <2>3, ProductsOn
<1>6. ASSUME NEW w \in Worker, NEW t \in Tile, SkewSignal(w, t) PROVE Products'
  <2>1. /\ <<"skew", t>> \in Codelets /\ Barrier \in Codelets
        /\ <<"skew", t>> # Barrier /\ at[<<"skew", t>>] = "signal"
        /\ at[Barrier] = "wait"
    BY <1>6, <1>b, Targets DEF SkewSignal, In, TileKinds, Barrier, End
  <2>2. /\ S' = S /\ at'[<<"skew", t>>] = "done" /\ at'[Barrier] \in {"wait", "ready"}
        /\ \A e \in Codelets : e # <<"skew", t>> /\ e # Barrier => at'[e] = at[e]
        /\ prods' = prods /\ iter' = iter
    BY <1>6, <2>1 DEF SkewSignal, SignalAndReturn, data
  <2>3. ASSUME NEW v \in Tile PROVE Multiplied(v)' = Multiplied(v)
    BY <1>b, <2>1, <2>2 DEF TileKinds, Multiplied, Holding, Barrier, End
  <2>4. QED
    BY <2>2, <2>3, ProductsOn
<1>7. ASSUME NEW w \in Worker, BarrierFire(w) PROVE Products'
  <2>1. /\ S' = S /\ prods' = prods /\ iter' = iter
        /\ \A d \in Codelets : d # Barrier => at'[d] \in {at[d], "ready"}
    BY <1>7, BarrierReturned DEF BarrierFire, SignalAndReturn, data
  <2>2. \A u \in Tile : at[<<"compute", u>>] = "wait"
    BY <1>7, <1>a, Names, AtBarrier DEF BarrierFire, Inv, Alone, InBody
  <2>3. ASSUME NEW v \in Tile PROVE Multiplied(v)' = Multiplied(v)
    <3>1. at'[<<"compute", v>>] \in {"wait", "ready"} /\ at[<<"compute", v>>] = "wait"
      BY <1>b, <2>1, <2>2 DEF TileKinds, Barrier
    <3>2. QED
      BY <2>1, <3>1 DEF Multiplied, Holding
  <2>4. QED
    BY <2>1, <2>3, ProductsOn
<1>8. ASSUME NEW w \in Worker, NEW t \in Tile, Multiply(w, t) PROVE Products'
  <2>0. PICK a, b : a = Head(aq[t]) /\ b = Head(bq[t])
    OBVIOUS
  <2>1. /\ S' = S /\ prods' = [prods EXCEPT ![t] = Append(@, <<a, b>>)] /\ iter' = iter
        /\ at[<<"compute", t>>] = "test" /\ aq[t] # <<>> /\ bq[t] # <<>>
        /\ \A d \in Codelets : at'[d] = IF d = <<"compute", t>> THEN "pushA" ELSE at[d]
    BY <1>8, <1>a, <2>0 DEF Multiply, In, Goto, TypeOK
  <2>2. /\ at'[<<"compute", t>>] = "pushA"
        /\ \A v \in Tile : v # t => at'[<<"compute", v>>] = at[<<"compute", v>>]
    BY <1>b, <2>1 DEF TileKinds
  <2>3. iter[t] \in Nat /\ Multiplied(t) = iter[t] /\ Multiplied(t)' = iter[t] + 1
    <3>1. iter[t] \in Nat
      BY <1>a DEF TypeOK
    <3>2. QED
      BY <2>1, <2>2, <3>1 DEF Multiplied, Holding
  <2>4. a \in Tile /\ a = NthA(t, iter[t])
    <3>1. aq[t] \in Seq(Tile) /\ aq[t] # <<>> /\ a = Head(aq[t])
      BY <1>a, <2>0, <2>1 DEF TypeOK
    <3>2. a = aq[t][1] /\ a \in Tile /\ 1 \in 1 .. Len(aq[t])
      BY <3>1, Popped
    <3>3. aq[t][1] = NthA(t, PoppedA(t) + 1 - 1)
      BY <3>2, RowsAre DEF Rows, Row
    <3>4. PoppedA(t) + 1 - 1 = iter[t]
      BY <2>1, <2>3 DEF PoppedA
    <3>5. QED
      BY <3>2, <3>3, <3>4
  <2>5. b \in Tile /\ b = NthB(t, iter[t])
    <3>1. bq[t] \in Seq(Tile) /\ bq[t] # <<>> /\ b = Head(bq[t])
      BY <1>a, <2>0, <2>1 DEF TypeOK
    <3>2. b = bq[t][1] /\ b \in Tile /\ 1 \in 1 .. Len(bq[t])
      BY <3>1, Popped
    <3>3. bq[t][1] = NthB(t, PoppedB(t) + 1 - 1)
      BY <3>2, ColumnsAre DEF Columns, Column
    <3>4. PoppedB(t) + 1 - 1 = iter[t]
      BY <2>3 DEF PoppedB
    <3>5. QED
      BY <3>2, <3>3, <3>4
  <2>6. \A v, n : NthA(v, n)' = NthA(v, n) /\ NthB(v, n)' = NthB(v, n)
    BY <2>1 DEF NthA, NthB
  <2>7. Product(t)'
    <3>1. /\ prods[t] \in Seq(Tile \X Tile) /\ <<a, b>> \in Tile \X Tile
          /\ prods'[t] = Append(prods[t], <<a, b>>)
      BY <1>a, <2>1, <2>4, <2>5 DEF TypeOK
    <3>2. /\ Len(prods[t]) \in Nat /\ Len(prods'[t]) = Len(prods[t]) + 1
          /\ \A i \in 1 .. Len(prods[t]) : prods'[t][i] = prods[t][i]
          /\ prods'[t][Len(prods[t]) + 1] = <<a, b>>
      BY <3>1, Appended
    <3>3. Product(t) /\ Len(prods[t]) = iter[t]
      BY <2>3, ProductsAre DEF Product
    <3>4. ASSUME NEW i \in 1 .. Len(prods'[t])
          PROVE  prods'[t][i] = <<NthA(t, i - 1), NthB(t, i - 1)>>
      <4>1. CASE i \in 1 .. Len(prods[t])
        BY <3>2, <3>3, <4>1 DEF Product
      <4>2. CASE i = Len(prods[t]) + 1
        <5>1. i - 1 = iter[t]
          BY <2>3, <3>3, <4>2
        <5>2. QED
          BY <2>4, <2>5, <3>2, <4>2, <5>1
      <4>3. QED
        BY <3>2, <4>1, <4>2
    <3>5. Len(prods'[t]) = Multiplied(t)'
      BY <2>3, <3>2, <3>3
    <3>6. QED
      BY <2>6, <3>4, <3>5 DEF Product
  <2>8. ASSUME NEW v \in Tile, v # t PROVE Product(v)'
    <3>1. Product(v) /\ prods'[v] = prods[v] /\ Multiplied(v)' = Multiplied(v)
      BY <1>a, <2>1, <2>2, <2>8, ProductsAre DEF Multiplied, TypeOK
    <3>2. QED
      BY <2>6, <3>1 DEF Product
  <2>9. QED
    BY <2>1, <2>7, <2>8, SameTiles DEF Products, Product, Multiplied
<1>9. ASSUME NEW w \in Worker, NEW t \in Tile, PushA(w, t) PROVE Products'
  <2>1. /\ S' = S /\ prods' = prods /\ iter' = iter
        /\ at[<<"compute", t>>] = "pushA"
        /\ \A d \in Codelets : at'[d] = IF d = <<"compute", t>> THEN "pushB" ELSE at[d]
    BY <1>9, <1>a DEF PushA, In, Goto, TypeOK
  <2>2. iter \in [Tile -> 0 .. S]
    BY <1>a DEF TypeOK
  <2>3. ASSUME NEW v \in Tile PROVE Multiplied(v)' = Multiplied(v)
    BY <1>b, <2>1, <2>2 DEF TileKinds, Multiplied, Holding
  <2>4. QED
    BY <2>1, <2>3, ProductsOn
<1>10. ASSUME NEW w \in Worker, NEW t \in Tile, PushB(w, t) PROVE Products'
  <2>1. /\ S' = S /\ prods' = prods /\ iter' = iter
        /\ at[<<"compute", t>>] = "pushB"
        /\ \A d \in Codelets : at'[d] = IF d = <<"compute", t>> THEN "popA" ELSE at[d]
    BY <1>10, <1>a DEF PushB, In, Goto, TypeOK
  <2>2. iter \in [Tile -> 0 .. S]
    BY <1>a DEF TypeOK
  <2>3. ASSUME NEW v \in Tile PROVE Multiplied(v)' = Multiplied(v)
    BY <1>b, <2>1, <2>2 DEF TileKinds, Multiplied, Holding
  <2>4. QED
    BY <2>1, <2>3, ProductsOn
<1>11. ASSUME NEW w \in Worker, NEW t \in Tile, PopA(w, t) PROVE Products'
  <2>1. /\ S' = S /\ prods' = prods /\ iter' = iter
        /\ at[<<"compute", t>>] = "popA"
        /\ \A d \in Codelets : at'[d] = IF d = <<"compute", t>> THEN "popB" ELSE at[d]
    BY <1>11, <1>a DEF PopA, In, Goto, TypeOK
  <2>2. iter \in [Tile -> 0 .. S]
    BY <1>a DEF TypeOK
  <2>3. ASSUME NEW v \in Tile PROVE Multiplied(v)' = Multiplied(v)
    BY <1>b, <2>1, <2>2 DEF TileKinds, Multiplied, Holding
  <2>4. QED
    BY <2>1, <2>3, ProductsOn
<1>12. ASSUME NEW w \in Worker, NEW t \in Tile, PopB(w, t) PROVE Products'
  <2>1. /\ S' = S /\ prods' = prods /\ iter' = [iter EXCEPT ![t] = @ + 1]
        /\ at[<<"compute", t>>] = "popB"
        /\ \A d \in Codelets : at'[d] = IF d = <<"compute", t>> THEN "test" ELSE at[d]
    BY <1>12, <1>a DEF PopB, In, Goto, TypeOK
  <2>2. iter \in [Tile -> 0 .. S]
    BY <1>a DEF TypeOK
  <2>3. ASSUME NEW v \in Tile PROVE Multiplied(v)' = Multiplied(v)
    <3>1. /\ iter[v] \in Nat /\ iter'[v] = IF v = t THEN iter[v] + 1 ELSE iter[v]
          /\ at'[<<"compute", v>>] = IF v = t THEN "test" ELSE at[<<"compute", v>>]
      BY <1>b, <2>1, <2>2 DEF TileKinds
    <3>2. QED
      BY <2>1, <3>1 DEF Multiplied, Holding
  <2>4. QED
    BY <2>1, <2>3, ProductsOn
<1>13. ASSUME NEW w \in Worker, NEW t \in Tile, Finish(w, t) PROVE Products'
  <2>1. /\ <<"compute", t>> \in Codelets /\ <<"copyC", t>> \in Codelets
        /\ <<"compute", t>> # <<"copyC", t>> /\ at[<<"compute", t>>] = "test"
        /\ at[<<"copyC", t>>] = "wait"
    BY <1>13, <1>b, Targets DEF Finish, In, TileKinds, Barrier, End
  <2>2. /\ S' = S /\ at'[<<"compute", t>>] = "done"
        /\ at'[<<"copyC", t>>] \in {"wait", "ready"}
        /\ \A e \in Codelets : e # <<"compute", t>> /\ e # <<"copyC", t>> => at'[e] = at[e]
        /\ prods' = prods /\ iter' = iter
    BY <1>13, <2>1 DEF Finish, SignalAndReturn, data
  <2>3. ASSUME NEW v \in Tile PROVE Multiplied(v)' = Multiplied(v)
    BY <1>b, <2>1, <2>2 DEF TileKinds, Multiplied, Holding, Barrier, End
  <2>4. QED
    BY <2>2, <2>3, ProductsOn
<1>14. ASSUME NEW w \in Worker, NEW t \in Tile, CopyC(w, t) PROVE Products'
  <2>1. /\ <<"copyC", t>> \in Codelets /\ End \in Codelets /\ <<"copyC", t>> # End
        /\ at[<<"copyC", t>>] = "copy"
        /\ at[End] = "wait"
    BY <1>14, <1>b, Targets DEF CopyC, In, TileKinds, Barrier, End
  <2>2. /\ S' = S /\ at'[<<"copyC", t>>] = "done" /\ at'[End] \in {"wait", "ready"}
        /\ \A e \in Codelets : e # <<"copyC", t>> /\ e # End => at'[e] = at[e]
        /\ prods' = prods /\ iter' = iter
    BY <1>14, <2>1 DEF CopyC, SignalAndReturn, data
  <2>3. ASSUME NEW v \in Tile PROVE Multiplied(v)' = Multiplied(v)
    BY <1>b, <2>1, <2>2 DEF TileKinds, Multiplied, Holding, Barrier, End
  <2>4. QED
    BY <2>2, <2>3, ProductsOn
<1>15. ASSUME NEW w \in Worker, EndFire(w) PROVE Products'
  <2>1. /\ S' = S /\ prods' = prods /\ iter' = iter
        /\ \A d \in Codelets : at'[d] = IF d = End THEN "done" ELSE at[d]
    BY <1>15, <1>a DEF EndFire, TypeOK, data
  <2>3. ASSUME NEW v \in Tile PROVE Multiplied(v)' = Multiplied(v)
    BY <1>b, <2>1 DEF TileKinds, End, Multiplied
  <2>4. QED
    BY <2>1, <2>3, ProductsOn
<1>16. CASE UNCHANGED vars
  <2>1. S' = S /\ UNCHANGED <<at, iter, prods>>
    BY <1>16 DEF vars, data
  <2>2. \A v \in Tile : Multiplied(v)' = Multiplied(v)
    BY <2>1 DEF Multiplied
  <2>3. QED
    BY <2>1, <2>2, ProductsOn
<1>17. QED
  BY <1>1, <1>2, <1>3, <1>4, <1>5, <1>6, <1>7, <1>8, <1>9, <1>10, <1>11,
     <1>12, <1>13, <1>14, <1>15, <1>16 DEF Next, Step, Fire

-----------------------------------------------------------------------------
(* Nothing has been done, and nothing more than the copies can be.         *)
LEMMA InitInv == Init => Inv
<1> SUFFICES ASSUME Init PROVE Inv
  OBVIOUS
<1>1. S \in Nat \ {0} /\ S * S \in Nat /\ S * S > 0
  <2>1. S \in Nat \ {0}
    BY SizeAssumption DEF Init
  <2>2. S * S > 0
    BY <2>1
  <2>3. QED
    BY <2>1, <2>2, Squares
<1>2. /\ Barrier \in Codelets /\ End \in Codelets /\ None \notin Codelets
      /\ \A k \in TileKinds, t \in Tile : <<k, t>> \in Codelets
      /\ \A t \in Tile : t # None
  BY <1>1, Names
<1>3. /\ Deps(Barrier) = S * S /\ Deps(End) = S * S
      /\ \A t : /\ Deps(<<"copyA", t>>) = 0 /\ Deps(<<"copyB", t>>) = 0
                /\ Deps(<<"skew", t>>) = 2
                /\ Deps(<<"compute", t>>) = 1 /\ Deps(<<"copyC", t>>) = 1
  BY DEF Deps, Barrier, End
<1>4. /\ dep[Barrier] = S * S /\ dep[End] = S * S
      /\ at[Barrier] = "wait" /\ at[End] = "wait"
      /\ \A t \in Tile :
           /\ at[<<"copyA", t>>] = "ready" /\ at[<<"copyB", t>>] = "ready"
           /\ dep[<<"skew", t>>] = 2 /\ at[<<"skew", t>>] = "wait"
           /\ dep[<<"compute", t>>] = 1 /\ at[<<"compute", t>>] = "wait"
           /\ dep[<<"copyC", t>>] = 1 /\ at[<<"copyC", t>>] = "wait"
  BY <1>1, <1>2, <1>3 DEF Init, TileKinds
<1>5. /\ \A t \in Tile : iter[t] = 0 /\ aq[t] = <<>> /\ bq[t] = <<>> /\ prods[t] = <<>>
      /\ signalled = FALSE /\ \A w \in Worker : run[w] = None
  BY DEF Init
<1>6. ASSUME NEW c \in Codelets
      PROVE  /\ Deps(c) \in 0 .. S * S + 2
             /\ dep[c] = Deps(c) /\ at[c] = IF Deps(c) = 0 THEN "ready" ELSE "wait"
  <2>1. c \in TileKinds \X Tile \/ c = Barrier \/ c = End
    BY DEF Codelets
  <2>2. CASE c = Barrier \/ c = End
    BY <1>1, <1>3, <2>2 DEF Init
  <2>3. CASE c \in TileKinds \X Tile
    <3>0. PICK t \in Tile : c = <<c[1], t>> /\ c[1] \in TileKinds
      BY <2>3
    <3>1. Deps(c) \in {0, 1, 2}
      BY <1>3, <3>0 DEF TileKinds
    <3>2. QED
      BY <1>1, <3>1 DEF Init
  <2>4. QED
    BY <2>1, <2>2, <2>3
<1>7. TypeOK
  <2>1. /\ S \in Sizes /\ run \in [Worker -> Codelets \cup {None}]
        /\ signalled \in BOOLEAN
        /\ scratchA \in [Tile -> Tile \cup {None}]
        /\ scratchB \in [Tile -> Tile \cup {None}]
    BY DEF Init
  <2>2. /\ aq \in [Tile -> Seq(Tile)] /\ bq \in [Tile -> Seq(Tile)]
        /\ prods \in [Tile -> Seq(Tile \X Tile)] /\ C \in [Tile -> Seq(Tile \X Tile)]
    <3>1. <<>> \in Seq(Tile) /\ <<>> \in Seq(Tile \X Tile)
      OBVIOUS
    <3>2. QED
      BY <3>1 DEF Init
  <2>3. iter \in [Tile -> 0 .. S]
    BY <1>1 DEF Init
  <2>4. dep \in [Codelets -> 0 .. S * S + 2]
    BY <1>6 DEF Init
  <2>5. at \in [Codelets -> InBody \cup {"wait", "ready", "done"}]
    BY <1>6 DEF Init
  <2>6. QED
    BY <2>1, <2>2, <2>3, <2>4, <2>5 DEF TypeOK
<1>8. Filled /\ Aligned /\ Alone /\ Progress
  <2>1. Filled
    BY <1>4 DEF Filled
  <2>2. LaneA /\ LaneB
    <3>1. \A t \in Tile : Len(aq[t]) = 0 /\ Len(bq[t]) = 0
      BY <1>5
    <3>2. QED
      BY <3>1 DEF LaneA, LaneB
  <2>3. Alone
    BY <1>5 DEF Alone
  <2>4. Progress
    BY <1>4, <1>5 DEF Progress, Holding
  <2>5. QED
    BY <2>1, <2>2, <2>3, <2>4 DEF Aligned
<1>9. Places
  <2>1. ASSUME NEW c \in Codelets PROVE at[c] \in PlacesOf[c[1]]
    <3>1. c \in TileKinds \X Tile \/ c = Barrier \/ c = End
      BY DEF Codelets
    <3>2. CASE c = Barrier \/ c = End
      BY <1>4, <3>2 DEF PlacesOf, Barrier, End
    <3>3. CASE c \in TileKinds \X Tile
      <4>1. PICK t \in Tile : /\ c = <<c[1], t>>
                              /\ c[1] \in TileKinds
        BY <3>3
      <4>2. at[c] = IF c[1] \in {"copyA", "copyB"} THEN "ready" ELSE "wait"
        BY <1>4, <4>1 DEF TileKinds
      <4>3. QED
        BY <4>1, <4>2 DEF PlacesOf, TileKinds
    <3>4. QED
      BY <3>1, <3>2, <3>3
  <2>2. QED
    BY <2>1 DEF Places
<1>10. Counts
  <2>1. Undone("skew") = Tile /\ Undone("copyC") = Tile
    BY <1>4 DEF Undone
  <2>2. ASSUME NEW t \in Tile
        PROVE  /\ Due(<<"copyA", t>>) = 1 /\ Due(<<"copyB", t>>) = 1
               /\ Due(<<"compute", t>>) = 1
    BY <1>4 DEF Due
  <2>3. QED
    BY <1>1, <1>4, <2>1, <2>2, Squares DEF Counts
<1>11. Waiting
  <2>1. \A c \in Codelets : at[c] = "wait" <=> dep[c] > 0
    BY <1>1, <1>6
  <2>2. QED
    BY <1>4, <2>1 DEF Waiting
<1>12. QueuesA /\ QueuesB
  <2>1. ASSUME NEW t \in Tile
        PROVE  /\ SentA(t) = 0 /\ SentB(t) = 0 /\ PoppedA(t) = 0 /\ PoppedB(t) = 0
               /\ SkewedA(t) = 0 /\ SkewedB(t) = 0
    <3>1. /\ iter[t] = 0 /\ at[<<"compute", t>>] = "wait" /\ at[<<"skew", t>>] = "wait"
      BY <1>4, <1>5
    <3>2. QED
      BY <3>1 DEF SentA, SentB, PoppedA, PoppedB, SkewedA, SkewedB
  <2>2. ASSUME NEW t \in Tile
        PROVE  /\ PrevRow(t) \in Tile /\ PrevCol(t) \in Tile
               /\ NthA(t, 0) \in Tile /\ NthB(t, 0) \in Tile
               /\ Len(aq[t]) = 0 /\ Len(bq[t]) = 0
    BY <1>1, <1>5, Torus
  <2>3. \A t \in Tile : at[<<"compute", t>>] \notin Holding
    BY <1>4 DEF Holding
  <2>4. QueuesA
    BY <2>1, <2>2, <2>3 DEF QueuesA
  <2>5. QueuesB
    BY <2>1, <2>2, <2>3 DEF QueuesB
  <2>6. QED
    BY <2>4, <2>5
<1>13. Products
  <2>1. ASSUME NEW t \in Tile PROVE Product(t)
    <3>1. prods[t] = <<>> /\ iter[t] = 0 /\ at[<<"compute", t>>] = "wait"
      BY <1>4, <1>5
    <3>2. QED
      BY <3>1 DEF Product, Multiplied, Holding
  <2>2. QED
    BY <2>1, ProductsAre
<1>14. QED
  BY <1>7, <1>8, <1>9, <1>10, <1>11, <1>12, <1>13 DEF Inv

(* The number of tiles never changes.                                      *)
LEMMA NextSize == [Next]_vars => S' = S
<1> USE DEF Goto, SignalAndReturn
<1>1. ASSUME NEW w \in Worker, NEW t \in Tile, Fire(w, t) PROVE S' = S
  BY <1>1 DEF Fire, CopyA, CopyB, SkewA, SkewB, SkewSignal, Multiply, PushA, PushB,
              PopA, PopB, Finish, CopyC
<1>2. ASSUME NEW w \in Worker, NEW c \in Codelets, Take(w, c) PROVE S' = S
  BY <1>2 DEF Take
<1>3. ASSUME NEW w \in Worker, BarrierFire(w) \/ EndFire(w) PROVE S' = S
  BY <1>3 DEF BarrierFire, EndFire
<1>4. QED
  BY <1>1, <1>2, <1>3 DEF Next, Step, vars

(* The invariant holds in every state: queues hold the tiles of the        *)
(* algorithm in order, however the workers take turns.                     *)
THEOREM Invariance == Spec => []Inv
<1>1. Init => Inv
  BY InitInv
<1>2. Inv /\ [Next]_vars => Inv'
  <2> SUFFICES ASSUME Inv, [Next]_vars PROVE Inv'
    OBVIOUS
  <2>1. TypeOK' /\ Filled' /\ Places' /\ Alone'
    BY TypeStep, FilledStep, PlacesStep, AloneStep
  <2>2. Counts' /\ Waiting' /\ Progress' /\ Products'
    BY CountsStep, WaitingStep, ProgressStep, ProductsStep
  <2>3. S' = S
    BY NextSize
  <2>4. QueuesA' /\ LaneA' /\ QueuesB' /\ LaneB'
    BY <2>3, RowsStep, ColumnsStep, RowsAre, ColumnsAre
  <2>5. QED
    BY <2>1, <2>2, <2>4 DEF Inv, Aligned
<1>3. QED
  BY <1>1, <1>2, PTL DEF Spec

(* When the program goes on, C is the product.                             *)
THEOREM Correctness == Spec => []Correct
<1>1. Inv => Correct
  <2> SUFFICES ASSUME Inv, signalled, NEW t \in Tile
               PROVE  Len(C[t]) = S /\ {C[t][i] : i \in 1 .. S} = Terms(t)
    BY DEF Correct
  <2>1. at[<<"copyC", t>>] = "done" /\ at[<<"compute", t>>] = "done"
    BY AtEnd DEF Inv, Progress
  <2>2. C[t] = prods[t] /\ iter[t] = S
    BY <2>1 DEF Inv, Progress
  <2>3. Product(t) /\ S \in Nat \ {0}
    BY SizeIs, ProductsAre
  <2>4. Len(C[t]) = S
    BY <2>1, <2>2, <2>3 DEF Product, Multiplied, Holding
  <2>5. \A i \in 1 .. S : C[t][i] = <<NthA(t, i - 1), NthB(t, i - 1)>>
    BY <2>2, <2>3, <2>4 DEF Product
  <2>6. {C[t][i] : i \in 1 .. S} = {<<NthA(t, i - 1), NthB(t, i - 1)>> : i \in 1 .. S}
    BY <2>5
  <2>7. QED
    BY <2>3, <2>4, <2>6, Covering
<1>2. QED
  BY <1>1, Invariance, PTL

(* No two threads enqueue to one queue at the same time: the barrier keeps *)
(* the skew codelets apart from the compute codelets, and two of a kind    *)
(* have different targets.                                                 *)
THEOREM Producers == Spec => []OneProducer
<1>1. Inv => OneProducer
  <2> SUFFICES ASSUME Inv PROVE OneProducer
    OBVIOUS
  <2> DEFINE TargetA(c) == IF c[1] = "skew" THEN DestRow(c[2]) ELSE NextRow(c[2])
             TargetB(c) == IF c[1] = "skew" THEN DestCol(c[2]) ELSE NextCol(c[2])
             Pushing == {c \in {"skew", "compute"} \X Tile : at[c] \in {"pushA", "pushB"}}
  <2>1. ASSUME NEW c \in Pushing, NEW d \in Pushing, c # d
        PROVE  TargetA(c) # TargetA(d) /\ TargetB(c) # TargetB(d)
    <3>1. PICK k \in {"skew", "compute"}, t \in Tile : c = <<k, t>>
      OBVIOUS
    <3>2. PICK l \in {"skew", "compute"}, u \in Tile : d = <<l, u>>
      OBVIOUS
    <3>3. at[<<k, t>>] \in {"pushA", "pushB"} /\ at[<<l, u>>] \in {"pushA", "pushB"}
      BY <3>1, <3>2
    <3>4. k = l
      <4>1. \A s \in Tile : at[<<"skew", s>>] \in {"pushA", "pushB"} =>
              \A v \in Tile : at[<<"compute", v>>] = "wait"
        BY AtSkew
      <4>2. QED
        BY <3>3, <4>1
    <3>5. t # u /\ S \in Nat \ {0}
      BY <2>1, <3>1, <3>2, <3>4, SizeIs
    <3>6. /\ DestRow(t) # DestRow(u) /\ NextRow(t) # NextRow(u)
          /\ DestCol(t) # DestCol(u) /\ NextCol(t) # NextCol(u)
      <4>1. /\ DestRow(t) \in Tile /\ NextRow(t) \in Tile
            /\ DestCol(t) \in Tile /\ NextCol(t) \in Tile
        BY <3>5, Torus
      <4>2. /\ NthA(DestRow(t), 0) = t /\ NthB(DestCol(t), 0) = t
            /\ PrevRow(NextRow(t)) = t /\ PrevCol(NextCol(t)) = t
        BY <3>5, <4>1, Skewing, Passing
      <4>3. /\ DestRow(u) = DestRow(t) => NthA(DestRow(t), 0) = u
            /\ DestCol(u) = DestCol(t) => NthB(DestCol(t), 0) = u
            /\ NextRow(u) = NextRow(t) => PrevRow(NextRow(t)) = u
            /\ NextCol(u) = NextCol(t) => PrevCol(NextCol(t)) = u
        BY <3>5, <4>1, Skewing, Passing
      <4>4. QED
        BY <3>5, <4>2, <4>3
    <3>7. QED
      BY <3>1, <3>2, <3>4, <3>6
  <2> HIDE DEF TargetA, TargetB
  <2>2. /\ \A c, d \in {e \in {"skew", "compute"} \X Tile : at[e] = "pushA"} :
             c # d => TargetA(c) # TargetA(d)
        /\ \A c, d \in {e \in {"skew", "compute"} \X Tile : at[e] = "pushB"} :
             c # d => TargetB(c) # TargetB(d)
    BY <2>1
  <2>3. QED
    BY <2>2 DEF OneProducer, TargetA, TargetB
<1>2. QED
  BY <1>1, Invariance, PTL

=============================================================================
