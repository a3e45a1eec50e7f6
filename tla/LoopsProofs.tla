---------------------------- MODULE LoopsProofs ----------------------------
(***************************************************************************)
(* Theorems about Loops, for any threads and any loops.                    *)
(*                                                                         *)
(* LInv is the inductive invariant.  Of the loop codelet and cont at most  *)
(* one is queued or at work (Alone); what it is tells the state of the     *)
(* round (Rounds).  An iteration that was handed out but has not run is    *)
(* due (Flight), is in one place (Unique) and in its memory (Frames), with *)
(* the references of who still needs it (Refs, Once), so that a round does *)
(* not end before all have run, and none runs twice.  OuterExact makes the *)
(* TP of the loop the last to go (Gone), as no iteration is lost (Whole).  *)
(***************************************************************************)
EXTENDS Loops, FiniteSetTheorems, TLAPS

-----------------------------------------------------------------------------
(* Arithmetic of quotients and remainders.                                 *)

(* The remainder of a number in 0 .. w - 1 is the number itself.           *)
LEMMA PlainMod ==
  ASSUME NEW w \in Nat \ {0}, NEW x \in Int, 0 <= x, x < w
  PROVE  x % w = x
OBVIOUS

(* Quotient and remainder of a number.                                     *)
LEMMA Division ==
  ASSUME NEW n \in Nat \ {0}, NEW x \in Int
  PROVE  /\ x \div n \in Int
         /\ x % n \in 0 .. n - 1
         /\ x = n * (x \div n) + (x % n)
OBVIOUS

(* The sign and the least size of a multiple.                              *)
LEMMA Multiples ==
  ASSUME NEW n \in Nat \ {0}, NEW d \in Int
  PROVE  /\ n * d \in Int
         /\ d >= 1 => n * d >= n
         /\ d <= 0 => n * d <= 0
         /\ d <= -1 => n * d <= -n
OBVIOUS

(* The remainder of a number is unique.                                    *)
LEMMA UniqueRemainder ==
  ASSUME NEW n \in Nat \ {0}, NEW q \in Int, NEW r \in 0 .. n - 1
  PROVE  (n * q + r) % n = r
<1> DEFINE x == n * q + r
           d == q - (x \div n)
<1>1. x \in Int /\ d \in Int
  BY Multiples, Division
<1>2. x = n * (x \div n) + (x % n) /\ x % n \in 0 .. n - 1 /\ x \div n \in Int
  BY <1>1, Division
<1>3. n * d = n * q - n * (x \div n)
  BY <1>2
<1>4. n * d = (x % n) - r
  <2>1. n * q = x - r /\ n * q \in Int
    BY Multiples
  <2>2. n * (x \div n) = x - (x % n)
    <3> HIDE DEF x
    <3> QED BY <1>1, <1>2, Multiples
  <2> HIDE DEF d, x
  <2>3. QED
    BY <1>1, <1>2, <1>3, <2>1, <2>2
<1>5. n * d < n /\ n * d > -n /\ n * d \in Int
  BY <1>2, <1>4
<1>6. d = 0
  <2> HIDE DEF d, x
  <2> QED BY <1>1, <1>5, Multiples
<1>7. QED
  BY <1>2, <1>4, <1>6

(* Multiplication keeps the order.                                         *)
LEMMA Ordered ==
  ASSUME NEW n \in Nat, NEW a \in Int, NEW b \in Int, a <= b
  PROVE  /\ n * a \in Int /\ n * b \in Int
         /\ n * a <= n * b
OBVIOUS

-----------------------------------------------------------------------------
(* The inductive invariant.                                                *)

(* From the first start of the loop codelet to the end of the round.        *)
InRound == IF kind = "serial" THEN cur > 0 ELSE fired

(* What a thread does for the loop codelet (loop, signal) and for cont.     *)
Activations == {"loop", "signal", "cont"}

Requested == <<"loop", 0>> \in queue \/ \E t \in Threads : pc[t] = "loop"
Signalling == \E t \in Threads : pc[t] = "signal"
Continuing == <<"cont", 0>> \in queue \/ \E t \in Threads : pc[t] = "cont"

(* There is one activation of the codelets of the loop's TP at most.       *)
Alone ==
  /\ \A t, u \in Threads : pc[t] \in Activations /\ pc[u] \in Activations => t = u
  /\ <<"loop", 0>> \in queue \/ <<"cont", 0>> \in queue =>
       \A t \in Threads : pc[t] \notin Activations
  /\ ~ (<<"loop", 0>> \in queue /\ <<"cont", 0>> \in queue)

(* The signals that the loop codelet still waits for.                       *)
Outstanding ==
  IF kind = "serial" THEN 1 ELSE iterations - Cardinality(done)

(* What the counter and the history are in each state of the round.         *)
Rounds ==
  /\ kind = "serial" => ~ fired
  /\ kind # "serial" => cur = 0
  /\ InRound \/ Requested \/ Signalling => round < rounds
  /\ Signalling \/ Continuing => ~ InRound
  /\ Continuing => round >= 1
  /\ ~ InRound => counter = IF Requested THEN 0 ELSE 1
  /\ ~ InRound => done = IF Signalling THEN Iter ELSE {}
  /\ ~ InRound /\ ~ Requested /\ ~ Signalling /\ ~ Continuing => round = rounds
  /\ InRound /\ Requested =>
       counter = 0 /\ done = IF kind = "serial" THEN 0 .. cur - 1 ELSE Iter
  /\ InRound /\ ~ Requested => counter = Outstanding /\ counter > 0
  /\ InRound /\ ~ Requested /\ kind = "serial" => done = 0 .. cur - 2

(* The number of iteration k of this round.                                *)
Number(k) == IF Placed THEN k ELSE iterations * round + k

(* Thread t will hand out iteration k of this round.                        *)
Supplies(t, k) ==
  \/ pc[t] = "spawn" /\ arg[t] <= k
  \/ kind = "codelet" /\ pc[t] \in {"build", "add", "release"} /\ arg[t] < k

(* A thread has an iteration that has yet to run; an iteration is in the    *)
(* hands of a thread.                                                       *)
Carries(t) == pc[t] \in {"build", "add", "body"}
Kept(t) == Carries(t) \/ (~ Placed /\ pc[t] \in {"release", "drop", "destroy"})

(* What the numbers at codelets, closures and threads can be.               *)
Args ==
  /\ \A a \in queue : a[1] \in {"loop", "cont"} => a[2] = 0
  /\ \A a \in queue : a[1] = "build" => ~ Placed
  /\ \A t \in Threads :
       /\ pc[t] = "spawn" => ~ Placed /\ arg[t] \in Iter
       /\ pc[t] \in {"build", "add", "release", "body"} =>
            arg[t] \in IF Placed THEN Iter ELSE Numbers
       /\ pc[t] \in {"drop", "destroy"} => ~ Placed /\ arg[t] \in Numbers

(* Each iteration is in one place.                                         *)
Unique ==
  /\ \A t, u \in Threads :
       t # u /\ Kept(t) /\ Kept(u) /\ arg[t] = arg[u] =>
         \/ pc[t] = "release" /\ pc[u] \in {"body", "drop"}
         \/ pc[u] = "release" /\ pc[t] \in {"body", "drop"}
  /\ \A t \in Threads : Kept(t) =>
       /\ <<"body", arg[t]>> \in queue => pc[t] = "release"
       /\ <<"build", arg[t]>> \notin queue
  /\ \A n \in Numbers : ~ (<<"build", n>> \in queue /\ <<"body", n>> \in queue)
  /\ \A t, u \in Threads, k \in Iter : Supplies(t, k) /\ Supplies(u, k) => t = u

(* An iteration of this round that has yet to run.                         *)
Due(n) ==
  /\ InRound
  /\ n = Number(Index(n)) /\ Index(n) \notin done
  /\ \A t \in Threads : ~ Supplies(t, Index(n))
  /\ kind = "serial" => n = cur - 1

(* What is queued or carried is due; what is handed out later has not run.  *)
Flight ==
  /\ \A n \in Numbers : <<"build", n>> \in queue \/ <<"body", n>> \in queue => Due(n)
  /\ \A t \in Threads : Carries(t) => Due(arg[t])
  /\ \A t \in Threads, k \in Iter : Supplies(t, k) => InRound /\ k \notin done

(* Numbers of iterations that have not been spawned.                       *)
Fresh(n) ==
  \/ n >= iterations * (round + 1)
  \/ /\ n >= iterations * round
     /\ (~ InRound /\ ~ Signalling) \/ \E t \in Threads : Supplies(t, Index(n))

(* Whose memory is whose, and which memory is unused.                       *)
Frames ==
  /\ \A n \in Numbers : <<"body", n>> \in queue => frame[Cell(n)] = n
  /\ \A t \in Threads :
       Kept(t) /\ pc[t] # "build" => frame[Cell(arg[t])] = arg[t]
  /\ Placed /\ ~ InRound => \A n \in Numbers : frame[n] = -1
  /\ kind = "serial" => \A n \in Numbers : n # 0 => frame[n] = -1
  /\ kind = "para" => \A n \in Numbers : frame[n] \in {-1, n} /\ (Fresh(n) => frame[n] = -1)
  /\ kind = "para" => \A n \in Numbers : <<"build", n>> \in queue => frame[n] = -1
  /\ kind = "para" => \A t \in Threads : pc[t] = "build" => frame[arg[t]] = -1

(* The codelet of iteration n holds a reference; its factory does.          *)
HasBody(n) == \/ <<"body", n>> \in queue
              \/ \E t \in Threads : pc[t] \in {"body", "drop"} /\ arg[t] = n
Releasing(n) == \E t \in Threads : pc[t] = "release" /\ arg[t] = n

(* References of invoked iterations, one for the factory and one for the    *)
(* codelet; in shared memory only that some are left.                       *)
Refs ==
  /\ ~ Placed =>
       /\ ~ freed
       /\ \A t \in Threads : pc[t] = "add" => ref[arg[t]] = 1
       /\ \A t \in Threads : pc[t] = "release" =>
            ref[arg[t]] = IF HasBody(arg[t]) THEN 2 ELSE 1
       /\ \A n \in Numbers : HasBody(n) /\ ~ Releasing(n) => ref[n] = 1
  /\ Placed /\ ~ freed =>
       \A t \in Threads : pc[t] \in {"add", "release"} => ref[Cell(arg[t])] >= 1

(* A factory at work.                                                       *)
Building(t) == pc[t] \in {"build", "add", "release"}

(* Where memory is used once a factory never gives the last reference up.   *)
Once == UsedOnce /\ Placed =>
  /\ ~ freed
  /\ \A t, u \in Threads : Building(t) /\ Building(u) => t = u
  /\ Requested /\ ~ InRound => \A t \in Threads : ~ Building(t)
  /\ \A t \in Threads : pc[t] = "add" => ref[Cell(arg[t])] = 1
  /\ \A t \in Threads : pc[t] = "release" => ref[Cell(arg[t])] = 2

(* The TP of the loop is deleted with its last reference.                   *)
Gone == outer = "deleted" => outerRef = 0

(* No iteration of a round is lost (paraFor).                              *)
Accounted(k) ==
  \/ \E t \in Threads : Supplies(t, k)
  \/ <<"build", Number(k)>> \in queue \/ <<"body", Number(k)>> \in queue
  \/ \E t \in Threads : Carries(t) /\ arg[t] = Number(k)

Whole == kind = "para" /\ InRound => \A k \in Iter \ done : Accounted(k)

LInv == /\ TypeOK /\ Alone /\ Rounds /\ Args /\ Unique /\ Flight /\ Frames /\ Refs /\ Once
        /\ OuterExact /\ Gone /\ Whole

-----------------------------------------------------------------------------
(* What the types say, without the program.                                *)
LEMMA Types ==
  ASSUME TypeOK
  PROVE  /\ kind \in {"para", "codelet", "serial"}
         /\ iterations \in Nat \ {0} /\ rounds \in Nat \ {0}
         /\ counter \in Nat /\ fired \in BOOLEAN /\ cur \in 0 .. iterations /\ cur \in Nat
         /\ outer \in {"live", "deleted"} /\ outerRef \in Nat
         /\ frame \in [Numbers -> Numbers \cup {-1}] /\ ref \in [Numbers -> Nat]
         /\ freed \in BOOLEAN
         /\ queue \subseteq {"loop", "cont", "build", "body"} \X Numbers
         /\ pc \in [Threads -> PCs] /\ arg \in [Threads -> Nat]
         /\ done \subseteq Iter /\ round \in 0 .. rounds /\ round \in Nat
BY ProgramsAssumption DEF TypeOK, program

(* Iterations and their numbers.                                           *)
LEMMA Numbering ==
  ASSUME TypeOK
  PROVE  /\ Iter \subseteq Numbers /\ Numbers \subseteq Nat /\ 0 \in Iter
         /\ \A k \in Iter : Index(k) = k /\ k \in Nat
         /\ \A n \in Nat : Index(n) \in Iter
         /\ round < rounds => \A k \in Iter : /\ iterations * round + k \in Numbers
                                              /\ Index(iterations * round + k) = k
         /\ round * iterations = iterations * round
<1>1. PICK m, r, q : m = iterations /\ r = rounds /\ q = round
  OBVIOUS
<1>2. m \in Nat \ {0} /\ r \in Nat \ {0} /\ q \in Nat
  BY <1>1, Types
<1>3. m * r \in Int /\ m * 1 <= m * r /\ m * 1 = m
  BY <1>2, Ordered
<1>4. Iter \subseteq Numbers /\ Numbers \subseteq Nat /\ 0 \in Iter
  BY <1>1, <1>2, <1>3 DEF Iter, Numbers
<1>5. \A k \in Iter : Index(k) = k /\ k \in Nat
  BY <1>1, <1>2, PlainMod DEF Iter, Index
<1>6. \A n \in Nat : Index(n) \in Iter
  BY <1>1, <1>2, Division DEF Iter, Index
<1>7. ASSUME q < r, NEW k \in Iter
      PROVE  m * q + k \in Numbers /\ Index(m * q + k) = k
  <2>1. k \in 0 .. m - 1 /\ k \in Nat
    BY <1>1, <1>2 DEF Iter
  <2>2. m * (q + 1) <= m * r /\ m * (q + 1) = m * q + m /\ m * q \in Int
    BY <1>2, <1>7, Ordered
  <2>3. m * q >= 0
    BY <1>2, Multiples
  <2>4. m * q + k \in Numbers
    BY <1>1, <1>2, <1>3, <2>1, <2>2, <2>3 DEF Numbers
  <2>5. (m * q + k) % m = k
    BY <1>2, <2>1, UniqueRemainder
  <2>6. QED
    BY <1>1, <2>4, <2>5 DEF Index
<1>8. q * m = m * q
  BY <1>2
<1>9. QED
  BY <1>1, <1>4, <1>5, <1>6, <1>7, <1>8

(* A step of a thread does not change the program, and what it is made of. *)
LEMMA Fixed ==
  ASSUME NEW t \in Threads, Step(t)
  PROVE  /\ program' = program /\ ~ freed
         /\ kind' = kind /\ iterations' = iterations /\ rounds' = rounds
         /\ Iter' = Iter /\ Numbers' = Numbers /\ (Placed' <=> Placed)
         /\ \A n : Index(n)' = Index(n) /\ Cell(n)' = Cell(n)
<1>1. program' = program /\ ~ freed
  BY DEF Step, Take, ParaStart, ParaSpawn, ParaEnd, SerialNext, SerialEnd, CodeletStart,
    CodeletEnd, Build, Add, Release, Body, Drop, Destroy, Signal, Cont, Leave
<1>2. kind' = kind /\ iterations' = iterations /\ rounds' = rounds
  BY <1>1 DEF program
<1>3. QED
  BY <1>1, <1>2 DEF Iter, Numbers, Placed, Index, Cell

-----------------------------------------------------------------------------
(* What a thread takes.                                                    *)
LEMMA TakeEffect ==
  ASSUME LInv, NEW t \in Threads, Take(t)
  PROVE  \E l \in {"loop", "cont", "build", "body"}, n \in Numbers :
           /\ pc[t] = "idle" /\ <<l, n>> \in queue /\ queue' = queue \ {<<l, n>>}
           /\ l \in {"loop", "cont"} => n = 0
           /\ l = "build" => ~ Placed
           /\ pc' = [pc EXCEPT ![t] = l] /\ arg' = [arg EXCEPT ![t] = n]
           /\ counter' = counter /\ fired' = fired /\ cur' = cur
           /\ outer' = outer /\ outerRef' = outerRef /\ frame' = frame /\ ref' = ref
           /\ freed' = freed /\ done' = done /\ round' = round
<1>1. PICK a \in queue : queue' = queue \ {a} /\ Goto(t, a[1], a[2])
  BY DEF Take
<1>2. PICK l \in {"loop", "cont", "build", "body"}, n \in Numbers : a = <<l, n>>
  BY <1>1, Types DEF LInv
<1>3. (l \in {"loop", "cont"} => n = 0) /\ (l = "build" => ~ Placed)
  BY <1>1, <1>2 DEF LInv, Args
<1>4. QED
  BY <1>1, <1>2, <1>3 DEF Take, Goto, loopVars, outerVars, history

-----------------------------------------------------------------------------
(* The state of the loop, seen from what a thread does.                    *)

(* While the loop codelet is requested, no iteration is due.               *)
LEMMA NoneDue ==
  ASSUME LInv, Requested \/ ~ InRound
  PROVE  /\ \A n \in Numbers : ~ Due(n)
         /\ \A n \in Numbers : <<"build", n>> \notin queue /\ <<"body", n>> \notin queue
         /\ \A u \in Threads : ~ Carries(u)
         /\ \A u \in Threads, k \in Iter : ~ Supplies(u, k)
<1>0. TypeOK /\ Rounds /\ Args /\ Flight
  BY DEF LInv
<1>1. \A n \in Numbers : ~ Due(n)
  <2>1. SUFFICES ASSUME NEW n \in Numbers, Due(n) PROVE FALSE
    OBVIOUS
  <2>2. InRound /\ Requested /\ Index(n) \notin done /\ Index(n) \in Iter
    BY <1>0, <2>1, Numbering DEF Due
  <2>3. kind = "serial" /\ done = 0 .. cur - 1 /\ cur > 0
    BY <1>0, <2>2 DEF Rounds, InRound
  <2>4. n = cur - 1 /\ n = Index(n)
    BY <2>1, <2>3 DEF Due, Number, Placed
  <2>5. QED
    BY <1>0, <2>2, <2>3, <2>4, Types
<1>2. \A n \in Numbers : <<"build", n>> \notin queue /\ <<"body", n>> \notin queue
  BY <1>0, <1>1 DEF Flight
<1>3. \A u \in Threads : Carries(u) => arg[u] \in Numbers
  BY <1>0, Numbering DEF Args, Carries
<1>4. \A u \in Threads : ~ Carries(u)
  BY <1>0, <1>1, <1>3 DEF Flight
<1>5. ASSUME NEW u \in Threads, NEW k \in Iter, Supplies(u, k) PROVE FALSE
  <2>1. InRound /\ k \notin done
    BY <1>0, <1>5 DEF Flight
  <2>2. kind # "serial"
    BY <1>0, <1>5 DEF Supplies, Args, Placed
  <2>3. QED
    BY <1>0, <2>1, <2>2 DEF Rounds
<1>6. QED
  BY <1>1, <1>2, <1>4, <1>5

(* Nothing is queued while a thread is at a codelet of the loop's TP.      *)
LEMMA Activated ==
  ASSUME LInv, NEW t \in Threads, pc[t] \in Activations
  PROVE  /\ queue = {} /\ \A u \in Threads : u # t => pc[u] \notin Activations
         /\ pc[t] = "loop" => Requested /\ ~ Signalling /\ ~ Continuing
         /\ pc[t] = "signal" => ~ InRound /\ ~ Requested /\ Signalling /\ ~ Continuing
         /\ pc[t] = "cont" => ~ InRound /\ ~ Requested /\ ~ Signalling /\ Continuing
<1>0. TypeOK /\ Rounds /\ Args /\ Alone
  BY DEF LInv
<1>1. /\ <<"loop", 0>> \notin queue /\ <<"cont", 0>> \notin queue
      /\ \A u \in Threads : u # t => pc[u] \notin Activations
  BY <1>0 DEF Alone
<1>2. /\ pc[t] = "loop" => Requested /\ ~ Signalling /\ ~ Continuing
      /\ pc[t] = "signal" => ~ Requested /\ Signalling /\ ~ Continuing
      /\ pc[t] = "cont" => ~ Requested /\ ~ Signalling /\ Continuing
  BY <1>1 DEF Requested, Signalling, Continuing, Activations
<1>3. pc[t] \in {"signal", "cont"} => ~ InRound
  BY <1>0, <1>2 DEF Rounds
<1>4. Requested \/ ~ InRound
  BY <1>2, <1>3 DEF Activations
<1>5. queue = {}
  <2>1. SUFFICES ASSUME NEW a \in queue PROVE FALSE
    OBVIOUS
  <2>2. PICK l \in {"loop", "cont", "build", "body"}, n \in Numbers : a = <<l, n>>
    BY <1>0, <2>1, Types
  <2>3. l \in {"loop", "cont"}
    BY <1>4, <2>1, <2>2, NoneDue
  <2>4. n = 0
    BY <1>0, <2>1, <2>2, <2>3 DEF Args
  <2>5. QED
    BY <1>1, <2>1, <2>2, <2>3, <2>4
<1>6. QED
  BY <1>1, <1>2, <1>3, <1>5

(* A due iteration keeps the loop codelet waiting.                         *)
LEMMA Waiting ==
  ASSUME LInv, InRound, ~ Requested
  PROVE  /\ ~ Signalling /\ ~ Continuing /\ counter = Outstanding /\ counter > 0
         /\ round < rounds /\ <<"loop", 0>> \notin queue /\ <<"cont", 0>> \notin queue
         /\ \A u \in Threads : pc[u] \notin Activations
<1>1. Rounds
  BY DEF LInv
<1>2. QED
  BY <1>1 DEF Rounds, Requested, Signalling, Continuing, Activations

(* A thread that carries an iteration carries one that is due.              *)
LEMMA Carrying ==
  ASSUME LInv, NEW t \in Threads, Carries(t)
  PROVE  /\ InRound /\ ~ Requested /\ Due(arg[t]) /\ arg[t] \in Numbers
         /\ Index(arg[t]) \in Iter \ done /\ arg[t] = Number(Index(arg[t]))
         /\ kind = "serial" => arg[t] = cur - 1 /\ Index(arg[t]) = cur - 1
<1>0. TypeOK /\ Args /\ Flight
  BY DEF LInv
<1>1. InRound /\ ~ Requested
  BY NoneDue
<1>2. Due(arg[t]) /\ arg[t] \in Numbers
  BY <1>0, Numbering DEF Flight, Args, Carries
<1>3. QED
  BY <1>0, <1>1, <1>2, Numbering DEF Due, Number, Placed

(* The thread that hands iterations out.                                   *)
LEMMA Supplying ==
  ASSUME LInv, NEW t \in Threads, NEW k \in Iter, Supplies(t, k)
  PROVE  /\ InRound /\ ~ Requested /\ k \notin done /\ kind # "serial"
         /\ Number(k) \in Numbers /\ Index(Number(k)) = k
         /\ \A u \in Threads : Carries(u) => arg[u] # Number(k)
         /\ <<"build", Number(k)>> \notin queue /\ <<"body", Number(k)>> \notin queue
<1>0. TypeOK /\ Rounds /\ Args /\ Flight
  BY DEF LInv
<1>1. InRound /\ ~ Requested
  BY NoneDue
<1>2. k \notin done /\ kind # "serial"
  BY <1>0 DEF Flight, Supplies, Args, Placed
<1>3. Number(k) \in Numbers /\ Index(Number(k)) = k
  BY <1>0, <1>1, Waiting, Numbering DEF Number
<1>4. ~ Due(Number(k))
  BY <1>3 DEF Due
<1>5. QED
  BY <1>0, <1>1, <1>2, <1>3, <1>4 DEF Flight

(* Counting.                                                               *)
LEMMA Sets ==
  ASSUME TypeOK
  PROVE  /\ IsFiniteSet(Threads) /\ IsFiniteSet(Numbers) /\ IsFiniteSet(Iter)
         /\ \A S : S \subseteq Threads \/ S \subseteq Numbers \/ S \subseteq Iter =>
              /\ IsFiniteSet(S) /\ Cardinality(S) \in Nat
              /\ S # {} => Cardinality(S) > 0
<1>1. IsFiniteSet(Threads)
  BY ProgramsAssumption
<1>2. IsFiniteSet(Numbers)
  BY Types, FS_Interval, Ordered DEF Numbers
<1>3. IsFiniteSet(Iter)
  BY Types, FS_Interval DEF Iter
<1>4. ASSUME NEW S, S \subseteq Threads \/ S \subseteq Numbers \/ S \subseteq Iter
      PROVE  IsFiniteSet(S)
  BY <1>1, <1>2, <1>3, <1>4, FS_Subset
<1>5. QED
  BY <1>1, <1>2, <1>3, <1>4, FS_CardinalityType, FS_EmptySet

Queued == {a \in queue : a[1] \in {"loop", "cont"}}
AtWork == {t \in Threads : pc[t] \in Firing}
Bit == IF (kind = "codelet" /\ fired) \/ (kind = "serial" /\ cur > 0) THEN 1 ELSE 0

(* The codelets of the loop's TP in the queue are none or one.             *)
LEMMA QueuedCount ==
  ASSUME TypeOK, Args
  PROVE  /\ Queued \subseteq {<<"loop", 0>>, <<"cont", 0>>}
         /\ IsFiniteSet(Queued) /\ Cardinality(Queued) \in Nat
         /\ Queued # {} => Cardinality(Queued) > 0
<1>1. Queued \subseteq {<<"loop", 0>>, <<"cont", 0>>}
  <2>1. SUFFICES ASSUME NEW a \in queue, a[1] \in {"loop", "cont"}
                 PROVE  a \in {<<"loop", 0>>, <<"cont", 0>>}
    BY DEF Queued
  <2>2. PICK l \in {"loop", "cont", "build", "body"}, n \in Numbers : a = <<l, n>>
    BY Types
  <2>3. QED
    BY <2>1, <2>2 DEF Args
<1>2. IsFiniteSet({<<"loop", 0>>, <<"cont", 0>>})
  <2>1. IsFiniteSet({<<"loop", 0>>}) /\ IsFiniteSet({<<"cont", 0>>})
    BY FS_Singleton
  <2>2. IsFiniteSet({<<"loop", 0>>} \cup {<<"cont", 0>>})
    BY <2>1, FS_Union
  <2>3. QED
    BY <2>2
<1>3. QED
  BY <1>1, <1>2, FS_Subset, FS_CardinalityType, FS_EmptySet

(* What the references on the TP of the loop count.                         *)
LEMMA Counted ==
  ASSUME LInv
  PROVE  /\ outerRef = Cardinality(Queued) + Cardinality(AtWork) + Cardinality(Children) + Bit
         /\ Cardinality(Queued) \in Nat /\ Cardinality(AtWork) \in Nat
         /\ Cardinality(Children) \in Nat /\ Bit \in {0, 1}
         /\ IsFiniteSet(AtWork) /\ IsFiniteSet(Children)
         /\ Queued # {} => Cardinality(Queued) > 0
         /\ AtWork # {} => Cardinality(AtWork) > 0
         /\ Children # {} => Cardinality(Children) > 0
         /\ outerRef \in Nat
         /\ \A t \in Threads : pc[t] = "leave" => outerRef > 0
         /\ \A t \in Threads : pc[t] = "loop" => outerRef > 0
         /\ \A t \in Threads : pc[t] = "destroy" => outerRef > 0
<1>1. TypeOK /\ Args /\ Frames /\ OuterExact
  BY DEF LInv
<1>2. outerRef = Cardinality(Queued) + Cardinality(AtWork) + Cardinality(Children) + Bit
  BY <1>1 DEF OuterExact, Queued, AtWork, Bit
<1>3. AtWork \subseteq Threads /\ Children \subseteq Numbers
  BY DEF AtWork, Children
<1>4. /\ Cardinality(AtWork) \in Nat /\ Cardinality(Children) \in Nat
      /\ IsFiniteSet(AtWork) /\ IsFiniteSet(Children)
      /\ AtWork # {} => Cardinality(AtWork) > 0
      /\ Children # {} => Cardinality(Children) > 0
  BY <1>1, <1>3, Sets
<1>5. Cardinality(Queued) \in Nat /\ (Queued # {} => Cardinality(Queued) > 0)
  BY <1>1, QueuedCount
<1>6. Bit \in {0, 1} /\ outerRef \in Nat
  BY <1>1, Types DEF Bit
<1>7. ASSUME NEW t \in Threads, pc[t] \in {"leave", "loop"} PROVE outerRef > 0
  <2>1. t \in AtWork
    BY <1>7 DEF AtWork, Firing
  <2>2. QED
    BY <1>2, <1>4, <1>5, <1>6, <2>1
<1>8. ASSUME NEW t \in Threads, pc[t] = "destroy" PROVE outerRef > 0
  <2>1. arg[t] \in Children
    BY <1>1, <1>8 DEF Frames, Args, Kept, Children, Cell, Placed
  <2>2. QED
    BY <1>2, <1>4, <1>5, <1>6, <2>1
<1>9. QED
  BY <1>2, <1>4, <1>5, <1>6, <1>7, <1>8

(* An iteration that is at its last step, or before, is counted.           *)
LEMMA Dropping ==
  ASSUME LInv, NEW t \in Threads, pc[t] = "drop"
  PROVE  /\ ~ Placed /\ arg[t] \in Numbers /\ ref[arg[t]] \in Nat
         /\ ref[arg[t]] = IF Releasing(arg[t]) THEN 2 ELSE 1
<1>1. TypeOK /\ Args /\ Refs
  BY DEF LInv
<1>2. ~ Placed /\ arg[t] \in Numbers /\ HasBody(arg[t])
  BY <1>1 DEF Args, HasBody
<1>3. ref[arg[t]] \in Nat
  BY <1>1, <1>2, Types
<1>4. QED
  BY <1>1, <1>2, <1>3 DEF Refs, Releasing


(* A step keeps the types of what it changes.                               *)
LEMMA TypesNext ==
  ASSUME TypeOK, program' = program, Numbers' = Numbers, Iter' = Iter,
         counter' \in Nat, fired' \in BOOLEAN, cur' \in 0 .. iterations,
         outer' \in {"live", "deleted"}, outerRef' \in Nat,
         frame' \in [Numbers -> Numbers \cup {-1}], ref' \in [Numbers -> Nat],
         freed' \in BOOLEAN,
         queue' \subseteq {"loop", "cont", "build", "body"} \X Numbers,
         pc' \in [Threads -> PCs], arg' \in [Threads -> Nat],
         done' \subseteq Iter, round' \in 0 .. rounds
  PROVE  TypeOK'
BY DEF TypeOK, program

(* Types.                                                                  *)
LEMMA TypeOKStep ==
  ASSUME LInv, NEW t \in Threads, Step(t)
  PROVE  TypeOK'
<1>0. TypeOK /\ Args /\ Rounds /\ Refs
  BY DEF LInv
<1>1. CASE Take(t)
  <2>1. PICK l \in {"loop", "cont", "build", "body"}, n \in Numbers :
          /\ queue' = queue \ {<<l, n>>}
          /\ pc' = [pc EXCEPT ![t] = l] /\ arg' = [arg EXCEPT ![t] = n]
          /\ counter' = counter /\ fired' = fired /\ cur' = cur
          /\ outer' = outer /\ outerRef' = outerRef /\ frame' = frame /\ ref' = ref
          /\ freed' = freed /\ done' = done /\ round' = round
    BY <1>1, TakeEffect
  <2>2. n \in Nat /\ l \in PCs
    BY <1>0, Numbering DEF PCs
  <2>3. pc' \in [Threads -> PCs] /\ arg' \in [Threads -> Nat]
    BY <1>0, <2>1, <2>2, Types
  <2>4. QED
    BY <1>0, <2>1, <2>3, Types, Fixed, TypesNext
<1>2. CASE ParaStart(t)
  <2>1. pc' \in [Threads -> PCs] /\ arg' \in [Threads -> Nat]
    BY <1>0, <1>2, Types, Numbering DEF ParaStart, Goto, PCs
  <2>2. counter' \in Nat /\ fired' \in BOOLEAN
    BY <1>0, <1>2, Types, Numbering DEF ParaStart
  <2>3. QED
    BY <1>0, <1>2, <2>1, <2>2, Types, Fixed, TypesNext
    DEF ParaStart, loopVars, outerVars, history
<1>3. CASE ParaSpawn(t)
  <2>1. pc' \in [Threads -> PCs] /\ arg' \in [Threads -> Nat]
    BY <1>0, <1>3, Types DEF ParaSpawn, Goto, PCs
  <2>2. Supplies(t, arg[t]) /\ arg[t] \in Iter /\ ~ Placed
    BY <1>0, <1>3, Types DEF ParaSpawn, Supplies, Args
  <2>3. Number(arg[t]) \in Numbers /\ Number(arg[t]) = round * iterations + arg[t]
    BY <1>0, <2>2, Supplying, Numbering DEF Number
  <2>4. outerRef' \in Nat /\ queue' \subseteq {"loop", "cont", "build", "body"} \X Numbers
    BY <1>0, <1>3, <2>3, Types DEF ParaSpawn
  <2>5. QED
    BY <1>0, <1>3, <2>1, <2>4, Types, Fixed, TypesNext DEF ParaSpawn, loopVars, history
<1>4. CASE ParaEnd(t)
  <2>1. pc' \in [Threads -> PCs] /\ arg' \in [Threads -> Nat]
    BY <1>0, <1>4, Types, Numbering DEF ParaEnd, Goto, PCs
  <2>2. counter' \in Nat /\ fired' \in BOOLEAN
    BY <1>0, <1>4, Types, Numbering DEF ParaEnd
  <2>3. QED
    BY <1>0, <1>4, <2>1, <2>2, Types, Fixed, TypesNext DEF ParaEnd, loopVars, outerVars, history
<1>5. CASE SerialNext(t)
  <2>1. pc' \in [Threads -> PCs] /\ arg' \in [Threads -> Nat]
    BY <1>0, <1>5, Types, Numbering DEF SerialNext, Goto, PCs
  <2>2. /\ counter' \in Nat /\ outerRef' \in Nat /\ cur' \in 0 .. iterations
        /\ frame' \in [Numbers -> Numbers \cup {-1}]
    BY <1>0, <1>5, Types, Numbering DEF SerialNext
  <2>3. QED
    BY <1>0, <1>5, <2>1, <2>2, Types, Fixed, TypesNext
    DEF SerialNext, loopVars, outerVars, history
<1>6. CASE SerialEnd(t)
  <2>1. pc' \in [Threads -> PCs] /\ arg' \in [Threads -> Nat]
    BY <1>0, <1>6, Types DEF SerialEnd, Goto, PCs
  <2>2. counter' \in Nat /\ cur' \in 0 .. iterations
    BY <1>0, <1>6, Types DEF SerialEnd
  <2>3. frame' \in [Numbers -> Numbers \cup {-1}]
    BY <1>0, <1>6, Types, Numbering DEF SerialEnd
  <2>4. outerRef' \in Nat
    BY <1>0, <1>6, Types, Counted DEF SerialEnd
  <2>5. QED
    BY <1>0, <1>6, <2>1, <2>2, <2>3, <2>4, Types, Fixed, TypesNext DEF SerialEnd, history
<1>7. CASE CodeletStart(t)
  <2>1. pc' \in [Threads -> PCs] /\ arg' \in [Threads -> Nat]
    BY <1>0, <1>7, Types, Numbering DEF CodeletStart, Goto, PCs
  <2>2. counter' \in Nat /\ fired' \in BOOLEAN /\ outerRef' \in Nat
    BY <1>0, <1>7, Types, Numbering DEF CodeletStart
  <2>3. QED
    BY <1>0, <1>7, <2>1, <2>2, Types, Fixed, TypesNext
    DEF CodeletStart, loopVars, outerVars, history
<1>8. CASE CodeletEnd(t)
  <2>1. pc' \in [Threads -> PCs] /\ arg' \in [Threads -> Nat]
    BY <1>0, <1>8, Types DEF CodeletEnd, Goto, PCs
  <2>2. counter' \in Nat /\ fired' \in BOOLEAN /\ frame' \in [Numbers -> Numbers \cup {-1}]
    BY <1>0, <1>8, Types DEF CodeletEnd
  <2>3. outerRef' \in Nat
    BY <1>0, <1>8, Types, Counted DEF CodeletEnd
  <2>4. QED
    BY <1>0, <1>8, <2>1, <2>2, <2>3, Types, Fixed, TypesNext DEF CodeletEnd, history
<1>9. CASE Build(t)
  <2>1. pc' \in [Threads -> PCs] /\ arg' \in [Threads -> Nat]
    BY <1>0, <1>9, Types DEF Build, Goto, PCs
  <2>2. arg[t] \in Numbers /\ Cell(arg[t]) \in Numbers
    BY <1>0, <1>9, Numbering DEF Build, Args, Cell
  <2>3. frame' \in [Numbers -> Numbers \cup {-1}] /\ ref' \in [Numbers -> Nat]
    BY <1>0, <1>9, <2>2, Types DEF Build
  <2>4. QED
    BY <1>0, <1>9, <2>1, <2>3, Types, Fixed, TypesNext DEF Build, loopVars, outerVars, history
<1>10. CASE Add(t)
  <2>1. pc' \in [Threads -> PCs] /\ arg' \in [Threads -> Nat]
    BY <1>0, <1>10, Types DEF Add, Goto, PCs
  <2>2. arg[t] \in Numbers /\ Cell(arg[t]) \in Numbers
    BY <1>0, <1>10, Numbering DEF Add, Args, Cell
  <2>3. /\ queue' \subseteq {"loop", "cont", "build", "body"} \X Numbers
        /\ ref' \in [Numbers -> Nat]
    BY <1>0, <1>10, <2>2, Types DEF Add
  <2>4. QED
    BY <1>0, <1>10, <2>1, <2>3, Types, Fixed, TypesNext DEF Add, loopVars, outerVars, history
<1>11. CASE Release(t)
  <2>1. pc' \in [Threads -> PCs] /\ arg' \in [Threads -> Nat]
    BY <1>0, <1>11, Types DEF Release, Goto, PCs
  <2>2. arg[t] \in Numbers /\ Cell(arg[t]) \in Numbers /\ (~ Placed => Cell(arg[t]) = arg[t])
    BY <1>0, <1>11, Numbering DEF Release, Args, Cell, Placed
  <2>3. ref[Cell(arg[t])] \in Nat \ {0}
    BY <1>0, <1>11, <2>2, Types, Fixed DEF Release, Refs
  <2>4. ref' \in [Numbers -> Nat] /\ freed' \in BOOLEAN
    BY <1>0, <1>11, <2>2, <2>3, Types DEF Release
  <2>5. QED
    BY <1>0, <1>11, <2>1, <2>4, Types, Fixed, TypesNext
    DEF Release, loopVars, outerVars, history
<1>12. CASE Body(t)
  <2>1. pc' \in [Threads -> PCs] /\ arg' \in [Threads -> Nat]
    BY <1>0, <1>12, Types DEF Body, Goto, PCs
  <2>2. counter > 0 /\ Index(arg[t]) \in Iter
    BY <1>12, Carrying, Waiting DEF Body, Carries
  <2>3. counter' \in Nat /\ outerRef' \in Nat /\ done' \subseteq Iter
    BY <1>0, <1>12, <2>2, Types DEF Body, SignalLoop, Enable
  <2>4. queue' \subseteq {"loop", "cont", "build", "body"} \X Numbers
    BY <1>0, <1>12, Types, Numbering DEF Body, SignalLoop, Enable
  <2>5. QED
    BY <1>0, <1>12, <2>1, <2>3, <2>4, Types, Fixed, TypesNext DEF Body
<1>13. CASE Drop(t)
  <2>1. pc' \in [Threads -> PCs] /\ arg' \in [Threads -> Nat]
    BY <1>0, <1>13, Types DEF Drop, Goto, PCs
  <2>2. arg[t] \in Numbers /\ ref[arg[t]] \in Nat \ {0}
    BY <1>0, <1>13, Dropping DEF Drop, Args
  <2>3. ref' \in [Numbers -> Nat]
    BY <1>0, <1>13, <2>2, Types DEF Drop
  <2>4. QED
    BY <1>0, <1>13, <2>1, <2>3, Types, Fixed, TypesNext DEF Drop, loopVars, outerVars, history
<1>14. CASE Destroy(t)
  <2>1. pc' \in [Threads -> PCs] /\ arg' \in [Threads -> Nat]
    BY <1>0, <1>14, Types DEF Destroy, Goto, PCs
  <2>2. frame' \in [Numbers -> Numbers \cup {-1}] /\ outer' \in {"live", "deleted"}
    BY <1>0, <1>14, Types DEF Destroy, ReleaseOuter
  <2>3. outerRef' \in Nat
    BY <1>0, <1>14, Types, Counted DEF Destroy, ReleaseOuter
  <2>4. QED
    BY <1>0, <1>14, <2>1, <2>2, <2>3, Types, Fixed, TypesNext DEF Destroy, loopVars, history
<1>15. CASE Signal(t)
  <2>1. pc' \in [Threads -> PCs] /\ arg' \in [Threads -> Nat]
    BY <1>0, <1>15, Types DEF Signal, Goto, PCs
  <2>2. round < rounds
    BY <1>0, <1>15 DEF Signal, Rounds, Signalling
  <2>3. /\ queue' \subseteq {"loop", "cont", "build", "body"} \X Numbers /\ outerRef' \in Nat
        /\ done' \subseteq Iter /\ round' \in 0 .. rounds
    BY <1>0, <1>15, <2>2, Types, Numbering DEF Signal, Enable
  <2>4. QED
    BY <1>0, <1>15, <2>1, <2>3, Types, Fixed, TypesNext DEF Signal, loopVars
<1>16. CASE Cont(t)
  <2>1. pc' \in [Threads -> PCs] /\ arg' \in [Threads -> Nat]
    BY <1>0, <1>16, Types DEF Cont, Goto, PCs
  <2>2. counter = 1
    BY <1>0, <1>16, Activated DEF Cont, Activations, Rounds
  <2>3. /\ queue' \subseteq {"loop", "cont", "build", "body"} \X Numbers /\ outerRef' \in Nat
        /\ counter' \in Nat
    BY <1>0, <1>16, <2>2, Types, Numbering DEF Cont, SignalLoop, Enable
  <2>4. QED
    BY <1>0, <1>16, <2>1, <2>3, Types, Fixed, TypesNext DEF Cont, history
<1>17. CASE Leave(t)
  <2>1. pc' \in [Threads -> PCs] /\ arg' \in [Threads -> Nat]
    BY <1>0, <1>17, Types DEF Leave, Goto, PCs
  <2>2. outer' \in {"live", "deleted"} /\ outerRef' \in Nat
    BY <1>0, <1>17, Types, Counted DEF Leave, ReleaseOuter
  <2>3. QED
    BY <1>0, <1>17, <2>1, <2>2, Types, Fixed, TypesNext DEF Leave, loopVars, history
<1>18. QED
  BY <1>1, <1>2, <1>3, <1>4, <1>5, <1>6, <1>7, <1>8, <1>9, <1>10, <1>11, <1>12, <1>13,
     <1>14, <1>15, <1>16, <1>17 DEF Step

(* One activation at a time.                                               *)
LEMMA AloneStep ==
  ASSUME LInv, NEW t \in Threads, Step(t)
  PROVE  Alone'
<1>0. TypeOK /\ Alone
  BY DEF LInv
<1>1. CASE Take(t)
  <2>1. PICK l \in {"loop", "cont", "build", "body"}, n \in Numbers :
          /\ <<l, n>> \in queue /\ queue' = queue \ {<<l, n>>}
          /\ l \in {"loop", "cont"} => n = 0
          /\ pc' = [pc EXCEPT ![t] = l]
    BY <1>1, TakeEffect
  <2>2. QED
    BY <1>0, <2>1, Types DEF Alone, Activations
<1>2. CASE ParaStart(t)
  BY <1>0, <1>2, Types, Fixed DEF ParaStart, Goto, Alone, Activations, outerVars, history
<1>3. CASE ParaSpawn(t)
  BY <1>0, <1>3, Types, Fixed DEF ParaSpawn, Goto, Alone, Activations, loopVars, history
<1>4. CASE ParaEnd(t)
  BY <1>0, <1>4, Types, Fixed DEF ParaEnd, Goto, Alone, Activations, outerVars, history
<1>5. CASE SerialNext(t)
  BY <1>0, <1>5, Types, Fixed DEF SerialNext, Goto, Alone, Activations, history
<1>6. CASE SerialEnd(t)
  BY <1>0, <1>6, Types, Fixed DEF SerialEnd, Goto, Alone, Activations, history
<1>7. CASE CodeletStart(t)
  BY <1>0, <1>7, Types, Fixed DEF CodeletStart, Goto, Alone, Activations, history
<1>8. CASE CodeletEnd(t)
  BY <1>0, <1>8, Types, Fixed DEF CodeletEnd, Goto, Alone, Activations, history
<1>9. CASE Build(t)
  BY <1>0, <1>9, Types, Fixed
  DEF Build, Goto, Alone, Activations, loopVars, outerVars, history
<1>10. CASE Add(t)
  BY <1>0, <1>10, Types, Fixed
  DEF Add, Goto, Alone, Activations, loopVars, outerVars, history
<1>11. CASE Release(t)
  BY <1>0, <1>11, Types, Fixed
  DEF Release, Goto, Alone, Activations, loopVars, outerVars, history
<1>12. CASE Body(t)
  <2>1. Carries(t)
    BY <1>12 DEF Body, Carries
  <2>2. /\ <<"loop", 0>> \notin queue /\ <<"cont", 0>> \notin queue
        /\ \A u \in Threads : pc[u] \notin Activations
    BY <2>1, Carrying, Waiting
  <2>3. queue' \in {queue, queue \cup {<<"loop", 0>>}}
    BY <1>12 DEF Body, SignalLoop, Enable
  <2>4. \A u \in Threads : pc'[u] \notin Activations
    BY <1>0, <1>12, <2>2, Types DEF Body, Goto, Activations
  <2>5. QED
    BY <2>2, <2>3, <2>4 DEF Alone
<1>13. CASE Drop(t)
  BY <1>0, <1>13, Types, Fixed
  DEF Drop, Goto, Alone, Activations, loopVars, outerVars, history
<1>14. CASE Destroy(t)
  BY <1>0, <1>14, Types, Fixed
  DEF Destroy, Goto, ReleaseOuter, Alone, Activations, loopVars, history
<1>15. CASE Signal(t)
  BY <1>0, <1>15, Types, Fixed DEF Signal, Goto, Enable, Alone, Activations, loopVars
<1>16. CASE Cont(t)
  BY <1>0, <1>16, Types, Fixed
  DEF Cont, Goto, SignalLoop, Enable, Alone, Activations, history
<1>17. CASE Leave(t)
  BY <1>0, <1>17, Types, Fixed
  DEF Leave, Goto, ReleaseOuter, Alone, Activations, loopVars, history
<1>18. QED
  BY <1>1, <1>2, <1>3, <1>4, <1>5, <1>6, <1>7, <1>8, <1>9, <1>10, <1>11, <1>12, <1>13,
     <1>14, <1>15, <1>16, <1>17 DEF Step

(* Numbers of iterations.                                                  *)
LEMMA ArgsStep ==
  ASSUME LInv, NEW t \in Threads, Step(t)
  PROVE  Args'
<1>0. TypeOK /\ Args
  BY DEF LInv
<1>1. CASE Take(t)
  <2>1. PICK l \in {"loop", "cont", "build", "body"}, n \in Numbers :
          /\ <<l, n>> \in queue /\ queue' = queue \ {<<l, n>>}
          /\ l = "build" => ~ Placed
          /\ pc' = [pc EXCEPT ![t] = l] /\ arg' = [arg EXCEPT ![t] = n]
    BY <1>1, TakeEffect
  <2>2. ASSUME l = "body", Placed PROVE n \in Iter
    <3>1. Due(n)
      BY <2>1, <2>2 DEF LInv, Flight
    <3>2. n = Index(n)
      BY <2>2, <3>1 DEF Due, Number
    <3>3. QED
      BY <1>0, <3>2, Numbering
  <2>3. QED
    BY <1>0, <2>1, <2>2, Types, Fixed DEF Args
<1>2. CASE ParaStart(t)
  <2>1. /\ pc' = [pc EXCEPT ![t] = "spawn"] /\ arg' = [arg EXCEPT ![t] = 0]
        /\ queue' = queue /\ ~ Placed
    BY <1>2 DEF ParaStart, Goto, Placed
  <2>2. 0 \in Iter
    BY <1>0, Numbering
  <2>3. QED
    BY <1>0, <2>1, <2>2, Types, Fixed DEF Args
<1>3. CASE ParaSpawn(t)
  <2>1. /\ ~ Placed /\ arg[t] \in Iter
        /\ queue' = queue \cup {<<"build", round * iterations + arg[t]>>}
        /\ \/ /\ pc' = [pc EXCEPT ![t] = "spawn"] /\ arg' = [arg EXCEPT ![t] = arg[t] + 1]
              /\ arg[t] + 1 \in Iter
           \/ pc' = [pc EXCEPT ![t] = "leave"] /\ arg' = [arg EXCEPT ![t] = 0]
    BY <1>0, <1>3, Types DEF ParaSpawn, Goto, Args, Iter
  <2>2. QED
    BY <1>0, <2>1, Types, Fixed DEF Args
<1>4. CASE ParaEnd(t)
  BY <1>0, <1>4, Types, Fixed, Numbering DEF ParaEnd, Goto, Args, outerVars, history
<1>5. CASE SerialNext(t)
  <2>1. /\ Placed /\ cur \in Iter /\ queue' = queue
        /\ pc' = [pc EXCEPT ![t] = "build"] /\ arg' = [arg EXCEPT ![t] = cur]
    BY <1>0, <1>5, Types DEF SerialNext, Goto, Placed, Iter
  <2>2. QED
    BY <1>0, <2>1, Types, Fixed DEF Args
<1>6. CASE SerialEnd(t)
  BY <1>0, <1>6, Types, Fixed, Numbering DEF SerialEnd, Goto, Args, history
<1>7. CASE CodeletStart(t)
  BY <1>0, <1>7, Types, Fixed, Numbering DEF CodeletStart, Goto, Args, history
<1>8. CASE CodeletEnd(t)
  BY <1>0, <1>8, Types, Fixed, Numbering DEF CodeletEnd, Goto, Args, history
<1>9. CASE Build(t)
  BY <1>0, <1>9, Types, Fixed, Numbering DEF Build, Goto, Args, loopVars, outerVars, history
<1>10. CASE Add(t)
  BY <1>0, <1>10, Types, Fixed, Numbering DEF Add, Goto, Args, loopVars, outerVars, history
<1>11. CASE Release(t)
  <2>1. /\ queue' = queue
        /\ arg[t] \in IF Placed THEN Iter ELSE Numbers
        /\ \/ /\ pc' = [pc EXCEPT ![t] = "build"] /\ arg' = [arg EXCEPT ![t] = arg[t] + 1]
              /\ Placed /\ arg[t] + 1 \in Iter
           \/ pc' = [pc EXCEPT ![t] = "leave"] /\ arg' = [arg EXCEPT ![t] = 0]
           \/ /\ pc' = [pc EXCEPT ![t] = "destroy"] /\ arg' = [arg EXCEPT ![t] = arg[t]]
              /\ ~ Placed
           \/ pc' = [pc EXCEPT ![t] = "idle"] /\ arg' = [arg EXCEPT ![t] = 0]
    BY <1>0, <1>11, Types DEF Release, Goto, Args, Iter
  <2>2. QED
    BY <1>0, <2>1, Types, Fixed DEF Args
<1>12. CASE Body(t)
  BY <1>0, <1>12, Types, Fixed, Numbering DEF Body, Goto, SignalLoop, Enable, Args
<1>13. CASE Drop(t)
  BY <1>0, <1>13, Types, Fixed, Numbering DEF Drop, Goto, Args, loopVars, outerVars, history
<1>14. CASE Destroy(t)
  BY <1>0, <1>14, Types, Fixed, Numbering
  DEF Destroy, Goto, ReleaseOuter, Args, loopVars, history
<1>15. CASE Signal(t)
  BY <1>0, <1>15, Types, Fixed, Numbering DEF Signal, Goto, Enable, Args, loopVars
<1>16. CASE Cont(t)
  BY <1>0, <1>16, Types, Fixed, Numbering DEF Cont, Goto, SignalLoop, Enable, Args, history
<1>17. CASE Leave(t)
  BY <1>0, <1>17, Types, Fixed, Numbering
  DEF Leave, Goto, ReleaseOuter, Args, loopVars, history
<1>18. QED
  BY <1>1, <1>2, <1>3, <1>4, <1>5, <1>6, <1>7, <1>8, <1>9, <1>10, <1>11, <1>12, <1>13,
     <1>14, <1>15, <1>16, <1>17 DEF Step


(* An iteration that is to be spawned is fresh.                            *)
LEMMA Spawning ==
  ASSUME LInv, NEW t \in Threads, pc[t] = "spawn", Supplies(t, arg[t])
  PROVE  /\ Fresh(Number(arg[t])) /\ Number(arg[t]) \in Numbers /\ frame[Number(arg[t])] = -1
         /\ \A u \in Threads : Kept(u) => arg[u] # Number(arg[t])
<1>0. TypeOK /\ Args /\ Frames
  BY DEF LInv
<1>1. ~ Placed /\ arg[t] \in Iter /\ arg[t] \in Nat /\ kind = "para"
  BY <1>0, Types DEF Args, Placed
<1>2. PICK n : n = Number(arg[t])
  OBVIOUS
<1>3. /\ n \in Numbers /\ Index(n) = arg[t] /\ InRound
      /\ \A u \in Threads : Carries(u) => arg[u] # n
  BY <1>1, <1>2, Supplying
<1>4. n >= iterations * round
  <2>1. PICK q : q = iterations * round
    OBVIOUS
  <2>2. q \in Int
    BY <1>0, <2>1, Types, Multiples
  <2>3. QED
    BY <1>1, <1>2, <2>1, <2>2 DEF Number
<1>5. Fresh(n)
  BY <1>3, <1>4 DEF Fresh
<1>6. frame[n] = -1
  BY <1>0, <1>1, <1>3, <1>5 DEF Frames
<1>7. ASSUME NEW u \in Threads, Kept(u), arg[u] = n PROVE FALSE
  <2>1. pc[u] \in {"release", "drop", "destroy"}
    BY <1>3, <1>7 DEF Kept
  <2>2. frame[Cell(arg[u])] = arg[u]
    BY <1>0, <1>7, <2>1 DEF Frames
  <2>3. Cell(arg[u]) = n
    BY <1>1, <1>7 DEF Cell
  <2>4. QED
    BY <1>0, <1>3, <1>6, <1>7, <2>2, <2>3, Numbering
<1>8. QED
  BY <1>2, <1>3, <1>5, <1>6, <1>7

(* One place for each iteration.                                           *)
LEMMA UniqueStep ==
  ASSUME LInv, NEW t \in Threads, Step(t)
  PROVE  Unique'
<1>0. TypeOK /\ Unique /\ Flight /\ Args /\ Refs
  BY DEF LInv
<1>1. CASE Take(t)
  <2>1. PICK l \in {"loop", "cont", "build", "body"}, n \in Numbers :
          /\ pc[t] = "idle" /\ <<l, n>> \in queue /\ queue' = queue \ {<<l, n>>}
          /\ l = "build" => ~ Placed
          /\ pc' = [pc EXCEPT ![t] = l] /\ arg' = [arg EXCEPT ![t] = n]
    BY <1>1, TakeEffect
  <2>2. \A u \in Threads : u # t => pc'[u] = pc[u] /\ arg'[u] = arg[u]
    BY <1>0, <2>1, Types
  <2>3. pc'[t] = l /\ arg'[t] = n
    BY <1>0, <2>1, Types
  <2>4. \A u \in Threads : Kept(u)' =>
          \/ u # t /\ Kept(u) /\ pc'[u] = pc[u] /\ arg'[u] = arg[u]
          \/ u = t /\ l \in {"build", "body"}
    BY <2>2, <2>3, Fixed DEF Kept, Carries
  <2>5. \A u \in Threads, k \in Iter : Supplies(u, k)' => Supplies(u, k)
    BY <2>1, <2>2, <2>3, Fixed DEF Supplies, Placed
  <2>6. /\ Iter' = Iter /\ Numbers' = Numbers
        /\ \A m \in Numbers : \A j :
             <<j, m>> \in queue' <=> <<j, m>> \in queue /\ ~ (j = l /\ m = n)
    BY <2>1, Fixed
  <2>7. CASE l \in {"build", "body"}
    <3>1. \A u \in Threads : u # t /\ Kept(u) /\ arg[u] = n => l = "body" /\ pc[u] = "release"
      BY <1>0, <2>1, <2>7 DEF Unique
    <3>2. <<"build", n>> \notin queue' /\ <<"body", n>> \notin queue'
      BY <1>0, <2>1, <2>6, <2>7 DEF Unique
    <3>3. \A u, v \in Threads :
            u # v /\ Kept(u)' /\ Kept(v)' /\ arg'[u] = arg'[v] =>
              \/ pc'[u] = "release" /\ pc'[v] \in {"body", "drop"}
              \/ pc'[v] = "release" /\ pc'[u] \in {"body", "drop"}
      BY <1>0, <2>3, <2>4, <3>1 DEF Unique
    <3>4. \A u \in Threads : Kept(u)' =>
            /\ <<"body", arg'[u]>> \in queue' => pc'[u] = "release"
            /\ <<"build", arg'[u]>> \notin queue'
      BY <1>0, <2>1, <2>3, <2>4, <3>2 DEF Unique
    <3>5. QED
      BY <1>0, <2>5, <2>6, <3>3, <3>4 DEF Unique
  <2>8. CASE l \notin {"build", "body"}
    BY <1>0, <2>1, <2>4, <2>5, <2>6, <2>8 DEF Unique
  <2>9. QED
    BY <2>7, <2>8
<1>2. CASE ParaStart(t)
  <2>1. /\ pc' = [pc EXCEPT ![t] = "spawn"] /\ arg' = [arg EXCEPT ![t] = 0]
        /\ queue' = queue /\ pc[t] = "loop" /\ ~ Placed
    BY <1>2 DEF ParaStart, Goto, Placed
  <2>2. \A u \in Threads, k \in Iter : ~ Supplies(u, k)
    BY <2>1, Activated, NoneDue DEF Activations
  <2>3. \A u \in Threads : u # t => pc'[u] = pc[u] /\ arg'[u] = arg[u]
    BY <1>0, <2>1, Types
  <2>4. pc'[t] = "spawn"
    BY <1>0, <2>1, Types
  <2>5. QED
    BY <1>0, <2>1, <2>2, <2>3, <2>4, Fixed DEF Unique, Kept, Carries, Supplies, Placed
<1>3. CASE ParaSpawn(t)
  <2>1. /\ pc[t] = "spawn" /\ arg[t] \in Iter /\ ~ Placed
        /\ queue' = queue \cup {<<"build", round * iterations + arg[t]>>}
        /\ \/ pc' = [pc EXCEPT ![t] = "spawn"] /\ arg' = [arg EXCEPT ![t] = arg[t] + 1]
           \/ pc' = [pc EXCEPT ![t] = "leave"] /\ arg' = [arg EXCEPT ![t] = 0]
    BY <1>0, <1>3 DEF ParaSpawn, Goto, Args
  <2>2. Supplies(t, arg[t]) /\ arg[t] \in Nat
    BY <1>0, <2>1, Types DEF Supplies
  <2>3. Number(arg[t]) = round * iterations + arg[t] /\ Number(arg[t]) \in Numbers
    BY <1>0, <2>1, <2>2, Supplying, Numbering DEF Number
  <2>4. PICK n \in Numbers : n = Number(arg[t])
    BY <2>3
  <2>5. \A u \in Threads : Kept(u) => arg[u] # n
    BY <1>0, <2>1, <2>2, <2>4, Spawning
  <2>6. <<"body", n>> \notin queue /\ queue' = queue \cup {<<"build", n>>}
    BY <2>1, <2>2, <2>3, <2>4, Supplying
  <2>7. \A u \in Threads : u # t => pc'[u] = pc[u] /\ arg'[u] = arg[u]
    BY <1>0, <2>1, Types
  <2>8. \/ pc'[t] = "spawn" /\ arg'[t] = arg[t] + 1
        \/ pc'[t] = "leave"
    BY <1>0, <2>1, Types
  <2>9. /\ \A u \in Threads : Kept(u)' => u # t /\ Kept(u) /\ pc'[u] = pc[u] /\ arg'[u] = arg[u]
        /\ \A u \in Threads, k \in Iter : Supplies(u, k)' => Supplies(u, k)
    BY <1>0, <2>1, <2>2, <2>7, <2>8, Fixed, Types, Numbering DEF Kept, Carries, Supplies
  <2>10. Iter' = Iter /\ Numbers' = Numbers
    BY Fixed
  <2>11. QED
    BY <1>0, <2>5, <2>6, <2>9, <2>10 DEF Unique
<1>4. CASE ParaEnd(t)
  BY <1>0, <1>4, Types, Fixed
  DEF ParaEnd, Goto, Unique, Kept, Carries, Supplies, outerVars, history
<1>5. CASE SerialNext(t)
  <2>1. /\ pc' = [pc EXCEPT ![t] = "build"] /\ arg' = [arg EXCEPT ![t] = cur]
        /\ queue' = queue /\ pc[t] = "loop" /\ kind = "serial"
    BY <1>5 DEF SerialNext, Goto
  <2>2. /\ queue = {} /\ \A u \in Threads : ~ Carries(u)
        /\ \A u \in Threads, k \in Iter : ~ Supplies(u, k)
    BY <2>1, Activated, NoneDue DEF Activations
  <2>3. \A u \in Threads : u # t => pc'[u] = pc[u] /\ arg'[u] = arg[u]
    BY <1>0, <2>1, Types
  <2>4. pc'[t] = "build"
    BY <1>0, <2>1, Types
  <2>5. QED
    BY <1>0, <2>1, <2>2, <2>3, <2>4, Fixed DEF Unique, Kept, Carries, Supplies, Placed
<1>6. CASE SerialEnd(t)
  BY <1>0, <1>6, Types, Fixed DEF SerialEnd, Goto, Unique, Kept, Carries, Supplies, history
<1>7. CASE CodeletStart(t)
  <2>1. /\ pc' = [pc EXCEPT ![t] = "build"] /\ arg' = [arg EXCEPT ![t] = 0]
        /\ queue' = queue /\ pc[t] = "loop" /\ kind = "codelet"
    BY <1>7 DEF CodeletStart, Goto
  <2>2. /\ queue = {} /\ \A u \in Threads : ~ Carries(u)
        /\ \A u \in Threads, k \in Iter : ~ Supplies(u, k)
    BY <2>1, Activated, NoneDue DEF Activations
  <2>3. \A u \in Threads : u # t => pc'[u] = pc[u] /\ arg'[u] = arg[u]
    BY <1>0, <2>1, Types
  <2>4. pc'[t] = "build"
    BY <1>0, <2>1, Types
  <2>5. QED
    BY <1>0, <2>1, <2>2, <2>3, <2>4, Fixed DEF Unique, Kept, Carries, Supplies, Placed
<1>8. CASE CodeletEnd(t)
  BY <1>0, <1>8, Types, Fixed DEF CodeletEnd, Goto, Unique, Kept, Carries, Supplies, history
<1>9. CASE Build(t)
  BY <1>0, <1>9, Types, Fixed
  DEF Build, Goto, Unique, Kept, Carries, Supplies, loopVars, outerVars, history
<1>10. CASE Add(t)
  BY <1>0, <1>10, Types, Fixed
  DEF Add, Goto, Unique, Kept, Carries, Supplies, loopVars, outerVars, history
<1>11. CASE Release(t)
  <2>1. /\ queue' = queue /\ pc[t] = "release" /\ arg[t] \in Nat
        /\ \/ /\ pc' = [pc EXCEPT ![t] = "build"] /\ arg' = [arg EXCEPT ![t] = arg[t] + 1]
              /\ kind = "codelet" /\ arg[t] + 1 \in Iter
           \/ pc' = [pc EXCEPT ![t] = "leave"] /\ arg' = [arg EXCEPT ![t] = 0]
           \/ /\ pc' = [pc EXCEPT ![t] = "destroy"] /\ arg' = [arg EXCEPT ![t] = arg[t]]
              /\ ~ Placed /\ ref[arg[t]] = 1
           \/ pc' = [pc EXCEPT ![t] = "idle"] /\ arg' = [arg EXCEPT ![t] = 0]
    BY <1>0, <1>11, Types DEF Release, Goto, Cell, Placed, Iter
  <2>2. \A u \in Threads : u # t => pc'[u] = pc[u] /\ arg'[u] = arg[u]
    BY <1>0, <2>1, Types
  <2>3. CASE kind = "codelet" /\ pc'[t] = "build" /\ arg'[t] = arg[t] + 1 /\ arg[t] + 1 \in Iter
    <3>1. Supplies(t, arg[t] + 1)
      BY <2>1, <2>3 DEF Supplies
    <3>2. PICK n : n = arg[t] + 1
      OBVIOUS
    <3>3. /\ \A u \in Threads : Carries(u) => arg[u] # n
          /\ <<"build", n>> \notin queue /\ <<"body", n>> \notin queue
      BY <2>3, <3>1, <3>2, Supplying DEF Number, Placed
    <3>4. \A u \in Threads : Kept(u) => Carries(u)
      BY <2>3 DEF Kept, Placed
    <3>5. \A u \in Threads : Kept(u)' =>
            \/ u # t /\ Kept(u) /\ pc'[u] = pc[u] /\ arg'[u] = arg[u]
            \/ u = t /\ pc'[u] = "build" /\ arg'[u] = n
      BY <2>2, <2>3, <3>2, Fixed DEF Kept, Carries
    <3>6. \A u \in Threads, k \in Iter : Supplies(u, k)' => Supplies(u, k)
      BY <1>0, <2>1, <2>2, <2>3, Fixed, Numbering DEF Supplies
    <3>7. QED
      BY <1>0, <2>1, <3>2, <3>3, <3>4, <3>5, <3>6, Fixed DEF Unique
  <2>4. CASE ~ Placed /\ pc'[t] = "destroy" /\ arg'[t] = arg[t] /\ ref[arg[t]] = 1
    <3>1. ~ HasBody(arg[t])
      BY <1>0, <2>1, <2>4 DEF Refs
    <3>2. \A u \in Threads : u # t /\ Kept(u) => arg[u] # arg[t]
      BY <1>0, <2>1, <2>4, <3>1 DEF Unique, Kept, Carries, HasBody
    <3>3. <<"body", arg[t]>> \notin queue /\ <<"build", arg[t]>> \notin queue
      BY <1>0, <2>1, <2>4, <3>1 DEF Unique, Kept, HasBody
    <3>4. \A u \in Threads : Kept(u)' => /\ Kept(u) /\ arg'[u] = arg[u] 
                                         /\ u # t => pc'[u] = pc[u]
      BY <2>1, <2>2, <2>4, Fixed DEF Kept, Carries
    <3>5. \A u \in Threads, k \in Iter : Supplies(u, k)' => Supplies(u, k)
      BY <1>0, <2>1, <2>2, <2>4, Fixed DEF Supplies
    <3>6. QED
      BY <1>0, <2>1, <3>2, <3>3, <3>4, <3>5, Fixed DEF Unique
  <2>5. CASE pc'[t] \in {"leave", "idle"}
    <3>1. \A u \in Threads : Kept(u)' => u # t /\ Kept(u) /\ pc'[u] = pc[u] /\ arg'[u] = arg[u]
      BY <2>2, <2>5, Fixed DEF Kept, Carries
    <3>2. \A u \in Threads, k \in Iter : Supplies(u, k)' => Supplies(u, k)
      BY <2>2, <2>5, Fixed DEF Supplies
    <3>3. QED
      BY <1>0, <2>1, <3>1, <3>2, Fixed DEF Unique
  <2>6. QED
    BY <1>0, <2>1, <2>3, <2>4, <2>5, Types
<1>12. CASE Body(t)
  BY <1>0, <1>12, Types, Fixed
  DEF Body, Goto, SignalLoop, Enable, Unique, Kept, Carries, Supplies
<1>13. CASE Drop(t)
  <2>1. /\ queue' = queue /\ pc[t] = "drop" /\ ~ Placed
        /\ \/ /\ pc' = [pc EXCEPT ![t] = "destroy"] /\ arg' = [arg EXCEPT ![t] = arg[t]]
              /\ ref[arg[t]] = 1
           \/ pc' = [pc EXCEPT ![t] = "idle"] /\ arg' = [arg EXCEPT ![t] = 0]
    BY <1>0, <1>13 DEF Drop, Goto, Args
  <2>2. \A u \in Threads : u # t => pc'[u] = pc[u] /\ arg'[u] = arg[u]
    BY <1>0, <2>1, Types
  <2>3. CASE pc'[t] = "destroy" /\ arg'[t] = arg[t] /\ ref[arg[t]] = 1
    <3>1. ~ Releasing(arg[t])
      BY <2>1, <2>3, Dropping
    <3>2. \A u \in Threads : u # t /\ Kept(u) => arg[u] # arg[t]
      BY <1>0, <2>1, <3>1 DEF Unique, Kept, Releasing
    <3>3. <<"body", arg[t]>> \notin queue /\ <<"build", arg[t]>> \notin queue
      BY <1>0, <2>1 DEF Unique, Kept
    <3>4. \A u \in Threads : Kept(u)' => /\ Kept(u) /\ arg'[u] = arg[u] 
                                         /\ u # t => pc'[u] = pc[u]
      BY <2>1, <2>2, <2>3, Fixed DEF Kept, Carries
    <3>5. \A u \in Threads, k \in Iter : Supplies(u, k)' => Supplies(u, k)
      BY <1>0, <2>1, <2>2, <2>3, Fixed DEF Supplies
    <3>6. QED
      BY <1>0, <2>1, <3>2, <3>3, <3>4, <3>5, Fixed DEF Unique
  <2>4. CASE pc'[t] = "idle"
    <3>1. \A u \in Threads : Kept(u)' => u # t /\ Kept(u) /\ pc'[u] = pc[u] /\ arg'[u] = arg[u]
      BY <2>2, <2>4, Fixed DEF Kept, Carries
    <3>2. \A u \in Threads, k \in Iter : Supplies(u, k)' => Supplies(u, k)
      BY <2>2, <2>4, Fixed DEF Supplies
    <3>3. QED
      BY <1>0, <2>1, <3>1, <3>2, Fixed DEF Unique
  <2>5. QED
    BY <1>0, <2>1, <2>3, <2>4, Types
<1>14. CASE Destroy(t)
  BY <1>0, <1>14, Types, Fixed
  DEF Destroy, Goto, ReleaseOuter, Unique, Kept, Carries, Supplies, loopVars, history
<1>15. CASE Signal(t)
  BY <1>0, <1>15, Types, Fixed
  DEF Signal, Goto, Enable, Unique, Kept, Carries, Supplies, loopVars
<1>16. CASE Cont(t)
  BY <1>0, <1>16, Types, Fixed
  DEF Cont, Goto, SignalLoop, Enable, Unique, Kept, Carries, Supplies, history
<1>17. CASE Leave(t)
  BY <1>0, <1>17, Types, Fixed
  DEF Leave, Goto, ReleaseOuter, Unique, Kept, Carries, Supplies, loopVars, history
<1>18. QED
  BY <1>1, <1>2, <1>3, <1>4, <1>5, <1>6, <1>7, <1>8, <1>9, <1>10, <1>11, <1>12, <1>13,
     <1>14, <1>15, <1>16, <1>17 DEF Step


(* A thread turns from a codelet of the loop's TP to something else.       *)
LEMMA Inactive ==
  ASSUME LInv, NEW t \in Threads, pc[t] \in Activations, NEW l, pc' = [pc EXCEPT ![t] = l],
         queue' = queue, l \notin {"loop", "cont"}
  PROVE  /\ ~ Requested' /\ ~ Continuing'
         /\ l = "signal" => Signalling'
         /\ l # "signal" => ~ Signalling'
<1>1. queue = {} /\ \A u \in Threads : u # t => pc[u] \notin Activations
  BY Activated
<1>2. (\A u \in Threads : u # t => pc'[u] = pc[u]) /\ pc'[t] = l
  BY Types DEF LInv
<1>3. QED
  BY <1>1, <1>2 DEF Requested, Signalling, Continuing, Activations

(* The state of the round.                                                 *)
LEMMA RoundsStep ==
  ASSUME LInv, NEW t \in Threads, Step(t)
  PROVE  Rounds'
<1>0. TypeOK /\ Rounds
  BY DEF LInv
<1>1. CASE Take(t)
  <2>1. PICK l \in {"loop", "cont", "build", "body"}, n \in Numbers :
          /\ pc[t] = "idle" /\ <<l, n>> \in queue /\ queue' = queue \ {<<l, n>>}
          /\ l \in {"loop", "cont"} => n = 0
          /\ pc' = [pc EXCEPT ![t] = l]
          /\ counter' = counter /\ fired' = fired /\ cur' = cur
          /\ done' = done /\ round' = round
    BY <1>1, TakeEffect
  <2>2. (\A u \in Threads : u # t => pc'[u] = pc[u]) /\ pc'[t] = l
    BY <1>0, <2>1, Types
  <2>3. (Requested' <=> Requested) /\ (Signalling' <=> Signalling)
    BY <2>1, <2>2 DEF Requested, Signalling
  <2>4. Continuing' <=> Continuing
    BY <2>1, <2>2 DEF Continuing
  <2>5. QED
    BY <1>0, <2>1, <2>3, <2>4, Fixed DEF Rounds, InRound, Outstanding
<1>2. CASE ParaStart(t)
  <2>1. /\ pc[t] = "loop" /\ kind = "para" /\ ~ fired
        /\ pc' = [pc EXCEPT ![t] = "spawn"] /\ queue' = queue
        /\ counter' = iterations /\ fired' = TRUE /\ cur' = cur /\ done' = done
        /\ round' = round
    BY <1>2 DEF ParaStart, Goto, history
  <2>2. ~ Requested' /\ ~ Signalling' /\ ~ Continuing'
    <3>1. queue = {} /\ \A u \in Threads : u # t => pc[u] \notin Activations
      BY <2>1, Activated DEF Activations
    <3>2. \A u \in Threads : pc'[u] \notin Activations
      BY <1>0, <2>1, <3>1, Types DEF Activations
    <3>3. QED
      BY <2>1, <3>1, <3>2 DEF Requested, Signalling, Continuing, Activations
  <2>3. Requested /\ ~ Signalling /\ ~ InRound
    BY <2>1, Activated DEF Activations, InRound
  <2>4. done = {} /\ round < rounds /\ cur = 0
    BY <1>0, <2>1, <2>3 DEF Rounds
  <2>5. Outstanding' = iterations
    BY <1>0, <2>1, <2>4, Types, Fixed, FS_EmptySet DEF Outstanding
  <2>6. QED
    BY <1>0, <2>1, <2>2, <2>4, <2>5, Types, Fixed DEF Rounds, InRound
<1>3. CASE ParaSpawn(t)
  BY <1>0, <1>3, Types, Fixed
  DEF ParaSpawn, Goto, Rounds, InRound, Requested, Signalling, Continuing, Outstanding,
      loopVars, history
<1>4. CASE ParaEnd(t)
  <2>1. /\ pc[t] = "loop" /\ kind = "para" /\ fired
        /\ pc' = [pc EXCEPT ![t] = "signal"] /\ queue' = queue
        /\ counter' = 1 /\ fired' = FALSE /\ cur' = cur /\ done' = done /\ round' = round
    BY <1>4 DEF ParaEnd, Goto, history
  <2>2. ~ Requested' /\ Signalling' /\ ~ Continuing'
    BY <2>1, Inactive DEF Activations
  <2>3. Requested /\ InRound
    BY <2>1, Activated DEF Activations, InRound
  <2>4. done = Iter /\ round < rounds /\ cur = 0
    BY <1>0, <2>1, <2>3 DEF Rounds
  <2>5. QED
    BY <2>1, <2>2, <2>4, Fixed DEF Rounds, InRound
<1>5. CASE SerialNext(t)
  <2>1. /\ pc[t] = "loop" /\ kind = "serial" /\ cur < iterations
        /\ pc' = [pc EXCEPT ![t] = "build"] /\ queue' = queue
        /\ counter' = 1 /\ fired' = fired /\ cur' = cur + 1 /\ done' = done /\ round' = round
    BY <1>5 DEF SerialNext, Goto, history
  <2>2. ~ Requested' /\ ~ Signalling' /\ ~ Continuing'
    <3>1. queue = {} /\ \A u \in Threads : u # t => pc[u] \notin Activations
      BY <2>1, Activated DEF Activations
    <3>2. \A u \in Threads : pc'[u] \notin Activations
      BY <1>0, <2>1, <3>1, Types DEF Activations
    <3>3. QED
      BY <2>1, <3>1, <3>2 DEF Requested, Signalling, Continuing, Activations
  <2>3. Requested /\ ~ Signalling
    BY <2>1, Activated DEF Activations
  <2>4. round < rounds /\ ~ fired /\ cur \in Nat
    BY <1>0, <2>1, <2>3, Types DEF Rounds
  <2>5. done = 0 .. cur - 1
    <3>1. CASE cur > 0
      BY <1>0, <2>1, <2>3, <3>1 DEF Rounds, InRound
    <3>2. CASE cur = 0
      <4>1. done = {}
        BY <1>0, <2>1, <2>3, <3>2 DEF Rounds, InRound
      <4>2. 0 .. cur - 1 = {}
        BY <3>2
      <4>3. QED
        BY <4>1, <4>2
    <3>3. QED
      BY <2>4, <3>1, <3>2
  <2>6. InRound' /\ cur' - 2 = cur - 1
    BY <2>1, <2>4, Fixed DEF InRound
  <2>7. QED
    BY <2>1, <2>2, <2>4, <2>5, <2>6, Fixed DEF Rounds, Outstanding
<1>6. CASE SerialEnd(t)
  <2>1. /\ pc[t] = "loop" /\ kind = "serial" /\ cur = iterations
        /\ pc' = [pc EXCEPT ![t] = "signal"] /\ queue' = queue
        /\ counter' = 1 /\ fired' = fired /\ cur' = 0 /\ done' = done /\ round' = round
    BY <1>6 DEF SerialEnd, Goto, history
  <2>2. ~ Requested' /\ Signalling' /\ ~ Continuing'
    BY <2>1, Inactive DEF Activations
  <2>3. Requested /\ InRound
    BY <1>0, <2>1, Activated, Types DEF Activations, InRound
  <2>4. done = Iter /\ round < rounds /\ ~ fired
    BY <1>0, <2>1, <2>3 DEF Rounds, Iter
  <2>5. QED
    BY <2>1, <2>2, <2>4, Fixed DEF Rounds, InRound
<1>7. CASE CodeletStart(t)
  <2>1. /\ pc[t] = "loop" /\ kind = "codelet" /\ ~ fired
        /\ pc' = [pc EXCEPT ![t] = "build"] /\ queue' = queue
        /\ counter' = iterations /\ fired' = TRUE /\ cur' = cur /\ done' = done
        /\ round' = round
    BY <1>7 DEF CodeletStart, Goto, history
  <2>2. ~ Requested' /\ ~ Signalling' /\ ~ Continuing'
    <3>1. queue = {} /\ \A u \in Threads : u # t => pc[u] \notin Activations
      BY <2>1, Activated DEF Activations
    <3>2. \A u \in Threads : pc'[u] \notin Activations
      BY <1>0, <2>1, <3>1, Types DEF Activations
    <3>3. QED
      BY <2>1, <3>1, <3>2 DEF Requested, Signalling, Continuing, Activations
  <2>3. Requested /\ ~ Signalling /\ ~ InRound
    BY <2>1, Activated DEF Activations, InRound
  <2>4. done = {} /\ round < rounds /\ cur = 0
    BY <1>0, <2>1, <2>3 DEF Rounds
  <2>5. Outstanding' = iterations
    BY <1>0, <2>1, <2>4, Types, Fixed, FS_EmptySet DEF Outstanding
  <2>6. QED
    BY <1>0, <2>1, <2>2, <2>4, <2>5, Types, Fixed DEF Rounds, InRound
<1>8. CASE CodeletEnd(t)
  <2>1. /\ pc[t] = "loop" /\ kind = "codelet" /\ fired
        /\ pc' = [pc EXCEPT ![t] = "signal"] /\ queue' = queue
        /\ counter' = 1 /\ fired' = FALSE /\ cur' = cur /\ done' = done /\ round' = round
    BY <1>8 DEF CodeletEnd, Goto, history
  <2>2. ~ Requested' /\ Signalling' /\ ~ Continuing'
    BY <2>1, Inactive DEF Activations
  <2>3. Requested /\ InRound
    BY <2>1, Activated DEF Activations, InRound
  <2>4. done = Iter /\ round < rounds /\ cur = 0
    BY <1>0, <2>1, <2>3 DEF Rounds
  <2>5. QED
    BY <2>1, <2>2, <2>4, Fixed DEF Rounds, InRound
<1>9. CASE Build(t)
  BY <1>0, <1>9, Types, Fixed
  DEF Build, Goto, Rounds, InRound, Requested, Signalling, Continuing, Outstanding,
      loopVars, outerVars, history
<1>10. CASE Add(t)
  BY <1>0, <1>10, Types, Fixed
  DEF Add, Goto, Rounds, InRound, Requested, Signalling, Continuing, Outstanding, loopVars,
      outerVars, history
<1>11. CASE Release(t)
  BY <1>0, <1>11, Types, Fixed
  DEF Release, Goto, Rounds, InRound, Requested, Signalling, Continuing, Outstanding,
      loopVars, outerVars, history
<1>12. CASE Body(t)
  <2>1. /\ pc[t] = "body" /\ fired' = fired /\ cur' = cur /\ round' = round
        /\ done' = done \cup {Index(arg[t])} /\ counter' = counter - 1
        /\ queue' = IF counter = 1 THEN queue \cup {<<"loop", 0>>} ELSE queue
    BY <1>12 DEF Body, SignalLoop, Enable
  <2>2. PICK k \in Iter \ done : k = Index(arg[t])
    BY <2>1, Carrying DEF Carries
  <2>3. /\ InRound /\ ~ Requested /\ Carries(t)
        /\ kind = "serial" => k = cur - 1
    BY <2>1, <2>2, Carrying DEF Carries
  <2>4. /\ ~ Signalling /\ ~ Continuing /\ counter = Outstanding /\ counter > 0
        /\ round < rounds
        /\ <<"loop", 0>> \notin queue /\ <<"cont", 0>> \notin queue
        /\ \A u \in Threads : pc[u] \notin Activations
    BY <2>3, Waiting
  <2>5. \A u \in Threads : pc'[u] \notin Activations
    BY <1>0, <1>12, <2>4, Types DEF Body, Goto, Activations
  <2>6. ~ Signalling' /\ ~ Continuing' /\ (Requested' <=> counter = 1) /\ InRound'
    BY <2>1, <2>3, <2>4, <2>5, Fixed DEF Activations, Requested, Continuing, Signalling, InRound
  <2>7. CASE kind = "serial"
    <3>1. counter = 1 /\ ~ fired /\ cur \in Nat /\ cur > 0 /\ done = 0 .. cur - 2
      BY <1>0, <2>3, <2>4, <2>7, Types DEF Outstanding, Rounds, InRound
    <3>2. done' = 0 .. cur - 1
      BY <2>1, <2>2, <2>3, <2>7, <3>1
    <3>3. QED
      BY <2>1, <2>4, <2>6, <2>7, <3>1, <3>2, Fixed DEF Rounds
  <2>8. CASE kind # "serial"
    <3>1. PICK c, d : c = Cardinality(done) /\ d = Cardinality(done')
      OBVIOUS
    <3>2. c \in Nat /\ d = c + 1 /\ counter = iterations - c /\ done' \subseteq Iter
      BY <1>0, <2>1, <2>2, <2>4, <2>8, <3>1, Types, Sets, FS_AddElement DEF Outstanding
    <3>3. Outstanding' = counter - 1
      BY <1>0, <2>8, <3>1, <3>2, Types, Fixed DEF Outstanding
    <3>4. counter = 1 => done' = Iter
      <4>1. PICK m : m = iterations
        OBVIOUS
      <4>2. m \in Nat \ {0} /\ Iter = 0 .. m - 1 /\ c \in Nat /\ d = c + 1 /\ counter = m - c
        BY <1>0, <3>2, <4>1, Types DEF Iter
      <4>3. IsFiniteSet(Iter) /\ Cardinality(Iter) = m
        BY <4>2, FS_Interval
      <4>4. Cardinality(Iter) = Cardinality(done') => Iter = done'
        BY <3>2, <4>3, FS_Subset
      <4>5. QED
        BY <3>1, <4>2, <4>3, <4>4
    <3>5. cur = 0
      BY <1>0, <2>8 DEF Rounds
    <3>6. QED
      BY <1>0, <2>1, <2>4, <2>6, <2>8, <3>3, <3>4, <3>5, Types, Fixed DEF Rounds
  <2>9. QED
    BY <2>7, <2>8
<1>13. CASE Drop(t)
  BY <1>0, <1>13, Types, Fixed
  DEF Drop, Goto, Rounds, InRound, Requested, Signalling, Continuing, Outstanding,
      loopVars, outerVars, history
<1>14. CASE Destroy(t)
  BY <1>0, <1>14, Types, Fixed
  DEF Destroy, Goto, ReleaseOuter, Rounds, InRound, Requested, Signalling, Continuing,
      Outstanding, loopVars, history
<1>15. CASE Signal(t)
  <2>1. /\ pc[t] = "signal" /\ pc' = [pc EXCEPT ![t] = "leave"]
        /\ queue' = queue \cup {<<"cont", 0>>}
        /\ counter' = counter /\ fired' = fired /\ cur' = cur /\ done' = {}
        /\ round' = round + 1
    BY <1>15 DEF Signal, Enable, Goto, loopVars
  <2>2. /\ queue = {} /\ ~ InRound /\ ~ Requested /\ Signalling
        /\ \A u \in Threads : pc'[u] \notin Activations
    BY <1>0, <2>1, Activated, Types DEF Activations
  <2>3. ~ Requested' /\ ~ Signalling' /\ Continuing'
    BY <2>1, <2>2 DEF Activations, Requested, Signalling, Continuing
  <2>4. counter = 1 /\ round \in Nat
    BY <1>0, <2>2, Types DEF Rounds
  <2>5. ~ InRound' /\ (kind = "serial" => ~ fired) /\ (kind # "serial" => cur = 0)
    BY <1>0, <2>1, <2>2, Fixed DEF InRound, Rounds
  <2>6. QED
    BY <2>1, <2>3, <2>4, <2>5, Fixed DEF Rounds
<1>16. CASE Cont(t)
  <2>1. /\ pc[t] = "cont" /\ pc' = [pc EXCEPT ![t] = "leave"]
        /\ fired' = fired /\ cur' = cur /\ done' = done /\ round' = round
    BY <1>16 DEF Cont, Goto, history
  <2>2. /\ queue = {} /\ ~ InRound /\ ~ Requested /\ ~ Signalling
        /\ \A u \in Threads : pc'[u] \notin Activations
    BY <1>0, <2>1, Activated, Types DEF Activations
  <2>3. /\ ~ Signalling'
        /\ kind = "serial" => ~ fired
        /\ kind # "serial" => cur = 0
        /\ ~ InRound'
    BY <1>0, <2>1, <2>2, Fixed DEF Signalling, Activations, InRound, Rounds
  <2>4. counter = 1 /\ done = {} /\ round \in Nat /\ round <= rounds /\ rounds \in Nat
    BY <1>0, <2>2, Types DEF Rounds
  <2>5. \/ round < rounds /\ queue' = queue \cup {<<"loop", 0>>} /\ counter' = 0
        \/ ~ (round < rounds) /\ queue' = queue /\ counter' = counter
    BY <1>16, <2>4 DEF Cont, SignalLoop, Enable
  <2>6. ~ Continuing' /\ (Requested' <=> round < rounds)
    BY <2>2, <2>5 DEF Activations, Requested, Continuing
  <2>7. QED
    BY <2>1, <2>3, <2>4, <2>5, <2>6, Fixed DEF Rounds
<1>17. CASE Leave(t)
  BY <1>0, <1>17, Types, Fixed
  DEF Leave, Goto, ReleaseOuter, Rounds, InRound, Requested, Signalling, Continuing,
      Outstanding, loopVars, history
<1>18. QED
  BY <1>1, <1>2, <1>3, <1>4, <1>5, <1>6, <1>7, <1>8, <1>9, <1>10, <1>11, <1>12, <1>13,
     <1>14, <1>15, <1>16, <1>17 DEF Step


(* An iteration stays due while the round and what has run do not change.  *)
LEMMA DueStays ==
  ASSUME TypeOK, NEW t \in Threads, Step(t), InRound' <=> InRound,
         done' = done, round' = round, cur' = cur,
         \A u \in Threads, k \in Iter : Supplies(u, k)' => Supplies(u, k)
  PROVE  \A n \in Numbers : Due(n) => Due(n)'
<1>1. SUFFICES ASSUME NEW n \in Numbers, Due(n) PROVE Due(n)'
  OBVIOUS
<1>2. PICK k \in Iter : k = Index(n)
  BY Numbering
<1>3. Index(n)' = k /\ Number(Index(n))' = Number(k) /\ kind' = kind
  BY <1>2, Fixed DEF Number
<1>4. QED
  BY <1>1, <1>2, <1>3 DEF Due

(* What is due stays due until it runs.                                    *)
LEMMA FlightStep ==
  ASSUME LInv, NEW t \in Threads, Step(t)
  PROVE  Flight'
<1>0. TypeOK /\ Flight /\ Args /\ Unique /\ Rounds
  BY DEF LInv
<1>1. CASE Take(t)
  <2>1. PICK l \in {"loop", "cont", "build", "body"}, n \in Numbers :
          /\ pc[t] = "idle" /\ <<l, n>> \in queue /\ queue' = queue \ {<<l, n>>}
          /\ l = "build" => ~ Placed
          /\ pc' = [pc EXCEPT ![t] = l] /\ arg' = [arg EXCEPT ![t] = n]
          /\ fired' = fired /\ cur' = cur /\ done' = done /\ round' = round
    BY <1>1, TakeEffect
  <2>2. /\ \A u \in Threads : u # t => pc'[u] = pc[u] /\ arg'[u] = arg[u]
        /\ pc'[t] = l /\ arg'[t] = n
    BY <1>0, <2>1, Types
  <2>3. \A u \in Threads, k \in Iter : Supplies(u, k)' => Supplies(u, k)
    BY <2>1, <2>2, Fixed DEF Supplies, Placed
  <2>4. \A m \in Numbers : Due(m) => Due(m)'
    BY <1>0, <2>1, <2>3, DueStays, Fixed DEF InRound
  <2>5. (InRound' <=> InRound) /\ Numbers' = Numbers /\ Iter' = Iter
    BY <2>1, Fixed DEF InRound
  <2>6. \A u \in Threads : Carries(u)' => Due(arg[u])'
    <3>1. SUFFICES ASSUME NEW u \in Threads, Carries(u)' PROVE Due(arg[u])'
      OBVIOUS
    <3>2. CASE u = t
      BY <1>0, <2>1, <2>2, <2>4, <3>1, <3>2 DEF Carries, Flight
    <3>3. CASE u # t
      <4>1. Carries(u) /\ arg'[u] = arg[u] /\ Due(arg[u]) /\ arg[u] \in Numbers
        BY <2>2, <3>1, <3>3, Carrying DEF Carries
      <4>2. QED
        BY <2>4, <4>1
    <3>4. QED
      BY <3>2, <3>3
  <2>7. QED
    BY <1>0, <2>1, <2>3, <2>4, <2>5, <2>6 DEF Flight
<1>2. CASE ParaStart(t)
  <2>1. /\ pc[t] = "loop" /\ kind = "para" /\ ~ fired /\ fired' = TRUE
        /\ pc' = [pc EXCEPT ![t] = "spawn"] /\ queue' = queue /\ done' = done
    BY <1>2 DEF ParaStart, Goto, history
  <2>2. /\ queue = {}
        /\ \A u \in Threads : ~ Carries(u)
        /\ Requested /\ ~ InRound /\ ~ Signalling
        /\ \A u \in Threads, k \in Iter : ~ Supplies(u, k)
    BY <2>1, Activated, NoneDue DEF Activations, InRound
  <2>3. done = {} /\ InRound' /\ Iter' = Iter
    BY <1>0, <2>1, <2>2, Fixed DEF Rounds, InRound
  <2>4. (\A u \in Threads : u # t => pc'[u] = pc[u]) /\ pc'[t] = "spawn"
    BY <1>0, <2>1, Types
  <2>5. \A u \in Threads : ~ Carries(u)'
    BY <2>2, <2>4 DEF Carries
  <2>6. QED
    BY <2>1, <2>2, <2>3, <2>5 DEF Flight
<1>3. CASE ParaSpawn(t)
  <2>1. /\ pc[t] = "spawn" /\ arg[t] \in Iter /\ ~ Placed
        /\ queue' = queue \cup {<<"build", round * iterations + arg[t]>>}
        /\ fired' = fired /\ cur' = cur /\ done' = done /\ round' = round
        /\ \/ pc' = [pc EXCEPT ![t] = "spawn"] /\ arg' = [arg EXCEPT ![t] = arg[t] + 1]
           \/ pc' = [pc EXCEPT ![t] = "leave"] /\ arg' = [arg EXCEPT ![t] = 0]
    BY <1>0, <1>3 DEF ParaSpawn, Goto, Args, loopVars, history
  <2>2. Supplies(t, arg[t]) /\ arg[t] \in Nat
    BY <1>0, <2>1, Types DEF Supplies
  <2>3. PICK n \in Numbers, k \in Iter : n = Number(arg[t]) /\ k = arg[t]
    BY <2>1, <2>2, Supplying
  <2>4. /\ n = round * iterations + k /\ Index(n) = k /\ InRound /\ k \notin done
        /\ kind # "serial"
        /\ n = Number(Index(n))
    BY <1>0, <2>1, <2>2, <2>3, Supplying, Numbering DEF Number
  <2>5. \A u \in Threads : u # t => pc'[u] = pc[u] /\ arg'[u] = arg[u]
    BY <1>0, <2>1, Types
  <2>6. \/ pc'[t] = "spawn" /\ arg'[t] = k + 1
        \/ pc'[t] = "leave"
    BY <1>0, <2>1, <2>3, Types
  <2>7. \A u \in Threads, j \in Iter : Supplies(u, j)' => Supplies(u, j)
    BY <1>0, <2>1, <2>2, <2>3, <2>5, <2>6, Fixed, Numbering DEF Supplies
  <2>8. \A u \in Threads : ~ Supplies(u, k)'
    <3>1. \A u \in Threads : u # t => ~ Supplies(u, k)
      BY <1>0, <2>2, <2>3 DEF Unique
    <3>2. ~ Supplies(t, k)'
      BY <2>1, <2>2, <2>3, <2>6, Fixed DEF Supplies, Placed
    <3>3. QED
      BY <2>7, <3>1, <3>2
  <2>9. \A m \in Numbers : Due(m) => Due(m)'
    BY <1>0, <2>1, <2>7, DueStays, Fixed DEF InRound
  <2>10. (InRound' <=> InRound) /\ Numbers' = Numbers /\ Iter' = Iter
    BY <2>1, Fixed DEF InRound
  <2>11. Due(n)'
    <3>1. Number(Index(n))' = Number(Index(n)) /\ Index(n)' = k /\ kind' = kind
      BY <2>1, <2>4, Fixed DEF Number
    <3>2. QED
      BY <2>1, <2>4, <2>8, <2>10, <3>1 DEF Due
  <2>12. \A u \in Threads : Carries(u)' => Carries(u) /\ arg'[u] = arg[u]
    BY <2>5, <2>6 DEF Carries
  <2>13. \A u \in Threads : Carries(u)' => Due(arg[u])'
    BY <2>9, <2>12, Carrying
  <2>14. \A m \in Numbers : <<"build", m>> \in queue' \/ <<"body", m>> \in queue' => Due(m)'
    BY <1>0, <2>1, <2>3, <2>4, <2>9, <2>11 DEF Flight
  <2>15. QED
    BY <1>0, <2>1, <2>7, <2>10, <2>13, <2>14 DEF Flight
<1>4. CASE ParaEnd(t)
  <2>1. /\ pc[t] = "loop" /\ pc' = [pc EXCEPT ![t] = "signal"] /\ queue' = queue
        /\ arg' = [arg EXCEPT ![t] = 0]
    BY <1>4 DEF ParaEnd, Goto
  <2>2. /\ queue = {} /\ (\A u \in Threads : ~ Carries(u))
        /\ \A u \in Threads, k \in Iter : ~ Supplies(u, k)
    BY <2>1, Activated, NoneDue DEF Activations
  <2>3. (\A u \in Threads : u # t => pc'[u] = pc[u] /\ arg'[u] = arg[u]) /\ pc'[t] = "signal"
    BY <1>0, <2>1, Types
  <2>4. /\ \A u \in Threads : ~ Carries(u)'
        /\ \A u \in Threads, k \in Iter : ~ Supplies(u, k)'
    BY <2>2, <2>3, Fixed DEF Carries, Supplies
  <2>5. QED
    BY <2>1, <2>2, <2>4, Fixed DEF Flight
<1>5. CASE SerialNext(t)
  <2>1. /\ pc[t] = "loop" /\ kind = "serial" /\ cur < iterations /\ cur' = cur + 1
        /\ pc' = [pc EXCEPT ![t] = "build"] /\ arg' = [arg EXCEPT ![t] = cur]
        /\ queue' = queue /\ done' = done
    BY <1>5 DEF SerialNext, Goto, history
  <2>2. /\ queue = {} /\ (\A u \in Threads : ~ Carries(u)) /\ Requested /\ ~ Signalling
    BY <2>1, Activated, NoneDue DEF Activations, InRound
  <2>3. PICK c \in Iter : c = cur
    BY <1>0, <2>1, Types DEF Iter
  <2>4. c \in Nat /\ Index(c) = c /\ InRound'
    BY <1>0, <2>1, <2>3, Types, Numbering, Fixed DEF InRound
  <2>5. c \notin done
    <3>1. c > 0 => done = 0 .. c - 1
      BY <1>0, <2>1, <2>2, <2>3 DEF Rounds, InRound
    <3>2. ~ (c > 0) => done = {}
      BY <1>0, <2>1, <2>2, <2>3 DEF Rounds, InRound
    <3>3. QED
      BY <2>4, <3>1, <3>2
  <2>6. \A u \in Threads, k \in Iter : ~ Supplies(u, k)'
    <3>1. \A u \in Threads : pc'[u] # "spawn"
      BY <1>0, <2>1, Types DEF Args, Placed
    <3>2. QED
      BY <2>1, <3>1, Fixed DEF Supplies
  <2>7. Due(c)'
    <3>1. Number(Index(c))' = c /\ Index(c)' = c /\ c = cur' - 1 /\ kind' = "serial"
      BY <2>1, <2>3, <2>4, Fixed DEF Number, Placed
    <3>2. QED
      BY <2>1, <2>3, <2>4, <2>5, <2>6, <3>1, Fixed DEF Due
  <2>8. /\ \A u \in Threads : u # t => pc'[u] = pc[u] /\ arg'[u] = arg[u]
        /\ pc'[t] = "build" /\ arg'[t] = c
    BY <1>0, <2>1, <2>3, Types
  <2>9. \A u \in Threads : Carries(u)' => Due(arg[u])'
    BY <2>2, <2>7, <2>8 DEF Carries
  <2>10. QED
    BY <2>1, <2>2, <2>6, <2>9, Fixed DEF Flight
<1>6. CASE SerialEnd(t)
  <2>1. /\ pc[t] = "loop" /\ pc' = [pc EXCEPT ![t] = "signal"] /\ queue' = queue
        /\ arg' = [arg EXCEPT ![t] = 0]
    BY <1>6 DEF SerialEnd, Goto
  <2>2. /\ queue = {} /\ (\A u \in Threads : ~ Carries(u))
        /\ \A u \in Threads, k \in Iter : ~ Supplies(u, k)
    BY <2>1, Activated, NoneDue DEF Activations
  <2>3. (\A u \in Threads : u # t => pc'[u] = pc[u] /\ arg'[u] = arg[u]) /\ pc'[t] = "signal"
    BY <1>0, <2>1, Types
  <2>4. /\ \A u \in Threads : ~ Carries(u)'
        /\ \A u \in Threads, k \in Iter : ~ Supplies(u, k)'
    BY <2>2, <2>3, Fixed DEF Carries, Supplies
  <2>5. QED
    BY <2>1, <2>2, <2>4, Fixed DEF Flight
<1>7. CASE CodeletStart(t)
  <2>1. /\ pc[t] = "loop" /\ kind = "codelet" /\ ~ fired /\ fired' = TRUE
        /\ pc' = [pc EXCEPT ![t] = "build"] /\ arg' = [arg EXCEPT ![t] = 0]
        /\ queue' = queue /\ done' = done
    BY <1>7 DEF CodeletStart, Goto, history
  <2>2. /\ queue = {}
        /\ \A u \in Threads : ~ Carries(u)
        /\ Requested /\ ~ InRound /\ ~ Signalling
        /\ \A u \in Threads, k \in Iter : ~ Supplies(u, k)
    BY <2>1, Activated, NoneDue DEF Activations, InRound
  <2>3. done = {} /\ InRound' /\ Iter' = Iter /\ 0 \in Iter /\ Index(0) = 0
    BY <1>0, <2>1, <2>2, Fixed, Numbering DEF Rounds, InRound
  <2>4. /\ \A u \in Threads : u # t => pc'[u] = pc[u] /\ arg'[u] = arg[u]
        /\ pc'[t] = "build" /\ arg'[t] = 0
    BY <1>0, <2>1, Types
  <2>5. \A u \in Threads, k \in Iter : Supplies(u, k)' => u = t /\ 0 < k
    BY <2>2, <2>4, Fixed DEF Supplies
  <2>6. Due(0)'
    <3>1. Number(Index(0))' = 0 /\ Index(0)' = 0 /\ kind' # "serial"
      BY <2>1, <2>3, Fixed DEF Number, Placed
    <3>2. \A u \in Threads : ~ Supplies(u, 0)'
      BY <2>3, <2>5
    <3>3. QED
      BY <2>1, <2>3, <3>1, <3>2 DEF Due
  <2>7. \A u \in Threads : Carries(u)' => Due(arg[u])'
    BY <2>2, <2>4, <2>6 DEF Carries
  <2>8. QED
    BY <2>1, <2>2, <2>3, <2>7 DEF Flight
<1>8. CASE CodeletEnd(t)
  <2>1. /\ pc[t] = "loop" /\ pc' = [pc EXCEPT ![t] = "signal"] /\ queue' = queue
        /\ arg' = [arg EXCEPT ![t] = 0]
    BY <1>8 DEF CodeletEnd, Goto
  <2>2. /\ queue = {} /\ (\A u \in Threads : ~ Carries(u))
        /\ \A u \in Threads, k \in Iter : ~ Supplies(u, k)
    BY <2>1, Activated, NoneDue DEF Activations
  <2>3. (\A u \in Threads : u # t => pc'[u] = pc[u] /\ arg'[u] = arg[u]) /\ pc'[t] = "signal"
    BY <1>0, <2>1, Types
  <2>4. /\ \A u \in Threads : ~ Carries(u)'
        /\ \A u \in Threads, k \in Iter : ~ Supplies(u, k)'
    BY <2>2, <2>3, Fixed DEF Carries, Supplies
  <2>5. QED
    BY <2>1, <2>2, <2>4, Fixed DEF Flight
<1>9. CASE Build(t)
  BY <1>0, <1>9, Types, Fixed
  DEF Build, Goto, Flight, Due, Carries, Supplies, InRound, Number, loopVars, outerVars,
      history
<1>10. CASE Add(t)
  BY <1>0, <1>10, Types, Fixed
  DEF Add, Goto, Flight, Due, Carries, Supplies, InRound, Number, loopVars, outerVars,
      history
<1>11. CASE Release(t)
  <2>1. /\ queue' = queue /\ pc[t] = "release" /\ arg[t] \in Nat
        /\ fired' = fired /\ cur' = cur /\ done' = done /\ round' = round
        /\ \/ /\ pc' = [pc EXCEPT ![t] = "build"] /\ arg' = [arg EXCEPT ![t] = arg[t] + 1]
              /\ kind = "codelet" /\ arg[t] + 1 \in Iter
           \/ /\ pc' = [pc EXCEPT ![t] = "leave"] /\ arg' = [arg EXCEPT ![t] = 0]
           \/ /\ pc' = [pc EXCEPT ![t] = "destroy"] /\ arg' = [arg EXCEPT ![t] = arg[t]]
              /\ ~ Placed
           \/ pc' = [pc EXCEPT ![t] = "idle"] /\ arg' = [arg EXCEPT ![t] = 0]
    BY <1>0, <1>11, Types DEF Release, Goto, Placed, Iter, loopVars, history
  <2>2. \A u \in Threads : u # t => pc'[u] = pc[u] /\ arg'[u] = arg[u]
    BY <1>0, <2>1, Types
  <2>3. /\ pc'[t] \in {"build", "leave", "destroy", "idle"}
        /\ pc'[t] = "build" => arg'[t] = arg[t] + 1 /\ kind = "codelet" /\ arg[t] + 1 \in Iter
    BY <1>0, <2>1, Types
  <2>4. \A u \in Threads, j \in Iter : Supplies(u, j)' => Supplies(u, j)
    BY <1>0, <2>1, <2>2, <2>3, Fixed, Numbering DEF Supplies
  <2>5. \A m \in Numbers : Due(m) => Due(m)'
    BY <1>0, <2>1, <2>4, DueStays, Fixed DEF InRound
  <2>6. (InRound' <=> InRound) /\ Numbers' = Numbers /\ Iter' = Iter
    BY <2>1, Fixed DEF InRound
  <2>7. \A u \in Threads : u # t /\ Carries(u)' => Due(arg[u])'
    BY <2>2, <2>5, Carrying DEF Carries
  <2>8. ASSUME pc'[t] = "build" PROVE Due(arg[t])'
    <3>1. PICK k \in Iter : k = arg[t] + 1 /\ arg'[t] = k /\ kind = "codelet"
      BY <2>3, <2>8
    <3>2. Supplies(t, k)
      BY <2>1, <3>1 DEF Supplies
    <3>3. k \notin done /\ InRound /\ Number(k) = k /\ Index(k) = k
      BY <1>0, <3>1, <3>2, Supplying, Numbering DEF Number, Placed
    <3>4. \A u \in Threads : u # t => ~ Supplies(u, k)
      BY <1>0, <3>2 DEF Unique
    <3>5. ~ Supplies(t, k)'
      BY <2>8, <3>1, Fixed DEF Supplies
    <3>6. \A u \in Threads : ~ Supplies(u, k)'
      BY <2>4, <3>4, <3>5
    <3>7. Number(Index(k))' = k /\ Index(k)' = k /\ kind' # "serial"
      BY <3>1, <3>3, Fixed DEF Number, Placed
    <3>8. Due(k)'
      BY <2>1, <2>6, <3>3, <3>6, <3>7 DEF Due
    <3>9. QED
      BY <3>1, <3>8
  <2>9. \A u \in Threads : Carries(u)' => Due(arg[u])'
    BY <2>3, <2>7, <2>8 DEF Carries
  <2>10. QED
    BY <1>0, <2>1, <2>4, <2>5, <2>6, <2>9 DEF Flight
<1>12. CASE Body(t)
  <2>1. /\ pc[t] = "body" /\ fired' = fired /\ cur' = cur /\ round' = round
        /\ done' = done \cup {Index(arg[t])}
        /\ queue' \in {queue, queue \cup {<<"loop", 0>>}}
    BY <1>12 DEF Body, SignalLoop, Enable
  <2>2. Carries(t)
    BY <2>1 DEF Carries
  <2>3. PICK n \in Numbers, k \in Iter : n = arg[t] /\ k = Index(n) /\ n = Number(k)
    BY <2>2, Carrying
  <2>4. Due(n) /\ \A u \in Threads : ~ Supplies(u, k)
    BY <2>2, <2>3, Carrying DEF Due
  <2>5. /\ \A u \in Threads : u # t => pc'[u] = pc[u] /\ arg'[u] = arg[u]
        /\ pc'[t] \in {"idle", "drop"}
    BY <1>0, <1>12, Types DEF Body, Goto
  <2>6. \A u \in Threads, j \in Iter : Supplies(u, j)' => Supplies(u, j)
    BY <2>5, Fixed DEF Supplies
  <2>7. (InRound' <=> InRound) /\ Numbers' = Numbers /\ Iter' = Iter
    BY <2>1, Fixed DEF InRound
  <2>8. \A m \in Numbers : m # n /\ Due(m) => Due(m)'
    <3>1. SUFFICES ASSUME NEW m \in Numbers, m # n, Due(m) PROVE Due(m)'
      OBVIOUS
    <3>2. PICK j \in Iter : j = Index(m) /\ m = Number(j) /\ j # k
      BY <1>0, <2>3, <3>1, Numbering DEF Due
    <3>3. Index(m)' = j /\ Number(Index(m))' = m /\ kind' = kind
      BY <2>1, <3>2, Fixed DEF Number
    <3>4. \A u \in Threads : ~ Supplies(u, j)'
      BY <2>6, <3>1, <3>2 DEF Due
    <3>5. j \notin done'
      BY <2>1, <2>3, <3>1, <3>2 DEF Due
    <3>6. QED
      BY <2>1, <2>7, <3>1, <3>2, <3>3, <3>4, <3>5 DEF Due
  <2>9. \A m \in Numbers : <<"build", m>> \in queue' \/ <<"body", m>> \in queue' => Due(m)'
    <3>1. <<"build", n>> \notin queue /\ <<"body", n>> \notin queue
      BY <1>0, <2>1, <2>2, <2>3 DEF Unique, Kept
    <3>2. QED
      BY <1>0, <2>1, <2>8, <3>1 DEF Flight
  <2>10. \A u \in Threads : Carries(u)' => Due(arg[u])'
    <3>1. SUFFICES ASSUME NEW u \in Threads, Carries(u)' PROVE Due(arg[u])'
      OBVIOUS
    <3>2. u # t /\ Carries(u) /\ arg'[u] = arg[u]
      BY <2>5, <3>1 DEF Carries
    <3>3. arg[u] # n /\ arg[u] \in Numbers /\ Due(arg[u])
      BY <1>0, <2>1, <2>2, <2>3, <3>2, Carrying DEF Unique, Kept, Carries
    <3>4. QED
      BY <2>8, <3>2, <3>3
  <2>11. \A u \in Threads, j \in Iter : Supplies(u, j)' => InRound /\ j \notin done'
    BY <1>0, <2>1, <2>3, <2>4, <2>6 DEF Flight
  <2>12. QED
    BY <2>7, <2>9, <2>10, <2>11 DEF Flight
<1>13. CASE Drop(t)
  BY <1>0, <1>13, Types, Fixed
  DEF Drop, Goto, Flight, Due, Carries, Supplies, InRound, Number, loopVars, outerVars,
      history
<1>14. CASE Destroy(t)
  BY <1>0, <1>14, Types, Fixed
  DEF Destroy, Goto, ReleaseOuter, Flight, Due, Carries, Supplies, InRound, Number,
      loopVars, history
<1>15. CASE Signal(t)
  <2>1. /\ pc[t] = "signal" /\ pc' = [pc EXCEPT ![t] = "leave"]
        /\ queue' = queue \cup {<<"cont", 0>>}
    BY <1>15 DEF Signal, Enable, Goto
  <2>2. /\ queue = {} /\ (\A u \in Threads : ~ Carries(u))
        /\ \A u \in Threads, k \in Iter : ~ Supplies(u, k)
    BY <2>1, Activated, NoneDue DEF Activations
  <2>3. (\A u \in Threads : u # t => pc'[u] = pc[u] /\ arg'[u] = arg[u]) /\ pc'[t] = "leave"
    BY <1>0, <1>15, <2>1, Types DEF Signal, Goto
  <2>4. /\ \A u \in Threads : ~ Carries(u)'
        /\ \A u \in Threads, k \in Iter : ~ Supplies(u, k)'
    BY <2>2, <2>3, Fixed DEF Carries, Supplies
  <2>5. QED
    BY <2>1, <2>2, <2>4, Fixed DEF Flight
<1>16. CASE Cont(t)
  BY <1>0, <1>16, Types, Fixed
  DEF Cont, Goto, SignalLoop, Enable, Flight, Due, Carries, Supplies, InRound, Number,
      history
<1>17. CASE Leave(t)
  BY <1>0, <1>17, Types, Fixed
  DEF Leave, Goto, ReleaseOuter, Flight, Due, Carries, Supplies, InRound, Number, loopVars,
      history
<1>18. QED
  BY <1>1, <1>2, <1>3, <1>4, <1>5, <1>6, <1>7, <1>8, <1>9, <1>10, <1>11, <1>12, <1>13,
     <1>14, <1>15, <1>16, <1>17 DEF Step


(* No number becomes fresh while the round does not change.                *)
LEMMA StaysFresh ==
  ASSUME TypeOK, NEW t \in Threads, Step(t), InRound' <=> InRound, Signalling' <=> Signalling,
         round' = round,
         \A u \in Threads, k \in Iter : Supplies(u, k)' => Supplies(u, k)
  PROVE  \A n \in Numbers : Fresh(n)' => Fresh(n)
<1>1. SUFFICES ASSUME NEW n \in Numbers, Fresh(n)' PROVE Fresh(n)
  OBVIOUS
<1>2. PICK k \in Iter : k = Index(n)
  BY Numbering
<1>3. Index(n)' = k /\ iterations' = iterations
  BY <1>2, Fixed
<1>4. QED
  BY <1>1, <1>2, <1>3 DEF Fresh

(* Frames.                                                                 *)
LEMMA FramesStep ==
  ASSUME LInv, NEW t \in Threads, Step(t)
  PROVE  Frames'
<1>0. TypeOK /\ Frames /\ Args /\ Unique /\ Rounds /\ Flight
  BY DEF LInv
<1>1. CASE Take(t)
  <2>1. PICK l \in {"loop", "cont", "build", "body"}, n \in Numbers :
          /\ pc[t] = "idle" /\ <<l, n>> \in queue /\ queue' = queue \ {<<l, n>>}
          /\ l = "build" => ~ Placed
          /\ pc' = [pc EXCEPT ![t] = l] /\ arg' = [arg EXCEPT ![t] = n]
          /\ fired' = fired /\ cur' = cur /\ round' = round /\ frame' = frame
    BY <1>1, TakeEffect
  <2>2. /\ \A u \in Threads : u # t => pc'[u] = pc[u] /\ arg'[u] = arg[u]
        /\ pc'[t] = l /\ arg'[t] = n
    BY <1>0, <2>1, Types
  <2>3. \A u \in Threads, k \in Iter : Supplies(u, k)' => Supplies(u, k)
    BY <2>1, <2>2, Fixed DEF Supplies, Placed
  <2>4. (InRound' <=> InRound) /\ (Signalling' <=> Signalling)
    BY <2>1, <2>2, Fixed DEF InRound, Signalling
  <2>5. \A m \in Numbers : Fresh(m)' => Fresh(m)
    BY <1>0, <2>1, <2>3, <2>4, StaysFresh
  <2>6. \A u \in Threads : Kept(u)' => \/ u # t /\ Kept(u) /\ pc'[u] = pc[u] /\ arg'[u] = arg[u]
                                       \/ u = t /\ l \in {"build", "body"}
    BY <2>2, Fixed DEF Kept, Carries
  <2>7. \A u \in Threads : Kept(u)' /\ pc'[u] # "build" => frame[Cell(arg'[u])] = arg'[u]
    BY <1>0, <2>1, <2>2, <2>6 DEF Frames
  <2>8. kind = "para" => \A u \in Threads : pc'[u] = "build" => frame[arg'[u]] = -1
    BY <1>0, <2>1, <2>2 DEF Frames
  <2>9. \A u \in Threads : Cell(arg[u])' = Cell(arg'[u])
    BY Fixed DEF Cell
  <2>10. QED
    BY <1>0, <2>1, <2>4, <2>5, <2>7, <2>8, <2>9, Fixed DEF Frames
<1>2. CASE ParaStart(t)
  <2>1. /\ pc[t] = "loop" /\ kind = "para" /\ ~ fired /\ round' = round
        /\ pc' = [pc EXCEPT ![t] = "spawn"] /\ queue' = queue /\ frame' = frame
    BY <1>2 DEF ParaStart, Goto, history
  <2>2. /\ queue = {} /\ (\A u \in Threads : ~ Carries(u)) /\ ~ InRound /\ ~ Signalling
    BY <2>1, Activated, NoneDue DEF Activations, InRound
  <2>3. (\A u \in Threads : u # t => pc'[u] = pc[u] /\ arg'[u] = arg[u]) /\ pc'[t] = "spawn"
    BY <1>0, <1>2, Types DEF ParaStart, Goto
  <2>4. \A m \in Numbers : Fresh(m)' => Fresh(m)
    BY <2>1, <2>2, Fixed DEF Fresh
  <2>5. \A u \in Threads : /\ Kept(u)' => Kept(u) /\ pc'[u] = pc[u] /\ arg'[u] = arg[u]
                           /\ pc'[u] # "build"
    BY <2>2, <2>3, Fixed DEF Kept, Carries
  <2>6. \A u \in Threads : Cell(arg[u])' = Cell(arg'[u])
    BY Fixed DEF Cell
  <2>7. QED
    BY <1>0, <2>1, <2>2, <2>4, <2>5, <2>6, Fixed DEF Frames, Placed
<1>3. CASE ParaSpawn(t)
  <2>1. /\ pc[t] = "spawn" /\ arg[t] \in Iter /\ ~ Placed
        /\ queue' = queue \cup {<<"build", round * iterations + arg[t]>>}
        /\ fired' = fired /\ cur' = cur /\ round' = round /\ frame' = frame
        /\ \/ pc' = [pc EXCEPT ![t] = "spawn"] /\ arg' = [arg EXCEPT ![t] = arg[t] + 1]
           \/ pc' = [pc EXCEPT ![t] = "leave"] /\ arg' = [arg EXCEPT ![t] = 0]
    BY <1>0, <1>3 DEF ParaSpawn, Goto, Args, loopVars, history
  <2>2. Supplies(t, arg[t]) /\ arg[t] \in Nat
    BY <1>0, <2>1, Types DEF Supplies
  <2>3. PICK n \in Numbers : n = Number(arg[t]) /\ frame[n] = -1
    BY <2>1, <2>2, Spawning
  <2>4. queue' = queue \cup {<<"build", n>>}
    BY <1>0, <2>1, <2>3, Numbering DEF Number
  <2>5. \A u \in Threads : u # t => pc'[u] = pc[u] /\ arg'[u] = arg[u]
    BY <1>0, <2>1, Types
  <2>6. \/ pc'[t] = "spawn" /\ arg'[t] = arg[t] + 1
        \/ pc'[t] = "leave"
    BY <1>0, <2>1, Types
  <2>7. \A u \in Threads, k \in Iter : Supplies(u, k)' => Supplies(u, k)
    BY <1>0, <2>1, <2>2, <2>5, <2>6, Fixed, Numbering DEF Supplies
  <2>8. (InRound' <=> InRound) /\ (Signalling' <=> Signalling)
    BY <2>1, <2>5, <2>6, Fixed DEF InRound, Signalling
  <2>9. \A m \in Numbers : Fresh(m)' => Fresh(m)
    BY <1>0, <2>1, <2>7, <2>8, StaysFresh
  <2>10. \A u \in Threads : /\ Kept(u)' => Kept(u) /\ pc'[u] = pc[u] /\ arg'[u] = arg[u]
                            /\ pc'[u] = "build" => pc[u] = "build" /\ arg'[u] = arg[u]
    BY <2>5, <2>6, Fixed DEF Kept, Carries
  <2>11. \A u \in Threads : Cell(arg[u])' = Cell(arg'[u])
    BY Fixed DEF Cell
  <2>12. QED
    BY <1>0, <2>1, <2>3, <2>4, <2>8, <2>9, <2>10, <2>11, Fixed DEF Frames
<1>4. CASE ParaEnd(t)
  <2>1. /\ pc[t] = "loop" /\ kind = "para" /\ fired /\ round' = round
        /\ pc' = [pc EXCEPT ![t] = "signal"] /\ queue' = queue /\ frame' = frame
    BY <1>4 DEF ParaEnd, Goto, history
  <2>2. /\ queue = {} /\ (\A u \in Threads : ~ Carries(u))
        /\ \A u \in Threads, k \in Iter : ~ Supplies(u, k)
    BY <2>1, Activated, NoneDue DEF Activations
  <2>3. (\A u \in Threads : u # t => pc'[u] = pc[u] /\ arg'[u] = arg[u]) /\ pc'[t] = "signal"
    BY <1>0, <1>4, Types DEF ParaEnd, Goto
  <2>4. Signalling' /\ \A u \in Threads, k \in Iter : ~ Supplies(u, k)'
    BY <2>2, <2>3, Fixed DEF Signalling, Supplies
  <2>5. \A m \in Numbers : Fresh(m)' => Fresh(m)
    BY <1>0, <2>1, <2>4, Fixed, Numbering DEF Fresh
  <2>6. \A u \in Threads : /\ Kept(u)' => Kept(u) /\ pc'[u] = pc[u] /\ arg'[u] = arg[u]
                           /\ pc'[u] # "build"
    BY <2>2, <2>3, Fixed DEF Kept, Carries
  <2>7. \A u \in Threads : Cell(arg[u])' = Cell(arg'[u])
    BY Fixed DEF Cell
  <2>8. QED
    BY <1>0, <2>1, <2>2, <2>5, <2>6, <2>7, Fixed DEF Frames, Placed
<1>5. CASE SerialNext(t)
  <2>1. /\ pc[t] = "loop" /\ kind = "serial" /\ cur < iterations /\ cur' = cur + 1
        /\ pc' = [pc EXCEPT ![t] = "build"] /\ queue' = queue
        /\ frame' = [frame EXCEPT ![0] = -1]
    BY <1>5 DEF SerialNext, Goto, history
  <2>2. /\ queue = {} /\ (\A u \in Threads : ~ Carries(u))
    BY <2>1, Activated, NoneDue DEF Activations
  <2>3. \A u \in Threads : Kept(u)' => pc'[u] = "build"
    BY <1>0, <2>1, <2>2, Types, Fixed DEF Kept, Carries, Placed
  <2>4. InRound' /\ kind' = "serial"
    BY <1>0, <2>1, Types, Fixed DEF InRound
  <2>5. \A n \in Numbers : n # 0 => frame'[n] = -1
    BY <1>0, <2>1, Types DEF Frames
  <2>6. QED
    BY <2>1, <2>2, <2>3, <2>4, <2>5, Fixed DEF Frames
<1>6. CASE SerialEnd(t)
  <2>1. /\ pc[t] = "loop" /\ pc' = [pc EXCEPT ![t] = "signal"] /\ queue' = queue
        /\ kind = "serial"
        /\ frame' = [frame EXCEPT ![0] = -1]
    BY <1>6 DEF SerialEnd, Goto
  <2>2. /\ queue = {} /\ (\A u \in Threads : ~ Carries(u))
    BY <2>1, Activated, NoneDue DEF Activations
  <2>3. \A u \in Threads : ~ Kept(u)'
    BY <1>0, <2>1, <2>2, Types, Fixed DEF Kept, Carries, Placed
  <2>4. \A n \in Numbers : frame'[n] = -1
    BY <1>0, <2>1, Types DEF Frames
  <2>5. QED
    BY <2>1, <2>2, <2>3, <2>4, Fixed DEF Frames
<1>7. CASE CodeletStart(t)
  BY <1>0, <1>7, Types, Fixed
  DEF CodeletStart, Goto, Frames, Kept, Carries, InRound, Fresh, Supplies, Signalling,
      history
<1>8. CASE CodeletEnd(t)
  <2>1. /\ pc[t] = "loop" /\ pc' = [pc EXCEPT ![t] = "signal"] /\ queue' = queue
        /\ kind = "codelet"
        /\ frame' = [n \in Numbers |-> -1]
    BY <1>8 DEF CodeletEnd, Goto
  <2>2. /\ queue = {} /\ (\A u \in Threads : ~ Carries(u))
    BY <2>1, Activated, NoneDue DEF Activations
  <2>3. \A u \in Threads : ~ Kept(u)'
    BY <1>0, <2>1, <2>2, Types, Fixed DEF Kept, Carries, Placed
  <2>4. \A n \in Numbers : frame'[n] = -1
    BY <1>0, <2>1, Types DEF Frames
  <2>5. QED
    BY <2>1, <2>2, <2>3, <2>4, Fixed DEF Frames
<1>9. CASE Build(t)
  <2>1. /\ pc[t] = "build" /\ pc' = [pc EXCEPT ![t] = "add"]
        /\ arg' = [arg EXCEPT ![t] = arg[t]]
        /\ queue' = queue /\ fired' = fired /\ cur' = cur /\ round' = round
        /\ frame' = [frame EXCEPT ![Cell(arg[t])] = arg[t]]
    BY <1>9 DEF Build, Goto, loopVars, history
  <2>2. PICK n \in Numbers : n = arg[t] /\ Carries(t) /\ Due(n)
    BY <2>1, Carrying DEF Carries
  <2>3. InRound /\ (kind = "serial" => n = cur - 1)
    BY <2>2 DEF Due
  <2>4. PICK c \in Numbers : /\ c = Cell(n)
                             /\ kind = "serial" => c = 0
                             /\ kind # "serial" => c = n
    BY <1>0, <2>2, Numbering DEF Cell
  <2>5. /\ arg' = arg /\ pc'[t] = "add" /\ \A u \in Threads : u # t => pc'[u] = pc[u]
        /\ frame'[c] = n /\ \A m \in Numbers : m # c => frame'[m] = frame[m]
    BY <1>0, <2>1, <2>2, <2>4, Types
  <2>6. /\ \A u \in Threads : u # t /\ Kept(u) => arg[u] # n /\ Cell(arg[u]) # c
        /\ \A m \in Numbers : <<"body", m>> \in queue => m # n /\ Cell(m) # c
        /\ \A m \in Numbers : <<"build", m>> \in queue => m # n
    <3>1. /\ \A u \in Threads : u # t /\ Kept(u) => arg[u] # n
          /\ \A m \in Numbers : <<"body", m>> \in queue => m # n
          /\ \A m \in Numbers : <<"build", m>> \in queue => m # n
      BY <1>0, <2>1, <2>2 DEF Unique, Kept
    <3>2. ASSUME NEW u \in Threads, u # t, Kept(u) PROVE Cell(arg[u]) # c
      BY <2>3, <2>4, <3>1, <3>2, Carrying DEF Kept, Cell, Placed
    <3>3. ASSUME NEW m \in Numbers, <<"body", m>> \in queue PROVE Cell(m) # c
      BY <1>0, <2>3, <2>4, <3>1, <3>3 DEF Flight, Due, Cell
    <3>4. QED
      BY <3>1, <3>2, <3>3
  <2>7. (InRound' <=> InRound) /\ (Signalling' <=> Signalling)
        /\ \A u \in Threads, k \in Iter : Supplies(u, k)' <=> Supplies(u, k)
    BY <2>1, <2>5, Fixed DEF InRound, Signalling, Supplies
  <2>8. \A m \in Numbers : Fresh(m)' => Fresh(m)
    BY <1>0, <2>1, <2>7, StaysFresh
  <2>9. kind = "para" => ~ Fresh(n)
    <3>1. SUFFICES ASSUME kind = "para", Fresh(n) PROVE FALSE
      OBVIOUS
    <3>2. PICK k, a, b : /\ k \in Iter /\ k = Index(n)
                         /\ a = iterations * round /\ b = iterations * (round + 1)
      BY <1>0, Numbering
    <3>3. n = a + k /\ \A u \in Threads : ~ Supplies(u, k)
      BY <2>2, <3>1, <3>2 DEF Due, Number, Placed
    <3>4. a \in Int /\ b = a + iterations /\ k < iterations /\ k \in Nat /\ iterations \in Nat
      BY <1>0, <3>2, Types, Ordered DEF Iter
    <3>5. QED
      BY <2>3, <3>1, <3>2, <3>3, <3>4 DEF Fresh
  <2>10. /\ \A m \in Numbers : Cell(m)' = Cell(m)
         /\ \A u \in Threads : Cell(arg[u])' = Cell(arg[u])
         /\ \A u \in Threads : Kept(u) => arg[u] \in Numbers /\ Cell(arg[u]) \in Numbers
         /\ \A m \in Numbers : Cell(m) \in Numbers
         /\ \A u \in Threads : Kept(u)' => Kept(u)
    BY <1>0, <2>1, <2>5, Fixed, Numbering DEF Cell, Kept, Carries, Args
  <2>11. \A m \in Numbers : <<"body", m>> \in queue' => frame'[Cell(m)'] = m
    BY <1>0, <2>1, <2>5, <2>6, <2>10 DEF Frames
  <2>12. \A u \in Threads : Kept(u)' /\ pc'[u] # "build" => frame'[Cell(arg[u])'] = arg'[u]
    BY <1>0, <2>2, <2>4, <2>5, <2>6, <2>10 DEF Frames
  <2>13. kind = "para" => /\ \A m \in Numbers : <<"build", m>> \in queue' => frame'[m] = -1
                          /\ \A u \in Threads : pc'[u] = "build" => frame'[arg'[u]] = -1
    BY <1>0, <2>1, <2>4, <2>5, <2>6, <2>10 DEF Frames, Kept, Carries
  <2>14. kind = "para" =>
           \A m \in Numbers : frame'[m] \in {-1, m} /\ (Fresh(m)' => frame'[m] = -1)
    BY <1>0, <2>4, <2>5, <2>8, <2>9 DEF Frames
  <2>15. kind = "serial" => \A m \in Numbers : m # 0 => frame'[m] = -1
    BY <1>0, <2>4, <2>5 DEF Frames
  <2>16. InRound' /\ kind' = kind /\ Numbers' = Numbers
    BY <2>3, <2>7, Fixed
  <2>17. QED
    BY <2>11, <2>12, <2>13, <2>14, <2>15, <2>16 DEF Frames
<1>10. CASE Add(t)
  BY <1>0, <1>10, Types, Fixed
  DEF Add, Goto, Frames, Kept, Carries, InRound, Fresh, Supplies, Signalling, loopVars,
      outerVars, history
<1>11. CASE Release(t)
  BY <1>0, <1>11, Types, Fixed
  DEF Release, Goto, Frames, Kept, Carries, InRound, Fresh, Supplies, Signalling, loopVars,
      outerVars, history
<1>12. CASE Body(t)
  BY <1>0, <1>12, Types, Fixed
  DEF Body, Goto, SignalLoop, Enable, Frames, Kept, Carries, InRound, Fresh, Supplies,
      Signalling
<1>13. CASE Drop(t)
  BY <1>0, <1>13, Types, Fixed
  DEF Drop, Goto, Frames, Kept, Carries, InRound, Fresh, Supplies, Signalling, loopVars,
      outerVars, history
<1>14. CASE Destroy(t)
  <2>1. /\ pc[t] = "destroy" /\ pc' = [pc EXCEPT ![t] = "idle"] /\ arg' = [arg EXCEPT ![t] = 0]
        /\ queue' = queue /\ fired' = fired /\ cur' = cur /\ round' = round
        /\ frame' = [frame EXCEPT ![arg[t]] = -1]
    BY <1>14 DEF Destroy, Goto, loopVars, history
  <2>2. PICK n \in Numbers : n = arg[t] /\ ~ Placed /\ kind = "para"
    BY <1>0, <2>1, Types DEF Args, Placed
  <2>3. /\ pc'[t] = "idle" /\ \A u \in Threads : u # t => pc'[u] = pc[u] /\ arg'[u] = arg[u]
        /\ frame'[n] = -1 /\ \A m \in Numbers : m # n => frame'[m] = frame[m]
    BY <1>0, <2>1, <2>2, Types
  <2>4. /\ \A u \in Threads : u # t /\ Kept(u) => arg[u] # n
        /\ \A m \in Numbers : <<"body", m>> \in queue => m # n
    BY <1>0, <2>1, <2>2 DEF Unique, Kept
  <2>5. (InRound' <=> InRound) /\ (Signalling' <=> Signalling)
        /\ \A u \in Threads, k \in Iter : Supplies(u, k)' => Supplies(u, k)
    BY <2>1, <2>3, Fixed DEF InRound, Signalling, Supplies
  <2>6. \A m \in Numbers : Fresh(m)' => Fresh(m)
    BY <1>0, <2>1, <2>5, StaysFresh
  <2>7. /\ \A m \in Numbers : Cell(m)' = m /\ Cell(m) = m
        /\ \A u \in Threads : Cell(arg[u])' = arg'[u] /\ Cell(arg[u]) = arg[u]
    BY <2>2, Fixed DEF Cell
  <2>8. \A u \in Threads : Kept(u)' => u # t /\ Kept(u) /\ arg[u] \in Numbers
    BY <1>0, <2>3, Fixed, Numbering DEF Kept, Carries, Args
  <2>9. \A m \in Numbers : <<"body", m>> \in queue' => frame'[Cell(m)'] = m
    BY <1>0, <2>1, <2>3, <2>4, <2>7 DEF Frames
  <2>10. \A u \in Threads : Kept(u)' /\ pc'[u] # "build" => frame'[Cell(arg[u])'] = arg'[u]
    BY <1>0, <2>3, <2>4, <2>7, <2>8 DEF Frames
  <2>11. /\ \A m \in Numbers : <<"build", m>> \in queue' => frame'[m] = -1
         /\ \A u \in Threads : pc'[u] = "build" => frame'[arg'[u]] = -1
    BY <1>0, <2>1, <2>2, <2>3, <2>4, <2>8 DEF Frames, Kept, Carries, Args
  <2>12. \A m \in Numbers : frame'[m] \in {-1, m} /\ (Fresh(m)' => frame'[m] = -1)
    BY <1>0, <2>2, <2>3, <2>6 DEF Frames
  <2>13. kind' = "para" /\ ~ Placed' /\ Numbers' = Numbers
    BY <2>2, Fixed
  <2>14. QED
    BY <2>9, <2>10, <2>11, <2>12, <2>13 DEF Frames
<1>15. CASE Signal(t)
  <2>1. /\ pc[t] = "signal" /\ pc' = [pc EXCEPT ![t] = "leave"] /\ fired' = fired /\ cur' = cur
        /\ queue' = queue \cup {<<"cont", 0>>} /\ frame' = frame /\ round' = round + 1
    BY <1>15 DEF Signal, Enable, Goto, loopVars
  <2>2. /\ queue = {} /\ (\A u \in Threads : ~ Carries(u)) /\ ~ InRound
    BY <2>1, Activated, NoneDue DEF Activations
  <2>3. (\A u \in Threads : u # t => pc'[u] = pc[u] /\ arg'[u] = arg[u]) /\ pc'[t] = "leave"
    BY <1>0, <1>15, Types DEF Signal, Goto
  <2>4. \A m \in Numbers : Fresh(m)' => Fresh(m)
    <3>1. PICK a, b, c : /\ a = iterations * round /\ b = iterations * (round + 1)
                         /\ c = iterations * (round + 1 + 1)
      OBVIOUS
    <3>2. a \in Int /\ b \in Int /\ c \in Int /\ b <= c
      BY <1>0, <3>1, Types, Ordered
    <3>3. \A m \in Numbers : m \in Nat
      BY <1>0, Numbering
    <3>4. \A m \in Numbers : Fresh(m)' => m >= b
      BY <2>1, <3>1, <3>2, <3>3, Fixed DEF Fresh
    <3>5. QED
      BY <3>1, <3>4 DEF Fresh
  <2>5. \A u \in Threads : /\ Kept(u)' => Kept(u) /\ pc'[u] = pc[u] /\ arg'[u] = arg[u]
                           /\ pc'[u] # "build"
    BY <2>2, <2>3, Fixed DEF Kept, Carries
  <2>6. /\ \A u \in Threads : Cell(arg[u])' = Cell(arg'[u])
        /\ InRound' <=> InRound
    BY <2>1, Fixed DEF Cell, InRound
  <2>7. QED
    BY <1>0, <2>1, <2>2, <2>4, <2>5, <2>6, Fixed DEF Frames
<1>16. CASE Cont(t)
  BY <1>0, <1>16, Types, Fixed
  DEF Cont, Goto, SignalLoop, Enable, Frames, Kept, Carries, InRound, Fresh, Supplies,
      Signalling, history
<1>17. CASE Leave(t)
  BY <1>0, <1>17, Types, Fixed
  DEF Leave, Goto, ReleaseOuter, Frames, Kept, Carries, InRound, Fresh, Supplies,
      Signalling, loopVars, history
<1>18. QED
  BY <1>1, <1>2, <1>3, <1>4, <1>5, <1>6, <1>7, <1>8, <1>9, <1>10, <1>11, <1>12, <1>13,
     <1>14, <1>15, <1>16, <1>17 DEF Step

(* References of iterations.                                               *)
LEMMA RefsStep ==
  ASSUME LInv, NEW t \in Threads, Step(t)
  PROVE  Refs'
<1>0. TypeOK /\ Refs /\ Args /\ Unique
  BY DEF LInv
<1>1. CASE Take(t)
  <2>1. PICK l \in {"loop", "cont", "build", "body"}, n \in Numbers :
          /\ pc[t] = "idle" /\ <<l, n>> \in queue /\ queue' = queue \ {<<l, n>>}
          /\ pc' = [pc EXCEPT ![t] = l] /\ arg' = [arg EXCEPT ![t] = n]
          /\ freed' = freed /\ ref' = ref
    BY <1>1, TakeEffect
  <2>2. /\ \A u \in Threads : u # t => pc'[u] = pc[u] /\ arg'[u] = arg[u]
        /\ pc'[t] = l /\ arg'[t] = n
    BY <1>0, <2>1, Types
  <2>3. \A m \in Numbers : (HasBody(m)' <=> HasBody(m)) /\ (Releasing(m)' <=> Releasing(m))
    BY <2>1, <2>2 DEF HasBody, Releasing
  <2>4. \A u \in Threads : pc'[u] \in {"add", "release"} =>
          /\ pc'[u] = pc[u] /\ arg'[u] = arg[u] /\ arg[u] \in Numbers
          /\ (HasBody(arg[u])' <=> HasBody(arg'[u])) /\ Cell(arg[u])' = Cell(arg'[u])
    <3>1. SUFFICES ASSUME NEW u \in Threads, pc'[u] \in {"add", "release"}
                   PROVE  /\ pc'[u] = pc[u] /\ arg'[u] = arg[u] /\ arg[u] \in Numbers
                          /\ HasBody(arg[u])' <=> HasBody(arg'[u])
                          /\ Cell(arg[u])' = Cell(arg'[u])
      OBVIOUS
    <3>2. u # t /\ pc'[u] = pc[u] /\ arg'[u] = arg[u]
      BY <2>1, <2>2, <3>1
    <3>3. PICK m \in Numbers : m = arg[u]
      BY <1>0, <3>1, <3>2, Numbering DEF Args
    <3>4. HasBody(m)' <=> HasBody(m)
      BY <2>3
    <3>5. HasBody(arg[u])' <=> HasBody(m)'
      BY <3>2, <3>3
    <3>6. QED
      BY <3>1, <3>2, <3>3, <3>4, <3>5, Fixed
  <2>5. QED
    BY <1>0, <2>1, <2>3, <2>4, Fixed DEF Refs
<1>2. CASE ParaStart(t)
  BY <1>0, <1>2, Types, Fixed
  DEF ParaStart, Goto, Refs, HasBody, Releasing, outerVars, history
<1>3. CASE ParaSpawn(t)
  BY <1>0, <1>3, Types, Fixed
  DEF ParaSpawn, Goto, Refs, HasBody, Releasing, loopVars, history
<1>4. CASE ParaEnd(t)
  BY <1>0, <1>4, Types, Fixed
  DEF ParaEnd, Goto, Refs, HasBody, Releasing, outerVars, history
<1>5. CASE SerialNext(t)
  BY <1>0, <1>5, Types, Fixed DEF SerialNext, Goto, Refs, HasBody, Releasing, history
<1>6. CASE SerialEnd(t)
  BY <1>0, <1>6, Types, Fixed DEF SerialEnd, Goto, Refs, HasBody, Releasing, history
<1>7. CASE CodeletStart(t)
  BY <1>0, <1>7, Types, Fixed DEF CodeletStart, Goto, Refs, HasBody, Releasing, history
<1>8. CASE CodeletEnd(t)
  BY <1>0, <1>8, Types, Fixed DEF CodeletEnd, Goto, Refs, HasBody, Releasing, history
<1>9. CASE Build(t)
  <2>1. /\ pc[t] = "build" /\ pc' = [pc EXCEPT ![t] = "add"] /\ arg' = arg
        /\ queue' = queue /\ freed' = freed /\ ref' = [ref EXCEPT ![Cell(arg[t])] = 1]
    BY <1>0, <1>9, Types DEF Build, Goto
  <2>2. PICK n \in Numbers : n = arg[t]
    BY <1>0, <2>1, Numbering DEF Args
  <2>3. PICK c \in Numbers : c = Cell(n) /\ (~ Placed => c = n)
    BY <1>0, <2>2, Numbering DEF Cell, Placed
  <2>4. /\ pc'[t] = "add" /\ \A u \in Threads : u # t => pc'[u] = pc[u]
        /\ ref'[c] = 1 /\ \A m \in Numbers : m # c => ref'[m] = ref[m]
    BY <1>0, <2>1, <2>2, <2>3, Types
  <2>5. \A m : (HasBody(m)' <=> HasBody(m)) /\ (Releasing(m)' <=> Releasing(m))
    BY <2>1, <2>4 DEF HasBody, Releasing
  <2>6. /\ \A u \in Threads : u # t /\ Kept(u) => arg[u] # n
        /\ ~ HasBody(n) \/ Placed
    BY <1>0, <2>1, <2>2 DEF Unique, Kept, Carries, HasBody
  <2>7. \A u \in Threads : pc[u] \in {"add", "release"} =>
          arg[u] \in Numbers /\ Cell(arg[u]) \in Numbers /\ (~ Placed => Kept(u))
    BY <1>0, Numbering DEF Args, Kept, Carries, Cell
  <2>8. ~ Placed =>
          /\ \A u \in Threads : pc'[u] = "add" => ref'[arg'[u]] = 1
          /\ \A u \in Threads : pc'[u] = "release" =>
               ref'[arg'[u]] = IF HasBody(arg[u]) THEN 2 ELSE 1
          /\ \A m \in Numbers : HasBody(m) /\ ~ Releasing(m) => ref'[m] = 1
    BY <1>0, <2>1, <2>2, <2>3, <2>4, <2>6, <2>7 DEF Refs
  <2>9. Placed /\ ~ freed =>
          \A u \in Threads : pc'[u] \in {"add", "release"} => ref'[Cell(arg[u])] >= 1
    BY <1>0, <2>1, <2>2, <2>3, <2>4, <2>7 DEF Refs
  <2>10. \A u \in Threads : /\ HasBody(arg[u])' <=> HasBody(arg[u])
                            /\ Cell(arg[u])' = Cell(arg[u])
    BY <2>1, <2>5, Fixed
  <2>11. QED
    BY <1>0, <2>1, <2>5, <2>8, <2>9, <2>10, Fixed DEF Refs
<1>10. CASE Add(t)
  <2>1. /\ pc[t] = "add" /\ pc' = [pc EXCEPT ![t] = "release"] /\ arg' = arg
        /\ queue' = queue \cup {<<"body", arg[t]>>}
        /\ freed' = freed /\ ref' = [ref EXCEPT ![Cell(arg[t])] = ref[Cell(arg[t])] + 1]
    BY <1>0, <1>10, Types DEF Add, Goto
  <2>2. PICK n \in Numbers : n = arg[t]
    BY <1>0, <2>1, Numbering DEF Args
  <2>3. PICK c \in Numbers : c = Cell(n) /\ (~ Placed => c = n)
    BY <1>0, <2>2, Numbering DEF Cell, Placed
  <2>4. /\ pc'[t] = "release" /\ \A u \in Threads : u # t => pc'[u] = pc[u]
        /\ ref'[c] = ref[c] + 1 /\ \A m \in Numbers : m # c => ref'[m] = ref[m]
        /\ ref[c] \in Nat
    BY <1>0, <2>1, <2>2, <2>3, Types
  <2>5. /\ HasBody(n)' /\ \A m : m # n => (HasBody(m)' <=> HasBody(m))
        /\ \A m : Releasing(m)' <=> Releasing(m) \/ m = n
    BY <2>1, <2>2, <2>4 DEF HasBody, Releasing
  <2>6. \A u \in Threads : u # t /\ Kept(u) => arg[u] # n
    BY <1>0, <2>1, <2>2 DEF Unique, Kept, Carries
  <2>7. \A u \in Threads : pc[u] \in {"add", "release"} =>
          /\ arg[u] \in Numbers /\ Cell(arg[u]) \in Numbers
          /\ ~ Placed => Kept(u) /\ Cell(arg[u]) = arg[u]
    BY <1>0, Numbering DEF Args, Kept, Carries, Cell, Placed
  <2>8. \A u \in Threads : /\ u # t /\ arg[u] # n => (HasBody(arg[u])' <=> HasBody(arg[u]))
                           /\ Cell(arg[u])' = Cell(arg[u])
                           /\ u = t => HasBody(arg[u])'
    BY <2>1, <2>2, <2>5, Fixed
  <2>9. ~ Placed =>
          /\ \A u \in Threads : pc'[u] = "add" => ref'[arg'[u]] = 1
          /\ \A m \in Numbers : HasBody(m)' /\ ~ Releasing(m)' => ref'[m] = 1
    BY <1>0, <2>1, <2>2, <2>3, <2>4, <2>5, <2>6, <2>7 DEF Refs
  <2>10. ~ Placed =>
           \A u \in Threads : pc'[u] = "release" =>
             ref'[arg'[u]] = IF HasBody(arg[u])' THEN 2 ELSE 1
    BY <1>0, <2>1, <2>2, <2>3, <2>4, <2>6, <2>7, <2>8 DEF Refs
  <2>11. Placed /\ ~ freed =>
           \A u \in Threads : pc'[u] \in {"add", "release"} => ref'[Cell(arg[u])] >= 1
    BY <1>0, <2>1, <2>2, <2>3, <2>4, <2>7, Types DEF Refs
  <2>12. QED
    BY <1>0, <2>1, <2>8, <2>9, <2>10, <2>11, Fixed DEF Refs
<1>11. CASE Release(t)
  <2>1. /\ pc[t] = "release" /\ pc' = [pc EXCEPT ![t] = pc'[t]] /\ queue' = queue
        /\ pc'[t] \in {"build", "leave", "destroy", "idle"}
        /\ ref' = [ref EXCEPT ![Cell(arg[t])] = ref[Cell(arg[t])] - 1]
        /\ freed' = (Placed /\ ref[Cell(arg[t])] = 1)
        /\ \A u \in Threads : u # t => pc'[u] = pc[u] /\ arg'[u] = arg[u]
    BY <1>0, <1>11, Types DEF Release, Goto
  <2>2. PICK n \in Numbers : n = arg[t]
    BY <1>0, <2>1, Numbering DEF Args
  <2>3. PICK c \in Numbers : c = Cell(n) /\ (~ Placed => c = n)
    BY <1>0, <2>2, Numbering DEF Cell, Placed
  <2>4. /\ ref'[c] = ref[c] - 1 /\ \A m \in Numbers : m # c => ref'[m] = ref[m]
        /\ ref[c] \in Nat
    BY <1>0, <2>1, <2>2, <2>3, Types
  <2>5. /\ \A m : HasBody(m)' <=> HasBody(m)
        /\ \A m : m # n => (Releasing(m)' <=> Releasing(m))
    BY <2>1, <2>2 DEF HasBody, Releasing
  <2>6. ~ Placed => \A u \in Threads : u # t /\ pc[u] \in {"add", "release"} => arg[u] # n
    BY <1>0, <2>1, <2>2 DEF Unique, Kept, Carries
  <2>7. \A u \in Threads : pc[u] \in {"add", "release"} =>
          /\ arg[u] \in Numbers /\ Cell(arg[u]) \in Numbers
          /\ ~ Placed => Kept(u) /\ Cell(arg[u]) = arg[u]
    BY <1>0, Numbering DEF Args, Kept, Carries, Cell, Placed
  <2>8. \A u \in Threads : u # t => /\ HasBody(arg[u])' <=> HasBody(arg[u])
                                    /\ Cell(arg[u])' = Cell(arg[u])
    BY <2>1, <2>5, Fixed
  <2>9. ~ Placed =>
          /\ \A u \in Threads : pc'[u] = "add" => ref'[arg'[u]] = 1
          /\ \A u \in Threads : pc'[u] = "release" =>
               ref'[arg'[u]] = IF HasBody(arg[u])' THEN 2 ELSE 1
    <3>1. SUFFICES ASSUME ~ Placed
                   PROVE  /\ \A u \in Threads : pc'[u] = "add" => ref'[arg'[u]] = 1
                          /\ \A u \in Threads : pc'[u] = "release" =>
                               ref'[arg'[u]] = IF HasBody(arg[u])' THEN 2 ELSE 1
      OBVIOUS
    <3>2. \A u \in Threads : pc'[u] \in {"add", "release"} =>
            u # t /\ pc'[u] = pc[u] /\ arg'[u] = arg[u] /\ ref'[arg[u]] = ref[arg[u]]
      BY <2>1, <2>3, <2>4, <2>6, <2>7, <3>1
    <3>3. QED
      BY <1>0, <2>8, <3>1, <3>2 DEF Refs
  <2>10. ~ Placed => \A m \in Numbers : HasBody(m)' /\ ~ Releasing(m)' => ref'[m] = 1
    BY <1>0, <2>1, <2>2, <2>3, <2>4, <2>5 DEF Refs
  <2>11. Placed /\ ~ freed' =>
           \A u \in Threads : pc'[u] \in {"add", "release"} => ref'[Cell(arg'[u])] >= 1
    <3>1. SUFFICES ASSUME Placed, ~ freed', NEW u \in Threads, pc'[u] \in {"add", "release"}
                   PROVE  ref'[Cell(arg'[u])] >= 1
      OBVIOUS
    <3>2. u # t /\ pc[u] \in {"add", "release"} /\ arg'[u] = arg[u] /\ Cell(arg[u]) \in Numbers
      BY <2>1, <2>7, <3>1
    <3>3. ref[c] # 1 /\ ~ freed
      BY <2>1, <2>2, <2>3, <3>1, Fixed
    <3>4. ref[Cell(arg[u])] >= 1 /\ ref[Cell(arg[u])] \in Nat
      BY <1>0, <3>1, <3>2, <3>3, Types DEF Refs
    <3>5. QED
      BY <2>4, <3>2, <3>3, <3>4
  <2>12. \A u \in Threads : Cell(arg[u])' = Cell(arg'[u])
    BY Fixed DEF Cell
  <2>13. ~ Placed => ~ freed'
    BY <2>1
  <2>14. QED
    BY <2>9, <2>10, <2>11, <2>12, <2>13, Fixed DEF Refs
<1>12. CASE Body(t)
  BY <1>0, <1>12, Types, Fixed DEF Body, Goto, SignalLoop, Enable, Refs, HasBody, Releasing
<1>13. CASE Drop(t)
  <2>1. /\ pc[t] = "drop" /\ queue' = queue /\ freed' = freed
        /\ pc'[t] \in {"destroy", "idle"}
        /\ ref' = [ref EXCEPT ![arg[t]] = ref[arg[t]] - 1]
        /\ \A u \in Threads : u # t => pc'[u] = pc[u] /\ arg'[u] = arg[u]
    BY <1>0, <1>13, Types DEF Drop, Goto
  <2>2. PICK n \in Numbers : n = arg[t] /\ ~ Placed
    BY <1>0, <2>1 DEF Args
  <2>3. /\ ref'[n] = ref[n] - 1 /\ \A m \in Numbers : m # n => ref'[m] = ref[m]
    BY <1>0, <2>1, <2>2, Types
  <2>4. ref[n] = IF Releasing(n) THEN 2 ELSE 1
    BY <2>1, <2>2, Dropping
  <2>5. /\ \A m : Releasing(m)' <=> Releasing(m)
        /\ \A m : m # n => (HasBody(m)' <=> HasBody(m))
    BY <2>1, <2>2 DEF HasBody, Releasing
  <2>6. ~ HasBody(n)'
    <3>1. <<"body", n>> \notin queue
      BY <1>0, <2>1, <2>2 DEF Unique, Kept
    <3>2. \A u \in Threads : u # t /\ pc[u] \in {"body", "drop"} => arg[u] # n
      BY <1>0, <2>1, <2>2 DEF Unique, Kept, Carries
    <3>3. QED
      BY <2>1, <3>1, <3>2 DEF HasBody
  <2>7. \A u \in Threads : pc[u] \in {"add", "release"} => arg[u] \in Numbers
    BY <1>0, <2>2 DEF Args
  <2>8. \A u \in Threads : pc[u] = "add" => arg[u] # n
    BY <1>0, <2>1, <2>2 DEF Unique, Kept, Carries
  <2>9. \A u \in Threads : u # t => (HasBody(arg[u])' <=> arg[u] # n /\ HasBody(arg[u]))
    BY <2>1, <2>5, <2>6
  <2>10. \A u \in Threads : pc'[u] = "add" => ref'[arg'[u]] = 1
    BY <1>0, <2>1, <2>2, <2>3, <2>7, <2>8 DEF Refs
  <2>11. \A u \in Threads : pc'[u] = "release" =>
           ref'[arg'[u]] = IF HasBody(arg[u])' THEN 2 ELSE 1
    <3>1. SUFFICES ASSUME NEW u \in Threads, pc'[u] = "release"
                   PROVE  ref'[arg'[u]] = IF HasBody(arg[u])' THEN 2 ELSE 1
      OBVIOUS
    <3>2. u # t /\ pc[u] = "release" /\ arg'[u] = arg[u] /\ arg[u] \in Numbers
      BY <2>1, <2>7, <3>1
    <3>3. CASE arg[u] = n
      BY <2>3, <2>4, <2>9, <3>2, <3>3 DEF Releasing
    <3>4. CASE arg[u] # n
      BY <1>0, <2>2, <2>3, <2>9, <3>2, <3>4 DEF Refs
    <3>5. QED
      BY <3>3, <3>4
  <2>12. \A m \in Numbers : HasBody(m)' /\ ~ Releasing(m)' => ref'[m] = 1
    BY <1>0, <2>2, <2>3, <2>5, <2>6 DEF Refs
  <2>13. ~ freed' /\ ~ Placed' /\ Numbers' = Numbers
    BY <1>0, <2>1, <2>2, Fixed DEF Refs
  <2>14. QED
    BY <2>10, <2>11, <2>12, <2>13 DEF Refs
<1>14. CASE Destroy(t)
  BY <1>0, <1>14, Types, Fixed
  DEF Destroy, Goto, ReleaseOuter, Refs, HasBody, Releasing, loopVars, history
<1>15. CASE Signal(t)
  BY <1>0, <1>15, Types, Fixed DEF Signal, Goto, Enable, Refs, HasBody, Releasing, loopVars
<1>16. CASE Cont(t)
  BY <1>0, <1>16, Types, Fixed
  DEF Cont, Goto, SignalLoop, Enable, Refs, HasBody, Releasing, history
<1>17. CASE Leave(t)
  BY <1>0, <1>17, Types, Fixed
  DEF Leave, Goto, ReleaseOuter, Refs, HasBody, Releasing, loopVars, history
<1>18. QED
  BY <1>1, <1>2, <1>3, <1>4, <1>5, <1>6, <1>7, <1>8, <1>9, <1>10, <1>11, <1>12, <1>13,
     <1>14, <1>15, <1>16, <1>17 DEF Step

(* Where memory is used once.                                              *)
LEMMA OnceStep ==
  ASSUME LInv, NEW t \in Threads, Step(t)
  PROVE  Once'
<1>0. TypeOK /\ Once /\ Args /\ Rounds /\ (UsedOnce' <=> UsedOnce)
  BY Fixed DEF LInv, UsedOnce
<1>1. CASE Take(t)
  <2>1. PICK l \in {"loop", "cont", "build", "body"}, n \in Numbers :
          /\ pc[t] = "idle" /\ <<l, n>> \in queue /\ queue' = queue \ {<<l, n>>}
          /\ l \in {"loop", "cont"} => n = 0
          /\ l = "build" => ~ Placed
          /\ pc' = [pc EXCEPT ![t] = l] /\ arg' = [arg EXCEPT ![t] = n]
          /\ fired' = fired /\ cur' = cur /\ freed' = freed /\ ref' = ref
    BY <1>1, TakeEffect
  <2>2. (\A u \in Threads : u # t => pc'[u] = pc[u] /\ arg'[u] = arg[u]) /\ pc'[t] = l
    BY <1>0, <2>1, Types
  <2>3. (Requested' <=> Requested) /\ (InRound' <=> InRound)
    BY <2>1, <2>2, Fixed DEF Requested, InRound
  <2>4. Placed => \A u \in Threads : Building(u)' => u # t /\ Building(u)
    BY <2>1, <2>2 DEF Building
  <2>5. \A u \in Threads : Cell(arg[u])' = Cell(arg'[u])
    BY Fixed DEF Cell
  <2>6. QED
    BY <1>0, <2>1, <2>2, <2>3, <2>4, <2>5, Fixed DEF Once, Building
<1>2. CASE ParaStart(t)
  BY <1>0, <1>2, Types, Fixed
  DEF ParaStart, Goto, Once, UsedOnce, Building, Requested, InRound, outerVars, history
<1>3. CASE ParaSpawn(t)
  BY <1>0, <1>3, Types, Fixed
  DEF ParaSpawn, Goto, Once, UsedOnce, Building, Requested, InRound, loopVars, history
<1>4. CASE ParaEnd(t)
  <2>1. ~ Placed'
    BY <1>4, Fixed DEF ParaEnd, Placed
  <2>2. QED
    BY <2>1 DEF Once
<1>5. CASE SerialNext(t)
  BY <1>0, <1>5, Types, Fixed
  DEF SerialNext, Goto, Once, UsedOnce, Building, Requested, InRound, history
<1>6. CASE SerialEnd(t)
  <2>1. /\ pc[t] = "loop" /\ queue' = queue /\ freed' = freed /\ ref' = ref
        /\ pc'[t] = "signal"
        /\ \A u \in Threads : u # t => pc'[u] = pc[u] /\ arg'[u] = arg[u]
    BY <1>0, <1>6, Types DEF SerialEnd, Goto
  <2>2. queue = {} /\ \A u \in Threads : u # t => pc[u] \notin Activations
    BY <2>1, Activated DEF Activations
  <2>3. ~ Requested'
    BY <2>1, <2>2 DEF Requested, Activations
  <2>4. \A u \in Threads : Building(u)' => u # t /\ Building(u)
    BY <2>1 DEF Building
  <2>5. \A u \in Threads : Cell(arg[u])' = Cell(arg'[u])
    BY Fixed DEF Cell
  <2>6. QED
    BY <1>0, <2>1, <2>3, <2>4, <2>5, Fixed DEF Once, Building
<1>7. CASE CodeletStart(t)
  BY <1>0, <1>7, Types, Fixed
  DEF CodeletStart, Goto, Once, UsedOnce, Building, Requested, InRound, history
<1>8. CASE CodeletEnd(t)
  <2>1. /\ pc[t] = "loop" /\ queue' = queue /\ freed' = freed /\ ref' = ref
        /\ pc'[t] = "signal"
        /\ \A u \in Threads : u # t => pc'[u] = pc[u] /\ arg'[u] = arg[u]
    BY <1>0, <1>8, Types DEF CodeletEnd, Goto
  <2>2. queue = {} /\ \A u \in Threads : u # t => pc[u] \notin Activations
    BY <2>1, Activated DEF Activations
  <2>3. ~ Requested'
    BY <2>1, <2>2 DEF Requested, Activations
  <2>4. \A u \in Threads : Building(u)' => u # t /\ Building(u)
    BY <2>1 DEF Building
  <2>5. \A u \in Threads : Cell(arg[u])' = Cell(arg'[u])
    BY Fixed DEF Cell
  <2>6. QED
    BY <1>0, <2>1, <2>3, <2>4, <2>5, Fixed DEF Once, Building
<1>9. CASE Build(t)
  <2>1. /\ pc[t] = "build" /\ pc' = [pc EXCEPT ![t] = "add"] /\ arg' = arg
        /\ queue' = queue /\ fired' = fired /\ cur' = cur
        /\ freed' = freed /\ ref' = [ref EXCEPT ![Cell(arg[t])] = 1]
    BY <1>0, <1>9, Types DEF Build, Goto, loopVars
  <2>2. PICK c \in Numbers : c = Cell(arg[t])
    BY <1>0, <2>1, Numbering DEF Args, Cell
  <2>3. (\A u \in Threads : u # t => pc'[u] = pc[u]) /\ pc'[t] = "add" /\ ref'[c] = 1
    BY <1>0, <2>1, <2>2, Types
  <2>4. (Requested' <=> Requested) /\ (InRound' <=> InRound)
    BY <2>1, <2>3, Fixed DEF Requested, InRound
  <2>5. \A u \in Threads : (Building(u)' <=> Building(u)) /\ Cell(arg[u])' = Cell(arg[u])
    BY <2>1, <2>3, Fixed DEF Building
  <2>6. Building(t)
    BY <2>1 DEF Building
  <2>7. UsedOnce /\ Placed => \A u \in Threads : Building(u)' => u = t
    BY <1>0, <2>5, <2>6 DEF Once
  <2>8. QED
    BY <1>0, <2>1, <2>2, <2>3, <2>4, <2>5, <2>6, <2>7, Fixed DEF Once, Building
<1>10. CASE Add(t)
  <2>1. /\ pc[t] = "add" /\ pc' = [pc EXCEPT ![t] = "release"] /\ arg' = arg
        /\ queue' = queue \cup {<<"body", arg[t]>>} /\ fired' = fired /\ cur' = cur
        /\ freed' = freed /\ ref' = [ref EXCEPT ![Cell(arg[t])] = ref[Cell(arg[t])] + 1]
    BY <1>0, <1>10, Types DEF Add, Goto, loopVars
  <2>2. PICK c \in Numbers : c = Cell(arg[t])
    BY <1>0, <2>1, Numbering DEF Args, Cell
  <2>3. /\ \A u \in Threads : u # t => pc'[u] = pc[u]
        /\ pc'[t] = "release" /\ ref'[c] = ref[c] + 1
    BY <1>0, <2>1, <2>2, Types
  <2>4. (Requested' <=> Requested) /\ (InRound' <=> InRound)
    BY <2>1, <2>3, Fixed DEF Requested, InRound
  <2>5. \A u \in Threads : (Building(u)' <=> Building(u)) /\ Cell(arg[u])' = Cell(arg[u])
    BY <2>1, <2>3, Fixed DEF Building
  <2>6. Building(t)
    BY <2>1 DEF Building
  <2>7. UsedOnce /\ Placed => (\A u \in Threads : Building(u)' => u = t) /\ ref'[c] = 2
    BY <1>0, <2>1, <2>2, <2>3, <2>5, <2>6 DEF Once
  <2>8. QED
    BY <1>0, <2>1, <2>2, <2>3, <2>4, <2>5, <2>6, <2>7, Fixed DEF Once, Building
<1>11. CASE Release(t)
  BY <1>0, <1>11, Types, Fixed
  DEF Release, Goto, Once, UsedOnce, Building, Requested, InRound, loopVars, outerVars,
      history
<1>12. CASE Body(t)
  <2>1. /\ pc[t] = "body" /\ fired' = fired /\ cur' = cur /\ freed' = freed /\ ref' = ref
        /\ pc'[t] \in {"idle", "drop"}
        /\ \A u \in Threads : u # t => pc'[u] = pc[u] /\ arg'[u] = arg[u]
    BY <1>0, <1>12, Types DEF Body, Goto
  <2>2. InRound /\ InRound'
    BY <2>1, Carrying, Fixed DEF Carries, InRound
  <2>3. \A u \in Threads : Building(u)' => u # t /\ Building(u)
    BY <2>1 DEF Building
  <2>4. \A u \in Threads : Cell(arg[u])' = Cell(arg'[u])
    BY Fixed DEF Cell
  <2>5. QED
    BY <1>0, <2>1, <2>2, <2>3, <2>4, Fixed DEF Once, Building
<1>13. CASE Drop(t)
  <2>1. ~ Placed'
    BY <1>0, <1>13, Fixed DEF Drop, Args
  <2>2. QED
    BY <2>1 DEF Once
<1>14. CASE Destroy(t)
  BY <1>0, <1>14, Types, Fixed
  DEF Destroy, Goto, ReleaseOuter, Once, UsedOnce, Building, Requested, InRound, loopVars,
      history
<1>15. CASE Signal(t)
  BY <1>0, <1>15, Types, Fixed
  DEF Signal, Goto, Enable, Once, UsedOnce, Building, Requested, InRound, loopVars
<1>16. CASE Cont(t)
  <2>1. /\ pc[t] = "cont" /\ freed' = freed /\ ref' = ref
        /\ pc'[t] = "leave" /\ (round < rounds \/ queue' = queue)
        /\ \A u \in Threads : u # t => pc'[u] = pc[u] /\ arg'[u] = arg[u]
    BY <1>0, <1>16, Types DEF Cont, Goto
  <2>2. Continuing /\ queue = {} /\ ~ Requested
    BY <2>1, Activated DEF Activations
  <2>3. round >= 1 /\ round \in Nat
    BY <1>0, <2>2, Types DEF Rounds
  <2>4. UsedOnce /\ Placed => rounds = 1
    <3>1. PICK m, r : m = iterations /\ r = rounds
      OBVIOUS
    <3>2. m \in Nat \ {0} /\ r \in Nat \ {0} /\ m * r >= r
      BY <1>0, <3>1, Types
    <3>3. QED
      BY <3>1, <3>2 DEF UsedOnce
  <2>5. UsedOnce /\ Placed => ~ Requested'
    BY <2>1, <2>2, <2>3, <2>4 DEF Requested
  <2>6. \A u \in Threads : Building(u)' => u # t /\ Building(u)
    BY <2>1 DEF Building
  <2>7. \A u \in Threads : Cell(arg[u])' = Cell(arg'[u])
    BY Fixed DEF Cell
  <2>8. QED
    BY <1>0, <2>1, <2>5, <2>6, <2>7, Fixed DEF Once, Building
<1>17. CASE Leave(t)
  BY <1>0, <1>17, Types, Fixed
  DEF Leave, Goto, ReleaseOuter, Once, UsedOnce, Building, Requested, InRound, loopVars,
      history
<1>18. QED
  BY <1>1, <1>2, <1>3, <1>4, <1>5, <1>6, <1>7, <1>8, <1>9, <1>10, <1>11, <1>12, <1>13,
     <1>14, <1>15, <1>16, <1>17 DEF Step


(* A thread that is not idle is counted, or what it is at work on is.      *)
LEMMA Busy ==
  ASSUME LInv, NEW t \in Threads, pc[t] # "idle"
  PROVE  outerRef > 0 /\ outerRef \in Nat
<1>0. TypeOK /\ Args /\ Frames /\ pc[t] \in PCs
  BY Types DEF LInv
<1>1. AtWork # {} \/ Children # {} \/ Bit # 0
  <2>1. CASE pc[t] \in Firing
    BY <2>1 DEF AtWork
  <2>2. CASE pc[t] \notin Firing /\ Placed
    <3>1. pc[t] = "body"
      BY <1>0, <2>2 DEF PCs, Firing, Args
    <3>2. InRound
      BY <3>1, Carrying DEF Carries
    <3>3. QED
      BY <1>0, <2>2, <3>2, Types DEF InRound, Bit, Placed
  <2>3. CASE pc[t] \notin Firing /\ ~ Placed
    <3>1. pc[t] \in {"build", "add", "release", "body", "drop", "destroy"}
      BY <1>0, <2>3 DEF PCs, Firing
    <3>2. arg[t] \in Numbers
      BY <1>0, <2>3, <3>1 DEF Args
    <3>3. pc[t] # "build" => frame[arg[t]] = arg[t]
      BY <1>0, <2>3, <3>1 DEF Frames, Kept, Carries, Cell, Placed
    <3>4. arg[t] \in Children
      BY <2>3, <3>1, <3>2, <3>3 DEF Children
    <3>5. QED
      BY <3>4
  <2>4. QED
    BY <2>1, <2>2, <2>3
<1>2. PICK q, w, c, b : /\ q = Cardinality(Queued) /\ w = Cardinality(AtWork)
                        /\ c = Cardinality(Children) /\ b = Bit
  OBVIOUS
<1>3. /\ outerRef = q + w + c + b /\ q \in Nat /\ w \in Nat /\ c \in Nat /\ b \in {0, 1}
      /\ w > 0 \/ c > 0 \/ b > 0
  BY <1>1, <1>2, Counted
<1>4. QED
  BY <1>3

(* The TP of the loop is gone with its last reference.                     *)
LEMMA GoneStep ==
  ASSUME LInv, NEW t \in Threads, Step(t)
  PROVE  Gone'
<1>0. TypeOK /\ Gone
  BY DEF LInv
<1>1. CASE Take(t)
  BY <1>0, <1>1, TakeEffect, Types, Fixed DEF Gone
<1>2. CASE ParaStart(t)
  BY <1>0, <1>2, Types, Fixed DEF ParaStart, Goto, Gone, outerVars, history
<1>3. CASE ParaSpawn(t)
  <2>1. pc[t] # "idle"
    BY <1>3 DEF ParaSpawn
  <2>2. outerRef > 0 /\ outerRef \in Nat
    BY <2>1, Busy
  <2>3. QED
    BY <1>0, <1>3, <2>2, Types DEF Gone, ParaSpawn, loopVars, history
<1>4. CASE ParaEnd(t)
  BY <1>0, <1>4, Types, Fixed DEF ParaEnd, Goto, Gone, outerVars, history
<1>5. CASE SerialNext(t)
  <2>1. pc[t] # "idle"
    BY <1>5 DEF SerialNext
  <2>2. outerRef > 0 /\ outerRef \in Nat
    BY <2>1, Busy
  <2>3. QED
    BY <1>0, <1>5, <2>2, Types DEF Gone, SerialNext
<1>6. CASE SerialEnd(t)
  <2>1. pc[t] # "idle"
    BY <1>6 DEF SerialEnd
  <2>2. outerRef > 0 /\ outerRef \in Nat
    BY <2>1, Busy
  <2>3. QED
    BY <1>0, <1>6, <2>2, Types DEF Gone, SerialEnd
<1>7. CASE CodeletStart(t)
  <2>1. pc[t] # "idle"
    BY <1>7 DEF CodeletStart
  <2>2. outerRef > 0 /\ outerRef \in Nat
    BY <2>1, Busy
  <2>3. QED
    BY <1>0, <1>7, <2>2, Types DEF Gone, CodeletStart
<1>8. CASE CodeletEnd(t)
  <2>1. pc[t] # "idle"
    BY <1>8 DEF CodeletEnd
  <2>2. outerRef > 0 /\ outerRef \in Nat
    BY <2>1, Busy
  <2>3. QED
    BY <1>0, <1>8, <2>2, Types DEF Gone, CodeletEnd
<1>9. CASE Build(t)
  BY <1>0, <1>9, Types, Fixed DEF Build, Goto, Gone, loopVars, outerVars, history
<1>10. CASE Add(t)
  BY <1>0, <1>10, Types, Fixed DEF Add, Goto, Gone, loopVars, outerVars, history
<1>11. CASE Release(t)
  BY <1>0, <1>11, Types, Fixed DEF Release, Goto, Gone, loopVars, outerVars, history
<1>12. CASE Body(t)
  <2>1. pc[t] # "idle"
    BY <1>12 DEF Body
  <2>2. outerRef > 0 /\ outerRef \in Nat
    BY <2>1, Busy
  <2>3. QED
    BY <1>0, <1>12, <2>2, Types DEF Gone, Body, SignalLoop, Enable
<1>13. CASE Drop(t)
  BY <1>0, <1>13, Types, Fixed DEF Drop, Goto, Gone, loopVars, outerVars, history
<1>14. CASE Destroy(t)
  <2>1. pc[t] # "idle"
    BY <1>14 DEF Destroy
  <2>2. outerRef > 0 /\ outerRef \in Nat
    BY <2>1, Busy
  <2>3. QED
    BY <1>0, <1>14, <2>2, Types DEF Gone, Destroy, ReleaseOuter
<1>15. CASE Signal(t)
  <2>1. pc[t] # "idle"
    BY <1>15 DEF Signal
  <2>2. outerRef > 0 /\ outerRef \in Nat
    BY <2>1, Busy
  <2>3. QED
    BY <1>0, <1>15, <2>2, Types DEF Gone, Signal, Enable
<1>16. CASE Cont(t)
  <2>1. pc[t] # "idle"
    BY <1>16 DEF Cont
  <2>2. outerRef > 0 /\ outerRef \in Nat
    BY <2>1, Busy
  <2>3. QED
    BY <1>0, <1>16, <2>2, Types DEF Gone, Cont, SignalLoop, Enable
<1>17. CASE Leave(t)
  <2>1. pc[t] # "idle"
    BY <1>17 DEF Leave
  <2>2. outerRef > 0 /\ outerRef \in Nat
    BY <2>1, Busy
  <2>3. QED
    BY <1>0, <1>17, <2>2, Types DEF Gone, Leave, ReleaseOuter
<1>18. QED
  BY <1>1, <1>2, <1>3, <1>4, <1>5, <1>6, <1>7, <1>8, <1>9, <1>10, <1>11, <1>12, <1>13,
     <1>14, <1>15, <1>16, <1>17 DEF Step


(* What outerRef counts.                                                   *)
LEMMA Tallied ==
  ASSUME outerRef' = Cardinality(Queued') + Cardinality(AtWork') + Cardinality(Children') + Bit'
  PROVE  OuterExact'
BY DEF OuterExact, Queued, AtWork, Bit

(* The references on the TP of the loop.                                   *)
LEMMA OuterExactStep ==
  ASSUME LInv, NEW t \in Threads, Step(t)
  PROVE  OuterExact'
<1>0. TypeOK /\ Args /\ Unique /\ Frames
  BY DEF LInv
<1>1. CASE Take(t)
  <2>1. PICK l \in {"loop", "cont", "build", "body"}, n \in Numbers :
          /\ pc[t] = "idle" /\ <<l, n>> \in queue /\ queue' = queue \ {<<l, n>>}
          /\ l = "build" => ~ Placed
          /\ pc' = [pc EXCEPT ![t] = l] /\ arg' = [arg EXCEPT ![t] = n]
          /\ fired' = fired /\ cur' = cur /\ frame' = frame /\ outerRef' = outerRef
    BY <1>1, TakeEffect
  <2>2. /\ \A u \in Threads : u # t => pc'[u] = pc[u] /\ arg'[u] = arg[u]
        /\ pc'[t] = l /\ arg'[t] = n
    BY <1>0, <2>1, Types
  <2>3. Children' = Children
    <3>1. CASE Placed
      BY <3>1, Fixed DEF Children
    <3>2. CASE ~ Placed
      <4>1. \A m \in Numbers : m \in Children' <=> m \in Children
        BY <2>1, <2>2, <3>2, Fixed DEF Children
      <4>2. Children \subseteq Numbers /\ Children' \subseteq Numbers
        BY Fixed DEF Children
      <4>3. QED
        BY <4>1, <4>2
    <3>3. QED
      BY <3>1, <3>2
  <2>4. Bit' = Bit
    BY <2>1, Fixed DEF Bit
  <2>5. CASE l \in {"loop", "cont"}
    <3>1. Queued' = Queued \ {<<l, n>>} /\ <<l, n>> \in Queued
      BY <2>1, <2>5 DEF Queued
    <3>2. AtWork' = AtWork \cup {t} /\ t \notin AtWork
      BY <2>1, <2>2, <2>5, Fixed DEF AtWork, Firing
    <3>3. Cardinality(Queued') = Cardinality(Queued) - 1
      BY <1>0, <3>1, QueuedCount, FS_RemoveElement
    <3>4. Cardinality(AtWork') = Cardinality(AtWork) + 1
      BY <3>2, Counted, FS_AddElement
    <3>5. QED
      BY <2>1, <2>3, <2>4, <3>3, <3>4, Counted, Tallied
  <2>6. CASE l \notin {"loop", "cont"}
    <3>1. Queued' = Queued
      BY <2>1, <2>6 DEF Queued
    <3>2. AtWork' = AtWork
      BY <2>1, <2>2, <2>6, Fixed DEF AtWork, Firing
    <3>3. QED
      BY <2>1, <2>3, <2>4, <3>1, <3>2, Counted, Tallied
  <2>7. QED
    BY <2>5, <2>6
<1>2. CASE ParaStart(t)
  <2>2. Queued' = Queued
    BY <1>2 DEF ParaStart, Queued
  <2>3. AtWork' = AtWork
    BY <1>0, <1>2, Types, Fixed DEF ParaStart, Goto, AtWork, Firing
  <2>4. Children' = Children
    BY <1>0, <1>2, Types, Fixed DEF ParaStart, Goto, Children
  <2>5. Bit' = Bit /\ outerRef' = outerRef
    BY <1>2, Fixed DEF ParaStart, Bit, outerVars
  <2>6. QED
    BY <2>2, <2>3, <2>4, <2>5, Counted, Tallied
<1>3. CASE ParaSpawn(t)
  <2>1. /\ pc[t] = "spawn" /\ arg[t] \in Iter /\ ~ Placed
        /\ queue' = queue \cup {<<"build", round * iterations + arg[t]>>}
        /\ fired' = fired /\ cur' = cur /\ frame' = frame /\ outerRef' = outerRef + 1
        /\ pc'[t] \in {"spawn", "leave"}
        /\ \A u \in Threads : u # t => pc'[u] = pc[u] /\ arg'[u] = arg[u]
    BY <1>0, <1>3, Types DEF ParaSpawn, Goto, Args, loopVars
  <2>2. Supplies(t, arg[t]) /\ arg[t] \in Nat
    BY <1>0, <2>1, Types DEF Supplies
  <2>3. PICK n \in Numbers : /\ n = Number(arg[t]) /\ frame[n] = -1
                             /\ <<"build", n>> \notin queue
                             /\ \A u \in Threads : Kept(u) => arg[u] # n
    BY <2>1, <2>2, Spawning, Supplying
  <2>4. queue' = queue \cup {<<"build", n>>}
    BY <1>0, <2>1, <2>3, Numbering DEF Number
  <2>5. Queued' = Queued
    BY <2>4 DEF Queued
  <2>6. AtWork' = AtWork
    BY <2>1, Fixed DEF AtWork, Firing
  <2>7. Children' = Children \cup {n}
    BY <2>1, <2>4, Fixed DEF Children
  <2>8. n \notin Children
    <3>1. -1 # n
      BY <1>0, Numbering
    <3>2. QED
      BY <2>3, <3>1 DEF Children, Kept, Carries
  <2>9. Cardinality(Children') = Cardinality(Children) + 1
    BY <2>7, <2>8, Counted, FS_AddElement
  <2>10. Bit' = Bit
    BY <2>1, Fixed DEF Bit
  <2>11. QED
    BY <2>1, <2>5, <2>6, <2>9, <2>10, Counted, Tallied
<1>4. CASE ParaEnd(t)
  <2>2. Queued' = Queued
    BY <1>4 DEF ParaEnd, Queued
  <2>3. AtWork' = AtWork
    BY <1>0, <1>4, Types, Fixed DEF ParaEnd, Goto, AtWork, Firing
  <2>4. Children' = Children
    BY <1>0, <1>4, Types, Fixed DEF ParaEnd, Goto, Children
  <2>5. Bit' = Bit /\ outerRef' = outerRef
    BY <1>4, Fixed DEF ParaEnd, Bit, outerVars
  <2>6. QED
    BY <2>2, <2>3, <2>4, <2>5, Counted, Tallied
<1>5. CASE SerialNext(t)
  <2>2. Queued' = Queued
    BY <1>5 DEF SerialNext, Queued
  <2>3. AtWork' = AtWork
    BY <1>0, <1>5, Types, Fixed DEF SerialNext, Goto, AtWork, Firing, Placed
  <2>4. Children' = Children
    BY <1>0, <1>5, Fixed DEF SerialNext, Args, Children, Placed
  <2>5. outerRef' = outerRef + Bit' - Bit /\ Bit' = 1
    BY <1>0, <1>5, Types, Fixed DEF SerialNext, Bit
  <2>6. QED
    BY <2>2, <2>3, <2>4, <2>5, Counted, Tallied
<1>6. CASE SerialEnd(t)
  <2>2. Queued' = Queued
    BY <1>6 DEF SerialEnd, Queued
  <2>3. AtWork' = AtWork
    BY <1>0, <1>6, Types, Fixed DEF SerialEnd, Goto, AtWork, Firing
  <2>4. Children' = Children
    BY <1>0, <1>6, Fixed DEF SerialEnd, Args, Children, Placed
  <2>5. outerRef' = outerRef - 1 /\ Bit' = 0 /\ Bit = 1
    BY <1>0, <1>6, Types, Fixed DEF SerialEnd, Bit
  <2>6. QED
    BY <2>2, <2>3, <2>4, <2>5, Counted, Tallied
<1>7. CASE CodeletStart(t)
  <2>2. Queued' = Queued
    BY <1>7 DEF CodeletStart, Queued
  <2>3. AtWork' = AtWork
    BY <1>0, <1>7, Types, Fixed DEF CodeletStart, Goto, AtWork, Firing, Placed
  <2>4. Children' = Children
    BY <1>0, <1>7, Fixed DEF CodeletStart, Args, Children, Placed
  <2>5. outerRef' = outerRef + 1 /\ Bit' = 1 /\ Bit = 0
    BY <1>0, <1>7, Types, Fixed DEF CodeletStart, Bit
  <2>6. QED
    BY <2>2, <2>3, <2>4, <2>5, Counted, Tallied
<1>8. CASE CodeletEnd(t)
  <2>2. Queued' = Queued
    BY <1>8 DEF CodeletEnd, Queued
  <2>3. AtWork' = AtWork
    BY <1>0, <1>8, Types, Fixed DEF CodeletEnd, Goto, AtWork, Firing
  <2>4. Children' = Children
    BY <1>0, <1>8, Fixed DEF CodeletEnd, Args, Children, Placed
  <2>5. outerRef' = outerRef - 1 /\ Bit' = 0 /\ Bit = 1
    BY <1>0, <1>8, Types, Fixed DEF CodeletEnd, Bit
  <2>6. QED
    BY <2>2, <2>3, <2>4, <2>5, Counted, Tallied
<1>9. CASE Build(t)
  <2>2. Queued' = Queued
    BY <1>9 DEF Build, Queued
  <2>3. AtWork' = AtWork
    BY <1>0, <1>9, Types, Fixed DEF Build, Goto, AtWork, Firing
  <2>4. Children' = Children
    <3>1. PICK n \in Numbers : n = arg[t]
      BY <1>0, <1>9, Numbering DEF Build, Args
    <3>2. CASE Placed
      BY <3>2, Fixed DEF Children
    <3>3. CASE ~ Placed
      <4>1. Cell(n) = n
        BY <3>3 DEF Cell, Placed
      <4>2. /\ frame'[n] = n /\ \A m \in Numbers : m # n => frame'[m] = frame[m]
            /\ pc[t] = "build" /\ pc'[t] = "add" /\ queue' = queue /\ arg'[t] = n
            /\ \A u \in Threads : u # t => pc'[u] = pc[u] /\ arg'[u] = arg[u]
        BY <1>0, <1>9, <3>1, <4>1, Types DEF Build, Goto
      <4>3. \A m \in Numbers : m \in Children' <=> m \in Children
        BY <3>1, <3>3, <4>2, Fixed DEF Children
      <4>4. QED
        BY <3>3, <4>3, Fixed DEF Children
    <3>4. QED
      BY <3>2, <3>3
  <2>5. Bit' = Bit /\ outerRef' = outerRef
    BY <1>9, Fixed DEF Build, Bit, loopVars, outerVars
  <2>6. QED
    BY <2>2, <2>3, <2>4, <2>5, Counted, Tallied
<1>10. CASE Add(t)
  <2>2. Queued' = Queued
    BY <1>10 DEF Add, Queued
  <2>3. AtWork' = AtWork
    BY <1>0, <1>10, Types, Fixed DEF Add, Goto, AtWork, Firing
  <2>4. Children' = Children
    BY <1>0, <1>10, Types, Fixed DEF Add, Goto, Children
  <2>5. Bit' = Bit /\ outerRef' = outerRef
    BY <1>10, Fixed DEF Add, Bit, loopVars, outerVars
  <2>6. QED
    BY <2>2, <2>3, <2>4, <2>5, Counted, Tallied
<1>11. CASE Release(t)
  <2>2. Queued' = Queued
    BY <1>11 DEF Release, Queued
  <2>3. AtWork' = AtWork
    BY <1>0, <1>11, Types, Fixed DEF Release, Goto, AtWork, Firing
  <2>4. Children' = Children
    <3>1. CASE Placed
      BY <3>1, Fixed DEF Children
    <3>2. CASE ~ Placed
      <4>1. /\ pc[t] = "release" /\ pc'[t] \in {"destroy", "idle"} /\ queue' = queue
            /\ frame' = frame
            /\ \A u \in Threads : u # t => pc'[u] = pc[u] /\ arg'[u] = arg[u]
        BY <1>0, <1>11, <3>2, Types DEF Release, Goto
      <4>2. QED
        BY <3>2, <4>1, Fixed DEF Children
    <3>3. QED
      BY <3>1, <3>2
  <2>5. Bit' = Bit /\ outerRef' = outerRef
    BY <1>11, Fixed DEF Release, Bit, loopVars, outerVars
  <2>6. QED
    BY <2>2, <2>3, <2>4, <2>5, Counted, Tallied
<1>12. CASE Body(t)
  <2>1. <<"loop", 0>> \notin queue
    BY <1>12, Carrying, Waiting DEF Body, Carries
  <2>2. \/ queue' = queue \cup {<<"loop", 0>>} /\ outerRef' = outerRef + 1
        \/ queue' = queue /\ outerRef' = outerRef
    BY <1>12 DEF Body, SignalLoop, Enable
  <2>3. /\ pc[t] = "body" /\ pc'[t] \in {"idle", "drop"} /\ fired' = fired /\ cur' = cur
        /\ frame' = frame
        /\ \A u \in Threads : u # t => pc'[u] = pc[u] /\ arg'[u] = arg[u]
    BY <1>0, <1>12, Types DEF Body, Goto
  <2>4. AtWork' = AtWork /\ Bit' = Bit
    BY <2>3, Fixed DEF AtWork, Firing, Bit
  <2>5. Children' = Children
    BY <2>2, <2>3, Fixed DEF Children
  <2>6. CASE queue' = queue \cup {<<"loop", 0>>} /\ outerRef' = outerRef + 1
    <3>1. Queued' = Queued \cup {<<"loop", 0>>} /\ <<"loop", 0>> \notin Queued
      BY <2>1, <2>6 DEF Queued
    <3>2. Cardinality(Queued') = Cardinality(Queued) + 1
      BY <1>0, <3>1, QueuedCount, FS_AddElement
    <3>3. QED
      BY <2>4, <2>5, <2>6, <3>2, Counted, Tallied
  <2>7. CASE queue' = queue /\ outerRef' = outerRef
    <3>1. Queued' = Queued
      BY <2>7 DEF Queued
    <3>2. QED
      BY <2>4, <2>5, <2>7, <3>1, Counted, Tallied
  <2>8. QED
    BY <2>2, <2>6, <2>7
<1>13. CASE Drop(t)
  <2>2. Queued' = Queued
    BY <1>13 DEF Drop, Queued
  <2>3. AtWork' = AtWork
    BY <1>0, <1>13, Types, Fixed DEF Drop, Goto, AtWork, Firing
  <2>4. Children' = Children
    <3>1. /\ pc[t] = "drop" /\ pc'[t] \in {"destroy", "idle"} /\ queue' = queue
          /\ frame' = frame
          /\ \A u \in Threads : u # t => pc'[u] = pc[u] /\ arg'[u] = arg[u]
      BY <1>0, <1>13, Types DEF Drop, Goto
    <3>2. QED
      BY <3>1, Fixed DEF Children
  <2>5. Bit' = Bit /\ outerRef' = outerRef
    BY <1>13, Fixed DEF Drop, Bit, loopVars, outerVars
  <2>6. QED
    BY <2>2, <2>3, <2>4, <2>5, Counted, Tallied
<1>14. CASE Destroy(t)
  <2>1. PICK n \in Numbers : n = arg[t] /\ ~ Placed /\ kind = "para"
    BY <1>0, <1>14, Types DEF Destroy, Args, Placed
  <2>2. /\ pc[t] = "destroy" /\ pc'[t] = "idle" /\ queue' = queue
        /\ fired' = fired /\ cur' = cur /\ outerRef' = outerRef - 1
        /\ \A u \in Threads : u # t => pc'[u] = pc[u] /\ arg'[u] = arg[u]
        /\ frame'[n] = -1 /\ \A m \in Numbers : m # n => frame'[m] = frame[m]
    BY <1>0, <1>14, <2>1, Types DEF Destroy, ReleaseOuter, Goto, loopVars
  <2>3. Queued' = Queued /\ AtWork' = AtWork /\ Bit' = Bit
    BY <2>1, <2>2, Fixed DEF Queued, AtWork, Firing, Bit
  <2>4. n \in Children
    BY <1>0, <2>1, <2>2 DEF Frames, Kept, Cell, Children, Placed
  <2>5. /\ <<"build", n>> \notin queue /\ n # -1
        /\ \A u \in Threads : u # t /\ pc[u] = "build" => arg[u] # n
    <3>1. Kept(t)
      BY <2>1, <2>2 DEF Kept
    <3>2. <<"build", n>> \notin queue
      BY <1>0, <2>1, <3>1 DEF Unique
    <3>3. n # -1
      BY <1>0, Numbering
    <3>4. \A u \in Threads : u # t /\ pc[u] = "build" => arg[u] # n
      BY <1>0, <2>1, <2>2, <3>1 DEF Unique, Kept, Carries
    <3>5. QED
      BY <3>2, <3>3, <3>4
  <2>6. Children' = Children \ {n}
    BY <2>1, <2>2, <2>5, Fixed DEF Children
  <2>7. Cardinality(Children') = Cardinality(Children) - 1
    BY <2>4, <2>6, Counted, FS_RemoveElement
  <2>8. QED
    BY <2>2, <2>3, <2>7, Counted, Tallied
<1>15. CASE Signal(t)
  <2>1. <<"cont", 0>> \notin queue
    BY <1>15, Activated DEF Signal, Activations
  <2>2. queue' = queue \cup {<<"cont", 0>>} /\ outerRef' = outerRef + 1
    BY <1>15 DEF Signal, Enable
  <2>3. /\ pc[t] = "signal" /\ pc'[t] = "leave" /\ fired' = fired /\ cur' = cur
        /\ frame' = frame
        /\ \A u \in Threads : u # t => pc'[u] = pc[u] /\ arg'[u] = arg[u]
    BY <1>0, <1>15, Types DEF Signal, Goto, loopVars
  <2>4. AtWork' = AtWork /\ Bit' = Bit
    BY <2>3, Fixed DEF AtWork, Firing, Bit
  <2>5. Children' = Children
    BY <2>2, <2>3, Fixed DEF Children
  <2>6. Queued' = Queued \cup {<<"cont", 0>>} /\ <<"cont", 0>> \notin Queued
    BY <2>1, <2>2 DEF Queued
  <2>7. Cardinality(Queued') = Cardinality(Queued) + 1
    BY <1>0, <2>6, QueuedCount, FS_AddElement
  <2>8. QED
    BY <2>2, <2>4, <2>5, <2>7, Counted, Tallied
<1>16. CASE Cont(t)
  <2>1. <<"loop", 0>> \notin queue
    BY <1>16, Activated DEF Cont, Activations
  <2>2. \/ queue' = queue \cup {<<"loop", 0>>} /\ outerRef' = outerRef + 1
        \/ queue' = queue /\ outerRef' = outerRef
    BY <1>16 DEF Cont, SignalLoop, Enable
  <2>3. /\ pc[t] = "cont" /\ pc'[t] \in {"leave"} /\ fired' = fired /\ cur' = cur
        /\ frame' = frame
        /\ \A u \in Threads : u # t => pc'[u] = pc[u] /\ arg'[u] = arg[u]
    BY <1>0, <1>16, Types DEF Cont, Goto
  <2>4. AtWork' = AtWork /\ Bit' = Bit
    BY <2>3, Fixed DEF AtWork, Firing, Bit
  <2>5. Children' = Children
    BY <2>2, <2>3, Fixed DEF Children
  <2>6. CASE queue' = queue \cup {<<"loop", 0>>} /\ outerRef' = outerRef + 1
    <3>1. Queued' = Queued \cup {<<"loop", 0>>} /\ <<"loop", 0>> \notin Queued
      BY <2>1, <2>6 DEF Queued
    <3>2. Cardinality(Queued') = Cardinality(Queued) + 1
      BY <1>0, <3>1, QueuedCount, FS_AddElement
    <3>3. QED
      BY <2>4, <2>5, <2>6, <3>2, Counted, Tallied
  <2>7. CASE queue' = queue /\ outerRef' = outerRef
    <3>1. Queued' = Queued
      BY <2>7 DEF Queued
    <3>2. QED
      BY <2>4, <2>5, <2>7, <3>1, Counted, Tallied
  <2>8. QED
    BY <2>2, <2>6, <2>7
<1>17. CASE Leave(t)
  <2>1. /\ pc[t] = "leave" /\ pc'[t] = "idle" /\ queue' = queue /\ frame' = frame
        /\ fired' = fired /\ cur' = cur /\ outerRef' = outerRef - 1
        /\ \A u \in Threads : u # t => pc'[u] = pc[u] /\ arg'[u] = arg[u]
    BY <1>0, <1>17, Types DEF Leave, ReleaseOuter, Goto, loopVars
  <2>2. Queued' = Queued /\ Bit' = Bit
    BY <2>1, Fixed DEF Queued, Bit
  <2>3. Children' = Children
    BY <2>1, Fixed DEF Children
  <2>4. AtWork' = AtWork \ {t} /\ t \in AtWork
    BY <2>1, Fixed DEF AtWork, Firing
  <2>5. Cardinality(AtWork') = Cardinality(AtWork) - 1
    BY <2>4, Counted, FS_RemoveElement
  <2>6. QED
    BY <2>1, <2>2, <2>3, <2>5, Counted, Tallied
<1>18. QED
  BY <1>1, <1>2, <1>3, <1>4, <1>5, <1>6, <1>7, <1>8, <1>9, <1>10, <1>11, <1>12, <1>13,
     <1>14, <1>15, <1>16, <1>17 DEF Step

(* No iteration is lost.                                                   *)
LEMMA WholeStep ==
  ASSUME LInv, NEW t \in Threads, Step(t)
  PROVE  Whole'
<1>0. TypeOK /\ Whole /\ Args
  BY DEF LInv
<1>1. CASE Take(t)
  <2>1. PICK l \in {"loop", "cont", "build", "body"}, n \in Numbers :
          /\ pc[t] = "idle" /\ <<l, n>> \in queue /\ queue' = queue \ {<<l, n>>}
          /\ pc' = [pc EXCEPT ![t] = l] /\ arg' = [arg EXCEPT ![t] = n]
          /\ fired' = fired /\ done' = done /\ round' = round
    BY <1>1, TakeEffect
  <2>2. /\ \A u \in Threads : u # t => pc'[u] = pc[u] /\ arg'[u] = arg[u]
        /\ pc'[t] = l /\ arg'[t] = n
    BY <1>0, <2>1, Types
  <2>3. /\ \A u \in Threads : Carries(u) => Carries(u)' /\ arg'[u] = arg[u]
        /\ \A u \in Threads, k \in Iter : Supplies(u, k) => Supplies(u, k)'
        /\ l \in {"build", "body"} => Carries(t)'
    BY <2>1, <2>2, Fixed DEF Carries, Supplies
  <2>4. \A k \in Iter : Number(k)' = Number(k)
    BY <2>1, Fixed DEF Number
  <2>5. SUFFICES ASSUME kind = "para", InRound, NEW k \in Iter \ done PROVE Accounted(k)'
    BY <2>1, Fixed DEF Whole, InRound
  <2>6. Accounted(k)
    BY <1>0, <2>5 DEF Whole
  <2>7. QED
    BY <2>1, <2>2, <2>3, <2>4, <2>6 DEF Accounted
<1>2. CASE ParaStart(t)
  <2>1. pc'[t] = "spawn" /\ arg'[t] = 0
    BY <1>0, <1>2, Types DEF ParaStart, Goto
  <2>2. \A k \in Iter : Supplies(t, k)'
    BY <1>0, <2>1, Numbering DEF Supplies
  <2>3. QED
    BY <2>2, Fixed DEF Whole, Accounted
<1>3. CASE ParaSpawn(t)
  <2>1. /\ pc[t] = "spawn" /\ arg[t] \in Iter /\ ~ Placed
        /\ queue' = queue \cup {<<"build", round * iterations + arg[t]>>}
        /\ fired' = fired /\ done' = done /\ round' = round
        /\ \/ pc' = [pc EXCEPT ![t] = "spawn"] /\ arg' = [arg EXCEPT ![t] = arg[t] + 1]
           \/ /\ pc' = [pc EXCEPT ![t] = "leave"] /\ arg' = [arg EXCEPT ![t] = 0]
              /\ ~ (arg[t] + 1 < iterations)
    BY <1>0, <1>3 DEF ParaSpawn, Goto, Args, loopVars, history
  <2>2. PICK m \in Iter : m = arg[t]
    BY <2>1
  <2>3. /\ m \in Nat /\ iterations \in Nat /\ round * iterations + m = Number(m)
        /\ \A k \in Iter : k \in Nat /\ k < iterations
    BY <1>0, <2>1, <2>2, Types, Numbering DEF Number, Iter
  <2>4. /\ \A u \in Threads : u # t => pc'[u] = pc[u] /\ arg'[u] = arg[u]
        /\ \/ pc'[t] = "spawn" /\ arg'[t] = m + 1
           \/ pc'[t] = "leave" /\ m + 1 >= iterations
    BY <1>0, <2>1, <2>2, <2>3, Types
  <2>5. \A u \in Threads, k \in Iter : Supplies(u, k) /\ k # m => Supplies(u, k)'
    BY <2>1, <2>2, <2>3, <2>4, Fixed DEF Supplies, Placed
  <2>6. /\ \A u \in Threads : Carries(u) => Carries(u)' /\ arg'[u] = arg[u]
        /\ <<"build", Number(m)>> \in queue' /\ queue \subseteq queue'
    BY <2>1, <2>2, <2>3, <2>4 DEF Carries
  <2>7. \A k \in Iter : Number(k)' = Number(k)
    BY <2>1, Fixed DEF Number
  <2>8. SUFFICES ASSUME kind = "para", InRound, NEW k \in Iter \ done PROVE Accounted(k)'
    BY <2>1, Fixed DEF Whole, InRound
  <2>9. Accounted(k)
    BY <1>0, <2>8 DEF Whole
  <2>10. QED
    BY <2>5, <2>6, <2>7, <2>9 DEF Accounted
<1>4. CASE ParaEnd(t)
  BY <1>0, <1>4, Types, Fixed
  DEF ParaEnd, Goto, Whole, Accounted, InRound, Number, Supplies, Carries, outerVars,
      history
<1>5. CASE SerialNext(t)
  BY <1>0, <1>5, Types, Fixed
  DEF SerialNext, Goto, Whole, Accounted, InRound, Number, Supplies, Carries, history
<1>6. CASE SerialEnd(t)
  BY <1>0, <1>6, Types, Fixed
  DEF SerialEnd, Goto, Whole, Accounted, InRound, Number, Supplies, Carries, history
<1>7. CASE CodeletStart(t)
  BY <1>0, <1>7, Types, Fixed
  DEF CodeletStart, Goto, Whole, Accounted, InRound, Number, Supplies, Carries, history
<1>8. CASE CodeletEnd(t)
  BY <1>0, <1>8, Types, Fixed
  DEF CodeletEnd, Goto, Whole, Accounted, InRound, Number, Supplies, Carries, history
<1>9. CASE Build(t)
  BY <1>0, <1>9, Types, Fixed
  DEF Build, Goto, Whole, Accounted, InRound, Number, Supplies, Carries, loopVars,
      outerVars, history
<1>10. CASE Add(t)
  <2>1. /\ pc[t] = "add" /\ pc'[t] = "release" /\ arg'[t] = arg[t]
        /\ queue' = queue \cup {<<"body", arg[t]>>}
        /\ fired' = fired /\ done' = done /\ round' = round
        /\ \A u \in Threads : u # t => pc'[u] = pc[u] /\ arg'[u] = arg[u]
    BY <1>0, <1>10, Types DEF Add, Goto, loopVars, history
  <2>2. \A k \in Iter : Number(k)' = Number(k)
    BY <2>1, Fixed DEF Number
  <2>3. \A u \in Threads : Carries(u) /\ u # t => Carries(u)' /\ arg'[u] = arg[u]
    BY <2>1 DEF Carries
  <2>4. kind = "para" => \A u \in Threads, k \in Iter : Supplies(u, k) => Supplies(u, k)'
    BY <2>1, Fixed DEF Supplies
  <2>5. SUFFICES ASSUME kind = "para", InRound, NEW k \in Iter \ done PROVE Accounted(k)'
    BY <2>1, Fixed DEF Whole, InRound
  <2>6. Accounted(k)
    BY <1>0, <2>5 DEF Whole
  <2>7. QED
    BY <2>1, <2>2, <2>3, <2>4, <2>5, <2>6 DEF Accounted
<1>11. CASE Release(t)
  BY <1>0, <1>11, Types, Fixed
  DEF Release, Goto, Whole, Accounted, InRound, Number, Supplies, Carries, loopVars,
      outerVars, history
<1>12. CASE Body(t)
  <2>1. /\ pc[t] = "body" /\ fired' = fired /\ round' = round
        /\ done' = done \cup {Index(arg[t])} /\ queue \subseteq queue'
        /\ \A u \in Threads : u # t => pc'[u] = pc[u] /\ arg'[u] = arg[u]
    BY <1>0, <1>12, Types DEF Body, SignalLoop, Enable, Goto
  <2>2. \A k \in Iter : Number(k)' = Number(k)
    BY <2>1, Fixed DEF Number
  <2>3. \A u \in Threads : Carries(u) /\ u # t => Carries(u)' /\ arg'[u] = arg[u]
    BY <2>1 DEF Carries
  <2>4. \A u \in Threads, k \in Iter : Supplies(u, k) => Supplies(u, k)'
    BY <2>1, Fixed DEF Supplies
  <2>5. SUFFICES ASSUME kind = "para", InRound, NEW k \in Iter \ done' PROVE Accounted(k)'
    BY <2>1, Fixed DEF Whole, InRound
  <2>6. Accounted(k) /\ k # Index(arg[t])
    BY <1>0, <2>1, <2>5 DEF Whole
  <2>7. Number(k) # arg[t]
    <3>1. Carries(t)
      BY <2>1 DEF Carries
    <3>2. round < rounds
      BY <3>1, Carrying, Waiting
    <3>3. Index(Number(k)) = k
      BY <1>0, <2>5, <3>2, Numbering DEF Number, Placed
    <3>4. QED
      BY <2>6, <3>3
  <2>8. QED
    BY <2>1, <2>2, <2>3, <2>4, <2>6, <2>7 DEF Accounted
<1>13. CASE Drop(t)
  BY <1>0, <1>13, Types, Fixed
  DEF Drop, Goto, Whole, Accounted, InRound, Number, Supplies, Carries, loopVars,
      outerVars, history
<1>14. CASE Destroy(t)
  BY <1>0, <1>14, Types, Fixed
  DEF Destroy, Goto, ReleaseOuter, Whole, Accounted, InRound, Number, Supplies, Carries,
      loopVars, history
<1>15. CASE Signal(t)
  <2>1. pc[t] = "signal" /\ fired' = fired /\ cur' = cur
    BY <1>15 DEF Signal, loopVars
  <2>2. ~ InRound'
    BY <2>1, Activated, Fixed DEF Activations, InRound
  <2>3. QED
    BY <2>2 DEF Whole
<1>16. CASE Cont(t)
  BY <1>0, <1>16, Types, Fixed
  DEF Cont, Goto, SignalLoop, Enable, Whole, Accounted, InRound, Number, Supplies, Carries,
      history
<1>17. CASE Leave(t)
  BY <1>0, <1>17, Types, Fixed
  DEF Leave, Goto, ReleaseOuter, Whole, Accounted, InRound, Number, Supplies, Carries,
      loopVars, history
<1>18. QED
  BY <1>1, <1>2, <1>3, <1>4, <1>5, <1>6, <1>7, <1>8, <1>9, <1>10, <1>11, <1>12, <1>13,
     <1>14, <1>15, <1>16, <1>17 DEF Step

-----------------------------------------------------------------------------
(* The loop is requested, and nothing else is there.                        *)
LEMMA LInvInit ==
  ASSUME Init
  PROVE  LInv
<1>1. TypeOK
  <2>1. program \in Programs /\ iterations \in Nat \ {0} /\ rounds \in Nat \ {0}
    BY ProgramsAssumption DEF Init, program
  <2>2. PICK m, r : m = iterations /\ r = rounds
    OBVIOUS
  <2>3. m \in Nat \ {0} /\ r \in Nat \ {0} /\ m * r \in Int /\ m * 1 <= m * r /\ m * 1 = m
    BY <2>1, <2>2, Ordered
  <2>4. 0 \in Numbers
    BY <2>2, <2>3 DEF Numbers
  <2>5. queue \subseteq {"loop", "cont", "build", "body"} \X Numbers
    BY <2>4 DEF Init
  <2>6. frame \in [Numbers -> Numbers \cup {-1}] /\ ref \in [Numbers -> Nat]
    BY DEF Init
  <2>7. pc \in [Threads -> PCs] /\ arg \in [Threads -> Nat]
    BY DEF Init, PCs
  <2>8. counter \in Nat /\ cur \in 0 .. iterations
    BY <2>1 DEF Init
  <2>9. fired \in BOOLEAN /\ freed \in BOOLEAN
    BY Zenon DEF Init
  <2>10. /\ outer \in {"live", "deleted"} /\ outerRef \in Nat /\ done \subseteq Iter
        /\ round \in 0 .. rounds
    BY <2>1 DEF Init
  <2>11. QED
    BY <2>1, <2>5, <2>6, <2>7, <2>8, <2>9, <2>10 DEF TypeOK
<1>2. /\ Requested /\ ~ Signalling /\ ~ Continuing /\ ~ InRound /\ queue = {<<"loop", 0>>}
      /\ \A t \in Threads : pc[t] = "idle"
      /\ \A n \in Numbers :
           frame[n] = -1 /\ <<"build", n>> \notin queue /\ <<"body", n>> \notin queue
  BY DEF Init, Requested, Signalling, Continuing, InRound
<1>3. Alone /\ Args /\ Unique
  BY <1>2 DEF Alone, Activations, Args, Unique, Kept, Carries, Supplies
<1>4. Rounds
  BY <1>1, <1>2, Types DEF Init, Rounds
<1>5. Flight /\ Whole
  BY <1>2 DEF Flight, Carries, Supplies, Whole
<1>6. Frames
  BY <1>2 DEF Frames, Kept, Carries
<1>7. Refs /\ Once /\ Gone
  BY <1>2 DEF Init, Refs, HasBody, Once, Building, Gone
<1>8. OuterExact
  <2>1. Queued = {<<"loop", 0>>}
    BY <1>2 DEF Queued
  <2>2. AtWork = {} /\ Bit = 0
    BY <1>2 DEF Init, AtWork, Firing, Bit
  <2>3. Children = {}
    BY <1>1, <1>2, Numbering DEF Children
  <2>4. Cardinality(Queued) = 1 /\ Cardinality(AtWork) = 0 /\ Cardinality(Children) = 0
    BY <2>1, <2>2, <2>3, FS_Singleton, FS_EmptySet
  <2>5. outerRef = Cardinality(Queued) + Cardinality(AtWork) + Cardinality(Children) + Bit
    BY <2>2, <2>4 DEF Init
  <2>6. QED
    BY <2>5 DEF OuterExact, Queued, AtWork, Bit
<1>9. QED
  BY <1>1, <1>3, <1>4, <1>5, <1>6, <1>7, <1>8 DEF LInv

(* Every step keeps the invariant.                                          *)
LEMMA LInvNext ==
  ASSUME LInv, [Next]_vars
  PROVE  LInv'
<1>1. ASSUME NEW t \in Threads, Step(t) PROVE LInv'
  BY <1>1, TypeOKStep, AloneStep, RoundsStep, ArgsStep, UniqueStep, FlightStep, FramesStep,
     RefsStep, OnceStep, OuterExactStep, GoneStep, WholeStep
  DEF LInv
<1>2. CASE UNCHANGED vars
  <2>0. /\ kind' = kind /\ iterations' = iterations /\ rounds' = rounds
        /\ counter' = counter /\ fired' = fired /\ cur' = cur
        /\ outer' = outer /\ outerRef' = outerRef /\ frame' = frame /\ ref' = ref
        /\ freed' = freed /\ queue' = queue /\ pc' = pc /\ arg' = arg
        /\ done' = done /\ round' = round
    BY <1>2 DEF vars, program, loopVars, outerVars, threadVars, history
  <2>1. /\ Iter' = Iter /\ Numbers' = Numbers /\ (Placed' <=> Placed) /\ (InRound' <=> InRound)
        /\ (Requested' <=> Requested) /\ (Signalling' <=> Signalling)
        /\ (Continuing' <=> Continuing) /\ (UsedOnce' <=> UsedOnce)
    BY <2>0 DEF Iter, Numbers, Placed, InRound, Requested, Signalling, Continuing, UsedOnce
  <2>2. TypeOK' /\ Alone'
    BY <2>0, <2>1 DEF LInv, TypeOK, program, Alone
  <2>3. Rounds' /\ Args'
    BY <2>0, <2>1 DEF LInv, Rounds, Outstanding, Args
  <2>4. Unique' /\ Gone'
    BY <2>0, <2>1 DEF LInv, Unique, Kept, Carries, Supplies, Gone
  <2>5. Flight'
    BY <2>0, <2>1 DEF LInv, Flight, Due, Number, Index, Carries, Supplies
  <2>6. Frames'
    BY <2>0, <2>1 DEF LInv, Frames, Fresh, Index, Cell, Kept, Carries, Supplies
  <2>7. Refs' /\ Once'
    BY <2>0, <2>1 DEF LInv, Refs, HasBody, Releasing, Cell, Once, Building
  <2>8. OuterExact'
    BY <2>0, <2>1 DEF LInv, OuterExact, Firing, Children
  <2>9. Whole'
    BY <2>0, <2>1 DEF LInv, Whole, Accounted, Number, Carries, Supplies
  <2>10. QED
    BY <2>2, <2>3, <2>4, <2>5, <2>6, <2>7, <2>8, <2>9 DEF LInv
<1>3. QED
  BY <1>1, <1>2 DEF Next

(* The inductive invariant holds in every state of every loop.              *)
THEOREM Invariant == Spec => []LInv
<1>1. Init => LInv
  BY LInvInit
<1>2. LInv /\ [Next]_vars => LInv'
  BY LInvNext
<1>3. QED
  BY <1>1, <1>2, PTL DEF Spec

-----------------------------------------------------------------------------
(* For every number of threads, and every loop: an iteration is in its     *)
(* memory until it has run, and memory that is used once is not deleted by *)
(* a factory.                                                              *)
THEOREM FramesKept == Spec => []Inv
<1>1. ASSUME LInv PROVE Inv
  <2>1. TypeOK /\ Args /\ Frames /\ Refs /\ Once
    BY <1>1 DEF LInv
  <2>2. FrameIntact
    BY <2>1 DEF FrameIntact, Frames, Kept, Carries
  <2>3. OnceKept
    BY <2>1 DEF OnceKept, Once, Refs
  <2>4. QED
    BY <2>1, <2>2, <2>3 DEF Inv
<1>2. LInv => Inv
  BY <1>1
<1>3. QED
  BY <1>2, Invariant, PTL

(* The loop's TP is counted once for each activation, each invoked         *)
(* iteration and each round of placed ones.                                *)
THEOREM OuterCounted == Spec => []OuterExact
<1>1. LInv => OuterExact
  BY DEF LInv
<1>2. QED
  BY <1>1, Invariant, PTL

(* When the loop's TP is deleted all rounds have ended, and nothing is     *)
(* queued, at work or in memory.                                           *)
THEOREM LastToGo == Spec => []DeletedLast
<1>1. ASSUME LInv, outer = "deleted"
      PROVE  /\ round = rounds /\ queue = {}
             /\ \A t \in Threads : pc[t] = "idle"
             /\ \A n \in Numbers : frame[n] = -1
  <2>1. TypeOK /\ Rounds /\ Args /\ Flight /\ Frames /\ Whole /\ outerRef = 0
    BY <1>1 DEF LInv, Gone
  <2>2. \A t \in Threads : pc[t] = "idle"
    BY <1>1, <2>1, Busy
  <2>3. Queued = {} /\ Children = {} /\ Bit = 0
    <3>1. PICK q, w, c, b : /\ q = Cardinality(Queued) /\ w = Cardinality(AtWork)
                            /\ c = Cardinality(Children) /\ b = Bit
      OBVIOUS
    <3>2. /\ 0 = q + w + c + b /\ q \in Nat /\ w \in Nat /\ c \in Nat /\ b \in {0, 1}
          /\ Queued # {} => q > 0
          /\ Children # {} => c > 0
          /\ AtWork # {} => w > 0
      BY <1>1, <2>1, <3>1, Counted
    <3>3. q = 0 /\ c = 0 /\ b = 0
      BY <3>2
    <3>4. QED
      BY <3>1, <3>2, <3>3
  <2>4. ~ InRound \/ kind = "para"
    BY <2>1, <2>3, Types DEF Bit, InRound
  <2>5. \A n \in Numbers : <<"build", n>> \notin queue
    <3>1. SUFFICES ASSUME NEW n \in Numbers, <<"build", n>> \in queue PROVE FALSE
      OBVIOUS
    <3>2. ~ Placed
      BY <2>1, <3>1 DEF Args
    <3>3. n \in Children
      BY <3>1, <3>2 DEF Children
    <3>4. QED
      BY <2>3, <3>3
  <2>6. \A n \in Numbers : <<"body", n>> \notin queue
    <3>1. SUFFICES ASSUME NEW n \in Numbers, <<"body", n>> \in queue PROVE FALSE
      OBVIOUS
    <3>2. InRound /\ frame[Cell(n)] = n
      BY <2>1, <3>1 DEF Flight, Due, Frames
    <3>3. ~ Placed /\ Cell(n) = n
      BY <2>4, <3>2 DEF Placed, Cell
    <3>4. n \in Children
      BY <3>2, <3>3 DEF Children
    <3>5. QED
      BY <2>3, <3>4
  <2>7. \A a \in queue : a[1] \notin {"loop", "cont"}
    BY <2>3 DEF Queued
  <2>8. queue = {}
    <3>1. SUFFICES ASSUME NEW a \in queue PROVE FALSE
      OBVIOUS
    <3>2. PICK l \in {"loop", "cont", "build", "body"}, n \in Numbers : a = <<l, n>>
      BY <2>1, Types
    <3>3. QED
      BY <2>5, <2>6, <2>7, <3>1, <3>2
  <2>9. ~ Requested /\ ~ Signalling /\ ~ Continuing
    BY <2>2, <2>8 DEF Requested, Signalling, Continuing
  <2>10. ~ InRound
    <3>1. SUFFICES ASSUME InRound PROVE FALSE
      OBVIOUS
    <3>2. kind = "para" /\ counter = Outstanding /\ counter > 0
      BY <2>1, <2>4, <2>9, <3>1 DEF Rounds
    <3>3. done # Iter
      <4>1. SUFFICES ASSUME done = Iter PROVE FALSE
        OBVIOUS
      <4>2. PICK m : m = iterations
        OBVIOUS
      <4>3. m \in Nat /\ Cardinality(Iter) = m
        BY <2>1, <4>2, Types, FS_Interval DEF Iter
      <4>4. counter = m - m
        BY <3>2, <4>1, <4>2, <4>3 DEF Outstanding
      <4>5. QED
        BY <3>2, <4>3, <4>4
    <3>4. PICK k \in Iter \ done : TRUE
      BY <2>1, <3>3, Types
    <3>5. Accounted(k)
      BY <2>1, <3>1, <3>2 DEF Whole
    <3>6. QED
      BY <2>2, <2>8, <3>2, <3>5 DEF Accounted, Supplies, Carries
  <2>11. round = rounds
    BY <2>1, <2>9, <2>10 DEF Rounds
  <2>12. \A n \in Numbers : frame[n] = -1
    <3>1. CASE Placed
      BY <2>1, <2>10, <3>1 DEF Frames
    <3>2. CASE ~ Placed
      BY <2>1, <2>3, <3>2 DEF Frames, Placed, Children
    <3>3. QED
      BY <3>1, <3>2
  <2>13. QED
    BY <2>2, <2>8, <2>11, <2>12
<1>2. LInv => DeletedLast
  BY <1>1 DEF DeletedLast
<1>3. QED
  BY <1>2, Invariant, PTL

-----------------------------------------------------------------------------
(* A step of the loop that runs no iteration and ends no round is nothing  *)
(* to the codelet that waits for the loop.                                 *)
LEMMA OtherSteps ==
  ASSUME TypeOK, NEW t \in Threads, Step(t), ~ Body(t), ~ Signal(t)
  PROVE  done' = done /\ round' = round
BY DEF Step, Take, ParaStart, ParaSpawn, ParaEnd, SerialNext, SerialEnd, CodeletStart,
  CodeletEnd, Build, Add, Release, Drop, Destroy, Cont, Leave, history

(* What a step of the loop is to LoopRounds.                               *)
LEMMA RoundsImplemented ==
  ASSUME LInv, NEW t \in Threads, Step(t)
  PROVE  Promise!Next \/ UNCHANGED Promise!vars
<1>0. TypeOK /\ Rounds /\ program' = program /\ kind' = kind
  BY Fixed DEF LInv
<1>1. UNCHANGED Promise!program
  BY <1>0, Fixed DEF Promise!program
<1>2. CASE Body(t)
  <2>1. Carries(t) /\ done' = done \cup {Index(arg[t])} /\ round' = round
    BY <1>2 DEF Body, Carries
  <2>2. PICK k \in Iter \ done : k = Index(arg[t]) /\ (kind = "serial" => k = cur - 1)
    BY <2>1, Carrying
  <2>3. InRound /\ ~ Requested /\ round < rounds
    BY <2>1, Carrying, Waiting
  <2>4. kind = "serial" => done = 0 .. k - 1
    BY <1>0, <2>2, <2>3, Types DEF Rounds, InRound
  <2>5. Promise!Execute(k)
    <3>1. round < rounds /\ k \notin done /\ (kind = "serial" => done = 0 .. k - 1)
      BY <2>2, <2>3, <2>4
    <3>2. done' = done \cup {k} /\ round' = round
      BY <2>1, <2>2
    <3>3. QED
      BY <1>1, <3>1, <3>2 DEF Promise!Execute
  <2>6. QED
    BY <2>2, <2>5 DEF Promise!Next, Iter
<1>3. CASE Signal(t)
  <2>1. pc[t] = "signal" /\ done' = {} /\ round' = round + 1
    BY <1>3 DEF Signal
  <2>2. Signalling /\ ~ InRound
    BY <2>1, Activated DEF Activations
  <2>3. round < rounds /\ done = 0 .. iterations - 1
    BY <1>0, <2>2 DEF Rounds, Iter
  <2>4. QED
    BY <1>1, <2>1, <2>3 DEF Promise!Next, Promise!EndRound
<1>4. CASE ~ Body(t) /\ ~ Signal(t)
  BY <1>0, <1>1, <1>4, OtherSteps DEF Promise!vars
<1>5. QED
  BY <1>2, <1>3, <1>4

(* The safety of ImplementsRounds: in every round of every loop each       *)
(* iteration is executed once, a serial loop executes them in order, and   *)
(* only then the round ends.                                               *)
THEOREM KeepsPromise == Spec => Promise!Safety
<1>1. Init => Promise!Init
  <2>1. SUFFICES ASSUME Init PROVE Promise!Init
    OBVIOUS
  <2>2. TypeOK
    BY <2>1, LInvInit DEF LInv
  <2>3. iterations \in Nat /\ rounds \in Nat
    BY <2>2, Types
  <2>4. QED
    BY <2>1, <2>3 DEF Init, Promise!Init
<1>2. LInv /\ [Next]_vars => [Promise!Next]_(Promise!vars)
  <2>1. SUFFICES ASSUME LInv, [Next]_vars PROVE [Promise!Next]_(Promise!vars)
    OBVIOUS
  <2>2. CASE UNCHANGED vars
    BY <2>2 DEF vars, program, history, Promise!vars, Promise!program
  <2>3. CASE Next
    BY <2>1, <2>3, RoundsImplemented DEF Next
  <2>4. QED
    BY <2>1, <2>2, <2>3
<1>3. QED
  BY <1>1, <1>2, Invariant, PTL DEF Spec, Promise!Safety

=============================================================================
