---------------------------- MODULE CannonDfswp ----------------------------
(***************************************************************************)
(* Cannon's matrix multiplication as the codelets of cannonTP run it: the  *)
(* matrices are cut into S x S tiles, and the tiles of A and B travel from *)
(* queue to queue, one queue of each kind per tile of C.  The codelet that *)
(* computes a tile of C occupies its worker for all of its S products: it  *)
(* spins until the heads of both its queues are there, multiplies them,    *)
(* enqueues them at its neighbours and pops them.                          *)
(*                                                                         *)
(* A tile of A or B is its place in the matrix, <<row, column>>; the       *)
(* numbers in it are abstracted away.  tileIndex i is <<i / S, i % S>>,    *)
(* which the code calls theJ and theI.  The schedulers are those of the    *)
(* policies the program asks for, TPHINT and MCHINT on one cluster:        *)
(* Scheduling shows that a codelet goes to the worker its hint names.      *)
(***************************************************************************)
EXTENDS Integers, Sequences, FiniteSets

CONSTANTS
  Sizes,   \* values of sqrtNumTiles to run with
  Workers, \* micro schedulers of the cluster
  None

ASSUME SizeAssumption == Sizes \subseteq Nat \ {0} /\ Workers \in Nat \ {0}

TileKinds == {"copyA", "copyB", "skew", "compute", "copyC"}

(* None is neither a tile nor a codelet.                                   *)
ASSUME NoneAssumption ==
  /\ None \notin Nat \X Nat
  /\ None \notin (TileKinds \cup {"barrier", "end"}) \X ((Nat \X Nat) \cup {None})

Worker == 0 .. Workers - 1

VARIABLE S \* sqrtNumTiles

Side == 0 .. S - 1
Tile == Side \X Side

(* The codelets of the TP: five per tile, and two for all of them.         *)
Barrier == <<"barrier", None>>
End == <<"end", None>>
Codelets == (TileKinds \X Tile) \cup {Barrier, End}

VARIABLES
  dep,                \* dependence counter of each codelet
  at,                 \* where a codelet is: "wait", "ready", in its body, "done"
  run,                \* what each worker is firing
  scratchA, scratchB, \* what tileA_scratch, tileB_scratch hold
  aq, bq,             \* AQueue, BQueue of each tile
  iter,               \* curIterations of each compute codelet
  prods,              \* the products accumulated in tileC
  C,                  \* what was copied to each tile of C
  signalled           \* continuationCod was signalled

data == <<scratchA, scratchB, aq, bq, iter, prods, C>>
vars == <<S, dep, at, run, data, signalled>>

InBody == {"copy", "pushA", "pushB", "signal", "test", "popA", "popB"}

TypeOK ==
  /\ S \in Sizes
  /\ dep \in [Codelets -> 0 .. S * S + 2]
  /\ at \in [Codelets -> InBody \cup {"wait", "ready", "done"}]
  /\ run \in [Worker -> Codelets \cup {None}]
  /\ scratchA \in [Tile -> Tile \cup {None}]
  /\ scratchB \in [Tile -> Tile \cup {None}]
  /\ aq \in [Tile -> Seq(Tile)] /\ bq \in [Tile -> Seq(Tile)]
  /\ iter \in [Tile -> 0 .. S]
  /\ prods \in [Tile -> Seq(Tile \X Tile)]
  /\ C \in [Tile -> Seq(Tile \X Tile)]
  /\ signalled \in BOOLEAN

(* Mutant of Deps: the barrier counts one signal too many.                 *)
DepsOneMore(c) ==
  CASE c[1] \in {"copyA", "copyB"} -> 0
    [] c[1] = "skew" -> 2
    [] c[1] \in {"compute", "copyC"} -> 1
    [] c = Barrier -> S * S + 1
    [] c = End -> S * S

(* The constructor: its loop over the tiles, then the adds of the copies.  *)
Deps(c) ==
  CASE c[1] \in {"copyA", "copyB"} -> 0
    [] c[1] = "skew" -> 2
    [] c[1] \in {"compute", "copyC"} -> 1
    [] c \in {Barrier, End} -> S * S

Init ==
  /\ S \in Sizes
  /\ dep = [c \in Codelets |-> Deps(c)]
  /\ at = [c \in Codelets |-> IF Deps(c) = 0 THEN "ready" ELSE "wait"]
  /\ run = [w \in Worker |-> None]
  /\ scratchA = [t \in Tile |-> None] /\ scratchB = [t \in Tile |-> None]
  /\ aq = [t \in Tile |-> <<>>] /\ bq = [t \in Tile |-> <<>>]
  /\ iter = [t \in Tile |-> 0]
  /\ prods = [t \in Tile |-> <<>>] /\ C = [t \in Tile |-> <<>>]
  /\ signalled = FALSE

(* Mutant of DestRow: the tiles of A are not skewed.                       *)
DestRowSame(t) == t

(* Where the skew codelet sends its tile of A along its row, and of B      *)
(* along its column.                                                       *)
DestRow(t) == <<t[1], (t[2] - t[1] + S) % S>>

DestCol(t) == <<(t[1] - t[2] + S) % S, t[2]>>

(* Mutant of NextRow: the tiles of A are shifted to the left.              *)
NextRowLeft(t) == <<t[1], (t[2] - 1 + S) % S>>

(* Where a compute codelet passes them on to.                              *)
NextRow(t) == <<t[1], (t[2] + 1) % S>>

NextCol(t) == <<(t[1] + 1) % S, t[2]>>

-----------------------------------------------------------------------------
(* The worker a ready codelet may be fired by: the one its hint names when *)
(* there is one of that index, else any (round robin).                     *)
MayFire(w, c) ==
  LET hint == c[2][1] * S + c[2][2] IN
  c[1] \in TileKinds /\ hint < Workers => w = hint

Entry(c) ==
  CASE c[1] \in {"copyA", "copyB", "copyC"} -> "copy"
    [] c[1] = "skew" -> "pushA"
    [] c[1] = "compute" -> "test"
    [] c \in {Barrier, End} -> "signal"

(* A worker starts to fire c; a compute codelet resets its counter.        *)
Take(w, c) ==
  /\ run[w] = None /\ at[c] = "ready" /\ MayFire(w, c)
  /\ run' = [run EXCEPT ![w] = c]
  /\ at' = [at EXCEPT ![c] = Entry(c)]
  /\ dep' = IF c[1] = "compute" THEN [dep EXCEPT ![c] = 1] ELSE dep
  /\ UNCHANGED <<S, data, signalled>>

(* w is at label l of the codelet of kind k and tile t.                    *)
In(w, k, t, l) == run[w] = <<k, t>> /\ at[<<k, t>>] = l

Goto(c, l) == at' = [at EXCEPT ![c] = l] /\ UNCHANGED <<S, dep, run, signalled>>

(* c returns from fire after it has signalled the codelets of ds.          *)
SignalAndReturn(w, c, ds) ==
  /\ dep' = [d \in Codelets |-> IF d \in ds THEN dep[d] - 1 ELSE dep[d]]
  /\ at' = [d \in Codelets |->
       IF d = c THEN "done" ELSE IF d \in ds /\ dep[d] = 1 THEN "ready" ELSE at[d]]
  /\ run' = [run EXCEPT ![w] = None]
  /\ UNCHANGED <<S, signalled>>

CopyA(w, t) ==
  /\ In(w, "copyA", t, "copy")
  /\ scratchA' = [scratchA EXCEPT ![t] = t]
  /\ SignalAndReturn(w, <<"copyA", t>>, {<<"skew", t>>})
  /\ UNCHANGED <<scratchB, aq, bq, iter, prods, C>>

CopyB(w, t) ==
  /\ In(w, "copyB", t, "copy")
  /\ scratchB' = [scratchB EXCEPT ![t] = t]
  /\ SignalAndReturn(w, <<"copyB", t>>, {<<"skew", t>>})
  /\ UNCHANGED <<scratchA, aq, bq, iter, prods, C>>

-----------------------------------------------------------------------------
(* cannonSkewCodelet::fire.                                                *)

SkewA(w, t) ==
  /\ In(w, "skew", t, "pushA")
  /\ aq' = [aq EXCEPT ![DestRow(t)] = Append(@, scratchA[t])]
  /\ Goto(<<"skew", t>>, "pushB")
  /\ UNCHANGED <<scratchA, scratchB, bq, iter, prods, C>>

SkewB(w, t) ==
  /\ In(w, "skew", t, "pushB")
  /\ bq' = [bq EXCEPT ![DestCol(t)] = Append(@, scratchB[t])]
  /\ Goto(<<"skew", t>>, "signal")
  /\ UNCHANGED <<scratchA, scratchB, aq, iter, prods, C>>

(* Mutant of SkewSignal: no barrier, a tile's compute codelet is signalled *)
(* by its skew codelet.                                                    *)
SkewSignalCompute(w, t) ==
  /\ In(w, "skew", t, "signal")
  /\ SignalAndReturn(w, <<"skew", t>>, {<<"compute", t>>})
  /\ UNCHANGED data

SkewSignal(w, t) ==
  /\ In(w, "skew", t, "signal")
  /\ SignalAndReturn(w, <<"skew", t>>, {Barrier})
  /\ UNCHANGED data

(* cannonSkewBarrier::fire.  Its decDeps are one step: a signalled codelet *)
(* that nobody has taken yet behaves like one not yet signalled.           *)
BarrierFire(w) ==
  /\ run[w] = Barrier
  /\ SignalAndReturn(w, Barrier, {"compute"} \X Tile)
  /\ UNCHANGED data

-----------------------------------------------------------------------------
(* cannonCodCompute::fire.                                                 *)

(* The loop that waits for both heads, and DGEMM.                          *)
Multiply(w, t) ==
  /\ In(w, "compute", t, "test") /\ iter[t] < S
  /\ aq[t] # <<>> /\ bq[t] # <<>>
  /\ prods' = [prods EXCEPT ![t] = Append(@, <<Head(aq[t]), Head(bq[t])>>)]
  /\ Goto(<<"compute", t>>, "pushA")
  /\ UNCHANGED <<scratchA, scratchB, aq, bq, iter, C>>

PushA(w, t) ==
  /\ In(w, "compute", t, "pushA")
  /\ aq' = [aq EXCEPT ![NextRow(t)] = Append(@, Head(aq[t]))]
  /\ Goto(<<"compute", t>>, "pushB")
  /\ UNCHANGED <<scratchA, scratchB, bq, iter, prods, C>>

PushB(w, t) ==
  /\ In(w, "compute", t, "pushB")
  /\ bq' = [bq EXCEPT ![NextCol(t)] = Append(@, Head(bq[t]))]
  /\ Goto(<<"compute", t>>, "popA")
  /\ UNCHANGED <<scratchA, scratchB, aq, iter, prods, C>>

PopA(w, t) ==
  /\ In(w, "compute", t, "popA")
  /\ aq' = [aq EXCEPT ![t] = Tail(@)]
  /\ Goto(<<"compute", t>>, "popB")
  /\ UNCHANGED <<scratchA, scratchB, bq, iter, prods, C>>

PopB(w, t) ==
  /\ In(w, "compute", t, "popB")
  /\ bq' = [bq EXCEPT ![t] = Tail(@)]
  /\ iter' = [iter EXCEPT ![t] = @ + 1]
  /\ Goto(<<"compute", t>>, "test")
  /\ UNCHANGED <<scratchA, scratchB, aq, prods, C>>

(* All iterations are done.                                                *)
Finish(w, t) ==
  /\ In(w, "compute", t, "test") /\ iter[t] = S
  /\ SignalAndReturn(w, <<"compute", t>>, {<<"copyC", t>>})
  /\ UNCHANGED data

-----------------------------------------------------------------------------
CopyC(w, t) ==
  /\ In(w, "copyC", t, "copy")
  /\ C' = [C EXCEPT ![t] = prods[t]]
  /\ SignalAndReturn(w, <<"copyC", t>>, {End})
  /\ UNCHANGED <<scratchA, scratchB, aq, bq, iter, prods>>

(* cannonFinalCodelet::fire.                                               *)
EndFire(w) ==
  /\ run[w] = End
  /\ at' = [at EXCEPT ![End] = "done"]
  /\ run' = [run EXCEPT ![w] = None]
  /\ signalled' = TRUE
  /\ UNCHANGED <<S, dep, data>>

Fire(w, t) ==
  \/ CopyA(w, t) \/ CopyB(w, t)
  \/ SkewA(w, t) \/ SkewB(w, t) \/ SkewSignal(w, t)
  \/ Multiply(w, t) \/ PushA(w, t) \/ PushB(w, t)
  \/ PopA(w, t) \/ PopB(w, t) \/ Finish(w, t)
  \/ CopyC(w, t)

Step(w) ==
  \/ \E c \in Codelets : Take(w, c)
  \/ \E t \in Tile : Fire(w, t)
  \/ BarrierFire(w) \/ EndFire(w)

Next == \E w \in Worker : Step(w)

(* Every worker goes on as long as it has something to do.                 *)
Spec == Init /\ [][Next]_vars /\ \A w \in Worker : WF_vars(Step(w))

-----------------------------------------------------------------------------
(* The pairs of tiles whose products make up tile t of the product.        *)
Terms(t) == {<<<<t[1], k>>, <<k, t[2]>>>> : k \in Side}

(* When the program goes on, C is the product: each tile is the sum of its *)
(* S terms, each of them once.                                             *)
Correct == signalled =>
  \A t \in Tile : /\ Len(C[t]) = S
                  /\ {C[t][i] : i \in 1 .. S} = Terms(t)

(* A queue has one producer at a time, as the reader-writer queue (one     *)
(* producer, one consumer, no lock) requires: no two threads are enqueuing *)
(* to the same queue, neither two skew codelets, nor a skew codelet and    *)
(* the neighbour that passes tiles on.                                     *)
OneProducer ==
  LET TargetA(c) == IF c[1] = "skew" THEN DestRow(c[2]) ELSE NextRow(c[2])
      TargetB(c) == IF c[1] = "skew" THEN DestCol(c[2]) ELSE NextCol(c[2])
      At(l) == {c \in {"skew", "compute"} \X Tile : at[c] = l} IN
  /\ \A c, d \in At("pushA") : c # d => TargetA(c) # TargetA(d)
  /\ \A c, d \in At("pushB") : c # d => TargetB(c) # TargetB(d)

(* A skew codelet has its tiles: it does not enqueue scratch memory that   *)
(* the copy codelets have not filled.                                      *)
Filled == \A t \in Tile :
  at[<<"skew", t>>] \notin {"wait", "done"} => scratchA[t] = t /\ scratchB[t] = t

(* How many elements of its queues a compute codelet has popped.           *)
PoppedA(t) == iter[t] + IF at[<<"compute", t>>] = "popB" THEN 1 ELSE 0
PoppedB(t) == iter[t]

(* The n-th tile (from 0) that reaches the queues of t.                    *)
NthA(t, n) == <<t[1], (t[1] + t[2] - n) % S>>
NthB(t, n) == <<(t[1] + t[2] - n) % S, t[2]>>

(* Whatever the order in which the workers take turns, a queue receives    *)
(* the tiles that Cannon's algorithm schedules for its tile, in order; the *)
(* queues make a barrier between the iterations superfluous.               *)
LaneA == \A t \in Tile : \A i \in 1 .. Len(aq[t]) : aq[t][i] = NthA(t, PoppedA(t) + i - 1)
LaneB == \A t \in Tile : \A i \in 1 .. Len(bq[t]) : bq[t][i] = NthB(t, PoppedB(t) + i - 1)
Aligned == LaneA /\ LaneB

(* What the two rest on.  A codelet is where its kind can be.              *)
Holding == {"pushA", "pushB", "popA", "popB"}

PlacesOf ==
  [copyA   |-> {"ready", "copy", "done"},
   copyB   |-> {"ready", "copy", "done"},
   skew    |-> {"wait", "ready", "pushA", "pushB", "signal", "done"},
   barrier |-> {"wait", "ready", "signal", "done"},
   compute |-> {"wait", "ready", "test", "done"} \cup Holding,
   copyC   |-> {"wait", "ready", "copy", "done"},
   end     |-> {"wait", "ready", "signal", "done"}]

Places == \A c \in Codelets : at[c] \in PlacesOf[c[1]]

(* A codelet is fired by one worker, and not longer than it is.            *)
Alone == \A w \in Worker : run[w] # None =>
  at[run[w]] \in InBody /\ \A v \in Worker : run[v] = run[w] => v = w

(* A counter is the number of signals still to come ...                    *)
Undone(k) == {t \in Tile : at[<<k, t>>] # "done"}
Due(c) == IF at[c] = "done" THEN 0 ELSE 1

Counts ==
  /\ \A t \in Tile :
       /\ dep[<<"skew", t>>] = Due(<<"copyA", t>>) + Due(<<"copyB", t>>)
       /\ dep[<<"copyC", t>>] = Due(<<"compute", t>>)
  /\ dep[Barrier] = Cardinality(Undone("skew"))
  /\ dep[End] = Cardinality(Undone("copyC"))

(* ... and a codelet waits as long as there are any; a compute codelet,    *)
(* whose counter is reset, waits for the barrier.                          *)
Waiting ==
  /\ \A c \in Codelets : c[1] # "compute" => (at[c] = "wait" <=> dep[c] > 0)
  /\ \A t \in Tile :
       /\ at[<<"compute", t>>] = "wait" <=> at[Barrier] # "done"
       /\ at[<<"compute", t>>] = "wait" => dep[<<"compute", t>>] = 1

(* What has been copied, and how far a compute codelet is.                 *)
Progress ==
  /\ \A t \in Tile :
       /\ at[<<"copyA", t>>] = "done" => scratchA[t] = t
       /\ at[<<"copyB", t>>] = "done" => scratchB[t] = t
       /\ at[<<"compute", t>>] \in {"wait", "ready"} => iter[t] = 0
       /\ at[<<"compute", t>>] \in Holding => iter[t] < S
       /\ at[<<"compute", t>>] = "done" => iter[t] = S
       /\ at[<<"copyC", t>>] = "done" => C[t] = prods[t]
  /\ signalled => at[End] = "done"

(* How many tiles a compute codelet has passed on, and how many have       *)
(* reached the queues of t: one that was skewed, and those of the          *)
(* neighbour.                                                              *)
SentA(t) == iter[t] + IF at[<<"compute", t>>] \in {"pushB", "popA", "popB"} THEN 1 ELSE 0
SentB(t) == iter[t] + IF at[<<"compute", t>>] \in {"popA", "popB"} THEN 1 ELSE 0

PrevRow(t) == <<t[1], (t[2] - 1 + S) % S>>
PrevCol(t) == <<(t[1] - 1 + S) % S, t[2]>>

SkewedA(s) == IF at[<<"skew", s>>] \in {"pushB", "signal", "done"} THEN 1 ELSE 0
SkewedB(s) == IF at[<<"skew", s>>] \in {"signal", "done"} THEN 1 ELSE 0

(* No tile is lost; those that a compute codelet will pass on and pop are  *)
(* still there.                                                            *)
QueuesA == \A t \in Tile :
  /\ PoppedA(t) + Len(aq[t]) = SkewedA(NthA(t, 0)) + SentA(PrevRow(t))
  /\ at[<<"compute", t>>] \in Holding \ {"popB"} => aq[t] # <<>>

QueuesB == \A t \in Tile :
  /\ PoppedB(t) + Len(bq[t]) = SkewedB(NthB(t, 0)) + SentB(PrevCol(t))
  /\ at[<<"compute", t>>] \in Holding => bq[t] # <<>>

(* The n-th product of a tile is that of the n-th tiles.                   *)
Products == \A t \in Tile :
  /\ Len(prods[t]) = iter[t] + IF at[<<"compute", t>>] \in Holding THEN 1 ELSE 0
  /\ \A i \in 1 .. Len(prods[t]) : prods[t][i] = <<NthA(t, i - 1), NthB(t, i - 1)>>

(* Full scratch tiles and aligned queues, and all that makes them          *)
(* inductive.                                                              *)
Inv ==
  /\ TypeOK /\ Filled /\ Aligned
  /\ Places /\ Alone /\ Counts /\ Waiting /\ Progress /\ QueuesA /\ QueuesB /\ Products

(* The program goes on after the multiplication.                           *)
Completes == <>signalled
=============================================================================
