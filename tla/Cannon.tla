------------------------------- MODULE Cannon -------------------------------
(***************************************************************************)
(* Cannon: the matrices are copied into S x S tiles and skewed; then, S    *)
(* times, each tile computes and passes its tiles of A and B on, until a   *)
(* barrier, the loop codelet, starts the next round.  A tile has two       *)
(* buffers for A and two for B: it reads one and is passed the other.      *)
(*                                                                         *)
(* A tile of A or B is its place in its matrix, and a tile of C the        *)
(* sequence of the products that were added to it.                         *)
(***************************************************************************)
EXTENDS Integers, CodeletTerms, SequencesExt

CannonFrame(S, toSignal) == [tp |-> "cannonTP", S |-> S, toSignal |-> toSignal]

Tiles(S) == 0 .. S * S - 1
Row(S, i) == i \div S
Column(S, i) == i % S

(* The tiles to which those of A and B go when they are skewed, and in     *)
(* each round.                                                             *)
DestRow(S, i) == Row(S, i) * S + ((Column(S, i) - Row(S, i) + S) % S)
DestCol(S, i) == ((Row(S, i) - Column(S, i) + S) % S) * S + Column(S, i)
NextRow(S, i) == Row(S, i) * S + ((Column(S, i) + 1) % S)
NextCol(S, i) == ((Row(S, i) + 1) % S) * S + Column(S, i)

(* tile_mem: the buffers, and which of them is read.                       *)
Buffer(path, matrix, side, i) == Loc(path, matrix, 2 * i + side)
Reads(path, i) == Loc(path, "reads", i)
TileC(path, i) == Loc(path, "tileC", i)
Reading(path, matrix, i, mem) == Buffer(path, matrix, mem[Reads(path, i)], i)
Writing(path, matrix, i, mem) == Buffer(path, matrix, 1 - mem[Reads(path, i)], i)
CurIterations(path) == Loc(path, "curIterations", 0)

OfTile(path, kind, i) == <<path, <<kind, i>>>>
OfAll(S, Call(_)) == [i \in 1 .. S * S |-> Call(i - 1)]

CannonConstructor(path, f) ==
  LET S == f.S IN
  Frame(Numbered("copyA", Tiles(S), 0) @@ Numbered("copyB", Tiles(S), 0) @@
        Numbered("skew", Tiles(S), 2) @@ Numbered("compute", Tiles(S), 1) @@
        Numbered("copyC", Tiles(S), 1) @@
        One("loop", S * S) @@ One("end", S * S),
        Does({}, [l \in {Reads(path, i) : i \in Tiles(S)} |-> 0] @@
                 [l \in {TileC(path, i) : i \in Tiles(S)} |-> <<>>] @@
                 CurIterations(path) :> 0,
             [k \in 1 .. 2 * S * S |->
                Add(OfTile(path, IF k % 2 = 1 THEN "copyA" ELSE "copyB", (k - 1) \div 2))]))

(* cannonCodCopyA::fire and cannonCodCopyB::fire.                          *)
CopyA(path, i, mem) ==
  Does({Loc(Main, "A", i), Reads(path, i)},
       Reading(path, "A", i, mem) :> mem[Loc(Main, "A", i)],
       <<Dec(OfTile(path, "skew", i))>>)

CopyB(path, i, mem) ==
  Does({Loc(Main, "B", i), Reads(path, i)},
       Reading(path, "B", i, mem) :> mem[Loc(Main, "B", i)],
       <<Dec(OfTile(path, "skew", i))>>)

(* A and B of tile i go to other tiles.                                    *)
Pass(path, i, a, b, mem) ==
  Writing(path, "A", a, mem) :> mem[Reading(path, "A", i, mem)] @@
  Writing(path, "B", b, mem) :> mem[Reading(path, "B", i, mem)]

(* cannonSkewCodelet::fire.                                                *)
Skew(path, f, i, mem) ==
  LET a == DestRow(f.S, i)
      b == DestCol(f.S, i)
  IN  Does({Reading(path, "A", i, mem), Reading(path, "B", i, mem),
            Reads(path, i), Reads(path, a), Reads(path, b)},
           Pass(path, i, a, b, mem),
           <<Dec(<<path, <<"loop", 0>>>>)>>)

(* Mutant of Compute: the tiles are passed into the buffers that are read. *)
ComputeOneBuffer(path, f, i, mem) ==
  LET a == NextRow(f.S, i)
      b == NextCol(f.S, i)
      A == Reading(path, "A", i, mem)
      B == Reading(path, "B", i, mem)
  IN  Does({A, B, TileC(path, i), Reads(path, i), Reads(path, a), Reads(path, b)},
           TileC(path, i) :> Append(mem[TileC(path, i)], <<mem[A], mem[B]>>) @@
           Reading(path, "A", a, mem) :> mem[A] @@ Reading(path, "B", b, mem) :> mem[B],
           <<Reset(OfTile(path, "compute", i), 1), Dec(<<path, <<"loop", 0>>>>)>>)

(* cannonCodCompute::fire; it resets itself first, which nobody can see    *)
(* before it signals.                                                      *)
Compute(path, f, i, mem) ==
  LET a == NextRow(f.S, i)
      b == NextCol(f.S, i)
      A == Reading(path, "A", i, mem)
      B == Reading(path, "B", i, mem)
  IN  Does({A, B, TileC(path, i), Reads(path, i), Reads(path, a), Reads(path, b)},
           TileC(path, i) :> Append(mem[TileC(path, i)], <<mem[A], mem[B]>>) @@
           Pass(path, i, a, b, mem),
           <<Reset(OfTile(path, "compute", i), 1), Dec(<<path, <<"loop", 0>>>>)>>)

(* Mutant of CannonLoop: it does not reset itself.                         *)
CannonLoopOnce(path, f, mem) ==
  LET S == f.S
      cur == mem[CurIterations(path)]
  IN  IF cur < S
      THEN Does({CurIterations(path)} \cup {Reads(path, i) : i \in Tiles(S)},
                CurIterations(path) :> cur + 1 @@
                [l \in {Reads(path, i) : i \in Tiles(S)} |-> 1 - mem[l]],
                OfAll(S, LAMBDA i : Dec(OfTile(path, "compute", i))))
      ELSE Does({CurIterations(path)}, <<>>,
                OfAll(S, LAMBDA i : Dec(OfTile(path, "copyC", i))))

(* cannonLoopCodelet::fire.                                                *)
CannonLoop(path, f, mem) ==
  LET S == f.S
      cur == mem[CurIterations(path)]
      again == <<Reset(<<path, <<"loop", 0>>>>, S * S)>>
  IN  IF cur < S
      THEN Does({CurIterations(path)} \cup {Reads(path, i) : i \in Tiles(S)},
                CurIterations(path) :> cur + 1 @@
                [l \in {Reads(path, i) : i \in Tiles(S)} |-> 1 - mem[l]],
                again \o OfAll(S, LAMBDA i : Dec(OfTile(path, "compute", i))))
      ELSE Does({CurIterations(path)}, <<>>,
                again \o OfAll(S, LAMBDA i : Dec(OfTile(path, "copyC", i))))

(* cannonCodCopyC::fire.                                                   *)
CopyC(path, i, mem) ==
  Does({TileC(path, i)}, Loc(Main, "C", i) :> mem[TileC(path, i)],
       <<Dec(<<path, <<"end", 0>>>>)>>)

(* cannonFinalCodelet::fire.                                               *)
CannonFinal(f) == Calls(<<Dec(f.toSignal)>>)

-----------------------------------------------------------------------------
(* cannonTP_test; C is reset before each run.                              *)

CannonMemory(S) ==
  LET Of(m) == {Loc(Main, m, i) : i \in Tiles(S)} IN
  [l \in Of("A") \cup Of("B") |-> <<Row(S, l[3]), Column(S, l[3])>>] @@
  [l \in Of("C") |-> <<>>]

(* "Check is: SUCCESS": each tile of C has every product that is due once. *)
CannonResult(S, mem) ==
  \A i \in Tiles(S) :
    LET c == mem[Loc(Main, "C", i)] IN
    /\ IsInjective(c)
    /\ ToSet(c) = {<<<<Row(S, i), k>>, <<k, Column(S, i)>>>> : k \in 0 .. S - 1}

CannonFire(path, f, name, mem) ==
  CASE name[1] = "copyA" -> CopyA(path, name[2], mem)
    [] name[1] = "copyB" -> CopyB(path, name[2], mem)
    [] name[1] = "skew" -> Skew(path, f, name[2], mem)
    [] name[1] = "compute" -> Compute(path, f, name[2], mem)
    [] name[1] = "loop" -> CannonLoop(path, f, mem)
    [] name[1] = "copyC" -> CopyC(path, name[2], mem)
    [] name[1] = "end" -> CannonFinal(f)
=============================================================================
