--------------------------- MODULE MatrixMultiply ---------------------------
(***************************************************************************)
(* MatrixMultiply: a paraFor over strips of rows of A, each of which is    *)
(* copied into the frame of its iteration, and in it a codeletFor over     *)
(* strips of columns of B; an iteration multiplies a strip by a strip and  *)
(* copies the tile into C.                                                 *)
(*                                                                         *)
(* Of the three linear algebra libraries MKL leaves the product in C and   *)
(* ACML, told to read by columns, its transpose; build says which it is.   *)
(***************************************************************************)
EXTENDS Integers, CodeletTerms, FiniteSetsExt

(* matrix: where its elements are, M rows of N.                            *)
Matrix(at, M, N) == [at |-> at, M |-> M, N |-> N]
Element(m, i, j) == At(m.at, i * m.N + j)
Elements(m) == Span(m.at, 0, m.M * m.N)
Rows(m) == 0 .. m.M - 1
Columns(m) == 0 .. m.N - 1

(* MIN.                                                                    *)
Lesser(x, y) == IF x < y THEN x ELSE y

(* copyMatrix: what it writes into dest, of a source with the values v; an *)
(* offset counts only on the side on which the matrices differ.            *)
CopyMatrix(dest, source, v, x, y) ==
  LET dX == IF dest.M > source.M THEN x ELSE 0
      sX == IF dest.M < source.M THEN x ELSE 0
      dY == IF dest.N > source.N THEN y ELSE 0
      sY == IF dest.N < source.N THEN y ELSE 0
      Copied == (0 .. Lesser(dest.M, source.M) - 1) \X (0 .. Lesser(dest.N, source.N) - 1)
      From(l) == CHOOSE p \in Copied : Element(dest, p[1] + dX, p[2] + dY) = l
  IN  [l \in {Element(dest, p[1] + dX, p[2] + dY) : p \in Copied} |->
         v[<<From(l)[1] + sX, From(l)[2] + sY>>]]

-----------------------------------------------------------------------------
(* mmArgs: the sizes of the tiles; the last ones take the rest.            *)
mmArgs(a, b, c, msi, msj, msk, iCut, jCut, build) ==
  [a |-> a, b |-> b, c |-> c, msk |-> msk, iCut |-> iCut, jCut |-> jCut, build |-> build,
   iTile |-> msi \div iCut, jTile |-> msj \div jCut, iMod |-> msi % iCut, jMod |-> msj % jCut]

ISize(args, i) == args.iTile + (IF i + 1 = args.iCut THEN args.iMod ELSE 0)
JSize(args, j) == args.jTile + (IF j + 1 = args.jCut THEN args.jMod ELSE 0)

mmTileFrame(args, toSignal) == [tp |-> "mmTile", args |-> args, toSignal |-> toSignal]
iloopFrame(it, args, toSignal) ==
  [tp |-> "iloop", it |-> it, args |-> args, toSignal |-> toSignal]
jloopFrame(it, i, args, tempA, toSignal) ==
  [tp |-> "jloop", it |-> it, i |-> i, args |-> args, tempA |-> tempA, toSignal |-> toSignal]

mmTileConstructor(path, f) ==
  Frame(LoopDeps("il", f.args.iCut), Calls(<<Add(<<path, <<"il", 0>>>>)>>))

mmTileLoop(path, f, i) ==
  IF i = 0 THEN LoopStart("il", f.args.iCut,
                          LAMBDA it : iloopFrame(it, f.args, LoopEnd(path, "il")))
  ELSE Calls(<<Dec(f.toSignal)>>)

(* tempA: the strip of A of iteration it.                                  *)
TempA(path, f) == Matrix(Loc(path, "tempA", 0), ISize(f.args, f.it), f.args.msk)

(* Mutant of iloopConstructor: the strips begin one row apart.             *)
iloopConstructorShifted(path, f, mem) ==
  LET t == TempA(path, f)
      Source(l) == At(f.args.a.at, f.it * f.args.a.N + l[3])
  IN  Frame(LoopDeps("jl", f.args.jCut),
            Does({Source(l) : l \in Elements(t)}, [l \in Elements(t) |-> mem[Source(l)]],
                 <<Add(<<path, <<"jl", 0>>>>)>>))

(* The constructor of iloop copies the strip, as matrix's does.            *)
iloopConstructor(path, f, mem) ==
  LET t == TempA(path, f)
      Source(l) == At(f.args.a.at, f.it * f.args.iTile * f.args.a.N + l[3])
  IN  Frame(LoopDeps("jl", f.args.jCut),
            Does({Source(l) : l \in Elements(t)}, [l \in Elements(t) |-> mem[Source(l)]],
                 <<Add(<<path, <<"jl", 0>>>>)>>))

iloopLoop(path, f, i) ==
  IF i = 0 THEN LoopStart("jl", f.args.jCut,
                  LAMBDA it : jloopFrame(it, f.it, f.args, TempA(path, f), LoopEnd(path, "jl")))
  ELSE Calls(<<Dec(f.toSignal)>>)

jloopConstructor(path, f) ==
  Placed(Frame(One("mul", 0), Calls(<<Add(<<path, <<"mul", 0>>>>)>>)), One("mul", f.it))

(* DGEMM of a strip of rows and the columns of b from y on.                *)
Product(a, b, y, n, mem) ==
  [p \in Rows(a) \X (0 .. n - 1) |->
     MapThenSumSet(LAMBDA k : mem[Element(a, p[1], k)] * mem[Element(b, k, y + p[2])],
                   Columns(a))]

(* tileMult::fire.                                                         *)
tileMult(f, mem) ==
  LET args == f.args
      m == ISize(args, f.i)
      n == JSize(args, f.it)
      x == f.i * args.iTile
      y == f.it * args.jTile
      C == Product(f.tempA, args.b, y, n, mem)
      T == [p \in (0 .. n - 1) \X (0 .. m - 1) |-> C[<<p[2], p[1]>>]]
      local == Loc(Main, "local", 0)
  IN  Does(Elements(f.tempA) \cup {Element(args.b, k, y + j) : k \in Rows(args.b), j \in 0 .. n - 1},
           IF args.build = "mkl"
           THEN CopyMatrix(args.c, Matrix(local, m, n), C, x, y)
           ELSE CopyMatrix(args.c, Matrix(local, n, m), T, y, x),
           <<Dec(f.toSignal)>>)

-----------------------------------------------------------------------------
(* mmTime and mmPower: square matrices of numbers drawn once; C is reset   *)
(* before each run.                                                        *)

MatrixOf(name, size) == Matrix(Loc(Main, name, 0), size, size)

mmMemory(A, B, size) ==
  [l \in Elements(MatrixOf("A", size)) |-> A[l[3] + 1]] @@
  [l \in Elements(MatrixOf("B", size)) |-> B[l[3] + 1]] @@
  [l \in Elements(MatrixOf("C", size)) |-> 0]

mmLaunched(size, iCut, jCut, build) ==
  mmTileFrame(mmArgs(MatrixOf("A", size), MatrixOf("B", size), MatrixOf("C", size),
                     size, size, size, iCut, jCut, build), FinalSignal)

(* multiply, and compare with what it leaves in c.                         *)
mmResult(size, build, mem) ==
  LET c == MatrixOf("C", size)
      Sum(i, j) == MapThenSumSet(LAMBDA k : mem[Element(MatrixOf("A", size), i, k)] *
                                            mem[Element(MatrixOf("B", size), k, j)],
                                 0 .. size - 1)
  IN  \A i \in Rows(c), j \in Columns(c) :
        Sum(i, j) = mem[IF build = "mkl" THEN Element(c, i, j) ELSE Element(c, j, i)]

MatrixMultiplyTPs == {"mmTile", "iloop", "jloop"}

MatrixMultiplyConstruct(path, f, mem) ==
  CASE f.tp = "mmTile" -> mmTileConstructor(path, f)
    [] f.tp = "iloop" -> iloopConstructor(path, f, mem)
    [] f.tp = "jloop" -> jloopConstructor(path, f)

MatrixMultiplyFire(path, f, name, mem) ==
  CASE f.tp = "mmTile" -> mmTileLoop(path, f, name[2])
    [] f.tp = "iloop" -> iloopLoop(path, f, name[2])
    [] f.tp = "jloop" -> tileMult(f, mem)
=============================================================================
