----------------------------- MODULE Mergesort -----------------------------
(***************************************************************************)
(* Mergesort: large arrays are halved by mergeSort TPs, smaller ones       *)
(* sorted by a mergeBase, which sorts eighths and merges them by twos, and *)
(* small ones by a quickSort.  in and out hold the same at the start, and  *)
(* trade places from level to level.  The field rand of a frame is what    *)
(* rand() returns.                                                         *)
(***************************************************************************)
EXTENDS Integers, CodeletTerms, SequencesExt

SortFrame(in, out, size, base, rand, toSignal) ==
  [tp |-> "mergeSort", in |-> in, out |-> out, size |-> size, base |-> base,
   rand |-> rand, toSignal |-> toSignal]

MergeBaseFrame(in, out, size, rand, toSignal) ==
  [tp |-> "mergeBase", in |-> in, out |-> out, size |-> size, rand |-> rand,
   toSignal |-> toSignal]

QuickFrame(out, size, rand, toSignal) ==
  [tp |-> "quickSort", out |-> out, size |-> size, rand |-> rand, toSignal |-> toSignal]

-----------------------------------------------------------------------------
(* Functions on arrays.                                                    *)

Swapped(array, i, j) == [array EXCEPT ![i] = array[j], ![j] = array[i]]

(* One step of the loop of partition.                                      *)
PartitionStep(s, i, pivotValue) ==
  IF s.array[i] <= pivotValue
  THEN [array |-> Swapped(s.array, i, s.storeIndex), storeIndex |-> s.storeIndex + 1]
  ELSE s

Partition(array, left, right, pivotIndex) ==
  LET start == [array |-> Swapped(array, pivotIndex, right), storeIndex |-> left]
      Step(t, i) == With(t, LAMBDA s : PartitionStep(s, i, array[pivotIndex]))
  IN  With(FoldLeft(Step, start, [i \in 1 .. right - left |-> left + i - 1]),
           LAMBDA s : [s EXCEPT !.array = Swapped(s.array, s.storeIndex, right)])

RECURSIVE Quicksort(_, _, _, _)
Quicksort(array, left, right, rand) ==
  IF left >= right THEN array
  ELSE With(Partition(array, left, right, (rand % (right - left)) + left),
            LAMBDA p : With(Quicksort(p.array, left, p.storeIndex - 1, rand),
                            LAMBDA l : Quicksort(l, p.storeIndex + 1, right, rand)))

(* What the loop that merges the halves of in has still to write when j    *)
(* and k are the next of each.                                             *)
RECURSIVE MergedFrom(_, _, _, _)
MergedFrom(in, length, j, k) ==
  CASE j < length \div 2 /\ (k >= length \/ in[j] < in[k]) ->
         <<in[j]>> \o MergedFrom(in, length, j + 1, k)
    [] k < length /\ (j >= length \div 2 \/ in[j] >= in[k]) ->
         <<in[k]>> \o MergedFrom(in, length, j, k + 1)
    [] OTHER -> <<>>

Merged(in, length) == MergedFrom(in, length, 0, length \div 2)

-----------------------------------------------------------------------------
(* The codelets that sort left .. right of p, and that merge the halves of *)
(* in into out.                                                            *)

Array(p, left, right, mem) == [i \in left .. right |-> mem[At(p, i)]]

DoQuick(p, left, right, rand, toSignal, mem) ==
  With(Quicksort(Array(p, left, right, mem), left, right, rand),
       LAMBDA sorted : Does(Span(p, left, right + 1),
                            [l \in Span(p, left, right + 1) |-> sorted[l[3] - p[3]]],
                            <<Dec(toSignal)>>))

DoMerge(in, out, length, toSignal, mem) ==
  With(Merged(Array(in, 0, length - 1, mem), length),
       LAMBDA merged : Does(Span(in, 0, length),
                            [l \in Span(out, 0, length) |-> merged[l[3] - out[3] + 1]],
                            <<Dec(toSignal)>>))

(* mergeSort.                                                              *)
SortMerge(path) == <<path, <<"merge", 0>>>>

SortConstructor(path) ==
  Frame(One("check", 0) @@ One("merge", 2), Calls(<<Add(<<path, <<"check", 0>>>>)>>))

(* mergeSort::Check::fire.                                                 *)
SortCheck(path, f) ==
  LET half == f.size \div 2
      rest == f.size - half
      Both(Child(_, _, _)) ==
        Calls(<<Invoke(<<"half", 1>>, Child(f.out, f.in, half)),
                Invoke(<<"half", 2>>, Child(At(f.out, half), At(f.in, half), rest))>>)
  IN  CASE f.size = 1 -> Calls(<<Dec(f.toSignal)>>)
        [] f.size # 1 /\ half < f.base ->
             Calls(<<Invoke(<<"half", 0>>, QuickFrame(f.in, f.size, f.rand, SortMerge(path)))>>)
        [] f.size # 1 /\ half >= f.base /\ half \div f.base < 9 ->
             Both(LAMBDA in, out, n : MergeBaseFrame(in, out, n, f.rand, SortMerge(path)))
        [] OTHER ->
             Both(LAMBDA in, out, n : SortFrame(in, out, n, f.base, f.rand, SortMerge(path)))

SortMergeFire(f, mem) == DoMerge(f.in, f.out, f.size, f.toSignal, mem)

(* mergeBase: eight eighths, the last one with the rest.                   *)
BaseDiv(f) == f.size \div 8
BaseLast(f) == f.size % 8
BaseQuicks == {"quick"} \X (0 .. 7)
BaseMerges == {"merge"} \X {1, 23, 45, 67, 3, 47, 7}

BaseConstructor(path) ==
  Placed(Frame([c \in BaseQuicks |-> 0] @@ [c \in BaseMerges |-> 2],
               Calls([i \in 1 .. 8 |-> Add(<<path, <<"quick", i - 1>>>>)])),
         [c \in BaseQuicks |-> c[2]] @@ [c \in {"merge"} \X {23, 45, 67, 47} |-> c[2] \div 10 ])

BaseQuick(path, f, q, mem) ==
  DoQuick(f.in, q * BaseDiv(f),
          (q + 1) * BaseDiv(f) - 1 + (IF q = 7 THEN BaseLast(f) ELSE 0), f.rand,
          <<path, <<"merge", <<1, 23, 45, 67>>[q \div 2 + 1]>>>>, mem)

(* mergeBase::merge::fire with the members of merge01 .. merge07.          *)
BaseMerge(path, f, m, mem) ==
  LET d == BaseDiv(f)
      Merging(in, out, at, size, next) ==
        DoMerge(At(in, at), At(out, at), size, next, mem)
      To(next) == <<path, <<"merge", next>>>>
  IN  CASE m = 1 -> Merging(f.in, f.out, 0, 2 * d, To(3))
        [] m = 23 -> Merging(f.in, f.out, 2 * d, 2 * d, To(3))
        [] m = 45 -> Merging(f.in, f.out, 4 * d, 2 * d, To(47))
        [] m = 67 -> Merging(f.in, f.out, 6 * d, 2 * d + BaseLast(f), To(47))
        [] m = 3 -> Merging(f.out, f.in, 0, 4 * d, To(7))
        [] m = 47 -> Merging(f.out, f.in, 4 * d, 4 * d + BaseLast(f), To(7))
        [] m = 7 -> Merging(f.in, f.out, 0, f.size, f.toSignal)

(* quickSort: both halves signal the merge of the frame that invoked it.   *)
QuickConstructor(path) ==
  Placed(Frame(Numbered("quick", 0 .. 1, 0),
               Calls([i \in 1 .. 2 |-> Add(<<path, <<"quick", i - 1>>>>)])),
         One("quick", 0) @@ <<"quick", 1>> :> 1)

QuickFire(f, q, mem) ==
  LET half == f.size \div 2 IN
  IF q = 0 THEN DoQuick(f.out, 0, half - 1, f.rand, f.toSignal, mem)
  ELSE DoQuick(f.out, half, f.size - 1, f.rand, f.toSignal, mem)

-----------------------------------------------------------------------------
(* mergesortTime and mergesortPower.                                       *)

SortIn == Loc(Main, "in", 0)
SortOut == Loc(Main, "out", 0)

(* initUnrolledMerge, with the random numbers drawn.                       *)
SortMemory(values) ==
  [l \in Span(SortIn, 0, Len(values)) \cup Span(SortOut, 0, Len(values)) |-> values[l[3] + 1]]

SortLaunched(values, base, rand) ==
  SortFrame(SortIn, SortOut, Len(values), base, rand, FinalSignal)

(* mergeUnrolledCheck, and that the numbers are those that were drawn.     *)
SortResult(values, mem) ==
  LET out == [i \in 1 .. Len(values) |-> mem[At(SortOut, i - 1)]]
      Times(s, x) == Len(SelectSeq(s, LAMBDA y : y = x))
  IN  /\ \A i \in 2 .. Len(out) : out[i - 1] <= out[i]
      /\ \A i \in DOMAIN out : Times(out, values[i]) = Times(values, values[i])

MergesortTPs == {"mergeSort", "mergeBase", "quickSort"}

MergesortConstruct(path, f) ==
  CASE f.tp = "mergeSort" -> SortConstructor(path)
    [] f.tp = "mergeBase" -> BaseConstructor(path)
    [] f.tp = "quickSort" -> QuickConstructor(path)

MergesortFire(path, f, name, mem) ==
  CASE name[1] = "check" -> SortCheck(path, f)
    [] name[1] = "merge" /\ f.tp = "mergeSort" -> SortMergeFire(f, mem)
    [] name[1] = "merge" /\ f.tp = "mergeBase" -> BaseMerge(path, f, name[2], mem)
    [] name[1] = "quick" /\ f.tp = "mergeBase" -> BaseQuick(path, f, name[2], mem)
    [] name[1] = "quick" /\ f.tp = "quickSort" -> QuickFire(f, name[2], mem)
=============================================================================
