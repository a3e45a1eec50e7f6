--------------------------- MODULE FastMergesort ---------------------------
(***************************************************************************)
(* FastMergesort: a MergeSort TP sorts src by sorting the halves of dst    *)
(* into which they trade places from level to level, and merges them with  *)
(* Merge TPs, each of which puts the median of the longer part in its      *)
(* place and leaves what is before and after it to two others.             *)
(***************************************************************************)
EXTENDS Integers, CodeletTerms, SequencesExt

CONSTANTS
  CutoffSort,   \* CUTOFF_SORT
  CutoffMerge   \* CUTOFF_MERGE

FastSortFrame(src, lo, hi, dst, final) ==
  [tp |-> "MergeSort", src |-> src, lo |-> lo, hi |-> hi, dst |-> dst, final |-> final]

FastMergeFrame(src, lo1, hi1, lo2, hi2, dst, lo3, final) ==
  [tp |-> "Merge", src |-> src, lo1 |-> lo1, hi1 |-> hi1, lo2 |-> lo2, hi2 |-> hi2,
   dst |-> dst, lo3 |-> lo3, final |-> final]

MonitorFrame(shuffled) == [tp |-> "Monitor", shuffled |-> shuffled]

Split(path) == <<path, <<"split", 0>>>>
Sync(path) == <<path, <<"sync", 0>>>>

-----------------------------------------------------------------------------
(* Functions on arrays.                                                    *)

(* merge: src[lo1 .. hi1] and src[lo2 .. hi2] as one sequence.             *)
RECURSIVE MergedRuns(_, _, _, _, _)
MergedRuns(src, lo1, hi1, lo2, hi2) ==
  CASE lo1 > hi1 -> [i \in 1 .. hi2 - lo2 + 1 |-> src[lo2 + i - 1]]
    [] lo1 <= hi1 /\ lo2 > hi2 -> [i \in 1 .. hi1 - lo1 + 1 |-> src[lo1 + i - 1]]
    [] lo1 <= hi1 /\ lo2 <= hi2 /\ src[lo1] < src[lo2] ->
         <<src[lo1]>> \o MergedRuns(src, lo1 + 1, hi1, lo2, hi2)
    [] OTHER -> <<src[lo2]>> \o MergedRuns(src, lo1, hi1, lo2 + 1, hi2)

(* bin_search between lo and hi, the latter exclusive.                     *)
RECURSIVE Bisect(_, _, _, _)
Bisect(a, lo, hi, elem) ==
  LET mid == (lo + hi) \div 2 IN
  CASE lo >= hi -> hi
    [] lo < hi /\ a[mid] < elem -> Bisect(a, mid + 1, hi, elem)
    [] OTHER -> Bisect(a, lo, mid, elem)

BinSearch(a, lo, hi, elem) == Bisect(a, lo, IF lo > hi + 1 THEN lo ELSE hi + 1, elem)

-----------------------------------------------------------------------------
(* Merge.                                                                  *)

FastMergeConstructor(path) ==
  Frame(One("split", 0) @@ One("sync", 2), Calls(<<Add(Split(path))>>))

(* The longer part is the first.                                           *)
Ordered(f) ==
  IF f.hi1 - f.lo1 < f.hi2 - f.lo2
  THEN [f EXCEPT !.lo1 = f.lo2, !.hi1 = f.hi2, !.lo2 = f.lo1, !.hi2 = f.hi1]
  ELSE f

(* The elements of both parts, at their indices in src.                    *)
Parts(g, mem) ==
  [i \in (g.lo1 .. g.hi1) \cup (g.lo2 .. g.hi2) |-> mem[At(g.src, i)]]

MergeAll(g, mem) ==
  LET src == Parts(g, mem)
      merged == MergedRuns(src, g.lo1, g.hi1, g.lo2, g.hi2)
  IN  Does({At(g.src, i) : i \in DOMAIN src},
           [l \in Span(g.dst, g.lo3, g.lo3 + Len(merged)) |->
              merged[l[3] - g.dst[3] - g.lo3 + 1]],
           <<Dec(g.final)>>)

(* Mutant of MergeMedian: sync is added when the parts were invoked.       *)
MergeMedianAddsLate(path, g, mem) ==
  LET src == Parts(g, mem)
      mid1 == (g.lo1 + g.hi1) \div 2
      mid2 == BinSearch(src, g.lo2, g.hi2, src[mid1])
      mid3 == g.lo3 + (mid1 - g.lo1) + (mid2 - g.lo2)
      Part(lo1, hi1, lo2, hi2, lo3) ==
        FastMergeFrame(g.src, lo1, hi1, lo2, hi2, g.dst, lo3, Sync(path))
  IN  Does({At(g.src, i) : i \in {mid1} \cup (g.lo2 .. g.hi2)},
           At(g.dst, mid3) :> src[mid1],
           <<Invoke(<<"part", 1>>, Part(g.lo1, mid1 - 1, g.lo2, mid2 - 1, g.lo3)),
             Invoke(<<"part", 2>>, Part(mid1 + 1, g.hi1, mid2, g.hi2, mid3 + 1)),
             Add(Sync(path))>>)

MergeMedian(path, g, mem) ==
  LET src == Parts(g, mem)
      mid1 == (g.lo1 + g.hi1) \div 2
      mid2 == BinSearch(src, g.lo2, g.hi2, src[mid1])
      mid3 == g.lo3 + (mid1 - g.lo1) + (mid2 - g.lo2)
      Part(lo1, hi1, lo2, hi2, lo3) ==
        FastMergeFrame(g.src, lo1, hi1, lo2, hi2, g.dst, lo3, Sync(path))
  IN  Does({At(g.src, i) : i \in {mid1} \cup (g.lo2 .. g.hi2)},
           At(g.dst, mid3) :> src[mid1],
           <<Add(Sync(path)),
             Invoke(<<"part", 1>>, Part(g.lo1, mid1 - 1, g.lo2, mid2 - 1, g.lo3)),
             Invoke(<<"part", 2>>, Part(mid1 + 1, g.hi1, mid2, g.hi2, mid3 + 1))>>)

(* MergeSplit::fire.                                                       *)
MergeSplit(path, f, mem) ==
  LET g == Ordered(f)
      len1 == g.hi1 - g.lo1 + 1
      len2 == g.hi2 - g.lo2 + 1
  IN  CASE len1 + len2 > CutoffMerge -> MergeMedian(path, g, mem)
        [] len1 + len2 <= CutoffMerge /\ len1 # 0 -> MergeAll(g, mem)
        [] OTHER -> Calls(<<Dec(g.final)>>)

(* MergeSync::fire.                                                        *)
MergeSync(f) == Calls(<<Dec(f.final)>>)

-----------------------------------------------------------------------------
(* MergeSort.                                                              *)

FastSortConstructor(path) ==
  Frame(One("split", 0) @@ One("sync", 2), Calls(<<Add(Split(path))>>))

(* MergeSortSplit::fire; the C library sorts what is short enough.         *)
FastSortSplit(path, f, mem) ==
  LET mid == (f.lo + f.hi) \div 2
      sorted == SortSeq([i \in 1 .. f.hi - f.lo + 1 |-> mem[At(f.src, f.lo + i - 1)]],
                        LAMBDA x, y : x < y)
      Half(lo, hi) == FastSortFrame(f.dst, lo, hi, f.src, Sync(path))
  IN  IF f.hi - f.lo + 1 <= CutoffSort
      THEN Does(Span(f.src, f.lo, f.hi + 1),
                [l \in Span(f.src, f.lo, f.hi + 1) |-> sorted[l[3] - f.src[3] - f.lo + 1]],
                <<Dec(f.final)>>)
      ELSE Calls(<<Add(Sync(path)),
                   Invoke(<<"half", 1>>, Half(f.lo, mid)),
                   Invoke(<<"half", 2>>, Half(mid + 1, f.hi))>>)

(* MergeSortSync::fire.                                                    *)
FastSortSync(f) ==
  LET mid == (f.lo + f.hi) \div 2 IN
  Calls(<<Invoke(<<"merge", 0>>,
            FastMergeFrame(f.dst, f.lo, mid, mid + 1, f.hi, f.src, f.lo, f.final))>>)

-----------------------------------------------------------------------------
(* Monitor, with the arrays in its frame; it prints what verify thinks of  *)
(* the first.                                                              *)

Printed == Loc(Main, "stdout", 0)

MonitorConstructor(path) ==
  Frame(One("start", 0) @@ One("stop", 1),
        Calls(<<Add(<<path, <<"stop", 0>>>>), Add(<<path, <<"start", 0>>>>)>>))

(* Starter::fire.                                                          *)
Starter(path, f) ==
  LET a == Loc(path, "a", 0)
      b == Loc(path, "b", 0)
      N == Len(f.shuffled)
  IN  Does({}, [l \in Span(a, 0, N) \cup Span(b, 0, N) |-> f.shuffled[l[3] + 1]],
           <<Invoke(<<"sort", 0>>, FastSortFrame(a, 0, N - 1, b, <<path, <<"stop", 0>>>>))>>)

(* verify.                                                                 *)
IsCorrect(a) == \A i \in 1 .. Len(a) - 1 : a[i] <= a[i + 1]

(* Reporter::fire.                                                         *)
Reporter(path, f, mem) ==
  LET a == Span(Loc(path, "a", 0), 0, Len(f.shuffled)) IN
  Does(a,
       Printed :> [numbers |-> {mem[l] : l \in a},
                   correct |-> IsCorrect([i \in 1 .. Len(f.shuffled) |->
                                            mem[Loc(path, "a", i - 1)]])],
       <<Dec(FinalSignal)>>)

(* No error was detected, and no number was lost.                          *)
FastSortResult(shuffled, mem) ==
  mem[Printed] = [numbers |-> ToSet(shuffled), correct |-> TRUE]

FastMergesortTPs == {"Merge", "MergeSort", "Monitor"}

FastMergesortConstruct(path, f) ==
  CASE f.tp = "Merge" -> FastMergeConstructor(path)
    [] f.tp = "MergeSort" -> FastSortConstructor(path)
    [] f.tp = "Monitor" -> MonitorConstructor(path)

FastMergesortFire(path, f, name, mem) ==
  CASE f.tp = "Merge" /\ name[1] = "split" -> MergeSplit(path, f, mem)
    [] f.tp = "Merge" /\ name[1] = "sync" -> MergeSync(f)
    [] f.tp = "MergeSort" /\ name[1] = "split" -> FastSortSplit(path, f, mem)
    [] f.tp = "MergeSort" /\ name[1] = "sync" -> FastSortSync(f)
    [] name[1] = "start" -> Starter(path, f)
    [] name[1] = "stop" -> Reporter(path, f, mem)
=============================================================================
