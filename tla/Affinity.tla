------------------------------ MODULE Affinity ------------------------------
(***************************************************************************)
(* ThreadAffinity::generateMask: which unit of the machine each thread of  *)
(* the Runtime is bound to.  A unit is <<cluster, number in it>>, and all  *)
(* clusters have as many units as the first, which the code assumes.       *)
(*                                                                         *)
(* The loops place TP scheduler i and then its mcPerTp micro schedulers,   *)
(* which is the order of thread numbers in the Runtime: the two masks are  *)
(* one sequence here, and a step is the body of a loop.                    *)
(***************************************************************************)
EXTENDS Integers, Sequences

CONSTANT Requests \* <<mode, maxCluster, maxUnit, numTPS, mcPerTp>>

Modes == {"SPREAD", "COMPACT", "COMPACT_NO_SMT"}

ASSUME RequestsAssumption ==
  Requests \subseteq Modes \X (Nat \ {0}) \X (Nat \ {0}) \X Nat \X Nat

VARIABLES
  mode, maxCluster, maxUnit, numTPS, mcPerTp, \* the request
  result,          \* what generateMask returns: "unknown", "placing", "yes", "no"
  count, smt_cnt,  \* the next unit in the machine; how often it was exhausted
  clusterCount,    \* units taken, SPREAD only
  mask             \* the units of threads 0, 1, ...

request == <<mode, maxCluster, maxUnit, numTPS, mcPerTp>>
vars == <<request, result, count, smt_cnt, clusterCount, mask>>

totalUnits == maxCluster * maxUnit
RequestedUnits == mcPerTp + 1
hardware_smt == 2

(* The TP scheduler of the thread that is placed next.                     *)
i == Len(mask) \div RequestedUnits
LastOfTP == Len(mask) % RequestedUnits = mcPerTp

(* The array has maxCluster elements and is indexed by i.                  *)
Init ==
  /\ \E r \in Requests :
       /\ mode = r[1] /\ maxCluster = r[2] /\ maxUnit = r[3]
       /\ numTPS = r[4] /\ mcPerTp = r[5]
  /\ result = "unknown"
  /\ count = 0 /\ smt_cnt = 0
  /\ clusterCount = [k \in 0 .. numTPS |-> 0]
  /\ mask = <<>>

(* Clusters that a TP takes for itself in SPREAD mode.                     *)
check == RequestedUnits \div maxUnit + (IF RequestedUnits % maxUnit = 0 THEN 0 ELSE 1)

Fits ==
  /\ numTPS > 0
  /\ numTPS * RequestedUnits <= totalUnits
  /\ mode = "SPREAD" => check * maxUnit * numTPS <= totalUnits

Test ==
  /\ result = "unknown"
  /\ result' = IF Fits THEN "placing" ELSE "no"
  /\ UNCHANGED <<request, count, smt_cnt, clusterCount, mask>>

Placing == result = "placing" /\ i < numTPS

PlaceAt(cluster, unit) == mask' = Append(mask, <<cluster, unit>>)

(* A TP that needs less than a cluster is put on cluster i % maxCluster.   *)
SpreadInCluster ==
  /\ Placing /\ mode = "SPREAD" /\ RequestedUnits < maxUnit
  /\ PlaceAt(i % maxCluster, clusterCount[i])
  /\ clusterCount' = [clusterCount EXCEPT ![i] = @ + 1]
  /\ UNCHANGED <<request, result, count, smt_cnt>>

PlaceAtCount == PlaceAt(count \div maxUnit, count % maxUnit)

(* Mutant of SpreadOverClusters: no rounding up.                           *)
SpreadDense ==
  /\ Placing /\ mode = "SPREAD" /\ RequestedUnits >= maxUnit
  /\ PlaceAtCount /\ count' = count + 1
  /\ UNCHANGED <<request, result, smt_cnt, clusterCount>>

(* After a larger one, count is rounded up to the next cluster.            *)
SpreadOverClusters ==
  /\ Placing /\ mode = "SPREAD" /\ RequestedUnits >= maxUnit
  /\ PlaceAtCount
  /\ count' = IF LastOfTP /\ (count + 1) % maxUnit # 0
              THEN ((count + 1) \div maxUnit + 1) * maxUnit ELSE count + 1
  /\ UNCHANGED <<request, result, smt_cnt, clusterCount>>

Compact ==
  /\ Placing /\ mode = "COMPACT"
  /\ PlaceAtCount /\ count' = count + 1
  /\ UNCHANGED <<request, result, smt_cnt, clusterCount>>

(* Mutant of CompactNoSMT: count = smt_cnt++.                              *)
CompactNoSMTFromZero ==
  /\ Placing /\ mode = "COMPACT_NO_SMT"
  /\ PlaceAtCount
  /\ IF count + hardware_smt >= totalUnits
     THEN count' = smt_cnt /\ smt_cnt' = smt_cnt + 1
     ELSE count' = count + hardware_smt /\ UNCHANGED smt_cnt
  /\ UNCHANGED <<request, result, clusterCount>>

(* Every second unit, and from the start again at the end of the machine.  *)
CompactNoSMT ==
  /\ Placing /\ mode = "COMPACT_NO_SMT"
  /\ PlaceAtCount
  /\ IF count + hardware_smt >= totalUnits
     THEN smt_cnt' = smt_cnt + 1 /\ count' = smt_cnt'
     ELSE count' = count + hardware_smt /\ UNCHANGED smt_cnt
  /\ UNCHANGED <<request, result, clusterCount>>

Finish ==
  /\ result = "placing" /\ i = numTPS
  /\ result' = "yes"
  /\ UNCHANGED <<request, count, smt_cnt, clusterCount, mask>>

Next == Test \/ SpreadInCluster \/ SpreadOverClusters \/ Compact \/ CompactNoSMT \/ Finish

Spec == Init /\ [][Next]_vars

-----------------------------------------------------------------------------
Thread == 0 .. Len(mask) - 1
UnitOf(t) == mask[t + 1]
TPOf(t) == t \div RequestedUnits

(* Every thread gets a unit that exists, so that the Runtime finds it in   *)
(* the map of clusters, and that no other thread gets.                     *)
Exclusive ==
  /\ \A t \in Thread : UnitOf(t) \in (0 .. maxCluster - 1) \X (0 .. maxUnit - 1)
  /\ \A t, u \in Thread : t # u => UnitOf(t) # UnitOf(u)
  /\ result = "yes" => Len(mask) = numTPS * RequestedUnits

(* Units hardware_smt * k and those that follow are one core.              *)
Core(unit) == (unit[1] * maxUnit + unit[2]) \div hardware_smt

(* The modes mean what they are called: threads of two TPs never share a   *)
(* cluster (SPREAD); no cluster is begun before the last one is full       *)
(* (COMPACT); two threads share a core only when they are more than the    *)
(* cores (COMPACT_NO_SMT).                                                 *)
KeepsMode ==
  /\ mode = "SPREAD" => \A t, u \in Thread :
       TPOf(t) # TPOf(u) => UnitOf(t)[1] # UnitOf(u)[1]
  /\ mode = "COMPACT" => \A t \in Thread :
       \A c \in 0 .. UnitOf(t)[1] - 1, k \in 0 .. maxUnit - 1 :
         \E u \in Thread : UnitOf(u) = <<c, k>>
  /\ mode = "COMPACT_NO_SMT" => \A t, u \in Thread :
       t # u /\ Core(UnitOf(t)) = Core(UnitOf(u))
         => hardware_smt * Len(mask) > totalUnits
=============================================================================
