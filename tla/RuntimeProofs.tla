---------------------------- MODULE RuntimeProofs ----------------------------
(***************************************************************************)
(* Start-up, runs and shutdown of a Runtime are safe for every number of   *)
(* threads, every arrangement of clusters and any number of runs.          *)
(***************************************************************************)
EXTENDS Runtime, FiniteSetTheorems, TLAPS

USE ThreadsAssumption, BoundsAssumption

(* Sets of threads are finite.                                             *)
LEMMA Finite ==
  ASSUME NEW S, S \subseteq Threads, NEW places
  PROVE  /\ IsFiniteSet(S) /\ IsFiniteSet(Remaining(S, places))
         /\ Cardinality(S) \in Nat /\ Cardinality(Remaining(S, places)) \in Nat
<1>1. IsFiniteSet(Threads)
  BY FS_Union DEF Threads
<1>2. IsFiniteSet(S) /\ IsFiniteSet(Remaining(S, places))
  BY <1>1, FS_Subset DEF Remaining
<1>3. QED
  BY <1>2, FS_CardinalityType

(* A thread that leaves the places was one of them.                        *)
LEMMA OneLess ==
  ASSUME NEW S, S \subseteq Threads, NEW places, NEW x \in S, pc[x] \in places,
         pc' = [pc EXCEPT ![x] = pc'[x]], pc'[x] \notin places,
         pc \in [Threads -> ThreadPCs \cup MainPCs]
  PROVE  /\ Cardinality(Remaining(S, places)') = Cardinality(Remaining(S, places)) - 1
         /\ Cardinality(Remaining(S, places)) >= 1
<1>1. x \in Remaining(S, places) /\ Remaining(S, places)' = Remaining(S, places) \ {x}
  BY DEF Remaining
<1>2. IsFiniteSet(Remaining(S, places)) /\ Cardinality(Remaining(S, places)) \in Nat
  BY Finite
<1>3. Cardinality(Remaining(S, places) \ {x}) = Cardinality(Remaining(S, places)) - 1
  BY <1>1, <1>2, FS_RemoveElement
<1>4. Cardinality(Remaining(S, places)) # 0
  BY <1>1, <1>2, FS_EmptySet
<1>5. QED
  BY <1>1, <1>2, <1>3, <1>4

(* A counter that is zero counts nobody.                                   *)
LEMMA NoneLeft ==
  ASSUME NEW S, S \subseteq Threads, NEW places, Cardinality(Remaining(S, places)) = 0
  PROVE  Remaining(S, places) = {}
BY Finite, FS_EmptySet

(* What a step of CountAll does to its counter.                            *)
LEMMA CountedAll ==
  ASSUME IInv, NEW x \in Threads, CountAll(x)
  PROVE  /\ fullcount >= 1
         /\ fullcount' = Cardinality(Remaining(Threads, Uncounted)')
         /\ fullcount = 1 => Remaining(Threads, Uncounted)' = {}
<1> DEFINE R == Remaining(Threads, Uncounted)
<1>1. fullcount = Cardinality(R)
  BY DEF IInv, TypeOK, Ready, CountsExact, CountAll, Gone, Others, Threads
<1>2. /\ pc[x] \in Uncounted /\ pc'[x] \notin Uncounted
      /\ pc' = [pc EXCEPT ![x] = pc'[x]] /\ pc \in [Threads -> ThreadPCs \cup MainPCs]
  BY DEF IInv, TypeOK, CountAll, Goto, Started, Uncounted, Early
<1>3. Cardinality(R') = Cardinality(R) - 1 /\ Cardinality(R) >= 1
  BY <1>2, OneLess
<1>4. IsFiniteSet(R') /\ Cardinality(R') \in Nat
  <2>1. IsFiniteSet(R) /\ R' \subseteq R
    BY <1>2, Finite DEF Remaining
  <2>2. QED
    BY <2>1, FS_Subset, FS_CardinalityType
<1>5. fullcount' = Cardinality(R') /\ (fullcount = 1 => Cardinality(R') = 0)
  BY <1>1, <1>3, Finite DEF CountAll
<1>6. QED
  BY <1>1, <1>3, <1>4, <1>5, FS_EmptySet

(* What a step of Count does to the counters.                              *)
LEMMA CountedKind ==
  ASSUME IInv, NEW x \in Threads, Count(x)
  PROVE  /\ x \in TPThreads => tpcount >= 1
         /\ x \in MCThreads => mccount >= 1
         /\ tpcount' = Cardinality(Remaining(TPThreads, Early)')
         /\ mccount' = Cardinality(Remaining(MCThreads, Early)')
<1>1. /\ tpcount = Cardinality(Remaining(TPThreads, Early))
      /\ mccount = Cardinality(Remaining(MCThreads, Early))
  BY DEF IInv, TypeOK, Ready, CountsExact, Count, Gone, Others, Threads
<1>2. /\ pc[x] \in Early /\ pc'[x] \notin Early
      /\ pc' = [pc EXCEPT ![x] = pc'[x]] /\ pc \in [Threads -> ThreadPCs \cup MainPCs]
  BY DEF IInv, TypeOK, Count, Goto, Early
<1>3. ASSUME NEW S, S \subseteq Threads, x \notin S
      PROVE  Remaining(S, Early)' = Remaining(S, Early)
  BY <1>2, <1>3 DEF Remaining
<1>4. CASE x \in TPThreads
  <2>1. x \notin MCThreads /\ TPThreads \subseteq Threads /\ MCThreads \subseteq Threads
    BY <1>4 DEF Threads
  <2>2. /\ Cardinality(Remaining(TPThreads, Early)')
             = Cardinality(Remaining(TPThreads, Early)) - 1
        /\ Cardinality(Remaining(TPThreads, Early)) >= 1
    BY <1>2, <1>4, <2>1, OneLess
  <2>3. Remaining(MCThreads, Early)' = Remaining(MCThreads, Early)
    BY <1>3, <2>1
  <2>4. mccount' = mccount
    BY <2>1 DEF Count, IInv, TypeOK
  <2>5. QED
    BY <1>1, <1>4, <2>1, <2>2, <2>3, <2>4 DEF Count
<1>5. CASE x \in MCThreads
  <2>1. x \notin TPThreads /\ TPThreads \subseteq Threads /\ MCThreads \subseteq Threads
    BY <1>5 DEF Threads
  <2>2. /\ Cardinality(Remaining(MCThreads, Early)')
             = Cardinality(Remaining(MCThreads, Early)) - 1
        /\ Cardinality(Remaining(MCThreads, Early)) >= 1
    BY <1>2, <1>5, <2>1, OneLess
  <2>3. Remaining(TPThreads, Early)' = Remaining(TPThreads, Early)
    BY <1>3, <2>1
  <2>4. tpcount' = tpcount
    BY <2>1 DEF Count, IInv, TypeOK
  <2>5. QED
    BY <1>1, <1>5, <2>1, <2>2, <2>3, <2>4 DEF Count
<1>6. QED
  BY <1>4, <1>5 DEF Threads

(* Every number and every place has its type.                              *)
LEMMA TypeStep == IInv /\ [Next]_vars => TypeOK'
<1> SUFFICES ASSUME IInv, [Next]_vars PROVE TypeOK'
  OBVIOUS
<1> USE DEF IInv, TypeOK, Goto, Started, startVars, workVars, boundVars, Threads,
     ThreadPCs, MainPCs, Starting, Policy
<1>1. CASE Construct
  <2>1. /\ Cardinality(TPThreads) \in Nat /\ Cardinality(MCThreads) \in Nat
        /\ Cardinality(Threads) \in Nat
    BY Finite DEF Threads
  <2>2. lives' \in 0 .. MaxLives /\ runs' \in 0 .. MaxRuns
    BY <1>1 DEF Construct, TypeOK
  <2>3. /\ pc' = [pc EXCEPT ![Main] = "launch"] /\ Main \in Threads
        /\ "launch" \in MainPCs /\ Main \notin MCThreads
    BY <1>1 DEF Construct, Goto, MainPCs, Threads
  <2>4. /\ pc' \in [Threads -> ThreadPCs \cup MainPCs] /\ pc'[Main] \in MainPCs
        /\ \A x \in Others : pc'[x] \in ThreadPCs
        /\ \A x \in MCThreads : pc'[x] # "scan"
    BY <2>3 DEF TypeOK, Others
  <2>5. /\ created' \subseteq Threads /\ alive' \in [Threads -> BOOLEAN]
        /\ linked' \subseteq {"peers", "workers"}
    BY <1>1 DEF Construct, TypeOK
  <2>6. QED
    BY <1>1, <2>1, <2>2, <2>4, <2>5 DEF Construct, TypeOK, Others
<1>2. ASSUME NEW x \in Threads, Launch(x) PROVE TypeOK'
  BY <1>2, Finite DEF Launch
<1>3. CASE Launched
  BY <1>3, Finite DEF Launched
<1>4. ASSUME NEW x \in Threads, Create(x) PROVE TypeOK'
  BY <1>4, Finite DEF Create
<1>5. ASSUME NEW x \in Threads, Register(x) PROVE TypeOK'
  BY <1>5, Finite DEF Register
<1>6. ASSUME NEW x \in Threads, Count(x) PROVE TypeOK'
  <2>1. /\ x \in TPThreads => tpcount >= 1
        /\ x \in MCThreads => mccount >= 1
    BY <1>6, CountedKind
  <2>2. QED
    BY <1>6, <2>1 DEF Count
<1>7. CASE LinkTPSched
  BY <1>7, Finite DEF LinkTPSched
<1>8. CASE LinkMCSched
  BY <1>8, Finite DEF LinkMCSched
<1>9. ASSUME NEW x \in Threads, CountAll(x) PROVE TypeOK'
  <2>1. fullcount >= 1
    BY <1>9, CountedAll
  <2>2. QED
    BY <1>9, <2>1 DEF CountAll
<1>10. ASSUME NEW x \in Threads, ClearSpin(x) PROVE TypeOK'
  BY <1>10, Finite DEF ClearSpin
<1>11. ASSUME NEW x \in Threads, Spin(x) PROVE TypeOK'
  BY <1>11, Finite DEF Spin
<1>12. CASE Run
  BY <1>12, Finite DEF Run
<1>13. CASE PushTP
  BY <1>13, Finite DEF PushTP
<1>14. ASSUME NEW x \in Threads, Top(x) PROVE TypeOK'
  BY <1>14, Finite DEF Top
<1>15. ASSUME NEW x \in Threads, FindTP(x) PROVE TypeOK'
  BY <1>15, Finite DEF FindTP
<1>16. ASSUME NEW x \in Threads, NoTP(x) PROVE TypeOK'
  BY <1>16, Finite DEF NoTP
<1>17. ASSUME NEW x \in Threads, PopCodelet(x) PROVE TypeOK'
  BY <1>17, Finite DEF PopCodelet
<1>18. ASSUME NEW x \in Threads, Signal(x) PROVE TypeOK'
  BY <1>18, Finite DEF Signal
<1>19. CASE Destroy
  BY <1>19, Finite DEF Destroy
<1>20. ASSUME NEW x \in Threads, Kill(x) PROVE TypeOK'
  BY <1>20, Finite DEF Kill
<1>21. CASE Killed
  BY <1>21, Finite DEF Killed
<1>22. CASE Join
  BY <1>22, Finite DEF Join
<1>23. CASE Delete
  BY <1>23, Finite DEF Delete
<1>24. CASE UNCHANGED vars
  BY <1>24 DEF vars
<1>25. QED
  BY <1>1, <1>2, <1>3, <1>4, <1>5, <1>6, <1>7, <1>8, <1>9, <1>10, <1>11, <1>12, <1>13,
       <1>14, <1>15, <1>16, <1>17, <1>18, <1>19, <1>20, <1>21, <1>22, <1>23, <1>24 DEF
       Next, Thread, Client, Decide

(* The client links schedulers when all of them have been counted.         *)
LEMMA AllCounted ==
  ASSUME IInv
  PROVE  /\ LinkTPSched => Remaining(TPThreads, Early) = {}
         /\ LinkMCSched => /\ Remaining(Threads, Early) = {}
                           /\ linked' = {"peers", "workers"}
<1>1. ASSUME LinkTPSched PROVE Remaining(TPThreads, Early) = {}
  BY <1>1, NoneLeft DEF IInv, CountsExact, LinkTPSched, Gone, Threads
<1>2. ASSUME LinkMCSched PROVE Remaining(MCThreads, Early) = {}
  BY <1>2, NoneLeft DEF IInv, CountsExact, LinkMCSched, Gone, Threads
<1>3. ASSUME LinkMCSched PROVE Remaining(Threads, Early) = {} /\ "peers" \in linked
  BY <1>2, <1>3 DEF IInv, LinkMCSched, Ready, Remaining, Threads
<1>4. ASSUME LinkMCSched PROVE linked' = {"peers", "workers"}
  BY <1>3, <1>4 DEF IInv, TypeOK, LinkMCSched
<1>5. QED
  BY <1>1, <1>3, <1>4

(* Who goes on has what it waits for.                                      *)
LEMMA ReadyStep == IInv /\ [Next]_vars => Ready'
<1> SUFFICES ASSUME IInv, [Next]_vars PROVE Ready'
  OBVIOUS
<1> USE DEF IInv, Ready, Remaining, Others, Early, Uncounted, Running, Gone, TypeOK, Goto,
     Started, startVars, workVars, boundVars, Threads, ThreadPCs, MainPCs, Starting, Policy
<1>1. CASE Construct
  BY <1>1 DEF Construct
<1>2. ASSUME NEW x \in Threads, Launch(x) PROVE Ready'
  BY <1>2 DEF Launch
<1>3. CASE Launched
  BY <1>3 DEF Launched
<1>4. ASSUME NEW x \in Threads, Create(x) PROVE Ready'
  BY <1>4 DEF Create
<1>5. ASSUME NEW x \in Threads, Register(x) PROVE Ready'
  BY <1>5 DEF Register
<1>6. ASSUME NEW x \in Threads, Count(x) PROVE Ready'
  BY <1>6 DEF Count
<1>7. CASE LinkTPSched
  BY <1>7, AllCounted DEF LinkTPSched
<1>8. CASE LinkMCSched
  BY <1>8, AllCounted DEF LinkMCSched
<1>9. ASSUME NEW x \in Threads, CountAll(x) PROVE Ready'
  <2>1. fullcount = 1 => Remaining(Threads, Uncounted)' = {}
    BY <1>9, CountedAll
  <2>2. QED
    BY <1>9, <2>1 DEF CountAll
<1>10. ASSUME NEW x \in Threads, ClearSpin(x) PROVE Ready'
  BY <1>10 DEF ClearSpin
<1>11. ASSUME NEW x \in Threads, Spin(x) PROVE Ready'
  BY <1>11 DEF Spin
<1>12. CASE Run
  BY <1>12 DEF Run
<1>13. CASE PushTP
  BY <1>13 DEF PushTP
<1>14. ASSUME NEW x \in Threads, Top(x) PROVE Ready'
  BY <1>14 DEF Top
<1>15. ASSUME NEW x \in Threads, FindTP(x) PROVE Ready'
  BY <1>15 DEF FindTP
<1>16. ASSUME NEW x \in Threads, NoTP(x) PROVE Ready'
  BY <1>16 DEF NoTP
<1>17. ASSUME NEW x \in Threads, PopCodelet(x) PROVE Ready'
  BY <1>17 DEF PopCodelet
<1>18. ASSUME NEW x \in Threads, Signal(x) PROVE Ready'
  BY <1>18 DEF Signal
<1>19. CASE Destroy
  BY <1>19 DEF Destroy
<1>20. ASSUME NEW x \in Threads, Kill(x) PROVE Ready'
  BY <1>20 DEF Kill
<1>21. CASE Killed
  BY <1>21 DEF Killed
<1>22. CASE Join
  BY <1>22 DEF Join
<1>23. CASE Delete
  BY <1>23 DEF Delete
<1>24. CASE UNCHANGED vars
  BY <1>24 DEF vars
<1>25. QED
  BY <1>1, <1>2, <1>3, <1>4, <1>5, <1>6, <1>7, <1>8, <1>9, <1>10, <1>11, <1>12, <1>13,
       <1>14, <1>15, <1>16, <1>17, <1>18, <1>19, <1>20, <1>21, <1>22, <1>23, <1>24 DEF
       Next, Thread, Client, Decide

(* A program stays in one place.                                           *)
LEMMA ProgramStep == IInv /\ [Next]_vars => OneProgram'
<1> SUFFICES ASSUME IInv, [Next]_vars PROVE OneProgram'
  OBVIOUS
<1> USE DEF IInv, OneProgram, Ready, Others, Gone, Running, TypeOK, Goto, Started,
        startVars, workVars, boundVars, Threads, ThreadPCs, MainPCs, Starting, Policy
<1>1. CASE Construct
  BY <1>1 DEF Construct
<1>2. ASSUME NEW x \in Threads, Launch(x) PROVE OneProgram'
  BY <1>2 DEF Launch
<1>3. CASE Launched
  BY <1>3 DEF Launched
<1>4. ASSUME NEW x \in Threads, Create(x) PROVE OneProgram'
  BY <1>4 DEF Create
<1>5. ASSUME NEW x \in Threads, Register(x) PROVE OneProgram'
  BY <1>5 DEF Register
<1>6. ASSUME NEW x \in Threads, Count(x) PROVE OneProgram'
  BY <1>6 DEF Count
<1>7. CASE LinkTPSched
  BY <1>7 DEF LinkTPSched
<1>8. CASE LinkMCSched
  BY <1>8 DEF LinkMCSched
<1>9. ASSUME NEW x \in Threads, CountAll(x) PROVE OneProgram'
  BY <1>9 DEF CountAll
<1>10. ASSUME NEW x \in Threads, ClearSpin(x) PROVE OneProgram'
  BY <1>10 DEF ClearSpin
<1>11. ASSUME NEW x \in Threads, Spin(x) PROVE OneProgram'
  BY <1>11 DEF Spin
<1>12. CASE Run
  BY <1>12 DEF Run
<1>13. CASE PushTP
  BY <1>13 DEF PushTP
<1>14. ASSUME NEW x \in Threads, Top(x) PROVE OneProgram'
  BY <1>14 DEF Top
<1>15. ASSUME NEW x \in Threads, FindTP(x) PROVE OneProgram'
  BY <1>15 DEF FindTP
<1>16. ASSUME NEW x \in Threads, NoTP(x) PROVE OneProgram'
  BY <1>16 DEF NoTP
<1>17. ASSUME NEW x \in Threads, PopCodelet(x) PROVE OneProgram'
  BY <1>17 DEF PopCodelet
<1>18. ASSUME NEW x \in Threads, Signal(x) PROVE OneProgram'
  BY <1>18 DEF Signal
<1>19. CASE Destroy
  BY <1>19 DEF Destroy
<1>20. ASSUME NEW x \in Threads, Kill(x) PROVE OneProgram'
  BY <1>20 DEF Kill
<1>21. CASE Killed
  BY <1>21 DEF Killed
<1>22. CASE Join
  BY <1>22 DEF Join
<1>23. CASE Delete
  BY <1>23 DEF Delete
<1>24. CASE UNCHANGED vars
  BY <1>24 DEF vars
<1>25. QED
  BY <1>1, <1>2, <1>3, <1>4, <1>5, <1>6, <1>7, <1>8, <1>9, <1>10, <1>11, <1>12, <1>13,
       <1>14, <1>15, <1>16, <1>17, <1>18, <1>19, <1>20, <1>21, <1>22, <1>23, <1>24 DEF
       Next, Thread, Client, Decide

(* Only counting changes what the counters count.                          *)
LEMMA CountsStep == IInv /\ [Next]_vars => CountsExact'
<1> SUFFICES ASSUME IInv, [Next]_vars PROVE CountsExact'
  OBVIOUS
<1> DEFINE Same(S, places) == Remaining(S, places)' = Remaining(S, places)
<1>a. ASSUME Same(TPThreads, Early), Same(MCThreads, Early), Same(Threads, Uncounted),
             UNCHANGED <<tpcount, mccount, fullcount>>, pc[Main] \notin Gone
      PROVE  CountsExact'
  BY <1>a DEF IInv, CountsExact
<1>b. /\ pc \in [Threads -> ThreadPCs \cup MainPCs] /\ Main \in Threads
      /\ \A x \in Others : pc[x] \in ThreadPCs
      /\ \A x \in Threads : pc[x] # "none" /\ pc[Main] \in Gone => x = Main
  BY DEF IInv, TypeOK, Ready, Others, Gone, Threads
<1>c. TPThreads \subseteq Threads /\ MCThreads \subseteq Threads
  BY DEF Threads
<1> USE DEF Goto, Started, startVars, workVars, boundVars, Gone, Others, Early, Uncounted,
        ThreadPCs, MainPCs, Starting, Policy
<1>1. CASE Construct
  <2>1. pc' = [pc EXCEPT ![Main] = "launch"] /\ \A x \in Others : pc[x] = "none"
    BY <1>1 DEF Construct, Goto, IInv, Ready, Gone
  <2>2. /\ Remaining(TPThreads, Early)' = TPThreads
        /\ Remaining(MCThreads, Early)' = MCThreads
        /\ Remaining(Threads, Uncounted)' = Threads
    BY <1>b, <1>c, <2>1 DEF Remaining, Early, Uncounted, Others
  <2>3. QED
    BY <1>1, <2>2 DEF Construct, CountsExact
<1>2. ASSUME NEW x \in Threads, Launch(x) PROVE CountsExact'
  <2>1. /\ Same(TPThreads, Early) /\ Same(MCThreads, Early) /\ Same(Threads, Uncounted)
        /\ UNCHANGED <<tpcount, mccount, fullcount>> /\ pc[Main] \notin Gone
    BY <1>2, <1>b, <1>c DEF Launch, Remaining
  <2>2. QED
    BY <1>a, <2>1
<1>3. CASE Launched
  <2>1. /\ Same(TPThreads, Early) /\ Same(MCThreads, Early) /\ Same(Threads, Uncounted)
        /\ UNCHANGED <<tpcount, mccount, fullcount>> /\ pc[Main] \notin Gone
    BY <1>3, <1>b, <1>c DEF Launched, Remaining
  <2>2. QED
    BY <1>a, <2>1
<1>4. ASSUME NEW x \in Threads, Create(x) PROVE CountsExact'
  <2>1. /\ Same(TPThreads, Early) /\ Same(MCThreads, Early) /\ Same(Threads, Uncounted)
        /\ UNCHANGED <<tpcount, mccount, fullcount>> /\ pc[Main] \notin Gone
    BY <1>4, <1>b, <1>c DEF Create, Remaining
  <2>2. QED
    BY <1>a, <2>1
<1>5. ASSUME NEW x \in Threads, Register(x) PROVE CountsExact'
  <2>1. /\ Same(TPThreads, Early) /\ Same(MCThreads, Early) /\ Same(Threads, Uncounted)
        /\ UNCHANGED <<tpcount, mccount, fullcount>> /\ pc[Main] \notin Gone
    BY <1>5, <1>b, <1>c DEF Register, Remaining
  <2>2. QED
    BY <1>a, <2>1
<1>6. ASSUME NEW x \in Threads, Count(x) PROVE CountsExact'
  <2>1. Same(Threads, Uncounted) /\ fullcount' = fullcount
    BY <1>6, <1>b DEF Count, Remaining
  <2>2. pc[Main] \notin Gone
    BY <1>6, <1>b DEF Count
  <2>3. QED
    BY <1>6, <2>1, <2>2, CountedKind DEF IInv, CountsExact
<1>7. CASE LinkTPSched
  <2>1. /\ Same(TPThreads, Early) /\ Same(MCThreads, Early) /\ Same(Threads, Uncounted)
        /\ UNCHANGED <<tpcount, mccount, fullcount>> /\ pc[Main] \notin Gone
    BY <1>7, <1>b, <1>c DEF LinkTPSched, Remaining
  <2>2. QED
    BY <1>a, <2>1
<1>8. CASE LinkMCSched
  <2>1. /\ Same(TPThreads, Early) /\ Same(MCThreads, Early) /\ Same(Threads, Uncounted)
        /\ UNCHANGED <<tpcount, mccount, fullcount>> /\ pc[Main] \notin Gone
    BY <1>8, <1>b, <1>c DEF LinkMCSched, Remaining
  <2>2. QED
    BY <1>a, <2>1
<1>9. ASSUME NEW x \in Threads, CountAll(x) PROVE CountsExact'
  <2>1. Same(TPThreads, Early) /\ Same(MCThreads, Early) /\ UNCHANGED <<tpcount, mccount>>
    BY <1>9, <1>b, <1>c DEF CountAll, Remaining
  <2>2. pc[Main] \notin Gone
    BY <1>9, <1>b DEF CountAll, Gone
  <2>3. QED
    BY <1>9, <2>1, <2>2, CountedAll DEF IInv, CountsExact
<1>10. ASSUME NEW x \in Threads, ClearSpin(x) PROVE CountsExact'
  <2>1. /\ Same(TPThreads, Early) /\ Same(MCThreads, Early) /\ Same(Threads, Uncounted)
        /\ UNCHANGED <<tpcount, mccount, fullcount>> /\ pc[Main] \notin Gone
    BY <1>10, <1>b, <1>c DEF ClearSpin, Remaining
  <2>2. QED
    BY <1>a, <2>1
<1>11. ASSUME NEW x \in Threads, Spin(x) PROVE CountsExact'
  <2>1. /\ Same(TPThreads, Early) /\ Same(MCThreads, Early) /\ Same(Threads, Uncounted)
        /\ UNCHANGED <<tpcount, mccount, fullcount>> /\ pc[Main] \notin Gone
    BY <1>11, <1>b, <1>c DEF Spin, Remaining
  <2>2. QED
    BY <1>a, <2>1
<1>12. CASE Run
  <2>1. /\ Same(TPThreads, Early) /\ Same(MCThreads, Early) /\ Same(Threads, Uncounted)
        /\ UNCHANGED <<tpcount, mccount, fullcount>> /\ pc[Main] \notin Gone
    BY <1>12, <1>b, <1>c DEF Run, Remaining
  <2>2. QED
    BY <1>a, <2>1
<1>13. CASE PushTP
  <2>1. /\ Same(TPThreads, Early) /\ Same(MCThreads, Early) /\ Same(Threads, Uncounted)
        /\ UNCHANGED <<tpcount, mccount, fullcount>> /\ pc[Main] \notin Gone
    BY <1>13, <1>b, <1>c DEF PushTP, Remaining
  <2>2. QED
    BY <1>a, <2>1
<1>14. ASSUME NEW x \in Threads, Top(x) PROVE CountsExact'
  <2>1. /\ Same(TPThreads, Early) /\ Same(MCThreads, Early) /\ Same(Threads, Uncounted)
        /\ UNCHANGED <<tpcount, mccount, fullcount>> /\ pc[Main] \notin Gone
    BY <1>14, <1>b, <1>c DEF Top, Remaining
  <2>2. QED
    BY <1>a, <2>1
<1>15. ASSUME NEW x \in Threads, FindTP(x) PROVE CountsExact'
  <2>1. /\ Same(TPThreads, Early) /\ Same(MCThreads, Early) /\ Same(Threads, Uncounted)
        /\ UNCHANGED <<tpcount, mccount, fullcount>> /\ pc[Main] \notin Gone
    BY <1>15, <1>b, <1>c DEF FindTP, Remaining
  <2>2. QED
    BY <1>a, <2>1
<1>16. ASSUME NEW x \in Threads, NoTP(x) PROVE CountsExact'
  <2>1. /\ Same(TPThreads, Early) /\ Same(MCThreads, Early) /\ Same(Threads, Uncounted)
        /\ UNCHANGED <<tpcount, mccount, fullcount>> /\ pc[Main] \notin Gone
    BY <1>16, <1>b, <1>c DEF NoTP, Remaining
  <2>2. QED
    BY <1>a, <2>1
<1>17. ASSUME NEW x \in Threads, PopCodelet(x) PROVE CountsExact'
  <2>1. /\ Same(TPThreads, Early) /\ Same(MCThreads, Early) /\ Same(Threads, Uncounted)
        /\ UNCHANGED <<tpcount, mccount, fullcount>> /\ pc[Main] \notin Gone
    BY <1>17, <1>b, <1>c DEF PopCodelet, Remaining
  <2>2. QED
    BY <1>a, <2>1
<1>18. ASSUME NEW x \in Threads, Signal(x) PROVE CountsExact'
  <2>1. /\ Same(TPThreads, Early) /\ Same(MCThreads, Early) /\ Same(Threads, Uncounted)
        /\ UNCHANGED <<tpcount, mccount, fullcount>> /\ pc[Main] \notin Gone
    BY <1>18, <1>b, <1>c DEF Signal, Remaining
  <2>2. QED
    BY <1>a, <2>1
<1>19. CASE Destroy
  <2>1. /\ Same(TPThreads, Early) /\ Same(MCThreads, Early) /\ Same(Threads, Uncounted)
        /\ UNCHANGED <<tpcount, mccount, fullcount>> /\ pc[Main] \notin Gone
    BY <1>19, <1>b, <1>c DEF Destroy, Remaining
  <2>2. QED
    BY <1>a, <2>1
<1>20. ASSUME NEW x \in Threads, Kill(x) PROVE CountsExact'
  <2>1. /\ Same(TPThreads, Early) /\ Same(MCThreads, Early) /\ Same(Threads, Uncounted)
        /\ UNCHANGED <<tpcount, mccount, fullcount>> /\ pc[Main] \notin Gone
    BY <1>20, <1>b, <1>c DEF Kill, Remaining
  <2>2. QED
    BY <1>a, <2>1
<1>21. CASE Killed
  <2>1. /\ Same(TPThreads, Early) /\ Same(MCThreads, Early) /\ Same(Threads, Uncounted)
        /\ UNCHANGED <<tpcount, mccount, fullcount>> /\ pc[Main] \notin Gone
    BY <1>21, <1>b, <1>c DEF Killed, Remaining
  <2>2. QED
    BY <1>a, <2>1
<1>22. CASE Join
  <2>1. pc'[Main] \in Gone
    BY <1>22, <1>b DEF Join, Goto, Gone
  <2>2. QED
    BY <2>1 DEF CountsExact
<1>23. CASE Delete
  <2>1. pc'[Main] \in Gone
    BY <1>23, <1>b DEF Delete, Goto, Gone
  <2>2. QED
    BY <2>1 DEF CountsExact
<1>24. CASE UNCHANGED vars
  BY <1>24 DEF vars, startVars, IInv, CountsExact, Remaining
<1>25. QED
  BY <1>1, <1>2, <1>3, <1>4, <1>5, <1>6, <1>7, <1>8, <1>9, <1>10, <1>11, <1>12, <1>13,
       <1>14, <1>15, <1>16, <1>17, <1>18, <1>19, <1>20, <1>21, <1>22, <1>23, <1>24 DEF
       Next, Thread, Client, Decide

(* No Runtime was constructed yet.                                         *)
LEMMA InitInv == Init => IInv
<1> SUFFICES ASSUME Init PROVE IInv
  OBVIOUS
<1>1. Main \in Threads /\ Main \notin MCThreads /\ pc[Main] = "out"
  BY DEF Init, Threads
<1>2. TypeOK
  <2>1. /\ pc \in [Threads -> ThreadPCs \cup MainPCs] /\ pc[Main] \in MainPCs
        /\ \A x \in Others : pc[x] = "none"
    BY <1>1 DEF Init, ThreadPCs, MainPCs, Others
  <2>2. \A x \in MCThreads : x \in Others
    BY DEF Others, Threads
  <2>3. alive \in [Threads -> BOOLEAN]
    BY DEF Init
  <2>4. lives \in 0 .. MaxLives /\ runs \in 0 .. MaxRuns
    BY DEF Init
  <2>5. QED
    BY <2>1, <2>2, <2>3, <2>4 DEF Init, TypeOK, Others, ThreadPCs
<1>3. CountsExact /\ OneProgram
  BY <1>1 DEF Init, CountsExact, OneProgram, Gone, Policy
<1>4. Ready
  BY <1>1 DEF Init, Ready, Remaining, Others, Gone, Running, Policy
<1>5. QED
  BY <1>2, <1>3, <1>4 DEF IInv

(* The counters are exact, what they guard is there, and a program is in   *)
(* one place.                                                              *)
THEOREM Invariance == Spec => []IInv
<1>1. IInv /\ [Next]_vars => IInv'
  BY TypeStep, CountsStep, ReadyStep, ProgramStep DEF IInv
<1>2. QED
  BY <1>1, InitInv, PTL DEF Spec

(* Start-up handshake and shutdown: whatever a policy may follow is there. *)
THEOREM PoliciesAreReady == Spec => []PolicyReady
<1>1. IInv => PolicyReady
  BY DEF IInv, TypeOK, Ready, PolicyReady, Remaining, Others, Early, Uncounted, Running,
       Gone, Threads, ThreadPCs, MainPCs, Starting, Policy
<1>2. QED
  BY <1>1, Invariance, PTL

(* A signal of finalSignal reaches every scheduler.                        *)
THEOREM SignalsAreReady == Spec => []SignalReady
<1>1. IInv => SignalReady
  BY DEF IInv, TypeOK, Ready, OneProgram, SignalReady, Remaining, Others, Early, Running,
       Threads, ThreadPCs, MainPCs, Starting, Policy
<1>2. QED
  BY <1>1, Invariance, PTL

(* run returns when its program is done and not before.                    *)
THEOREM RunsComplete == Spec => RunsToCompletion
<1>1. IInv /\ [Next]_vars => [pc[Main] = "top" /\ pc'[Main] = "user" => job = "done"]_vars
  <2> SUFFICES ASSUME IInv, [Next]_vars, pc[Main] = "top", pc'[Main] = "user"
               PROVE  job = "done"
    OBVIOUS
  <2>1. ~ alive[Main]
    <3>1. PICK x \in Threads : Top(x)
      BY DEF IInv, TypeOK, Next, Thread, Client, Decide, vars, startVars, Construct,
           Launch, Launched, Create, Register, Count, LinkTPSched, LinkMCSched, CountAll,
           ClearSpin, Spin, Run, PushTP, FindTP, NoTP, PopCodelet, Signal, Destroy, Kill,
           Killed, Join, Delete, Goto, Started, Threads
    <3>2. QED
      BY <3>1 DEF IInv, TypeOK, Top, Goto, Threads
  <2>2. QED
    BY <2>1 DEF IInv, TypeOK, OneProgram, Policy
<1>2. QED
  BY <1>1, Invariance, PTL DEF Spec, RunsToCompletion
=============================================================================
