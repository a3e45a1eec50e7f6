------------------------------ MODULE Runtime ------------------------------
(***************************************************************************)
(* Life of a Runtime object: the constructor starts the threads and links  *)
(* their schedulers once three counters say that these exist, run executes *)
(* a program on the waiting machine until the program's last codelet       *)
(* signals finalSignal, the destructor stops and joins the threads.  A     *)
(* client may run several programs on one Runtime, and construct and       *)
(* destroy several Runtimes one after the other (apps/Runtime does).       *)
(*                                                                         *)
(* The policies are TPDynamic and MicroDynamic; a program is a closure     *)
(* whose TP has one codelet, which signals finalSignal when it is fired.   *)
(***************************************************************************)
EXTENDS Integers, FiniteSets

CONSTANTS
  TPThreads, \* threads of TP schedulers
  MCThreads, \* threads of micro schedulers
  Main,      \* the client's thread, which is also that of TP scheduler 0
  Home,      \* the TP scheduler of the cluster of a micro scheduler
  MaxLives,  \* bound: Runtimes constructed
  MaxRuns    \* bound: calls of run on a Runtime

ASSUME ThreadsAssumption ==
  /\ IsFiniteSet(TPThreads) /\ IsFiniteSet(MCThreads)
  /\ TPThreads \cap MCThreads = {}
  /\ Main \in TPThreads
  /\ Home \in [MCThreads -> TPThreads]

ASSUME BoundsAssumption == MaxLives \in Nat /\ MaxRuns \in Nat

Threads == TPThreads \cup MCThreads

VARIABLES
  pc,        \* what each thread is doing
  created,   \* schedulers that exist
  aliveSig,  \* threads registered in finalSignal.aliveSig
  terminate, \* finalSignal.terminate
  alive,     \* alive_ of each scheduler
  linked,    \* which of linkTPSched ("peers"), linkMCSched ("workers") are done
  tpcount, mccount, fullcount, spin,
  job,       \* the program: its closure, its codelet, or where it got to
  at,        \* the TP scheduler whose pool holds it
  lives, runs

startVars == <<created, aliveSig, linked, tpcount, mccount, fullcount, spin>>
workVars == <<job, at>>
boundVars == <<lives, runs>>
vars == <<pc, terminate, alive, startVars, workVars, boundVars>>

Starting == {"create", "register", "count", "countAll", "clear"}
Policy == {"top", "scan", "drain", "fire"}
ThreadPCs == Starting \cup Policy \cup {"none", "spin", "exit"}
MainPCs == Starting \cup Policy \cup
  {"out", "launch", "waitTP", "waitMC", "user", "push", "kill", "join", "delete"}

TypeOK ==
  /\ pc \in [Threads -> ThreadPCs \cup MainPCs]
  /\ pc[Main] \in MainPCs /\ \A x \in Threads \ {Main} : pc[x] \in ThreadPCs
  /\ \A x \in MCThreads : pc[x] # "scan"
  /\ created \subseteq Threads /\ aliveSig \subseteq Threads
  /\ terminate \in BOOLEAN /\ spin \in BOOLEAN
  /\ alive \in [Threads -> BOOLEAN]
  /\ linked \subseteq {"peers", "workers"}
  /\ tpcount \in Nat /\ mccount \in Nat /\ fullcount \in Nat
  /\ job \in {"none", "closure", "codelet", "held", "done"} /\ at \in TPThreads
  /\ lives \in 0 .. MaxLives /\ runs \in 0 .. MaxRuns

Init ==
  /\ pc = [x \in Threads |-> IF x = Main THEN "out" ELSE "none"]
  /\ created = {} /\ aliveSig = {} /\ terminate = TRUE
  /\ alive = [x \in Threads |-> FALSE]
  /\ linked = {}
  /\ tpcount = 0 /\ mccount = 0 /\ fullcount = 0 /\ spin = FALSE
  /\ job = "none" /\ at = Main
  /\ lives = 0 /\ runs = 0

Goto(x, l) == pc' = [pc EXCEPT ![x] = l]

-----------------------------------------------------------------------------
(* The constructor, and the threads it starts.                             *)

(* Mutant of Construct: fullcount_ does not count the client's thread.     *)
ConstructWithoutMain ==
  /\ pc[Main] = "out" /\ lives < MaxLives
  /\ lives' = lives + 1 /\ runs' = 0
  /\ tpcount' = Cardinality(TPThreads)
  /\ mccount' = Cardinality(MCThreads)
  /\ fullcount' = Cardinality(Threads \ {Main})
  /\ spin' = TRUE /\ terminate' = FALSE
  /\ aliveSig' = {}
  /\ job' = "none" /\ at' = Main
  /\ Goto(Main, "launch")
  /\ UNCHANGED <<created, alive, linked>>

(* Counters, setNumThreads and setTerminate(false).                        *)
Construct ==
  /\ pc[Main] = "out" /\ lives < MaxLives
  /\ lives' = lives + 1 /\ runs' = 0
  /\ tpcount' = Cardinality(TPThreads)
  /\ mccount' = Cardinality(MCThreads)
  /\ fullcount' = Cardinality(Threads)
  /\ spin' = TRUE /\ terminate' = FALSE
  /\ aliveSig' = {}
  /\ job' = "none" /\ at' = Main
  /\ Goto(Main, "launch")
  /\ UNCHANGED <<created, alive, linked>>

(* localThreads_[i].run() for every thread but the client's.               *)
Launch(x) ==
  /\ pc[Main] = "launch" /\ x # Main /\ pc[x] = "none"
  /\ Goto(x, "create")
  /\ UNCHANGED <<terminate, alive, startVars, workVars, boundVars>>

Launched ==
  /\ pc[Main] = "launch" /\ \A x \in Threads \ {Main} : pc[x] # "none"
  /\ Goto(Main, "create")
  /\ UNCHANGED <<terminate, alive, startVars, workVars, boundVars>>

(* newTPSched or newMCSched, setID and setNumPeers.                        *)
Create(x) ==
  /\ pc[x] = "create"
  /\ created' = created \cup {x}
  /\ alive' = [alive EXCEPT ![x] = TRUE]
  /\ Goto(x, "register")
  /\ UNCHANGED <<terminate, aliveSig, linked, tpcount, mccount, fullcount, spin,
                 workVars, boundVars>>

(* Mutant of Register: micro schedulers are not registered.                *)
RegisterTPs(x) ==
  /\ pc[x] = "register"
  /\ aliveSig' = aliveSig \cup ({x} \cap TPThreads)
  /\ Goto(x, "count")
  /\ UNCHANGED <<terminate, alive, created, linked, tpcount, mccount, fullcount,
                 spin, workVars, boundVars>>

(* finalSignal.addAliveSignal.                                             *)
Register(x) ==
  /\ pc[x] = "register"
  /\ aliveSig' = aliveSig \cup {x}
  /\ Goto(x, "count")
  /\ UNCHANGED <<terminate, alive, created, linked, tpcount, mccount, fullcount,
                 spin, workVars, boundVars>>

(* Mutant of Count: every thread calls decTP.                              *)
CountTP(x) ==
  /\ pc[x] = "count"
  /\ tpcount' = tpcount - 1
  /\ Goto(x, IF x = Main THEN "waitTP" ELSE "countAll")
  /\ UNCHANGED <<terminate, alive, created, aliveSig, linked, mccount, fullcount,
                 spin, workVars, boundVars>>

(* decTP or decMC.                                                         *)
Count(x) ==
  /\ pc[x] = "count"
  /\ tpcount' = tpcount - (IF x \in TPThreads THEN 1 ELSE 0)
  /\ mccount' = mccount - (IF x \in MCThreads THEN 1 ELSE 0)
  /\ Goto(x, IF x = Main THEN "waitTP" ELSE "countAll")
  /\ UNCHANGED <<terminate, alive, created, aliveSig, linked, fullcount, spin,
                 workVars, boundVars>>

(* while(checkTP()); linkTPSched().                                        *)
LinkTPSched ==
  /\ pc[Main] = "waitTP" /\ tpcount = 0
  /\ linked' = linked \cup {"peers"}
  /\ Goto(Main, "waitMC")
  /\ UNCHANGED <<terminate, alive, created, aliveSig, tpcount, mccount, fullcount,
                 spin, workVars, boundVars>>

(* while(checkMC()); linkMCSched().                                        *)
LinkMCSched ==
  /\ pc[Main] = "waitMC" /\ mccount = 0
  /\ linked' = linked \cup {"workers"}
  /\ Goto(Main, "countAll")
  /\ UNCHANGED <<terminate, alive, created, aliveSig, tpcount, mccount, fullcount,
                 spin, workVars, boundVars>>

Started(x) == IF x = Main THEN "user" ELSE "spin"

(* decFull: the fetchSub, and the store of the thread that was last.       *)
CountAll(x) ==
  /\ pc[x] = "countAll"
  /\ fullcount' = fullcount - 1
  /\ Goto(x, IF fullcount = 1 THEN "clear" ELSE Started(x))
  /\ UNCHANGED <<terminate, alive, created, aliveSig, linked, tpcount, mccount,
                 spin, workVars, boundVars>>

ClearSpin(x) ==
  /\ pc[x] = "clear"
  /\ spin' = FALSE
  /\ Goto(x, Started(x))
  /\ UNCHANGED <<terminate, alive, created, aliveSig, linked, tpcount, mccount,
                 fullcount, workVars, boundVars>>

(* while(spin_); and on to policy.                                         *)
Spin(x) ==
  /\ pc[x] = "spin" /\ ~ spin
  /\ Goto(x, "top")
  /\ UNCHANGED <<terminate, alive, startVars, workVars, boundVars>>

-----------------------------------------------------------------------------
(* Running programs.                                                       *)

(* Mutant of Run: TP scheduler 0 is not resurrected.                       *)
RunDead ==
  /\ pc[Main] = "user" /\ runs < MaxRuns
  /\ runs' = runs + 1
  /\ Goto(Main, "push")
  /\ UNCHANGED <<terminate, alive, startVars, workVars, lives>>

(* run: finalSignal is reset and TP scheduler 0 resurrected ...            *)
Run ==
  /\ pc[Main] = "user" /\ runs < MaxRuns
  /\ runs' = runs + 1
  /\ alive' = [alive EXCEPT ![Main] = TRUE]
  /\ Goto(Main, "push")
  /\ UNCHANGED <<terminate, startVars, workVars, lives>>

(* ... before the closure is there to be stolen.                           *)
PushTP ==
  /\ pc[Main] = "push"
  /\ job' = "closure" /\ at' = Main
  /\ Goto(Main, "top")
  /\ UNCHANGED <<terminate, alive, startVars, boundVars>>

(* while(alive()) of a policy; run returns to the client, a thread ends.   *)
Top(x) ==
  /\ pc[x] = "top"
  /\ Goto(x, IF alive[x] THEN (IF x \in TPThreads THEN "scan" ELSE "drain")
             ELSE IF x = Main THEN "user" ELSE "exit")
  /\ UNCHANGED <<terminate, alive, startVars, workVars, boundVars>>

(* popTP of the own pool, else steal from the peer that rand() names; the  *)
(* closure is built and its codelet goes to the thief's pool.              *)
FindTP(x) ==
  /\ pc[x] = "scan" /\ job = "closure"
  /\ job' = "codelet" /\ at' = x
  /\ Goto(x, "drain")
  /\ UNCHANGED <<terminate, alive, startVars, boundVars>>

NoTP(x) ==
  /\ pc[x] = "scan" /\ ~ (job = "closure" /\ at = x)
  /\ Goto(x, "drain")
  /\ UNCHANGED <<terminate, alive, startVars, workVars, boundVars>>

(* popCodelet of the cluster's pool.                                       *)
PoolOf(x) == IF x \in MCThreads THEN Home[x] ELSE x

PopCodelet(x) ==
  /\ pc[x] = "drain"
  /\ IF job = "codelet" /\ at = PoolOf(x)
     THEN job' = "held" /\ Goto(x, "fire")
     ELSE UNCHANGED job /\ Goto(x, "top")
  /\ UNCHANGED <<terminate, alive, startVars, at, boundVars>>

(* Mutant of Signal: the scheduler of the signalling thread is killed.     *)
SignalSelf(x) ==
  /\ pc[x] = "fire" /\ ~ terminate
  /\ job' = "done"
  /\ alive' = [alive EXCEPT ![x] = FALSE]
  /\ Goto(x, "drain")
  /\ UNCHANGED <<terminate, startVars, at, boundVars>>

(* The last codelet calls finalSignal.decDep, which is not terminating:    *)
(* only TP scheduler 0 is killed.                                          *)
Signal(x) ==
  /\ pc[x] = "fire" /\ ~ terminate
  /\ job' = "done"
  /\ alive' = [alive EXCEPT ![Main] = FALSE]
  /\ Goto(x, "drain")
  /\ UNCHANGED <<terminate, startVars, at, boundVars>>

-----------------------------------------------------------------------------
(* The destructor.                                                         *)

(* setTerminate(true); the client is between two calls of run.             *)
Destroy ==
  /\ pc[Main] = "user" /\ ~ terminate
  /\ terminate' = TRUE
  /\ Goto(Main, "kill")
  /\ UNCHANGED <<alive, startVars, workVars, boundVars>>

(* finalSignal.decDep, terminating: every scheduler is killed, one after   *)
(* the other, then the table of them is deleted.                           *)
Kill(x) ==
  /\ pc[Main] = "kill" /\ x \in aliveSig /\ alive[x]
  /\ alive' = [alive EXCEPT ![x] = FALSE]
  /\ UNCHANGED <<pc, terminate, startVars, workVars, boundVars>>

Killed ==
  /\ pc[Main] = "kill" /\ \A x \in aliveSig : ~ alive[x]
  /\ aliveSig' = {}
  /\ Goto(Main, "join")
  /\ UNCHANGED <<terminate, alive, created, linked, tpcount, mccount, fullcount,
                 spin, workVars, boundVars>>

(* localThreads_[i].join() for every thread but the client's.              *)
Join ==
  /\ pc[Main] = "join" /\ \A x \in Threads \ {Main} : pc[x] = "exit"
  /\ pc' = [x \in Threads |-> IF x = Main THEN "delete" ELSE "none"]
  /\ UNCHANGED <<terminate, alive, startVars, workVars, boundVars>>

(* The schedulers and the arrays of links are deleted.                     *)
Delete ==
  /\ pc[Main] = "delete"
  /\ created' = {} /\ linked' = {}
  /\ Goto(Main, "out")
  /\ UNCHANGED <<terminate, alive, aliveSig, tpcount, mccount, fullcount, spin,
                 workVars, boundVars>>

-----------------------------------------------------------------------------
Thread(x) ==
  \/ Create(x) \/ Register(x) \/ Count(x) \/ CountAll(x) \/ ClearSpin(x) \/ Spin(x)
  \/ Top(x) \/ FindTP(x) \/ NoTP(x) \/ PopCodelet(x) \/ Signal(x)

Client ==
  \/ \E x \in Threads : Launch(x) \/ Kill(x)
  \/ Launched \/ LinkTPSched \/ LinkMCSched \/ PushTP \/ Killed \/ Join \/ Delete

Decide == Construct \/ Run \/ Destroy

Next == (\E x \in Threads : Thread(x)) \/ Client \/ Decide

(* The operating system runs every thread; what the client does next is    *)
(* its own business.                                                       *)
Fairness == (\A x \in Threads : WF_vars(Thread(x))) /\ WF_vars(Client)

Spec == Init /\ [][Next]_vars /\ Fairness

-----------------------------------------------------------------------------
(* What start-up and shutdown rest on.                                     *)

Others == Threads \ {Main}

(* How far the start of a thread is: not counted by its kind, not counted  *)
(* at all, and what the client does once everything is linked.             *)
Early == {"none", "launch", "create", "register", "count"}
Uncounted == Early \cup {"waitTP", "waitMC", "countAll"}
Running == Policy \cup {"countAll", "clear", "user", "push", "kill", "join"}
Gone == {"out", "delete"}

Remaining(S, places) == {x \in S : pc[x] \in places}

(* The counters are the threads still to come.                             *)
CountsExact ==
  pc[Main] \notin Gone =>
    /\ tpcount = Cardinality(Remaining(TPThreads, Early))
    /\ mccount = Cardinality(Remaining(MCThreads, Early))
    /\ fullcount = Cardinality(Remaining(Threads, Uncounted))

(* What a thread can rely on at each point of its own start and the        *)
(* client's.                                                               *)
Ready ==
  /\ pc[Main] \in Gone => \A x \in Others : pc[x] = "none"
  /\ \A x \in Threads : pc[x] \notin {"out", "none", "launch", "create"} => x \in created
  /\ \A x \in Threads :
       pc[x] \notin {"out", "none", "launch", "create", "register"}
         /\ pc[Main] \notin {"join", "delete"} => x \in aliveSig
  /\ pc[Main] = "waitMC" => "peers" \in linked /\ Remaining(TPThreads, Early) = {}
  /\ pc[Main] \in Running =>
       linked = {"peers", "workers"} /\ Remaining(Threads, Early) = {}
  /\ pc[Main] \notin Gone /\ (~ spin \/ \E x \in Threads : pc[x] = "clear") =>
       Remaining(Threads, Uncounted) = {}
  /\ \A x \in Others : pc[x] \in Policy \cup {"exit"} => ~ spin

(* A program is in one place, and the client waits for it as long as it is *)
(* not done.                                                               *)
OneProgram ==
  /\ \A x \in Threads : pc[x] = "fire" =>
       job = "held" /\ \A y \in Threads : pc[y] = "fire" => y = x
  /\ job \in {"closure", "codelet", "held"} => pc[Main] \in Policy /\ alive[Main]
  /\ pc[Main] = "push" => alive[Main]
  /\ pc[Main] \in Policy => job # "none"

(* The inductive invariant, of which the three properties below follow.    *)
IInv == TypeOK /\ CountsExact /\ Ready /\ OneProgram

(* Start-up handshake and shutdown: a thread that executes a policy may    *)
(* follow any peer, parent or child pointer; every scheduler exists and    *)
(* the pointers were set before the first and until the last such thread.  *)
PolicyReady ==
  (\E x \in Threads : pc[x] \in Policy) =>
    created = Threads /\ linked = {"peers", "workers"}

(* finalSignal can reach every scheduler whenever it may be signalled: by  *)
(* the last codelet, by the destructor.                                    *)
SignalReady ==
  pc[Main] \in {"user", "push", "kill"} \/ (\E x \in Threads : pc[x] = "fire")
    => aliveSig = Threads

(* run returns to the client only when the program it was given is done,   *)
(* however late a thread notices that an earlier program was.              *)
RunsToCompletion ==
  [][pc[Main] = "top" /\ pc'[Main] = "user" => job = "done"]_vars

(* The constructor returns, run returns, and the destructor does.          *)
CallsReturn ==
  /\ (pc[Main] = "launch") ~> (pc[Main] = "user")
  /\ (pc[Main] = "push") ~> (pc[Main] = "user")
  /\ (pc[Main] = "kill") ~> (pc[Main] = "out")
=============================================================================
