------------------------------- MODULE Loops -------------------------------
(***************************************************************************)
(* The three loop codelets.  A loop codelet is fired once to start a round *)
(* and again by the signals of its iterations:                             *)
(*   paraFor     invokes every iteration as a TP of its own;               *)
(*   codeletFor  places all iterations in an array that it has allocated;  *)
(*   serialFor   places one iteration after the other in the same memory.  *)
(* A placed iteration is its own parent, which nobody counts: the loop     *)
(* codelet counts its own TP up for as long as a round lasts.              *)
(*                                                                         *)
(* The TP of the loop has one more codelet, cont, that the loop signals    *)
(* and that starts the next round.  An iteration adds one codelet, which   *)
(* signals the loop codelet and does nothing after that.                   *)
(* Queues are abstracted as in TPLifetime, and the steps of decDep are one *)
(* here: the frame of the loop is counted throughout.                      *)
(***************************************************************************)
EXTENDS Integers, FiniteSets

CONSTANTS
  Threads,   \* threads that fire codelets
  TPThreads, \* threads that also build TPs
  Programs   \* <<kind of loop, number of iterations, rounds>>

ASSUME ProgramsAssumption ==
  /\ IsFiniteSet(Threads) /\ TPThreads \subseteq Threads
  /\ Programs \subseteq {"para", "codelet", "serial"} \X (Nat \ {0}) \X (Nat \ {0})

VARIABLES
  kind, iterations, rounds, \* the program
  counter,    \* counter_ of the loop codelet; its Dep and Res are 1
  fired, cur, \* fired (paraFor, codeletFor) and curIterations_ (serialFor)
  outer,      \* the TP of the loop: "live" or "deleted"
  outerRef,   \* its ref_
  frame,      \* the iteration in each piece of memory, -1 when there is none
  ref,        \* ref_ of that iteration
  freed,      \* a factory deleted memory that belongs to the loop
  queue,      \* what was pushed: codelets and closures, with their iteration
  pc, arg,    \* what a thread does, and for which iteration
  done, round \* history: iterations that have signalled; rounds that ended

program == <<kind, iterations, rounds>>
loopVars == <<counter, fired, cur>>
outerVars == <<outer, outerRef>>
threadVars == <<pc, arg>>
history == <<done, round>>
vars == <<program, loopVars, outerVars, frame, ref, freed, queue, threadVars, history>>

Iter == 0 .. iterations - 1
Placed == kind # "para"

(* Iterations are numbered through the rounds when each has memory of its  *)
(* own (paraFor), and within a round when it has not.                      *)
Numbers == 0 .. iterations * rounds - 1
Index(n) == n % iterations

(* Where an iteration is: in memory of its own, in loop_[i], or in loop_.  *)
Cell(n) == IF kind = "serial" THEN 0 ELSE n

PCs == {"idle", "loop", "cont", "build", "body", "spawn", "add", "release",
        "signal", "leave", "drop", "destroy"}

TypeOK ==
  /\ program \in Programs
  /\ counter \in Nat /\ fired \in BOOLEAN /\ cur \in 0 .. iterations
  /\ outer \in {"live", "deleted"} /\ outerRef \in Nat
  /\ frame \in [Numbers -> Numbers \cup {-1}] /\ ref \in [Numbers -> Nat]
  /\ freed \in BOOLEAN
  /\ queue \subseteq {"loop", "cont", "build", "body"} \X Numbers
  /\ pc \in [Threads -> PCs] /\ arg \in [Threads -> Nat]
  /\ done \subseteq Iter /\ round \in 0 .. rounds

(* The constructor of the TP has added the loop codelet.                   *)
Init ==
  /\ \E p \in Programs : kind = p[1] /\ iterations = p[2] /\ rounds = p[3]
  /\ counter = 0 /\ fired = FALSE /\ cur = 0
  /\ outer = "live" /\ outerRef = 1
  /\ frame = [n \in Numbers |-> -1] /\ ref = [n \in Numbers |-> 0]
  /\ freed = FALSE
  /\ queue = {<<"loop", 0>>}
  /\ pc = [t \in Threads |-> "idle"] /\ arg = [t \in Threads |-> 0]
  /\ done = {} /\ round = 0

Goto(t, l, i) == pc' = [pc EXCEPT ![t] = l] /\ arg' = [arg EXCEPT ![t] = i]

(* incRef of the TP of the loop, and push of one of its codelets.          *)
Enable(name) ==
  /\ outerRef' = outerRef + 1
  /\ queue' = queue \cup {<<name, 0>>}

(* decDep of the loop codelet.                                             *)
SignalLoop ==
  /\ counter' = counter - 1
  /\ IF counter = 1 THEN Enable("loop") ELSE UNCHANGED <<outerRef, queue>>

(* decRef of the TP of the loop, deleted with its last reference.          *)
ReleaseOuter ==
  /\ outerRef' = outerRef - 1
  /\ outer' = IF outerRef = 1 THEN "deleted" ELSE outer

(* A thread pops a codelet or, if it is a TP scheduler's, a closure.       *)
Take(t) ==
  /\ pc[t] = "idle"
  /\ \E a \in queue :
       /\ a[1] = "build" => t \in TPThreads
       /\ queue' = queue \ {a}
       /\ Goto(t, a[1], a[2])
  /\ UNCHANGED <<program, loopVars, outerVars, frame, ref, freed, history>>

-----------------------------------------------------------------------------
(* paraFor::fire.                                                          *)

(* Armed for the signals of all iterations before the first is pushed.     *)
ParaStart(t) ==
  /\ pc[t] = "loop" /\ kind = "para" /\ ~ fired
  /\ fired' = TRUE /\ counter' = iterations
  /\ Goto(t, "spawn", 0)
  /\ UNCHANGED <<program, cur, outerVars, frame, ref, freed, queue, history>>

(* Mutant of ParaSpawn: the iteration is not counted.                      *)
ParaSpawnUncounted(t) ==
  /\ pc[t] = "spawn"
  /\ queue' = queue \cup {<<"build", round * iterations + arg[t]>>}
  /\ IF arg[t] + 1 < iterations THEN Goto(t, "spawn", arg[t] + 1) ELSE Goto(t, "leave", 0)
  /\ UNCHANGED <<program, loopVars, outerVars, frame, ref, freed, history>>

(* The loop's TP is counted up for an iteration, whose closure is pushed.  *)
ParaSpawn(t) ==
  /\ pc[t] = "spawn"
  /\ outerRef' = outerRef + 1
  /\ queue' = queue \cup {<<"build", round * iterations + arg[t]>>}
  /\ IF arg[t] + 1 < iterations THEN Goto(t, "spawn", arg[t] + 1) ELSE Goto(t, "leave", 0)
  /\ UNCHANGED <<program, loopVars, outer, frame, ref, freed, history>>

ParaEnd(t) ==
  /\ pc[t] = "loop" /\ kind = "para" /\ fired
  /\ fired' = FALSE /\ counter' = 1
  /\ Goto(t, "signal", 0)
  /\ UNCHANGED <<program, cur, outerVars, frame, ref, freed, queue, history>>

-----------------------------------------------------------------------------
(* serialFor::fire.                                                        *)

(* The previous iteration is destroyed, the next will take its place.      *)
SerialNext(t) ==
  /\ pc[t] = "loop" /\ kind = "serial" /\ cur < iterations
  /\ outerRef' = IF cur = 0 THEN outerRef + 1 ELSE outerRef
  /\ frame' = [frame EXCEPT ![0] = -1]
  /\ cur' = cur + 1 /\ counter' = 1
  /\ Goto(t, "build", cur)
  /\ UNCHANGED <<program, fired, outer, ref, freed, queue, history>>

(* Mutant of SerialEnd: curIterations_ is not reset.                       *)
SerialEndKeepsCur(t) ==
  /\ pc[t] = "loop" /\ kind = "serial" /\ cur = iterations
  /\ outerRef' = outerRef - 1
  /\ frame' = [frame EXCEPT ![0] = -1]
  /\ counter' = 1
  /\ Goto(t, "signal", 0)
  /\ UNCHANGED <<program, fired, cur, outer, ref, freed, queue, history>>

(* The last was destroyed too; the result of decRef is ignored.            *)
SerialEnd(t) ==
  /\ pc[t] = "loop" /\ kind = "serial" /\ cur = iterations
  /\ outerRef' = outerRef - 1
  /\ frame' = [frame EXCEPT ![0] = -1]
  /\ cur' = 0 /\ counter' = 1
  /\ Goto(t, "signal", 0)
  /\ UNCHANGED <<program, fired, outer, ref, freed, queue, history>>

-----------------------------------------------------------------------------
(* codeletFor::fire.                                                       *)

(* Mutant of CodeletStart: the round is not counted.                       *)
CodeletStartUncounted(t) ==
  /\ pc[t] = "loop" /\ kind = "codelet" /\ ~ fired
  /\ fired' = TRUE /\ counter' = iterations
  /\ Goto(t, "build", 0)
  /\ UNCHANGED <<program, cur, outerVars, frame, ref, freed, queue, history>>

CodeletStart(t) ==
  /\ pc[t] = "loop" /\ kind = "codelet" /\ ~ fired
  /\ fired' = TRUE /\ counter' = iterations
  /\ outerRef' = outerRef + 1
  /\ Goto(t, "build", 0)
  /\ UNCHANGED <<program, cur, outer, frame, ref, freed, queue, history>>

(* All iterations are destroyed; the result of decRef is ignored.          *)
CodeletEnd(t) ==
  /\ pc[t] = "loop" /\ kind = "codelet" /\ fired
  /\ fired' = FALSE /\ counter' = 1
  /\ outerRef' = outerRef - 1
  /\ frame' = [n \in Numbers |-> -1]
  /\ Goto(t, "signal", 0)
  /\ UNCHANGED <<program, cur, outer, ref, freed, queue, history>>

-----------------------------------------------------------------------------
(* TPFactory of an iteration that was invoked, LPFactory of a placed one.  *)

(* The constructor of ThreadedProcedure.                                   *)
Build(t) ==
  /\ pc[t] = "build"
  /\ frame' = [frame EXCEPT ![Cell(arg[t])] = arg[t]]
  /\ ref' = [ref EXCEPT ![Cell(arg[t])] = 1]
  /\ Goto(t, "add", arg[t])
  /\ UNCHANGED <<program, loopVars, outerVars, freed, queue, history>>

(* Mutant of Add: the codelet is not counted.                              *)
AddUncounted(t) ==
  /\ pc[t] = "add"
  /\ queue' = queue \cup {<<"body", arg[t]>>}
  /\ Goto(t, "release", arg[t])
  /\ UNCHANGED <<program, loopVars, outerVars, frame, ref, freed, history>>

(* The constructor of the iteration adds its codelet.                      *)
Add(t) ==
  /\ pc[t] = "add"
  /\ ref' = [ref EXCEPT ![Cell(arg[t])] = @ + 1]
  /\ queue' = queue \cup {<<"body", arg[t]>>}
  /\ Goto(t, "release", arg[t])
  /\ UNCHANGED <<program, loopVars, outerVars, frame, freed, history>>

(* Mutant of Release: codeletFor stops one iteration early.                *)
ReleaseStopsEarly(t) ==
  /\ pc[t] = "release"
  /\ ref' = [ref EXCEPT ![Cell(arg[t])] = @ - 1]
  /\ LET last == ref[Cell(arg[t])] = 1 IN
     /\ freed' = (Placed /\ last)
     /\ IF Placed
        THEN IF kind = "codelet" /\ arg[t] + 2 < iterations
             THEN Goto(t, "build", arg[t] + 1) ELSE Goto(t, "leave", 0)
        ELSE IF last THEN Goto(t, "destroy", arg[t]) ELSE Goto(t, "idle", 0)
  /\ UNCHANGED <<program, loopVars, outerVars, frame, queue, history>>

(* The factory gives up its reference and deletes the iteration when it    *)
(* was the last; codeletFor goes on with the next iteration.               *)
Release(t) ==
  /\ pc[t] = "release"
  /\ ref' = [ref EXCEPT ![Cell(arg[t])] = @ - 1]
  /\ LET last == ref[Cell(arg[t])] = 1 IN
     /\ freed' = (Placed /\ last)
     /\ IF Placed
        THEN IF kind = "codelet" /\ arg[t] + 1 < iterations
             THEN Goto(t, "build", arg[t] + 1) ELSE Goto(t, "leave", 0)
        ELSE IF last THEN Goto(t, "destroy", arg[t]) ELSE Goto(t, "idle", 0)
  /\ UNCHANGED <<program, loopVars, outerVars, frame, queue, history>>

-----------------------------------------------------------------------------
(* The codelets, and what the scheduler does after fire.                   *)

(* The codelet of an iteration signals the loop codelet.  A placed         *)
(* iteration is not counted down.                                          *)
Body(t) ==
  /\ pc[t] = "body"
  /\ done' = done \cup {Index(arg[t])}
  /\ SignalLoop
  /\ IF Placed THEN Goto(t, "idle", 0) ELSE Goto(t, "drop", arg[t])
  /\ UNCHANGED <<program, fired, cur, outer, frame, ref, freed, round>>

Drop(t) ==
  /\ pc[t] = "drop"
  /\ ref' = [ref EXCEPT ![arg[t]] = @ - 1]
  /\ IF ref[arg[t]] = 1 THEN Goto(t, "destroy", arg[t]) ELSE Goto(t, "idle", 0)
  /\ UNCHANGED <<program, loopVars, outerVars, frame, freed, queue, history>>

(* ~ThreadedProcedure of an iteration that was invoked.                    *)
Destroy(t) ==
  /\ pc[t] = "destroy"
  /\ frame' = [frame EXCEPT ![arg[t]] = -1]
  /\ ReleaseOuter
  /\ Goto(t, "idle", 0)
  /\ UNCHANGED <<program, loopVars, ref, freed, queue, history>>

(* The loop codelet signals toSignal_.                                     *)
Signal(t) ==
  /\ pc[t] = "signal"
  /\ Enable("cont")
  /\ done' = {} /\ round' = round + 1
  /\ Goto(t, "leave", 0)
  /\ UNCHANGED <<program, loopVars, outer, frame, ref, freed>>

Cont(t) ==
  /\ pc[t] = "cont"
  /\ IF round < rounds THEN SignalLoop ELSE UNCHANGED <<counter, outerRef, queue>>
  /\ Goto(t, "leave", 0)
  /\ UNCHANGED <<program, fired, cur, outer, frame, ref, freed, history>>

Leave(t) ==
  /\ pc[t] = "leave"
  /\ ReleaseOuter
  /\ Goto(t, "idle", 0)
  /\ UNCHANGED <<program, loopVars, frame, ref, freed, queue, history>>

-----------------------------------------------------------------------------
(* What happens after memory of the loop was deleted is undefined; the     *)
(* model stops there.                                                      *)
Step(t) ==
  /\ ~ freed
  /\ \/ Take(t)
     \/ ParaStart(t) \/ ParaSpawn(t) \/ ParaEnd(t)
     \/ SerialNext(t) \/ SerialEnd(t)
     \/ CodeletStart(t) \/ CodeletEnd(t)
     \/ Build(t) \/ Add(t) \/ Release(t)
     \/ Body(t) \/ Drop(t) \/ Destroy(t)
     \/ Signal(t) \/ Cont(t) \/ Leave(t)

Next == \E t \in Threads : Step(t)

Spec == Init /\ [][Next]_vars /\ \A t \in Threads : WF_vars(Step(t))

-----------------------------------------------------------------------------
(* No memory is given to an iteration after another; where it is, a factory *)
(* may delete what is not its own, and what follows is undefined.          *)
UsedOnce == ~ Placed \/ (IF kind = "serial" THEN iterations * rounds = 1 ELSE rounds = 1)

(* The loop keeps its promise to the codelet that it signals: no iteration *)
(* is skipped, repeated, out of order (serialFor), or late, in any round;  *)
(* and the rounds all end, where memory is used once.                      *)
Promise == INSTANCE LoopRounds WITH serial <- kind = "serial"
ImplementsRounds == Promise!Safety /\ (UsedOnce => Promise!Progress)

(* The frame of an iteration is not destroyed, and its memory not given to *)
(* another, before its codelet has run.                                    *)
FrameIntact == \A n \in Numbers :
  <<"body", n>> \in queue \/ (\E t \in Threads : pc[t] = "body" /\ arg[t] = n)
    => frame[Cell(n)] = n

(* Iterations that were invoked, from the push of their closure to the end *)
(* of their destructor.                                                    *)
Children ==
  IF Placed THEN {}
  ELSE {n \in Numbers : \/ <<"build", n>> \in queue \/ frame[n] = n
                        \/ \E t \in Threads : pc[t] = "build" /\ arg[t] = n}

Firing == {"loop", "cont", "spawn", "signal", "leave"} \cup
          IF Placed THEN {"build", "add", "release"} ELSE {}

(* Placed iterations are not counted, so that the loop counts for them: on *)
(* its TP there is exactly one reference for each activation of a codelet, *)
(* for each invoked iteration, and for a round of placed ones.             *)
OuterExact ==
  outerRef =
    Cardinality({a \in queue : a[1] \in {"loop", "cont"}})
    + Cardinality({t \in Threads : pc[t] \in Firing})
    + Cardinality(Children)
    + (IF (kind = "codelet" /\ fired) \/ (kind = "serial" /\ cur > 0) THEN 1 ELSE 0)

(* The TP of the loop is deleted once all rounds have ended and nothing is *)
(* left of any iteration ...                                               *)
DeletedLast == outer = "deleted" =>
  /\ round = rounds /\ queue = {}
  /\ \A t \in Threads : pc[t] = "idle"
  /\ \A n \in Numbers : frame[n] = -1

(* ... and it is deleted, unless a factory deleted its memory before.      *)
Deleted == <>(outer = "deleted" \/ freed)

(* A factory that uses memory once does not delete an iteration that has   *)
(* yet to run, nor memory of the loop.                                     *)
OnceKept == UsedOnce => ~ freed

(* Types, frames that are what their iterations take them for, and memory  *)
(* that is kept.                                                           *)
Inv == TypeOK /\ FrameIntact /\ OnceKept

(* The comment at ThreadedProcedure's constructor, "Make the defualt       *)
(* reference count 1 so when stealing the TP will not be deleted           *)
(* prematurely": the same of every loop.                                   *)
NotPremature == ~ freed
=============================================================================
