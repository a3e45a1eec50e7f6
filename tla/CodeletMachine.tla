--------------------------- MODULE CodeletMachine ---------------------------
(***************************************************************************)
(* What the runtime does for a program, whatever schedulers it has: a      *)
(* closure that was invoked has its constructor run, a codelet that was    *)
(* added or received its last signal is fired, once, at any later time and *)
(* beside all others that are ready, and the calls of a codelet are made   *)
(* one by one.  CodeletGraph and TPLifetime state and show these promises, *)
(* the latter under a contract on the program that KeepsContract states.   *)
(* Scheduling shows the exception: TPSTATIC loses a codelet with a status  *)
(* that the workers refuse, and MCDYNAMIC's refuse them all.               *)
(*                                                                         *)
(* The work of a codelet before its calls is one step: RaceFree shows that *)
(* nobody could have seen a part of it.                                    *)
(***************************************************************************)
EXTENDS Integers, FiniteSets, SequencesExt, CodeletTerms

CONSTANTS
  Programs,            \* the programs, each with its input
  Launched(_),         \* the frames a program's main launches: one or none
  Memory(_),           \* the variables its main initialises before that
  Construct(_, _, _),  \* what the constructor of a frame leaves
  Fire(_, _, _, _),    \* what a codelet of a frame does
  Result(_, _),        \* what the main finds in memory is right
  Launches,            \* how often it launches its frame
  Policies             \* whether they are TPSTATIC and MCDYNAMIC, to choose from

ASSUME PoliciesAssumption == Policies \subseteq BOOLEAN

VARIABLES
  program,
  launches,  \* so far
  frames,    \* of each path
  dep,       \* the counter of each codelet
  status,    \* and the status of those that were given one
  closures,  \* invoked, not constructed: pairs of a path and a frame
  ready,     \* codelets to be fired
  calls,     \* those that each fired codelet has left
  mem,       \* the value of each location
  signalled, \* finalSignal was
  staticDynamic, \* the policies are TPSTATIC and MCDYNAMIC, with workers
  refused    \* history: the codelets that were ready and not taken

pushing == <<staticDynamic, refused>>
vars == <<program, launches, frames, dep, status, closures, ready, calls, mem, signalled,
          pushing>>

RootPath == Append(Main, <<"run", 0>>)

(* run(launch(...)); a program that launches nothing has ended.            *)
Init ==
  /\ program \in Programs
  /\ launches = 1
  /\ frames = <<>> /\ dep = <<>> /\ status = <<>> /\ ready = {} /\ calls = <<>>
  /\ closures = {RootPath} \X Launched(program)
  /\ signalled = (Launched(program) = {})
  /\ mem = Memory(program)
  /\ staticDynamic \in Policies /\ refused = {}

(* run has returned; the main initialises its variables and runs again.    *)
Launch ==
  /\ signalled /\ launches < Launches /\ Launched(program) # {}
  /\ launches' = launches + 1
  /\ frames' = <<>> /\ dep' = <<>> /\ status' = <<>> /\ ready' = {} /\ calls' = <<>>
  /\ closures' = {RootPath} \X Launched(program)
  /\ signalled' = FALSE
  /\ mem' = Memory(program) @@ mem
  /\ UNCHANGED <<program, pushing>>

Constructor(path) == <<path, <<"constructor", 0>>>>

(* The constructor of a closure's TP.                                      *)
ConstructFrame(k) ==
  LET f == Construct(k[1], k[2], mem) IN
  /\ k \in closures
  /\ closures' = closures \ {k}
  /\ frames' = (k[1] :> k[2]) @@ frames
  /\ dep' = [c \in {k[1]} \X DOMAIN f.deps |-> f.deps[c[2]]] @@ dep
  /\ status' = [c \in {k[1]} \X DOMAIN f.status |-> f.status[c[2]]] @@ status
  /\ mem' = f.work.writes @@ mem
  /\ calls' = (Constructor(k[1]) :> f.work.calls) @@ calls
  /\ UNCHANGED <<program, launches, ready, signalled, pushing>>

Doing(c) == Fire(c[1], frames[c[1]], c[2], mem)

FireCodelet(c) ==
  /\ c \in ready
  /\ ready' = ready \ {c}
  /\ mem' = Doing(c).writes @@ mem
  /\ calls' = (c :> Doing(c).calls) @@ calls
  /\ UNCHANGED <<program, launches, frames, dep, status, closures, signalled, pushing>>

(* c makes its next call, which is an op.                                  *)
TakeCall(c, op) ==
  /\ c \in DOMAIN calls /\ calls[c] # <<>> /\ Head(calls[c]).op = op
  /\ calls' = [calls EXCEPT ![c] = Tail(@)]
  /\ UNCHANGED <<program, launches, frames, status, mem, staticDynamic>>

(* What TPStatic pushes to a worker MicroDynamic refuses, and neither      *)
(* decDep nor add looks at the answer.                                     *)
Refuses(d) == staticDynamic /\ d \in DOMAIN status /\ status[d] # 0

PushCodelet(d) ==
  IF Refuses(d) THEN refused' = refused \cup {d} /\ UNCHANGED ready
                ELSE ready' = ready \cup {d} /\ UNCHANGED refused

(* Codelet::decDep: the signal that brings the counter to zero pushes it.  *)
DecDep(c) ==
  LET d == Head(calls[c]).codelet IN
  /\ TakeCall(c, "dec")
  /\ IF d = FinalSignal
     THEN signalled' = TRUE /\ UNCHANGED <<dep, ready, refused>>
     ELSE /\ dep' = [dep EXCEPT ![d] = @ - 1]
          /\ IF dep[d] = 1 THEN PushCodelet(d) ELSE UNCHANGED <<ready, refused>>
          /\ UNCHANGED signalled
  /\ UNCHANGED closures

(* ThreadedProcedure::add: the codelet is pushed if it waits for nothing.  *)
AddCodelet(c) ==
  LET d == Head(calls[c]).codelet IN
  /\ TakeCall(c, "add")
  /\ IF dep[d] = 0 THEN PushCodelet(d) ELSE UNCHANGED <<ready, refused>>
  /\ UNCHANGED <<dep, closures, signalled>>

ResetCodelet(c) ==
  /\ TakeCall(c, "reset")
  /\ dep' = [dep EXCEPT ![Head(calls[c]).codelet] = Head(calls[c]).to]
  /\ UNCHANGED <<ready, closures, signalled, refused>>

InvokeTP(c) ==
  LET k == Head(calls[c]) IN
  /\ TakeCall(c, "invoke")
  /\ closures' = closures \cup {<<Append(c[1], k.label), k.frame>>}
  /\ UNCHANGED <<dep, ready, signalled, refused>>

Next ==
  \/ Launch
  \/ \E k \in closures : ConstructFrame(k)
  \/ \E c \in ready : FireCodelet(c)
  \/ \E c \in DOMAIN calls :
       DecDep(c) \/ AddCodelet(c) \/ ResetCodelet(c) \/ InvokeTP(c)

(* The workers go on as long as there is something to do.                  *)
Spec == Init /\ [][Next]_vars /\ WF_vars(Next)

-----------------------------------------------------------------------------
(* What can be done at the same time: firing a codelet, constructing a     *)
(* frame; with what it does.                                               *)
Activities ==
  {[path |-> c[1], does |-> Doing(c)] : c \in ready} \cup
  {[path |-> k[1], does |-> Construct(k[1], k[2], mem).work] : k \in closures}

Up(path) == {c \in DOMAIN dep : IsPrefix(c[1], path)}

(* Every counter is a number and belongs to a constructed frame.           *)
TypeOK ==
  /\ program \in Programs /\ launches \in 1 .. Launches /\ signalled \in BOOLEAN
  /\ staticDynamic \in Policies /\ ready \cup refused \subseteq DOMAIN dep
  /\ DOMAIN status \subseteq DOMAIN dep
  /\ \A c \in DOMAIN dep : dep[c] \in Nat /\ c[1] \in DOMAIN frames
  /\ \A k \in closures : k[1] \notin DOMAIN frames

(* What TPLifetime asks of a program, so that no frame is used after it    *)
(* was deleted: a codelet signals codelets of its own frame and of those   *)
(* that invoked it, which wait for a signal; it reads and writes variables *)
(* of those frames only, and reads what was written.                       *)
KeepsContract ==
  /\ \A c \in DOMAIN calls : calls[c] # <<>> /\ Head(calls[c]).op = "dec" =>
       LET d == Head(calls[c]).codelet IN
       IF d = FinalSignal THEN ~signalled ELSE d \in Up(c[1]) /\ dep[d] > 0
  /\ \A a \in Activities :
       /\ a.does.reads \subseteq DOMAIN mem
       /\ \A l \in a.does.reads \cup DOMAIN a.does.writes : IsPrefix(l[1], a.path)

Inv == TypeOK /\ KeepsContract

(* Nobody writes what somebody else may read or write at the same time,    *)
(* unless both write the same.                                             *)
RaceFree ==
  \A a, b \in Activities : a # b =>
    \A l \in DOMAIN a.does.writes :
      /\ l \notin b.does.reads
      /\ l \in DOMAIN b.does.writes => a.does.writes[l] = b.does.writes[l]

(* When the main goes on after run, its results are there.                 *)
ExactResult == signalled => Result(program, mem)

(* Nothing of the program runs any more when the main goes on, so that it  *)
(* may delete its variables and run again.                                 *)
Quiet ==
  signalled => ready = {} /\ closures = {} /\ \A c \in DOMAIN calls : calls[c] = <<>>

(* The main returns from each run, unless a codelet was refused.  Then it  *)
(* waits for ever: no program goes on without a codelet that was lost.     *)
Finishes ==
  /\ [](refused = {}) => <>(signalled /\ (launches = Launches \/ Launched(program) = {}))
  /\ [](refused # {} => ~signalled)
=============================================================================
