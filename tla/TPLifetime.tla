----------------------------- MODULE TPLifetime -----------------------------
(***************************************************************************)
(* Life of threaded procedures (TPs) in the DARTS runtime: how a codelet   *)
(* becomes enabled, how the counter ref_ of its TP follows the codelets    *)
(* and child TPs that still need the frame, and who deletes the frame.     *)
(*                                                                         *)
(* The runtime's code is modelled one atomic access of shared state at a   *)
(* time: decDep (counter, then incRef, then push), add, invoke, TPFactory, *)
(* the firing loop that every scheduling policy contains, and the          *)
(* destructor that cascades to the parent.  The application is open: a     *)
(* running codelet or constructor may call any of these operations in any  *)
(* order, within the contract that the applications of the repository      *)
(* keep and that the guards marked CONTRACT state.                         *)
(*                                                                         *)
(* Queues are abstracted: an enabled codelet that was pushed is "queued"   *)
(* and any thread may pop it, a pushed closure may be popped by any TP     *)
(* thread.  Scheduling.tla models the queues.                              *)
(***************************************************************************)
EXTENDS Integers, FiniteSets

CONSTANTS
  TPs,        \* names of the TP frames that a run may create
  Codelets,   \* names of the codelets, all members of the frames
  Threads,    \* threads that fire codelets
  TPThreads,  \* threads whose policy also pops closures and builds TPs
  NoTP,       \* the NULL ThreadedProcedure pointer
  NoCodelet,  \* the NULL Codelet pointer
  Parent,     \* parentTP_ of each TP, NoTP for a TP made by launch
  Ancestors,  \* the TPs met by following parentTP_
  Owner,      \* myTP_ of each codelet
  Dep,        \* counter_ of the codelet's SyncSlot when it is constructed
  Res         \* reset_ of the codelet's SyncSlot

ASSUME NamesAssumption ==
  /\ TPThreads \subseteq Threads
  /\ NoTP \notin TPs
  /\ NoCodelet \notin Codelets

ASSUME TreeAssumption ==
  /\ Parent \in [TPs -> TPs \cup {NoTP}]
  /\ Ancestors \in [TPs -> SUBSET TPs]
  /\ \A t \in TPs :
       Ancestors[t] = IF Parent[t] = NoTP THEN {}
                      ELSE {Parent[t]} \cup Ancestors[Parent[t]]
  /\ \A t \in TPs : \A a \in Ancestors[t] :
       \E u \in {t} \cup Ancestors[t] : Parent[u] = a
  /\ \A t \in TPs : t \notin Ancestors[t]

ASSUME CodeletAssumption ==
  /\ Owner \in [Codelets -> TPs]
  /\ Dep \in [Codelets -> Nat]
  /\ Res \in [Codelets -> Nat]

VARIABLES
  tp,       \* where a TP is between invoke and the end of its destructor
  ref,      \* ref_ of each TP
  counter,  \* counter_ of each codelet
  place,    \* where an activation of a codelet is, before it is fired
  act,      \* what each thread is executing
  obj,      \* the TP it builds or destroys, or the codelet it fires
  hand      \* the codelet it has enabled and not pushed yet

vars == <<tp, ref, counter, place, act, obj, hand>>

(* "closure": its tpClosure was pushed; "building": TPFactory is running   *)
(* its constructor; "dying": decRef returned true and ~ThreadedProcedure   *)
(* has yet to release the parent.                                          *)
TPStates == {"none", "closure", "building", "live", "dying", "deleted"}

(* "new": never enabled; "enabled": counter_ is zero and incRef has not    *)
(* been called; "counted": incRef was called and push has not; "idle":     *)
(* popped, and no later activation is on its way.                          *)
Places == {"new", "enabled", "counted", "queued", "idle"}

TypeOK ==
  /\ tp \in [TPs -> TPStates]
  /\ ref \in [TPs -> Nat]
  /\ counter \in [Codelets -> Nat]
  /\ place \in [Codelets -> Places]
  /\ act \in [Threads -> {"idle", "build", "fire", "dtor"}]
  /\ obj \in [Threads -> TPs \cup Codelets \cup {NoTP}]
  /\ hand \in [Threads -> Codelets \cup {NoCodelet}]
  /\ \A w \in Threads :
       /\ act[w] \in {"build", "dtor"} => obj[w] \in TPs
       /\ act[w] = "fire" => obj[w] \in Codelets

(* checkParent: FALSE for a TP made by launch, whose frame nobody deletes. *)
CheckParent(t) == Parent[t] # NoTP

Init ==
  /\ tp = [t \in TPs |-> IF Parent[t] = NoTP THEN "closure" ELSE "none"]
  /\ ref = [t \in TPs |-> 0]
  /\ counter = Dep
  /\ place = [c \in Codelets |-> "new"]
  /\ act = [w \in Threads |-> "idle"]
  /\ obj = [w \in Threads |-> NoTP]
  /\ hand = [w \in Threads |-> NoCodelet]

-----------------------------------------------------------------------------
(* Operations of the thread that is building or firing.                    *)

Busy(w) == act[w] \in {"build", "fire"} /\ hand[w] = NoCodelet

(* The frame whose constructor or codelet the thread is executing.         *)
Frame(w) == IF act[w] = "fire" THEN Owner[obj[w]] ELSE obj[w]

(* Mutant of Add: the codelet is published without incRef.                 *)
AddUncounted(w, c) ==
  /\ act[w] = "build" /\ hand[w] = NoCodelet
  /\ Owner[c] = obj[w] /\ place[c] = "new" /\ counter[c] = 0
  /\ place' = [place EXCEPT ![c] = "counted"]
  /\ hand' = [hand EXCEPT ![w] = c]
  /\ UNCHANGED <<tp, ref, counter, act, obj>>

(* ThreadedProcedure::add in a constructor, for a codelet that is ready:   *)
(* the caller goes on with incRef and push.                                *)
Add(w, c) ==
  /\ act[w] = "build" /\ hand[w] = NoCodelet
  /\ Owner[c] = obj[w]                                      \* CONTRACT
  /\ place[c] = "new"                                       \* CONTRACT
  /\ counter[c] = 0
  /\ place' = [place EXCEPT ![c] = "enabled"]
  /\ hand' = [hand EXCEPT ![w] = c]
  /\ UNCHANGED <<tp, ref, counter, act, obj>>

(* Codelet::decDep, its fetchSub.  CONTRACT: a codelet signals codelets of *)
(* its own frame or of a frame it was (transitively) invoked from, and not *)
(* more often than their counters say.                                     *)
DecDep(w, c) ==
  /\ act[w] = "fire" /\ hand[w] = NoCodelet
  /\ Owner[c] \in {Frame(w)} \cup Ancestors[Frame(w)]       \* CONTRACT
  /\ counter[c] > 0                                         \* CONTRACT
  /\ counter' = [counter EXCEPT ![c] = @ - 1]
  /\ IF counter[c] = 1
     THEN /\ place' = [place EXCEPT ![c] = "enabled"]
          /\ hand' = [hand EXCEPT ![w] = c]
     ELSE UNCHANGED <<place, hand>>
  /\ UNCHANGED <<tp, ref, act, obj>>

(* incRef of the enabled codelet's TP, before the codelet is published.    *)
IncRef(w) ==
  /\ hand[w] # NoCodelet
  /\ place[hand[w]] = "enabled"
  /\ ref' = [ref EXCEPT ![Owner[hand[w]]] = @ + 1]
  /\ place' = [place EXCEPT ![hand[w]] = "counted"]
  /\ UNCHANGED <<tp, counter, act, obj, hand>>

(* pushCodelet or pushLocal: from here any thread may fire the codelet.    *)
Push(w) ==
  /\ hand[w] # NoCodelet
  /\ place[hand[w]] = "counted"
  /\ place' = [place EXCEPT ![hand[w]] = "queued"]
  /\ hand' = [hand EXCEPT ![w] = NoCodelet]
  /\ UNCHANGED <<tp, ref, counter, act, obj>>

(* Mutant of Invoke: the parent is not counted up.                         *)
InvokeUncounted(w, t) ==
  /\ Busy(w) /\ tp[t] = "none" /\ Parent[t] = Frame(w)
  /\ tp' = [tp EXCEPT ![t] = "closure"]
  /\ UNCHANGED <<ref, counter, place, act, obj, hand>>

(* invoke: the parent is counted up for the closure and later the child.   *)
Invoke(w, t) ==
  /\ Busy(w)
  /\ tp[t] = "none"
  /\ Parent[t] = Frame(w)                                   \* CONTRACT
  /\ ref' = [ref EXCEPT ![Parent[t]] = @ + 1]
  /\ tp' = [tp EXCEPT ![t] = "closure"]
  /\ UNCHANGED <<counter, place, act, obj, hand>>

(* resetCodelet called by the codelet's own fire.  CONTRACT: every signal  *)
(* of the activation that is running has arrived, no later one has.        *)
ResetCodelet(w) ==
  /\ act[w] = "fire" /\ hand[w] = NoCodelet
  /\ place[obj[w]] = "idle" /\ counter[obj[w]] = 0          \* CONTRACT
  /\ counter' = [counter EXCEPT ![obj[w]] = Res[obj[w]]]
  /\ UNCHANGED <<tp, ref, place, act, obj, hand>>

-----------------------------------------------------------------------------
(* The loops of the schedulers.                                            *)

(* popTP or steal, then TPFactory: the constructor sets ref_ to 1.         *)
PopTP(w, t) ==
  /\ w \in TPThreads
  /\ act[w] = "idle"
  /\ tp[t] = "closure"
  /\ tp' = [tp EXCEPT ![t] = "building"]
  /\ ref' = [ref EXCEPT ![t] = 1]
  /\ act' = [act EXCEPT ![w] = "build"]
  /\ obj' = [obj EXCEPT ![w] = t]
  /\ UNCHANGED <<counter, place, hand>>

(* Mutant of FactoryDecRef: the result of decRef is ignored.               *)
FactoryIgnoresLast(w) ==
  /\ act[w] = "build" /\ hand[w] = NoCodelet
  /\ ref' = [ref EXCEPT ![obj[w]] = @ - 1]
  /\ tp' = [tp EXCEPT ![obj[w]] = "live"]
  /\ act' = [act EXCEPT ![w] = "idle"]
  /\ UNCHANGED <<counter, place, obj, hand>>

(* The constructor has returned: TPFactory gives up its own reference and  *)
(* deletes the TP when it was the last one.                                *)
FactoryDecRef(w) ==
  /\ act[w] = "build" /\ hand[w] = NoCodelet
  /\ ref' = [ref EXCEPT ![obj[w]] = @ - 1]
  /\ LET last == ref[obj[w]] = 1
     IN /\ tp' = [tp EXCEPT ![obj[w]] = IF last THEN "dying" ELSE "live"]
        /\ act' = [act EXCEPT ![w] = IF last THEN "dtor" ELSE "idle"]
  /\ UNCHANGED <<counter, place, obj, hand>>

(* popCodelet of any policy, up to the call of fire.                       *)
PopCodelet(w, c) ==
  /\ act[w] = "idle"
  /\ place[c] = "queued"
  /\ place' = [place EXCEPT ![c] = "idle"]
  /\ act' = [act EXCEPT ![w] = "fire"]
  /\ obj' = [obj EXCEPT ![w] = c]
  /\ UNCHANGED <<tp, ref, counter, hand>>

(* Mutant of EndFire: the TP is deleted whether or not decRef says so.     *)
EndFireDeletes(w) ==
  /\ act[w] = "fire" /\ hand[w] = NoCodelet
  /\ LET t == Owner[obj[w]]
     IN /\ ref' = IF CheckParent(t) THEN [ref EXCEPT ![t] = @ - 1] ELSE ref
        /\ tp' = IF CheckParent(t) THEN [tp EXCEPT ![t] = "dying"] ELSE tp
        /\ act' = [act EXCEPT ![w] = IF CheckParent(t) THEN "dtor" ELSE "idle"]
        /\ obj' = IF CheckParent(t) THEN [obj EXCEPT ![w] = t] ELSE obj
  /\ UNCHANGED <<counter, place, hand>>

(* fire has returned: the policy drops the reference of this activation,   *)
(* unless checkParent was false, and deletes the TP when it was the last.  *)
EndFire(w) ==
  /\ act[w] = "fire" /\ hand[w] = NoCodelet
  /\ LET t == Owner[obj[w]]
         last == CheckParent(t) /\ ref[t] = 1
     IN /\ ref' = IF CheckParent(t) THEN [ref EXCEPT ![t] = @ - 1] ELSE ref
        /\ tp' = IF last THEN [tp EXCEPT ![t] = "dying"] ELSE tp
        /\ act' = [act EXCEPT ![w] = IF last THEN "dtor" ELSE "idle"]
        /\ obj' = IF last THEN [obj EXCEPT ![w] = t] ELSE obj
  /\ UNCHANGED <<counter, place, hand>>

(* Mutant of Destroy: the parent is not counted down.                      *)
DestroyKeepsParent(w) ==
  /\ act[w] = "dtor"
  /\ tp' = [tp EXCEPT ![obj[w]] = "deleted"]
  /\ act' = [act EXCEPT ![w] = "idle"]
  /\ UNCHANGED <<ref, counter, place, obj, hand>>

(* ~ThreadedProcedure: a parent that itself has a parent is counted down,  *)
(* and deleted in the same call when nothing else needs it.                *)
Destroy(w) ==
  /\ act[w] = "dtor"
  /\ LET t == obj[w]
         p == Parent[t]
         release == p # NoTP /\ CheckParent(p)
         last == release /\ ref[p] = 1
     IN /\ ref' = IF release THEN [ref EXCEPT ![p] = @ - 1] ELSE ref
        /\ tp' = [u \in TPs |-> CASE u = t -> "deleted"
                                  [] u = p /\ last -> "dying"
                                  [] OTHER -> tp[u]]
        /\ act' = [act EXCEPT ![w] = IF last THEN "dtor" ELSE "idle"]
        /\ obj' = IF last THEN [obj EXCEPT ![w] = p] ELSE obj
  /\ UNCHANGED <<counter, place, hand>>

-----------------------------------------------------------------------------
Next ==
  \E w \in Threads :
    \/ \E c \in Codelets : Add(w, c) \/ DecDep(w, c) \/ PopCodelet(w, c)
    \/ \E t \in TPs : Invoke(w, t) \/ PopTP(w, t)
    \/ IncRef(w)
    \/ Push(w)
    \/ ResetCodelet(w)
    \/ FactoryDecRef(w)
    \/ EndFire(w)
    \/ Destroy(w)

Spec == Init /\ [][Next]_vars

-----------------------------------------------------------------------------
(* Who needs the frame of t: activations pushed or about to be, threads    *)
(* that fire one of its codelets, children that have not released it, and  *)
(* TPFactory itself while the constructor runs.                            *)
Holders(t) ==
  {<<"activation", c>> : c \in
      {c \in Codelets : Owner[c] = t /\ place[c] \in {"counted", "queued"}}}
  \cup {<<"firing", w>> : w \in
      {w \in Threads : act[w] = "fire" /\ Owner[obj[w]] = t}}
  \cup {<<"child", u>> : u \in
      {u \in TPs : Parent[u] = t /\ tp[u] \notin {"none", "deleted"}}}
  \cup {<<"factory", u>> : u \in {u \in {t} : tp[u] = "building"}}

Pending(c) == place[c] \in {"enabled", "counted", "queued"}

Usable(t) == tp[t] \in {"building", "live"}

(* Nothing the runtime still dereferences is in a deleted frame: a codelet *)
(* on its way to a queue or in one (Codelet.cpp decDep, the pools), the    *)
(* frame of a codelet that runs and every frame above it, which it signals *)
(* and writes results to, and the parent that invoke, TPFactory and        *)
(* ~ThreadedProcedure count and test.                                      *)
NoUseAfterDelete ==
  /\ \A c \in Codelets : Pending(c) => Usable(Owner[c])
  /\ \A w \in Threads : act[w] = "fire" =>
       \A t \in {Frame(w)} \cup Ancestors[Frame(w)] : Usable(t)
  /\ \A t \in TPs : Parent[t] # NoTP /\ tp[t] \notin {"none", "deleted"} =>
       Usable(Parent[t])

(* ref_ counts exactly the holders of the frame, for every TP whose        *)
(* references are ever given back (those with a parent).                   *)
RefExact ==
  \A t \in TPs : CheckParent(t) /\ Usable(t) => ref[t] = Cardinality(Holders(t))

Quiescent ==
  /\ \A w \in Threads : act[w] = "idle"
  /\ \A c \in Codelets : ~ Pending(c)
  /\ \A t \in TPs : tp[t] # "closure"

(* No frame is leaked: when all schedulers are idle and their queues are   *)
(* empty, every TP that was invoked from another one has been deleted,     *)
(* through the cascade of destructors, whatever codelets never became      *)
(* enabled in it.                                                          *)
NoLeak ==
  Quiescent => \A t \in TPs : CheckParent(t) => tp[t] \in {"none", "deleted"}

-----------------------------------------------------------------------------
(* The inductive invariant behind the three: a frame that is not usable    *)
(* has no holder (HolderInv), which is what makes the parent of every      *)
(* allocated frame usable; the frames above it follow (AncestorInv); an    *)
(* enabled codelet is not counted yet and lives off the thread that        *)
(* enabled it (HandInv).                                                   *)
Allocated(t) == tp[t] \notin {"none", "deleted"}

HolderOK(t) ==
  /\ IsFiniteSet(Holders(t))
  /\ Usable(t) => ref[t] >= Cardinality(Holders(t))
  /\ Usable(t) /\ CheckParent(t) => ref[t] = Cardinality(Holders(t))
  /\ ~ Usable(t) => Holders(t) = {}

HolderInv == \A t \in TPs : HolderOK(t)

HandInv ==
  /\ \A w \in Threads : hand[w] # NoCodelet =>
       /\ act[w] \in {"build", "fire"}
       /\ place[hand[w]] \in {"enabled", "counted"}
       /\ Owner[hand[w]] \in {Frame(w)} \cup Ancestors[Frame(w)]
  /\ \A w, v \in Threads : hand[w] = hand[v] /\ hand[w] # NoCodelet => w = v
  /\ \A c \in Codelets : place[c] \in {"enabled", "counted"} =>
       \E w \in Threads : hand[w] = c

CounterInv == \A c \in Codelets : Pending(c) => counter[c] = 0

ActInv ==
  /\ \A w \in Threads : act[w] = "build" => tp[obj[w]] = "building"
  /\ \A w \in Threads : act[w] = "dtor" => tp[obj[w]] = "dying"
  /\ \A w, v \in Threads :
       act[w] \in {"build", "dtor"} /\ act[v] \in {"build", "dtor"} /\ obj[w] = obj[v]
         => w = v

AncestorInv ==
  \A t \in TPs : Allocated(t) => \A a \in Ancestors[t] : Usable(a)

(* Strengthening of NoUseAfterDelete and RefExact that every step keeps.   *)
IInv == TypeOK /\ HolderInv /\ HandInv /\ CounterInv /\ ActInv /\ AncestorInv

-----------------------------------------------------------------------------
(* What the reference counts are for: ScopedFrames has none.               *)
Frames == INSTANCE ScopedFrames WITH
  alive <- {t \in TPs : tp[t] \notin {"none", "deleted"}},
  gone <- {t \in TPs : tp[t] = "deleted"},
  pending <- {c \in Codelets : Pending(c)},
  running <- [w \in Threads |-> IF act[w] = "fire" THEN obj[w] ELSE NoCodelet]

(* The detailed protocol implements the abstract one.                      *)
ImplementsFrames == Frames!Spec
=============================================================================
