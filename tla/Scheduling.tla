----------------------------- MODULE Scheduling -----------------------------
(***************************************************************************)
(* The scheduling loops, from the moment run has pushed a program until    *)
(* its codelets are fired.  A cluster is a TP scheduler, whose thread runs *)
(* closures and hands codelets out, and Workers micro schedulers.  The     *)
(* machine, a TP policy and a micro policy are picked in the initial       *)
(* state: the loops differ in where a codelet that became ready is put,    *)
(* who hands it to whom, and who fires it.                                 *)
(*                                                                         *)
(* A dartsPool is a set: it is a stack or a queue, as it is built without  *)
(* or with TBB.  A ring is the bounded FIFO that RingBuffer implements for *)
(* one producer and one consumer; what several producers do to it is       *)
(* followed up to the first codelet that is overwritten.  A firing codelet *)
(* executes its body one call at a time.                                   *)
(***************************************************************************)
EXTENDS Integers, Sequences, FiniteSets

CONSTANTS
  Threshold, \* slots of a worker's ring, THRESHOLD
  Codelets, Procs, None,
  Root,      \* closure that run pushes to the TP scheduler of cluster 0
  Deps, Body, \* as in CodeletGraph
  Hint,      \* hint_sched_ of a codelet; (uint32_t) -1, any large number, for none
  Settings   \* tuples of the number of clusters, the number of micro
             \* schedulers per cluster, status_ of each codelet, a TP policy
             \* and a micro policy

TPPolicies == {"roundrobin", "pushfull", "static", "dynamic", "hint"}
MCPolicies == {"standard", "static", "dynamic", "steal", "hint"}

Activities == Codelets \cup Procs

(* The places in the bodies where y is invoked, signalled or added.        *)
Positions(y) ==
  UNION {{<<x, i>> : i \in {j \in DOMAIN Body[x] : Body[x][j] = y}} : x \in Activities}

(* A codelet gets no more signals than it counts; every invoke makes a     *)
(* closure of its own.                                                     *)
ASSUME ProgramAssumption ==
  /\ Threshold \in Nat \ {0}
  /\ IsFiniteSet(Activities) /\ Codelets \cap Procs = {}
  /\ None \notin Activities /\ Root \in Procs
  /\ Deps \in [Codelets -> Nat] /\ Body \in [Activities -> Seq(Activities)]
  /\ \A d \in Codelets : Cardinality(Positions(d)) <= IF Deps[d] = 0 THEN 1 ELSE Deps[d]
  /\ Positions(Root) = {} /\ \A p \in Procs : Cardinality(Positions(p)) <= 1
  /\ Hint \in [Codelets -> Nat]
  /\ Settings \subseteq (Nat \ {0}) \X (Nat \ {0}) \X [Codelets -> Nat]
                          \X TPPolicies \X MCPolicies

VARIABLES
  machine,  \* numbers of clusters and workers, and the statuses
  tpp, mcp, \* the policies
  dep,      \* counter_ of a codelet
  ready,    \* ready_ of each TP scheduler
  pool,     \* codelets_ of a TP scheduler; buff of a MicroStatic or MicroSteal
  ring,     \* buff of a MicroStandard or MicroSchedHint
  whichSub, \* whichSub_ of a TP scheduler
  pc, cur, pos, \* where a thread is; what it runs; how much of its body is done
  carry,    \* the codelet a thread is about to push
  to,       \* the worker it pushes to
  insist,   \* its loop repeats a refused push to the same worker
  tries,    \* i of TPPushFull's loop
  begun,    \* history: the closures run and codelets fired,
  dropped,  \* the codelets that were refused by the worker they were passed
            \* to, or overwritten in its ring,
  torn      \* and whether one was overwritten

policies == <<machine, tpp, mcp>>
queues == <<ready, pool, ring>>
sending == <<to, insist, tries, whichSub>>
history == <<begun, dropped, torn>>
vars == <<policies, dep, queues, pc, cur, pos, carry, sending, history>>

Clusters == machine[1]
Workers == machine[2]
Status == machine[3]

Cluster == 0 .. Clusters - 1
TPThreads == {<<c, 0>> : c \in Cluster}
MCThreads == {<<c, k>> : c \in Cluster, k \in 1 .. Workers}
Threads == TPThreads \cup MCThreads

(* The threads of any of the machines.                                     *)
AnyThread == UNION {(0 .. s[1] - 1) \X (0 .. s[2]) : s \in Settings}

PCs == {"top", "steal", "pop", "run", "send", "push", "route"}

TypeOK ==
  /\ <<Clusters, Workers, Status, tpp, mcp>> \in Settings
  /\ dep \in [Codelets -> Nat]
  /\ ready \in [TPThreads -> SUBSET Procs]
  /\ pool \in [Threads -> SUBSET Codelets]
  /\ ring \in [MCThreads -> Seq(Codelets)]
  /\ \A w \in MCThreads : Len(ring[w]) <= Threshold
  /\ whichSub \in [TPThreads -> 0 .. Workers - 1]
  /\ pc \in [Threads -> PCs]
  /\ cur \in [Threads -> Activities \cup {None}]
  /\ pos \in [Threads -> Nat]
  /\ carry \in [Threads -> Codelets \cup {None}]
  /\ to \in [Threads -> 0 .. Workers - 1]
  /\ insist \in [Threads -> BOOLEAN]
  /\ tries \in [TPThreads -> 0 .. Workers]
  /\ begun \subseteq Activities /\ dropped \subseteq Codelets /\ torn \in BOOLEAN

Init ==
  /\ \E s \in Settings :
       machine = <<s[1], s[2], s[3]>> /\ tpp = s[4] /\ mcp = s[5]
  /\ dep = Deps
  /\ ready = [t \in TPThreads |-> IF t[1] = 0 THEN {Root} ELSE {}]
  /\ pool = [t \in Threads |-> {}] /\ ring = [w \in MCThreads |-> <<>>]
  /\ whichSub = [t \in TPThreads |-> 0]
  /\ pc = [t \in Threads |-> IF t[2] = 0 THEN "top" ELSE "pop"]
  /\ cur = [t \in Threads |-> None] /\ pos = [t \in Threads |-> 0]
  /\ carry = [t \in Threads |-> None]
  /\ to = [t \in Threads |-> 0] /\ insist = [t \in Threads |-> FALSE]
  /\ tries = [t \in TPThreads |-> 0]
  /\ begun = {} /\ dropped = {} /\ torn = FALSE

Goto(t, l) == pc' = [pc EXCEPT ![t] = l]

(* getID(), getParentScheduler() and getSubScheduler(i).                   *)
ID(t) == t[1] * (1 + Workers) + t[2]
Parent(t) == <<t[1], 0>>
Sub(t, i) == <<t[1], i + 1>>

-----------------------------------------------------------------------------
(* Run x: a closure's factory, or a codelet's fire.                        *)
Begin(t, x) ==
  /\ cur' = [cur EXCEPT ![t] = x]
  /\ pos' = [pos EXCEPT ![t] = 0]
  /\ begun' = begun \cup {x}
  /\ Goto(t, "run")
  /\ UNCHANGED <<dropped, torn>>

(* The next call of the body: an invoke pushes a closure, a decDep (or the *)
(* add of a codelet with no dependences) pushes the codelet if it is ready *)
(* now.                                                                    *)
Call(t) ==
  /\ pc[t] = "run" /\ carry[t] = None /\ pos[t] < Len(Body[cur[t]])
  /\ pos' = [pos EXCEPT ![t] = @ + 1]
  /\ LET y == Body[cur[t]][pos[t] + 1] IN
     IF y \in Procs
     THEN /\ ready' = [ready EXCEPT ![Parent(t)] = @ \cup {y}]
          /\ UNCHANGED <<dep, carry>>
     ELSE /\ dep' = [dep EXCEPT ![y] = IF Deps[y] = 0 THEN 0 ELSE @ - 1]
          /\ carry' = IF dep'[y] = 0 THEN [carry EXCEPT ![t] = y] ELSE carry
          /\ UNCHANGED ready
  /\ UNCHANGED <<policies, pool, ring, pc, cur, sending, history>>

(* The micro policies whose queue is a ring.                               *)
HasRing == mcp \in {"standard", "hint"}

(* Put the codelet that t carries in the pool of thread p.                 *)
PutInPool(t, p) ==
  /\ pool' = [pool EXCEPT ![p] = @ \cup {carry[t]}]
  /\ carry' = [carry EXCEPT ![t] = None]

(* Mutant of Deliver: a worker puts the codelet into its own ring.         *)
DeliverToSelf(t) ==
  /\ pc[t] = "run" /\ carry[t] # None
  /\ IF HasRing /\ t \in MCThreads /\ Len(ring[t]) < Threshold
     THEN /\ ring' = [ring EXCEPT ![t] = Append(@, carry[t])]
          /\ carry' = [carry EXCEPT ![t] = None]
          /\ UNCHANGED pool
     ELSE PutInPool(t, Parent(t)) /\ UNCHANGED ring
  /\ UNCHANGED <<policies, dep, ready, pc, to, insist, cur, pos, tries, whichSub, history>>

(* The second half of decDep and add: the codelet goes to the worker's own *)
(* pool if its policy keeps one, else to the TP scheduler, whose static    *)
(* policy passes a codelet with a status on to a worker.                   *)
Deliver(t) ==
  /\ pc[t] = "run" /\ carry[t] # None
  /\ IF mcp = "steal" /\ t \in MCThreads
     THEN PutInPool(t, t) /\ UNCHANGED <<pc, to, insist>>
     ELSE IF tpp = "static" /\ Status[carry[t]] # 0
     THEN /\ to' = [to EXCEPT ![t] = (Status[carry[t]] - 1) % Workers]
          /\ insist' = [insist EXCEPT ![t] = FALSE]
          /\ Goto(t, "route")
          /\ UNCHANGED <<pool, carry>>
     ELSE PutInPool(t, Parent(t)) /\ UNCHANGED <<pc, to, insist>>
  /\ UNCHANGED <<policies, dep, ready, ring, cur, pos, tries, whichSub, history>>

(* The body is done.                                                       *)
Finish(t) ==
  /\ pc[t] = "run" /\ carry[t] = None /\ pos[t] = Len(Body[cur[t]])
  /\ cur' = [cur EXCEPT ![t] = None]
  /\ pos' = [pos EXCEPT ![t] = 0]
  /\ Goto(t, "pop")
  /\ UNCHANGED <<policies, dep, queues, carry, sending, history>>

Running(t) == Call(t) \/ Deliver(t) \/ Finish(t)

-----------------------------------------------------------------------------
(* pushCodelet of a micro scheduler w.                                     *)

(* validateAndPush: the index a MicroSchedHint takes for its own is made   *)
(* of its thread's number in the whole machine.                            *)
MySubID(w) == (ID(w) - 1) % Workers

(* Mutant of Forwards: a worker keeps what it is handed.                   *)
ForwardsNothing(w, d) == FALSE

Forwards(w, d) ==
  mcp = "hint" /\ Hint[d] < Workers /\ Hint[d] # MySubID(w)

Accepts(w) == \/ HasRing /\ Len(ring[w]) < Threshold
              \/ mcp = "static"

(* The push is over: back to the loop, or into decDep or add.              *)
Return(t) ==
  /\ carry' = [carry EXCEPT ![t] = None]
  /\ Goto(t, IF pc[t] = "push" THEN "pop" ELSE "run")

Drop(t) == Return(t) /\ dropped' = dropped \cup {carry[t]}

(* One attempt.  A forwarded codelet is pushed to the hinted worker until  *)
(* this accepts it; a refused one is sent to another worker by a TP        *)
(* scheduler's loop, and dropped by decDep, which ignores the result.      *)
Push(t) ==
  /\ pc[t] \in {"push", "route"}
  /\ LET w == Sub(t, to[t])
         d == carry[t] IN
     IF Forwards(w, d)
     THEN /\ to' = [to EXCEPT ![t] = Hint[d]]
          /\ insist' = [insist EXCEPT ![t] = TRUE]
          /\ UNCHANGED <<pool, ring, carry, pc, dropped>>
     ELSE IF Accepts(w)
     THEN /\ IF HasRing
             THEN ring' = [ring EXCEPT ![w] = Append(@, d)] /\ UNCHANGED pool
             ELSE pool' = [pool EXCEPT ![w] = @ \cup {d}] /\ UNCHANGED ring
          /\ Return(t)
          /\ UNCHANGED <<to, insist, dropped>>
     ELSE /\ ~insist[t]
          /\ IF pc[t] = "push"
             THEN Goto(t, "send") /\ UNCHANGED <<carry, dropped>>
             ELSE Drop(t)
          /\ UNCHANGED <<pool, ring, to, insist>>
  /\ UNCHANGED <<policies, dep, ready, cur, pos, tries, whichSub, begun, torn>>

(* ringBuffer.push takes a slot by its number, stores and then moves the   *)
(* counter.  Of two threads that have all of this ahead of them, one may   *)
(* store over the other; then t's codelet is overwritten, and the counter  *)
(* goes past a slot that nobody has written.                               *)
Storing(t) ==
  /\ pc[t] \in {"push", "route"} /\ HasRing
  /\ LET w == Sub(t, to[t]) IN ~ Forwards(w, carry[t]) /\ Len(ring[w]) < Threshold

Overwritten(t) ==
  /\ Storing(t)
  /\ \E u \in Threads \ {t} : Storing(u) /\ Sub(u, to[u]) = Sub(t, to[t])
  /\ Drop(t) /\ torn' = TRUE
  /\ UNCHANGED <<policies, dep, queues, cur, pos, sending, begun>>

-----------------------------------------------------------------------------
(* The loop of a TP scheduler.                                             *)

(* Mutant of TakeTP: the closure is run and stays in the pool.             *)
TakeTPCopy(t, victim, p) ==
  /\ Begin(t, p)
  /\ UNCHANGED <<policies, dep, queues, carry, sending>>

TakeTP(t, victim, p) ==
  /\ ready' = [ready EXCEPT ![victim] = @ \ {p}]
  /\ Begin(t, p)
  /\ UNCHANGED <<policies, dep, pool, ring, carry, sending>>

Skip(t, l) ==
  /\ Goto(t, l)
  /\ UNCHANGED <<policies, dep, queues, cur, pos, carry, sending, history>>

(* popTP of the scheduler's own closures ...                               *)
PopTP(t) ==
  /\ pc[t] = "top"
  /\ IF ready[t] = {} THEN Skip(t, "steal")
                      ELSE \E p \in ready[t] : TakeTP(t, t, p)

(* ... and when it has none, of a random peer.  The code compares the      *)
(* index of the peer with the number of the thread.                        *)
StealTP(t) ==
  /\ pc[t] = "steal"
  /\ \E random \in Cluster :
       LET victim == <<random, 0>> IN
       IF random = ID(t) \/ ready[victim] = {}
       THEN Skip(t, "pop")
       ELSE \E p \in ready[victim] : TakeTP(t, victim, p)

(* TPStatic and TPDynamic fire what they pop, the others send it to a      *)
(* worker.                                                                 *)
PopCodelet(t) ==
  /\ pc[t] = "pop"
  /\ IF pool[t] = {}
     THEN Skip(t, "top")
     ELSE \E d \in pool[t] :
       /\ pool' = [pool EXCEPT ![t] = @ \ {d}]
       /\ IF tpp \in {"static", "dynamic"}
          THEN Begin(t, d) /\ UNCHANGED <<carry, tries>>
          ELSE /\ carry' = [carry EXCEPT ![t] = d]
               /\ tries' = [tries EXCEPT ![t] = 0]
               /\ Goto(t, "send")
               /\ UNCHANGED <<cur, pos, history>>
       /\ UNCHANGED <<policies, dep, ready, ring, to, insist, whichSub>>

(* Choose the worker to send to: the hinted one, else the next one.        *)
Send(t) ==
  /\ pc[t] = "send" /\ (tpp = "pushfull" => tries[t] < Workers)
  /\ LET hinted == tpp = "hint" /\ Hint[carry[t]] < Workers IN
     /\ to' = [to EXCEPT ![t] = IF hinted THEN Hint[carry[t]] ELSE whichSub[t]]
     /\ insist' = [insist EXCEPT ![t] = hinted]
     /\ whichSub' = IF hinted THEN whichSub
                    ELSE [whichSub EXCEPT ![t] = (@ + 1) % Workers]
     /\ tries' = IF tpp = "pushfull" THEN [tries EXCEPT ![t] = @ + 1] ELSE tries
  /\ Goto(t, "push")
  /\ UNCHANGED <<policies, dep, queues, cur, pos, carry, history>>

(* Mutant of FireRefused: the loop gives up and takes the next codelet.    *)
DropRefused(t) ==
  /\ pc[t] = "send" /\ tpp = "pushfull" /\ tries[t] = Workers
  /\ carry' = [carry EXCEPT ![t] = None]
  /\ Goto(t, "pop")
  /\ UNCHANGED <<policies, dep, queues, cur, pos, sending, history>>

(* TPPushFull fires a codelet that no worker accepted.                     *)
FireRefused(t) ==
  /\ pc[t] = "send" /\ tpp = "pushfull" /\ tries[t] = Workers
  /\ carry' = [carry EXCEPT ![t] = None]
  /\ Begin(t, carry[t])
  /\ UNCHANGED <<policies, dep, queues, sending>>

TPStep(t) ==
  PopTP(t) \/ StealTP(t) \/ PopCodelet(t) \/ Send(t) \/ FireRefused(t)

-----------------------------------------------------------------------------
(* The loop of a micro scheduler.                                          *)

(* Fire a codelet of a pool.                                               *)
TakeFrom(w, p) ==
  \E d \in pool[p] :
    /\ pool' = [pool EXCEPT ![p] = @ \ {d}]
    /\ Begin(w, d)
    /\ UNCHANGED <<policies, dep, ready, ring, carry, sending>>

PopWork(w) ==
  /\ pc[w] = "pop"
  /\ \/ /\ HasRing /\ ring[w] # <<>>
        /\ ring' = [ring EXCEPT ![w] = Tail(@)]
        /\ Begin(w, Head(ring[w]))
        /\ UNCHANGED <<policies, dep, ready, pool, carry, sending>>
     \/ mcp \in {"static", "steal"} /\ TakeFrom(w, w)
     \/ mcp = "dynamic" /\ TakeFrom(w, Parent(w))
     \/ mcp = "steal" /\ pool[w] = {} /\ Skip(w, "steal")

(* stealCodelet: one try at a random peer, or at the parent.               *)
StealCodelet(w) ==
  /\ pc[w] = "steal"
  /\ \E random \in 0 .. Workers :
       LET victim == IF random = Workers THEN Parent(w) ELSE Sub(w, random) IN
       IF random = ID(w) \/ pool[victim] = {}
       THEN Skip(w, "pop")
       ELSE TakeFrom(w, victim)

MCStep(w) == PopWork(w) \/ StealCodelet(w)

-----------------------------------------------------------------------------
Thread(t) == \/ Running(t) \/ Push(t) \/ Overwritten(t)
             \/ t \in TPThreads /\ TPStep(t)
             \/ t \in MCThreads /\ MCStep(t)

(* What a worker pulls out of a slot that was not written is anything at   *)
(* all, and what it then fires undefined: no more is said of that run.     *)
Undefined == torn /\ UNCHANGED vars

Next == (~ torn /\ \E t \in Threads : Thread(t)) \/ Undefined

(* The operating system lets every thread go on; what rand() returns is    *)
(* not assumed to be fair.                                                 *)
Spec == /\ Init /\ [][Next]_vars
        /\ \A t \in AnyThread : WF_vars(t \in Threads /\ ~ torn /\ Thread(t))

-----------------------------------------------------------------------------
(* How far each body got.                                                  *)
Done == [x \in Activities |->
  IF \E t \in Threads : cur[t] = x
  THEN pos[CHOOSE t \in Threads : cur[t] = x]
  ELSE IF x \in begun THEN Len(Body[x]) ELSE 0]

(* The schedulers run the program: a closure or codelet is begun only when *)
(* it was invoked or has its signals, once, and in the end every one is,   *)
(* but a codelet that was dropped, as long as none was overwritten.        *)
Graph == INSTANCE CodeletGraph WITH started <- begun, done <- Done
ImplementsGraph ==
  /\ Graph!Safety
  /\ []~ torn => \A x \in Activities :
       Graph!GoesOn(x) /\ ([](x \notin dropped) => Graph!GetsStarted(x))

Places(d) ==
  {<<t, 0>> : t \in {u \in Threads : d \in pool[u]}} \cup
  {<<t, -1>> : t \in {u \in Threads : carry[u] = d}} \cup
  UNION {{<<w, i>> : i \in {j \in 1 .. Len(ring[w]) : ring[w][j] = d}} : w \in MCThreads}

(* No codelet is lost or handed out twice between decDep and fire: a       *)
(* codelet that has its signals and was not fired is in exactly one pool,  *)
(* ring or hand, unless it was dropped, and any other codelet in none.     *)
Conserved == \A d \in Codelets :
  Cardinality(Places(d)) =
    IF Graph!Available(d) /\ d \notin begun \cup dropped THEN 1 ELSE 0

(* Only TPStatic loses a codelet, only one with a status, and only where a *)
(* worker may refuse; a ring is torn only with a codelet lost in it.       *)
OnlyByStatus ==
  /\ \A d \in dropped : tpp = "static" /\ mcp # "static" /\ Status[d] # 0
  /\ torn => HasRing /\ dropped # {}

Inv == TypeOK /\ Conserved /\ OnlyByStatus

(* A ring has one producer, as ringBuffer requires: a step in which it     *)
(* grows is a step of the thread of the cluster's TP scheduler.  TPStatic  *)
(* alone lets another thread push, and that a codelet with a status.       *)
SingleProducer == [][\A w \in MCThreads :
  Len(ring'[w]) > Len(ring[w]) =>
    \A t \in Threads \ {Parent(w)} :
      \/ pc'[t] = pc[t] /\ carry'[t] = carry[t]
      \/ tpp = "static" /\ Status[carry[t]] # 0]_vars

(* A hint is honoured wherever a policy knows of hints: a codelet waits    *)
(* for, or was taken by, no other worker than the one it names.            *)
HintHonoured ==
  tpp = "hint" \/ mcp = "hint" =>
    \A w \in MCThreads, d \in Codelets :
      (\E i \in 1 .. Len(ring[w]) : ring[w][i] = d) \/ cur[w] = d \/ d \in pool[w]
        => Hint[d] >= Workers \/ w[2] = Hint[d] + 1

(* The comment in TPHintSched::policy: "If there is a hint, we push it     *)
(* until it is there".                                                     *)
HintReached == \A t \in AnyThread, d \in Codelets :
  (t \in TPThreads /\ pc[t] = "send" /\ tpp = "hint" /\ carry[t] = d /\ Hint[d] < Workers)
    ~> (d \in begun \/ \E n \in 0 .. Threshold : <<Sub(t, Hint[d]), n>> \in Places(d))
=============================================================================
