-------------------------- MODULE SchedulingProofs --------------------------
(***************************************************************************)
(* Theorems about Scheduling, for any machine, program and policies.       *)
(*                                                                         *)
(* SInv is the inductive invariant.  A thread runs one body and no two     *)
(* threads the same (Control), so that Done says which calls were made and *)
(* counters are the signals that are still to come (Counts).  With that a  *)
(* codelet becomes ready in the one step that makes the last of its calls, *)
(* and is then in one pool, ring or hand until it is fired (Homes, Lives); *)
(* a closure is in one pool (Closures).  A codelet is dropped from a hand  *)
(* only where TPStatic passed it to a worker, and is nowhere from then on  *)
(* (NoneLost).                                                             *)
(***************************************************************************)
EXTENDS Scheduling, FiniteSetTheorems, TLAPS

(* The policies that name a worker have one that looks only at what it was *)
(* sent, and outside TPHINT workers that know their own numbers.           *)
HintsFit ==
  /\ tpp = "hint" => mcp \notin {"dynamic", "steal"}
  /\ mcp = "hint" /\ tpp # "hint" => Clusters = 1 \/ Workers = 1

(* What a thread has in each place of its loop.                            *)
Control ==
  /\ \A t \in Threads :
       /\ pc[t] \in {"run", "route"} <=> cur[t] # None
       /\ cur[t] # None => cur[t] \in begun /\ pos[t] <= Len(Body[cur[t]])
       /\ carry[t] # None => pc[t] \in {"run", "send", "push", "route"}
       /\ pc[t] \in {"send", "push", "route"} => carry[t] # None
       /\ pc[t] \in {"top", "send", "push"} => t \in TPThreads
       /\ pc[t] = "route" => tpp = "static" /\ Status[carry[t]] # 0
       /\ pc[t] \in {"send", "push"} => tpp # "static"
  /\ \A t, u \in Threads : cur[t] = cur[u] /\ cur[t] # None => t = u

(* The calls to y that were made.                                          *)
Made(y) == {p \in Positions(y) : p[1] \in begun /\ p[2] <= Done[p[1]]}

Needed(y) == IF y \in Codelets /\ Deps[y] > 0 THEN Deps[y] ELSE 1
Available(y) == y = Root \/ Cardinality(Made(y)) >= Needed(y)

(* The signals that are still to come.                                     *)
Counts == \A d \in Codelets :
  dep[d] = IF Deps[d] = 0 THEN 0 ELSE Deps[d] - Cardinality(Made(d))

Waiting(x) == Available(x) /\ x \notin begun

(* Nothing begins before it is ready.                                      *)
Begun == \A x \in begun : Available(x)

(* A closure is in one pool, and not after it ran.                         *)
Closures ==
  /\ \A t \in TPThreads : \A p \in ready[t] : Waiting(p)
  /\ \A t, u \in TPThreads : \A p \in ready[t] : p \in ready[u] => t = u

(* A codelet is in one place, and only while it is ready and not fired.    *)
Homes == \A d \in Codelets : \A p, q \in Places(d) : p = q
Lives == \A d \in Codelets : Places(d) # {} => Waiting(d)

(* A codelet that is ready is somewhere, or was dropped.                   *)
NoneLost ==
  /\ \A d \in Codelets : Waiting(d) => Places(d) # {} \/ d \in dropped
  /\ \A d \in dropped : Waiting(d) /\ Places(d) = {}
  /\ OnlyByStatus

SInv == TypeOK /\ Control /\ Counts /\ Begun /\ Closures /\ Homes /\ Lives /\ NoneLost

(* Send aims at the hinted worker, and keeps to it.                        *)
Aimed == \A t \in Threads :
  pc[t] = "push" /\ tpp = "hint" /\ Hint[carry[t]] < Workers => to[t] = Hint[carry[t]]

-----------------------------------------------------------------------------
(* The program.                                                            *)

(* CodeletGraph counts as this module does.                                *)
LEMMA SameCardinality == ASSUME NEW S PROVE Graph!Cardinality(S) = Cardinality(S)
BY DEF Graph!Cardinality, Cardinality

(* The assumption, in the parts that are cited.                            *)
LEMMA Program ==
  /\ Threshold \in Nat \ {0} /\ IsFiniteSet(Activities)
  /\ Activities = Codelets \cup Procs /\ Codelets \cap Procs = {}
  /\ None \notin Activities /\ Root \in Procs
  /\ Deps \in [Codelets -> Nat] /\ Hint \in [Codelets -> Nat]
  /\ Body \in [Activities -> Seq(Activities)]
  /\ \A x \in Activities : Len(Body[x]) \in Nat /\ DOMAIN Body[x] = 1 .. Len(Body[x])
  /\ \A y \in Activities : Needed(y) \in Nat \ {0} /\ Cardinality(Positions(y)) <= Needed(y)
  /\ Positions(Root) = {}
<1>1. Activities = Codelets \cup Procs
  BY DEF Activities
<1>2. \A x \in Activities : Len(Body[x]) \in Nat /\ DOMAIN Body[x] = 1 .. Len(Body[x])
  BY ProgramAssumption
<1>3. ASSUME NEW y \in Activities
      PROVE  Needed(y) \in Nat \ {0} /\ Cardinality(Positions(y)) <= Needed(y)
  <2>1. CASE y \in Codelets
    BY <2>1, ProgramAssumption DEF Needed
  <2>2. CASE y \in Procs
    BY <2>2, ProgramAssumption DEF Needed
  <2>3. QED
    BY <1>1, <2>1, <2>2
<1>4. QED
  BY <1>1, <1>2, <1>3, ProgramAssumption

(* A position is a place of a body.                                        *)
LEMMA PositionOf ==
  ASSUME NEW y, NEW p
  PROVE  p \in Positions(y) <=>
           \E x \in Activities : \E j \in 1 .. Len(Body[x]) : Body[x][j] = y /\ p = <<x, j>>
BY Program DEF Positions

(* There are finitely many.                                                *)
LEMMA PositionsFinite == ASSUME NEW y PROVE IsFiniteSet(Positions(y))
<1> DEFINE P(x) == {<<x, i>> : i \in {j \in DOMAIN Body[x] : Body[x][j] = y}}
<1> DEFINE T == {P(x) : x \in Activities}
<1>1. ASSUME NEW x \in Activities PROVE IsFiniteSet(P(x))
  <2> DEFINE I == {j \in DOMAIN Body[x] : Body[x][j] = y}
  <2>0. PICK n \in Nat : n = Len(Body[x]) /\ DOMAIN Body[x] = 1 .. n
    BY Program
  <2>1. IsFiniteSet(1 .. n) /\ I \in SUBSET (1 .. n)
    BY <2>0, FS_Interval
  <2>2. IsFiniteSet(I) /\ IsFiniteSet({x})
    BY <2>1, FS_Subset, FS_Singleton
  <2>3. IsFiniteSet({x} \X I)
    BY <2>2, FS_Product
  <2>4. {x} \X I = P(x)
    OBVIOUS
  <2>5. QED
    BY <2>3, <2>4
<1>2. IsFiniteSet(T)
  <2> DEFINE f == [x \in Activities |-> P(x)]
  <2>1. f \in Surjection(Activities, T)
    BY DEF Surjection
  <2>2. QED
    BY <2>1, Program, FS_Surjection
<1>3. \A S \in T : IsFiniteSet(S)
  BY <1>1
<1>4. IsFiniteSet(UNION T)
  BY <1>2, <1>3, FS_UNION
<1>5. QED
  BY <1>4 DEF Positions

-----------------------------------------------------------------------------
(* Machines and threads.                                                   *)

(* What the types say.                                                     *)
LEMMA Types ==
  ASSUME TypeOK
  PROVE  /\ Clusters \in Nat \ {0} /\ Workers \in Nat \ {0} /\ Status \in [Codelets -> Nat]
         /\ tpp \in TPPolicies /\ mcp \in MCPolicies
         /\ dep \in [Codelets -> Nat] /\ ready \in [TPThreads -> SUBSET Procs]
         /\ pool \in [Threads -> SUBSET Codelets]
         /\ ring \in [MCThreads -> Seq(Codelets)]
         /\ pc \in [Threads -> PCs] /\ cur \in [Threads -> Activities \cup {None}]
         /\ pos \in [Threads -> Nat] /\ carry \in [Threads -> Codelets \cup {None}]
         /\ begun \subseteq Activities /\ dropped \subseteq Codelets /\ torn \in BOOLEAN
BY ProgramAssumption DEF TypeOK

(* TP schedulers and workers.                                              *)
LEMMA ThreadKinds ==
  ASSUME TypeOK
  PROVE  /\ Threads = TPThreads \cup MCThreads /\ TPThreads \cap MCThreads = {}
         /\ \A t \in Threads : Parent(t) \in TPThreads
         /\ \A t \in TPThreads : Parent(t) = t
         /\ \A t \in Threads : \A i \in 0 .. Workers - 1 :
              Sub(t, i) \in MCThreads /\ Parent(Sub(t, i)) = Parent(t)
         /\ \A r \in Cluster : <<r, 0>> \in TPThreads
<1>1. Clusters \in Nat \ {0} /\ Workers \in Nat \ {0}
  BY Types
<1>2. Threads = TPThreads \cup MCThreads
  BY DEF Threads
<1>3. /\ \A t \in TPThreads : t[1] \in Cluster /\ t[2] = 0 /\ t = <<t[1], 0>>
      /\ \A t \in MCThreads : t[1] \in Cluster /\ t[2] \in 1 .. Workers
      /\ \A r \in Cluster : <<r, 0>> \in TPThreads
      /\ \A r \in Cluster, k \in 1 .. Workers : <<r, k>> \in MCThreads
  BY DEF TPThreads, MCThreads
<1>4. TPThreads \cap MCThreads = {}
  BY <1>1, <1>3
<1>5. \A t \in Threads : Parent(t) \in TPThreads
  BY <1>2, <1>3 DEF Parent
<1>6. \A t \in TPThreads : Parent(t) = t
  BY <1>3 DEF Parent
<1>7. ASSUME NEW t \in Threads, NEW j \in 0 .. Workers - 1
      PROVE  Sub(t, j) \in MCThreads /\ Parent(Sub(t, j)) = Parent(t)
  <2>1. t[1] \in Cluster /\ j + 1 \in 1 .. Workers
    BY <1>1, <1>2, <1>3
  <2>2. QED
    BY <1>3, <2>1 DEF Sub, Parent
<1>8. QED
  BY <1>2, <1>3, <1>4, <1>5, <1>6, <1>7

(* A step does not change the machine.                                     *)
LEMMA Fixed ==
  ASSUME policies' = policies
  PROVE  /\ machine' = machine /\ tpp' = tpp /\ mcp' = mcp
         /\ Clusters' = Clusters /\ Workers' = Workers /\ Status' = Status
         /\ Cluster' = Cluster /\ TPThreads' = TPThreads /\ MCThreads' = MCThreads
         /\ Threads' = Threads /\ (HasRing' <=> HasRing)
         /\ (HintsFit' <=> HintsFit)
BY DEF policies, Clusters, Workers, Status, Cluster, TPThreads, MCThreads, Threads, HasRing,
  HintsFit

(* Whatever a thread does, the machine stays.                              *)
LEMMA Stays == ASSUME NEW t \in Threads, Thread(t) PROVE policies' = policies
BY DEF Thread, Running, Call, Deliver, Finish, Push, Overwritten, TPStep, MCStep, PopTP, StealTP, PopCodelet,
  Send, FireRefused, PopWork, StealCodelet, TakeTP, Skip, TakeFrom, policies

-----------------------------------------------------------------------------
(* The steps, by what they do to codelets and closures.                    *)

Same == dropped' = dropped /\ torn' = torn
Rest == ready' = ready /\ dep' = dep /\ Same
NoCall == cur' = cur /\ pos' = pos /\ begun' = begun

(* A closure is run, ...                                                   *)
RunClosure(t, v, p) ==
  /\ pc[t] \in {"top", "steal"} /\ v \in TPThreads /\ p \in ready[v]
  /\ ready' = [ready EXCEPT ![v] = @ \ {p}] /\ Begin(t, p)
  /\ dep' = dep /\ pool' = pool /\ carry' = carry /\ ring' = ring /\ Same

(* ... a codelet fired, from a pool, a ring or the scheduler's hand.       *)
FireFromPool(t, v, d) ==
  /\ pc[t] \in {"pop", "steal"} /\ v \in Threads /\ d \in pool[v]
  /\ pool' = [pool EXCEPT ![v] = @ \ {d}] /\ Begin(t, d)
  /\ Rest /\ carry' = carry /\ ring' = ring

FireFromRing(t) ==
  /\ pc[t] = "pop" /\ t \in MCThreads /\ ring[t] # <<>>
  /\ ring' = [ring EXCEPT ![t] = Tail(@)] /\ Begin(t, Head(ring[t]))
  /\ Rest /\ pool' = pool /\ carry' = carry

FireFromHand(t) ==
  /\ pc[t] = "send" /\ carry[t] # None
  /\ carry' = [carry EXCEPT ![t] = None] /\ Begin(t, carry[t])
  /\ Rest /\ pool' = pool /\ ring' = ring

(* A codelet is moved, ...                                                 *)
TakeInHand(t, d) ==
  /\ pc[t] = "pop" /\ t \in TPThreads /\ d \in pool[t] /\ tpp # "static"
  /\ pool' = [pool EXCEPT ![t] = @ \ {d}] /\ carry' = [carry EXCEPT ![t] = d]
  /\ pc' = [pc EXCEPT ![t] = "send"]
  /\ Rest /\ NoCall /\ ring' = ring

Back(t) == pc' = [pc EXCEPT ![t] = IF pc[t] = "push" THEN "pop" ELSE "run"]

HandToPool(t, v) ==
  /\ pc[t] \in {"run", "push", "route"} /\ carry[t] # None /\ v \in Threads
  /\ pool' = [pool EXCEPT ![v] = @ \cup {carry[t]}] /\ carry' = [carry EXCEPT ![t] = None]
  /\ Back(t) /\ Rest /\ NoCall /\ ring' = ring

HandToRing(t, v) ==
  /\ pc[t] \in {"push", "route"} /\ carry[t] # None /\ v \in MCThreads
  /\ HasRing /\ v = Sub(t, to[t]) /\ Len(ring[v]) < Threshold
  /\ ring' = [ring EXCEPT ![v] = Append(@, carry[t])] /\ carry' = [carry EXCEPT ![t] = None]
  /\ Back(t) /\ Rest /\ NoCall /\ pool' = pool

(* ... or lost.                                                            *)
Lose(t) ==
  /\ pc[t] = "route" /\ carry[t] # None /\ mcp # "static"
  /\ carry' = [carry EXCEPT ![t] = None] /\ pc' = [pc EXCEPT ![t] = "run"]
  /\ dropped' = dropped \cup {carry[t]}
  /\ torn' \in BOOLEAN /\ (torn' => torn \/ HasRing)
  /\ ready' = ready /\ dep' = dep /\ NoCall /\ pool' = pool /\ ring' = ring

(* A body makes its next call or ends.                                     *)
Calling(t) ==
  /\ pc[t] = "run" /\ carry[t] = None /\ pos[t] < Len(Body[cur[t]])
  /\ pos' = [pos EXCEPT ![t] = @ + 1]
  /\ pc' = pc /\ cur' = cur /\ begun' = begun /\ pool' = pool /\ ring' = ring /\ Same

CallClosure(t, y) ==
  /\ Calling(t) /\ y \in Procs /\ y = Body[cur[t]][pos[t] + 1]
  /\ ready' = [ready EXCEPT ![Parent(t)] = @ \cup {y}]
  /\ dep' = dep /\ carry' = carry

CallCodelet(t, y) ==
  /\ Calling(t) /\ y \in Codelets /\ y = Body[cur[t]][pos[t] + 1]
  /\ dep' = [dep EXCEPT ![y] = IF Deps[y] = 0 THEN 0 ELSE @ - 1]
  /\ carry' = IF dep'[y] = 0 THEN [carry EXCEPT ![t] = y] ELSE carry
  /\ ready' = ready

EndBody(t) ==
  /\ pc[t] = "run" /\ carry[t] = None /\ pos[t] = Len(Body[cur[t]])
  /\ cur' = [cur EXCEPT ![t] = None] /\ pos' = [pos EXCEPT ![t] = 0]
  /\ pc' = [pc EXCEPT ![t] = "pop"]
  /\ Rest /\ begun' = begun /\ pool' = pool /\ carry' = carry /\ ring' = ring

(* All else is a step in the loop.                                         *)
GoOn(t, l) ==
  /\ pc' = [pc EXCEPT ![t] = l]
  /\ IF pc[t] \in {"run", "route"}
     THEN l = "route" /\ carry[t] # None /\ tpp = "static" /\ Status[carry[t]] # 0
     ELSE /\ l \in {"top", "steal", "pop", "send", "push"}
          /\ l \in {"send", "push"} <=> pc[t] \in {"send", "push"}
          /\ l \in {"top", "send", "push"} => t \in TPThreads
  /\ Rest /\ NoCall /\ pool' = pool /\ carry' = carry /\ ring' = ring

Kinds(t) ==
  \/ \E v, p : RunClosure(t, v, p)
  \/ \E v, d : FireFromPool(t, v, d)
  \/ FireFromRing(t) \/ FireFromHand(t)
  \/ \E d : TakeInHand(t, d)
  \/ \E v : HandToPool(t, v)
  \/ \E v : HandToRing(t, v)
  \/ Lose(t)
  \/ \E y : CallClosure(t, y)
  \/ \E y : CallCodelet(t, y)
  \/ EndBody(t)
  \/ \E l : GoOn(t, l)

(* Every step is one of these.                                             *)
LEMMA StepKinds ==
  ASSUME TypeOK, Control, NEW t \in Threads, Thread(t)
  PROVE  Kinds(t)
<1>1. /\ pc \in [Threads -> PCs] /\ carry \in [Threads -> Codelets \cup {None}]
      /\ cur \in [Threads -> Activities \cup {None}] /\ pos \in [Threads -> Nat]
      /\ pool \in [Threads -> SUBSET Codelets] /\ mcp \in MCPolicies
      /\ Workers \in Nat \ {0}
  BY Types
<1>2. /\ pc[t] \in {"run", "route"} <=> cur[t] # None
      /\ pc[t] \in {"send", "push", "route"} => carry[t] # None
      /\ pc[t] \in {"top", "send", "push"} => t \in TPThreads
      /\ pc[t] = "route" => tpp = "static" /\ Status[carry[t]] # 0
      /\ pc[t] \in {"send", "push"} => tpp # "static"
  BY DEF Control
<1>3. to[t] \in 0 .. Workers - 1 /\ Sub(t, to[t]) \in MCThreads /\ MCThreads \subseteq Threads
  BY ThreadKinds DEF TypeOK
<1>4. CASE Call(t)
  <2>0. PICK y : y = Body[cur[t]][pos[t] + 1]
    OBVIOUS
  <2>1. y \in Activities
    <3>1. cur[t] \in Activities /\ pos[t] + 1 \in 1 .. Len(Body[cur[t]])
      BY <1>1, <1>2, <1>4, Program DEF Call
    <3>2. QED
      BY <2>0, <3>1, Program
  <2>2. Calling(t)
    BY <1>4 DEF Call, Calling, Same, history
  <2>3. CASE y \in Procs
    <3>1. CallClosure(t, y)
      BY <1>4, <2>0, <2>2, <2>3 DEF Call, CallClosure
    <3>2. QED
      BY <3>1 DEF Kinds
  <2>4. CASE y \in Codelets
    <3>1. CallCodelet(t, y)
      BY <1>4, <2>0, <2>2, <2>4, Program DEF Call, CallCodelet
    <3>2. QED
      BY <3>1 DEF Kinds
  <2>5. QED
    BY <2>1, <2>3, <2>4, Program
<1>5. CASE Deliver(t)
  <2>1. pc[t] = "run" /\ carry[t] # None /\ NoCall /\ Rest /\ ring' = ring
    BY <1>5 DEF Deliver, NoCall, Rest, Same, history
  <2>2. ASSUME NEW v \in Threads, PutInPool(t, v), pc' = pc PROVE Kinds(t)
    <3>1. HandToPool(t, v)
      BY <1>1, <2>1, <2>2 DEF PutInPool, HandToPool, Back
    <3>2. QED
      BY <3>1 DEF Kinds
  <2>3. CASE ~ (mcp = "steal" /\ t \in MCThreads) /\ tpp = "static" /\ Status[carry[t]] # 0
    <3>1. GoOn(t, "route")
      BY <1>5, <2>1, <2>3 DEF Deliver, GoOn, Goto
    <3>2. QED
      BY <3>1 DEF Kinds
  <2>4. QED
    BY <1>5, <2>2, <2>3, ThreadKinds DEF Deliver
<1>6. CASE Finish(t)
  <2>1. EndBody(t)
    BY <1>6 DEF Finish, EndBody, Goto, Rest, Same, queues, history
  <2>2. QED
    BY <2>1 DEF Kinds
<1>7. CASE Push(t)
  <2>0. PICK w \in MCThreads : w = Sub(t, to[t])
    BY <1>3
  <2>1. /\ pc[t] \in {"push", "route"} /\ carry[t] # None /\ NoCall
        /\ ready' = ready /\ dep' = dep /\ torn' = torn
    BY <1>2, <1>7 DEF Push, NoCall
  <2>2. CASE Forwards(w, carry[t])
    <3>1. pc' = pc /\ pool' = pool /\ ring' = ring /\ carry' = carry /\ Rest
      BY <1>7, <2>0, <2>1, <2>2 DEF Push, Rest, Same
    <3>2. GoOn(t, pc[t])
      BY <1>1, <1>2, <2>1, <3>1 DEF GoOn
    <3>3. QED
      BY <3>2 DEF Kinds
  <2>3. CASE ~ Forwards(w, carry[t]) /\ Accepts(w)
    <3>1. /\ IF HasRing
             THEN ring' = [ring EXCEPT ![w] = Append(@, carry[t])] /\ pool' = pool
             ELSE pool' = [pool EXCEPT ![w] = @ \cup {carry[t]}] /\ ring' = ring
          /\ carry' = [carry EXCEPT ![t] = None]
          /\ Back(t) /\ Rest
      BY <1>7, <2>0, <2>1, <2>3 DEF Push, Return, Goto, Back, Rest, Same
    <3>2. CASE HasRing
      <4>1. Len(ring[w]) < Threshold
        BY <2>3, <3>2 DEF Accepts, HasRing
      <4>2. HandToRing(t, w)
        BY <2>0, <2>1, <3>1, <3>2, <4>1 DEF HandToRing
      <4>3. QED
        BY <4>2 DEF Kinds
    <3>3. CASE ~ HasRing
      <4>1. HandToPool(t, w)
        BY <1>3, <2>0, <2>1, <3>1, <3>3 DEF HandToPool
      <4>2. QED
        BY <4>1 DEF Kinds
    <3>4. QED
      BY <3>2, <3>3
  <2>4. CASE ~ Forwards(w, carry[t]) /\ ~ Accepts(w)
    <3>1. /\ IF pc[t] = "push"
             THEN pc' = [pc EXCEPT ![t] = "send"] /\ carry' = carry /\ Rest
             ELSE /\ pc' = [pc EXCEPT ![t] = "run"] /\ carry' = [carry EXCEPT ![t] = None]
                  /\ dropped' = dropped \cup {carry[t]}
          /\ pool' = pool /\ ring' = ring
      BY <1>7, <2>0, <2>1, <2>4 DEF Push, Drop, Return, Goto, Rest, Same
    <3>2. CASE pc[t] = "push"
      <4>1. GoOn(t, "send")
        BY <1>2, <2>1, <3>1, <3>2 DEF GoOn
      <4>2. QED
        BY <4>1 DEF Kinds
    <3>3. CASE pc[t] = "route"
      <4>1. mcp # "static" /\ torn' \in BOOLEAN
        BY <2>1, <2>4, Types DEF Accepts
      <4>2. Lose(t)
        BY <2>1, <3>1, <3>3, <4>1 DEF Lose
      <4>3. QED
        BY <4>2 DEF Kinds
    <3>4. QED
      BY <2>1, <3>2, <3>3
  <2>5. QED
    BY <2>2, <2>3, <2>4
<1>8. ASSUME NEW v \in TPThreads, NEW p \in ready[v], pc[t] \in {"top", "steal"}, TakeTP(t, v, p)
      PROVE  Kinds(t)
  <2>1. RunClosure(t, v, p)
    BY <1>8 DEF TakeTP, RunClosure, Begin, Same
  <2>2. QED
    BY <2>1 DEF Kinds
<1>9. ASSUME NEW l \in {"top", "steal", "pop"}, l = "top" => t \in TPThreads, Skip(t, l),
             pc[t] \in {"top", "steal", "pop"}
      PROVE  Kinds(t)
  <2>1. GoOn(t, l)
    BY <1>9 DEF Skip, GoOn, Goto, Rest, Same, NoCall, queues, history
  <2>2. QED
    BY <2>1 DEF Kinds
<1>10. CASE t \in TPThreads /\ PopTP(t)
  BY <1>8, <1>9, <1>10 DEF PopTP
<1>11. CASE t \in TPThreads /\ StealTP(t)
  <2>1. PICK r \in Cluster :
          \/ Skip(t, "pop")
          \/ \E p \in ready[<<r, 0>>] : TakeTP(t, <<r, 0>>, p)
    BY <1>11 DEF StealTP
  <2>2. pc[t] = "steal"
    BY <1>11 DEF StealTP
  <2>3. QED
    BY <1>8, <1>9, <2>1, <2>2, ThreadKinds
<1>12. CASE t \in TPThreads /\ PopCodelet(t)
  <2>1. CASE pool[t] = {}
    BY <1>9, <1>12, <2>1 DEF PopCodelet
  <2>2. CASE pool[t] # {}
    <3>1. PICK d \in pool[t] :
            /\ pc[t] = "pop" /\ pool' = [pool EXCEPT ![t] = @ \ {d}] /\ Rest /\ ring' = ring
            /\ IF tpp \in {"static", "dynamic"}
               THEN Begin(t, d) /\ carry' = carry
               ELSE /\ carry' = [carry EXCEPT ![t] = d] /\ pc' = [pc EXCEPT ![t] = "send"]
                    /\ NoCall
      BY <1>12, <2>2 DEF PopCodelet, Rest, Same, NoCall, Begin, Goto, history
    <3>2. CASE tpp \in {"static", "dynamic"}
      <4>1. FireFromPool(t, t, d)
        BY <3>1, <3>2 DEF FireFromPool
      <4>2. QED
        BY <4>1 DEF Kinds
    <3>3. CASE tpp \notin {"static", "dynamic"}
      <4>1. TakeInHand(t, d)
        BY <1>12, <3>1, <3>3 DEF TakeInHand
      <4>2. QED
        BY <4>1 DEF Kinds
    <3>4. QED
      BY <3>2, <3>3
  <2>3. QED
    BY <2>1, <2>2
<1>13. CASE t \in TPThreads /\ Send(t)
  <2>1. GoOn(t, "push")
    BY <1>13 DEF Send, GoOn, Goto, Rest, Same, NoCall, queues, history
  <2>2. QED
    BY <2>1 DEF Kinds
<1>14. CASE t \in TPThreads /\ FireRefused(t)
  <2>1. FireFromHand(t)
    BY <1>2, <1>14 DEF FireRefused, FireFromHand, Rest, Same, Begin, queues
  <2>2. QED
    BY <2>1 DEF Kinds
<1>15. ASSUME NEW v \in Threads, pc[t] \in {"pop", "steal"}, TakeFrom(t, v) PROVE Kinds(t)
  <2>1. PICK d \in pool[v] : FireFromPool(t, v, d)
    BY <1>15 DEF TakeFrom, FireFromPool, Rest, Same, Begin
  <2>2. QED
    BY <2>1 DEF Kinds
<1>16. CASE t \in MCThreads /\ PopWork(t)
  <2>1. pc[t] = "pop"
    BY <1>16 DEF PopWork
  <2>2. CASE /\ ring[t] # <<>> /\ ring' = [ring EXCEPT ![t] = Tail(@)]
             /\ Begin(t, Head(ring[t]))
             /\ UNCHANGED <<policies, dep, ready, pool, carry, sending>>
    <3>1. FireFromRing(t)
      BY <1>16, <2>1, <2>2 DEF FireFromRing, Rest, Same, Begin
    <3>2. QED
      BY <3>1 DEF Kinds
  <2>3. CASE TakeFrom(t, t) \/ TakeFrom(t, Parent(t))
    BY <1>15, <2>1, <2>3, ThreadKinds
  <2>4. CASE Skip(t, "steal")
    BY <1>9, <2>1, <2>4
  <2>5. QED
    BY <1>16, <2>2, <2>3, <2>4 DEF PopWork
<1>17. CASE t \in MCThreads /\ StealCodelet(t)
  <2>1. PICK v : /\ v \in Threads
                 /\ Skip(t, "pop") \/ TakeFrom(t, v)
    <3>1. PICK r \in 0 .. Workers : \E v :
            /\ v = IF r = Workers THEN Parent(t) ELSE Sub(t, r)
            /\ Skip(t, "pop") \/ TakeFrom(t, v)
      BY <1>17 DEF StealCodelet
    <3>2. r = Workers \/ r \in 0 .. Workers - 1
      BY <1>1
    <3>3. QED
      BY <3>1, <3>2, ThreadKinds
  <2>2. pc[t] = "steal"
    BY <1>17 DEF StealCodelet
  <2>3. QED
    BY <1>9, <1>15, <2>1, <2>2
<1>18. CASE Overwritten(t)
  <2>1. pc[t] = "route"
    <3>1. PICK u \in Threads \ {t} :
            pc[u] \in {"push", "route"} /\ Sub(u, to[u]) = Sub(t, to[t])
      BY <1>18 DEF Overwritten, Storing
    <3>2. to[u] \in 0 .. Workers - 1
      BY <3>1 DEF TypeOK
    <3>3. Parent(u) = Parent(t)
      BY <1>3, <3>1, <3>2, ThreadKinds
    <3>4. pc[u] = "route" => tpp = "static"
      BY <3>1 DEF Control
    <3>5. pc[u] = "push" => u \in TPThreads
      BY <3>1 DEF Control
    <3>6. pc[t] \in {"push", "route"}
      BY <1>18 DEF Overwritten, Storing
    <3>7. QED
      BY <1>2, <3>1, <3>3, <3>4, <3>5, <3>6, ThreadKinds
  <2>2. HasRing /\ mcp # "static"
    BY <1>18 DEF Overwritten, Storing, HasRing
  <2>3. Lose(t)
    BY <1>2, <1>18, <2>1, <2>2 DEF Overwritten, Drop, Return, Goto, Lose, NoCall, queues
  <2>4. QED
    BY <2>3 DEF Kinds
<1>19. QED
  BY <1>4, <1>5, <1>6, <1>7, <1>10, <1>11, <1>12, <1>13, <1>14, <1>16, <1>17, <1>18
     DEF Thread, Running, TPStep, MCStep

-----------------------------------------------------------------------------
(* How far bodies got, and which calls were made.                          *)

(* Done, without its CHOOSE.                                               *)
LEMMA DoneAt ==
  ASSUME TypeOK, Control
  PROVE  /\ \A t \in Threads : cur[t] # None => Done[cur[t]] = pos[t] /\ cur[t] \in Activities
         /\ \A x \in Activities : (\A t \in Threads : cur[t] # x) =>
              Done[x] = IF x \in begun THEN Len(Body[x]) ELSE 0
         /\ \A x \in Activities : Done[x] \in Nat /\ Done[x] <= Len(Body[x])
<1>0. /\ cur \in [Threads -> Activities \cup {None}] /\ pos \in [Threads -> Nat]
      /\ \A t, u \in Threads : cur[t] = cur[u] /\ cur[t] # None => t = u
      /\ \A t \in Threads : cur[t] # None => pos[t] <= Len(Body[cur[t]])
  BY Types DEF Control
<1>1. ASSUME NEW t \in Threads, cur[t] # None
      PROVE  Done[cur[t]] = pos[t] /\ cur[t] \in Activities
  <2>1. PICK x \in Activities : x = cur[t]
    BY <1>0, <1>1
  <2>2. \A u \in Threads : cur[u] = x => u = t
    BY <1>0, <1>1, <2>1
  <2>3. (CHOOSE u \in Threads : cur[u] = x) = t
    BY <2>1, <2>2
  <2>4. QED
    BY <2>1, <2>3 DEF Done
<1>2. ASSUME NEW x \in Activities, \A t \in Threads : cur[t] # x
      PROVE  Done[x] = IF x \in begun THEN Len(Body[x]) ELSE 0
  BY <1>2 DEF Done
<1>3. ASSUME NEW x \in Activities PROVE Done[x] \in Nat /\ Done[x] <= Len(Body[x])
  <2>1. CASE \E t \in Threads : cur[t] = x
    <3>1. PICK t \in Threads : cur[t] = x /\ x # None
      BY <2>1, Program
    <3>2. QED
      BY <1>0, <1>1, <3>1
  <2>2. CASE ~ \E t \in Threads : cur[t] = x
    <3>1. Done[x] = Len(Body[x]) \/ Done[x] = 0
      BY <1>2, <2>2
    <3>2. Len(Body[x]) \in Nat
      BY Program
    <3>3. QED
      BY <3>1, <3>2
  <2>3. QED
    BY <2>1, <2>2
<1>4. QED
  BY <1>1, <1>2, <1>3

(* Where nothing is called and no body begins or ends.                     *)
LEMMA DoneSame ==
  ASSUME policies' = policies, NoCall
  PROVE  Done' = Done
<1>1. Threads' = Threads /\ cur' = cur /\ pos' = pos /\ begun' = begun
  BY Fixed DEF NoCall
<1>2. QED
  BY <1>1 DEF Done

(* A body that begins has made none of its calls.                          *)
LEMMA DoneBegin ==
  ASSUME TypeOK, Control, policies' = policies, NEW t \in Threads, cur[t] = None,
         NEW x \in Activities, x \notin begun, Begin(t, x)
  PROVE  Done' = Done /\ Done[x] = 0
<1>0. /\ cur \in [Threads -> Activities \cup {None}] /\ pos \in [Threads -> Nat]
      /\ \A u, v \in Threads : cur[u] = cur[v] /\ cur[u] # None => u = v
      /\ \A u \in Threads : cur[u] # None => cur[u] \in begun
      /\ x # None /\ None \notin Activities
  BY Types, Program DEF Control
<1>1. /\ Threads' = Threads /\ cur' = [cur EXCEPT ![t] = x] /\ pos' = [pos EXCEPT ![t] = 0]
      /\ begun' = begun \cup {x}
  BY Fixed DEF Begin
<1>2. \A u \in Threads : cur[u] # x
  BY <1>0
<1>3. Done[x] = 0
  BY <1>2, DoneAt
<1>4. ASSUME NEW z \in Activities PROVE Done'[z] = Done[z]
  <2>1. CASE z = x
    <3>1. (CHOOSE u \in Threads : cur'[u] = x) = t
      BY <1>0, <1>1, <1>2
    <3>2. Done'[x] = pos'[t]
      BY <1>0, <1>1, <3>1 DEF Done
    <3>3. pos'[t] = 0
      BY <1>0, <1>1
    <3>4. QED
      BY <1>3, <2>1, <3>2, <3>3
  <2>2. CASE z # x /\ \E u \in Threads : cur[u] = z
    <3>1. PICK u \in Threads : cur[u] = z /\ u # t
      BY <1>0, <2>2
    <3>2. \A v \in Threads : cur'[v] = z <=> v = u
      BY <1>0, <1>1, <2>2, <3>1
    <3>3. (CHOOSE v \in Threads : cur'[v] = z) = u
      BY <3>2
    <3>4. Done'[z] = pos'[u]
      BY <1>1, <3>2, <3>3 DEF Done
    <3>5. pos'[u] = pos[u] /\ Done[z] = pos[u]
      BY <1>0, <1>1, <3>1, DoneAt
    <3>6. QED
      BY <3>4, <3>5
  <2>3. CASE z # x /\ ~ \E u \in Threads : cur[u] = z
    <3>1. \A v \in Threads : cur'[v] # z
      BY <1>0, <1>1, <2>3
    <3>2. Done'[z] = IF z \in begun' THEN Len(Body[z]) ELSE 0
      BY <1>1, <3>1 DEF Done
    <3>3. Done[z] = IF z \in begun THEN Len(Body[z]) ELSE 0
      BY <2>3, DoneAt
    <3>4. QED
      BY <1>1, <2>3, <3>2, <3>3
  <2>4. QED
    BY <2>1, <2>2, <2>3
<1>5. Done' = Done
  BY <1>4 DEF Done
<1>6. QED
  BY <1>3, <1>5

(* A call is one more.                                                     *)
LEMMA DoneCall ==
  ASSUME TypeOK, Control, policies' = policies, NEW t \in Threads, Calling(t)
  PROVE  /\ cur[t] \in Activities /\ cur[t] \in begun /\ Done[cur[t]] = pos[t]
         /\ \A z \in Activities :
              Done'[z] = IF z = cur[t] THEN pos[t] + 1 ELSE Done[z]
<1>0. /\ cur \in [Threads -> Activities \cup {None}] /\ pos \in [Threads -> Nat]
      /\ \A u, v \in Threads : cur[u] = cur[v] /\ cur[u] # None => u = v
      /\ cur[t] # None /\ cur[t] \in begun /\ None \notin Activities
  BY Types, Program DEF Control, Calling
<1>1. /\ Threads' = Threads /\ cur' = cur /\ pos' = [pos EXCEPT ![t] = @ + 1]
      /\ begun' = begun
  BY Fixed DEF Calling
<1>2. cur[t] \in Activities /\ Done[cur[t]] = pos[t]
  BY <1>0, DoneAt
<1>3. ASSUME NEW z \in Activities
      PROVE  Done'[z] = IF z = cur[t] THEN pos[t] + 1 ELSE Done[z]
  <2>1. CASE \E u \in Threads : cur[u] = z
    <3>1. PICK u \in Threads : cur[u] = z
      BY <2>1
    <3>2. \A v \in Threads : cur'[v] = z <=> v = u
      BY <1>0, <1>1, <3>1
    <3>3. (CHOOSE v \in Threads : cur'[v] = z) = u
      BY <3>2
    <3>4. Done'[z] = pos'[u]
      BY <1>1, <3>2, <3>3 DEF Done
    <3>5. Done[z] = pos[u]
      BY <1>0, <3>1, DoneAt
    <3>6. z = cur[t] <=> u = t
      BY <1>0, <3>1
    <3>7. QED
      BY <1>0, <1>1, <3>4, <3>5, <3>6
  <2>2. CASE ~ \E u \in Threads : cur[u] = z
    <3>1. Done'[z] = IF z \in begun' THEN Len(Body[z]) ELSE 0
      BY <1>1, <2>2 DEF Done
    <3>2. Done[z] = IF z \in begun THEN Len(Body[z]) ELSE 0
      BY <2>2, DoneAt
    <3>3. QED
      BY <1>1, <2>2, <3>1, <3>2
  <2>3. QED
    BY <2>1, <2>2
<1>4. QED
  BY <1>0, <1>2, <1>3

(* The end is none.                                                        *)
LEMMA DoneEnd ==
  ASSUME TypeOK, Control, policies' = policies, NEW t \in Threads, EndBody(t)
  PROVE  Done' = Done
<1>0. /\ cur \in [Threads -> Activities \cup {None}] /\ pos \in [Threads -> Nat]
      /\ \A u, v \in Threads : cur[u] = cur[v] /\ cur[u] # None => u = v
      /\ cur[t] # None /\ cur[t] \in begun /\ None \notin Activities
  BY Types, Program DEF Control, EndBody
<1>1. /\ Threads' = Threads /\ cur' = [cur EXCEPT ![t] = None]
      /\ pos' = [pos EXCEPT ![t] = 0] /\ begun' = begun /\ pos[t] = Len(Body[cur[t]])
  BY Fixed DEF EndBody
<1>2. ASSUME NEW z \in Activities PROVE Done'[z] = Done[z]
  <2>1. CASE z = cur[t]
    <3>1. \A v \in Threads : cur'[v] # z
      BY <1>0, <1>1, <2>1
    <3>2. Done'[z] = Len(Body[z])
      BY <1>0, <1>1, <2>1, <3>1 DEF Done
    <3>3. Done[z] = pos[t]
      BY <1>0, <2>1, DoneAt
    <3>4. QED
      BY <1>1, <2>1, <3>2, <3>3
  <2>2. CASE z # cur[t] /\ \E u \in Threads : cur[u] = z
    <3>1. PICK u \in Threads : cur[u] = z /\ u # t
      BY <2>2
    <3>2. \A v \in Threads : cur'[v] = z <=> v = u
      BY <1>0, <1>1, <3>1
    <3>3. (CHOOSE v \in Threads : cur'[v] = z) = u
      BY <3>2
    <3>4. Done'[z] = pos'[u]
      BY <1>1, <3>2, <3>3 DEF Done
    <3>5. pos'[u] = pos[u] /\ Done[z] = pos[u]
      BY <1>0, <1>1, <3>1, DoneAt
    <3>6. QED
      BY <3>4, <3>5
  <2>3. CASE ~ \E u \in Threads : cur[u] = z
    <3>1. \A v \in Threads : cur'[v] # z
      BY <1>0, <1>1, <2>3
    <3>2. Done'[z] = IF z \in begun' THEN Len(Body[z]) ELSE 0
      BY <1>1, <3>1 DEF Done
    <3>3. Done[z] = IF z \in begun THEN Len(Body[z]) ELSE 0
      BY <2>3, DoneAt
    <3>4. QED
      BY <1>1, <3>2, <3>3
  <2>4. QED
    BY <2>1, <2>2, <2>3
<1>3. QED
  BY <1>2 DEF Done

(* What was called is finite, and no more than there is to call.           *)
LEMMA MadeBound ==
  ASSUME NEW y \in Activities
  PROVE  /\ IsFiniteSet(Made(y)) /\ Cardinality(Made(y)) \in Nat
         /\ Cardinality(Made(y)) <= Needed(y)
<1>1. Made(y) \in SUBSET Positions(y) /\ IsFiniteSet(Positions(y))
  BY PositionsFinite DEF Made
<1>2. IsFiniteSet(Made(y)) /\ Cardinality(Made(y)) <= Cardinality(Positions(y))
  BY <1>1, FS_Subset
<1>3. Cardinality(Made(y)) \in Nat /\ Cardinality(Positions(y)) \in Nat
  BY <1>1, <1>2, FS_CardinalityType
<1>4. QED
  BY <1>2, <1>3, Program

(* Steps that make no call leave everything as ready as it was.            *)
LEMMA MadeSame ==
  ASSUME begun' = begun \/ \E x : begun' = begun \cup {x} /\ Done[x] = 0, Done' = Done
  PROVE  \A y : Made(y)' = Made(y) /\ (Available(y)' <=> Available(y))
<1>1. ASSUME NEW y, NEW p \in Positions(y)
      PROVE  p[1] \in begun' /\ p[2] <= Done'[p[1]] <=> p[1] \in begun /\ p[2] <= Done[p[1]]
  <2>1. p[2] \in Nat \ {0}
    BY PositionOf, Program
  <2>2. CASE begun' = begun
    BY <2>2
  <2>3. CASE \E x : begun' = begun \cup {x} /\ Done[x] = 0
    BY <2>1, <2>3
  <2>4. QED
    BY <2>2, <2>3
<1>2. \A y : Made(y)' = Made(y)
  BY <1>1 DEF Made
<1>3. QED
  BY <1>2 DEF Available

(* A call of y: the first time that it is ready is when its last call is   *)
(* made.                                                                   *)
LEMMA CallMade ==
  ASSUME SInv, policies' = policies, NEW t \in Threads, Calling(t),
         NEW y \in Activities, y = Body[cur[t]][pos[t] + 1]
  PROVE  /\ y # Root /\ ~ Available(y) /\ y \notin begun
         /\ Cardinality(Made(y)') = Cardinality(Made(y)) + 1
         /\ Cardinality(Made(y)') <= Needed(y)
         /\ Available(y)' <=> Cardinality(Made(y)') = Needed(y)
         /\ \A z : z # y => Made(z)' = Made(z) /\ (Available(z)' <=> Available(z))
<1>0. TypeOK /\ Control /\ Begun
  BY DEF SInv
<1>1. PICK x \in Activities, n \in Nat :
        x = cur[t] /\ n = pos[t] /\ x \in begun /\ Done[x] = n /\ n < Len(Body[x])
  BY <1>0, DoneCall, Types DEF Calling
<1>2. /\ \A z \in Activities : Done'[z] = IF z = x THEN n + 1 ELSE Done[z]
      /\ \A z \in Activities : Done[z] \in Nat
      /\ begun' = begun /\ y = Body[x][n + 1]
  <2>1. \A z \in Activities : Done'[z] = IF z = x THEN n + 1 ELSE Done[z]
    BY <1>0, <1>1, DoneCall
  <2>2. \A z \in Activities : Done[z] \in Nat
    BY <1>0, DoneAt
  <2>3. begun' = begun /\ y = Body[x][n + 1]
    BY <1>1 DEF Calling
  <2>4. QED
    BY <2>1, <2>2, <2>3
<1> DEFINE new == <<x, n + 1>>
<1>3. new \in Positions(y) /\ new \notin Made(y)
  <2>1. n + 1 \in 1 .. Len(Body[x])
    BY <1>1, Program
  <2>2. new \in Positions(y)
    BY <1>2, <2>1, PositionOf
  <2>3. QED
    BY <1>1, <2>2 DEF Made
<1>4. \A z : Made(z)' = IF z = y THEN Made(z) \cup {new} ELSE Made(z)
  <2>1. ASSUME NEW z, NEW p \in Positions(z)
        PROVE  p[1] \in begun' /\ p[2] <= Done'[p[1]] <=>
                 (p[1] \in begun /\ p[2] <= Done[p[1]]) \/ (z = y /\ p = new)
    <3>1. PICK a, j : a \in Activities /\ j \in 1 .. Len(Body[a]) /\ Body[a][j] = z /\ p = <<a, j>>
      BY PositionOf
    <3>2. j \in Nat /\ Done[a] \in Nat
      BY <1>2, <3>1, Program
    <3>3. CASE a # x
      BY <1>2, <3>1, <3>3
    <3>4. CASE a = x /\ j = n + 1
      BY <1>1, <1>2, <3>1, <3>4
    <3>5. CASE a = x /\ j # n + 1
      BY <1>1, <1>2, <3>1, <3>2, <3>5
    <3>6. QED
      BY <3>3, <3>4, <3>5
  <2>2. ASSUME NEW z
        PROVE  Made(z)' = IF z = y THEN Made(z) \cup {new} ELSE Made(z)
    <3>1. CASE z = y
      BY <1>3, <2>1, <3>1 DEF Made
    <3>2. CASE z # y
      BY <2>1, <3>2 DEF Made
    <3>3. QED
      BY <3>1, <3>2
  <2>3. QED
    BY <2>2
<1>5. /\ Cardinality(Made(y)') = Cardinality(Made(y)) + 1
      /\ Made(y)' \in SUBSET Positions(y)
  <2>1. IsFiniteSet(Made(y))
    BY MadeBound
  <2>2. Made(y)' = Made(y) \cup {new} /\ Made(y) \in SUBSET Positions(y)
    BY <1>4 DEF Made
  <2>3. QED
    BY <1>3, <2>1, <2>2, FS_AddElement
<1>6. Cardinality(Made(y)') <= Needed(y)
  <2>1. Cardinality(Made(y)') <= Cardinality(Positions(y))
    BY <1>5, PositionsFinite, FS_Subset
  <2>2. /\ Cardinality(Made(y)') \in Nat /\ Cardinality(Positions(y)) \in Nat
        /\ Needed(y) \in Nat /\ Cardinality(Positions(y)) <= Needed(y)
    <3>1. IsFiniteSet(Positions(y))
      BY PositionsFinite
    <3>2. Cardinality(Positions(y)) \in Nat
      BY <3>1, FS_CardinalityType
    <3>3. Cardinality(Made(y)') \in Nat
      BY <1>5, MadeBound
    <3>4. QED
      BY <3>2, <3>3, Program
  <2>3. QED
    BY <2>1, <2>2
<1>7. y # Root
  BY <1>3, Program
<1>8. ~ Available(y)
  <2>1. Cardinality(Made(y)) \in Nat /\ Needed(y) \in Nat
    BY MadeBound, Program
  <2>2. Cardinality(Made(y)) + 1 <= Needed(y)
    BY <1>5, <1>6
  <2>3. QED
    BY <1>7, <2>1, <2>2 DEF Available
<1>9. Available(y)' <=> Cardinality(Made(y)') = Needed(y)
  <2>1. Available(y)' <=> Cardinality(Made(y)') >= Needed(y)
    BY <1>7 DEF Available
  <2>2. Cardinality(Made(y)) \in Nat /\ Needed(y) \in Nat
    BY MadeBound, Program
  <2>3. Cardinality(Made(y)') \in Nat
    BY <1>5, <2>2
  <2>4. QED
    BY <1>6, <2>1, <2>2, <2>3
<1>10. \A z : z # y => Made(z)' = Made(z) /\ (Available(z)' <=> Available(z))
  BY <1>4 DEF Available
<1>11. QED
  BY <1>0, <1>5, <1>6, <1>7, <1>8, <1>9, <1>10 DEF Begun

-----------------------------------------------------------------------------
(* Counts.                                                                 *)

(* The counter of a codelet that is signalled or added reaches zero when   *)
(* it becomes ready.                                                       *)
LEMMA CallCounts ==
  ASSUME SInv, policies' = policies, NEW t \in Threads, NEW y, CallCodelet(t, y)
  PROVE  /\ Counts' /\ dep' \in [Codelets -> Nat]
         /\ dep'[y] = 0 <=> Available(y)'
<1>0. TypeOK /\ Counts /\ dep \in [Codelets -> Nat] /\ Deps \in [Codelets -> Nat]
  BY Types, Program DEF SInv
<1>1. /\ Calling(t) /\ y \in Codelets /\ y \in Activities /\ y = Body[cur[t]][pos[t] + 1]
      /\ dep' = [dep EXCEPT ![y] = IF Deps[y] = 0 THEN 0 ELSE @ - 1]
  BY Program DEF CallCodelet
<1>2. PICK c \in Nat : c = Cardinality(Made(y))
  BY <1>1, MadeBound
<1>3. /\ Cardinality(Made(y)') = c + 1 /\ c + 1 <= Needed(y)
      /\ Available(y)' <=> c + 1 = Needed(y)
      /\ \A z : z # y => Made(z)' = Made(z)
  BY <1>1, <1>2, CallMade
<1>4. CASE Deps[y] = 0
  <2>1. dep'[y] = 0 /\ Needed(y) = 1
    BY <1>0, <1>1, <1>4 DEF Needed
  <2>2. Available(y)' /\ dep' \in [Codelets -> Nat]
    BY <1>0, <1>1, <1>3, <1>4, <2>1
  <2>3. Counts'
    BY <1>0, <1>1, <1>3, <1>4, <2>1 DEF Counts
  <2>4. QED
    BY <2>1, <2>2, <2>3
<1>5. CASE Deps[y] # 0
  <2>1. Needed(y) = Deps[y] /\ Deps[y] \in Nat
    BY <1>0, <1>1, <1>5 DEF Needed
  <2>2. dep[y] = Deps[y] - c /\ dep'[y] = dep[y] - 1
    BY <1>0, <1>1, <1>2, <1>5 DEF Counts
  <2>3. dep'[y] = Deps[y] - (c + 1) /\ dep'[y] \in Nat
    BY <1>3, <2>1, <2>2
  <2>4. dep'[y] = 0 <=> Available(y)'
    BY <1>3, <2>1, <2>3
  <2>5. dep' \in [Codelets -> Nat]
    BY <1>0, <1>1, <1>5, <2>2, <2>3
  <2>6. Counts'
    <3>1. SUFFICES ASSUME NEW d \in Codelets
                   PROVE  dep'[d] = IF Deps[d] = 0 THEN 0
                                    ELSE Deps[d] - Cardinality(Made(d)')
      BY DEF Counts
    <3>2. CASE d = y
      BY <1>3, <1>5, <2>3, <3>2
    <3>3. CASE d # y
      BY <1>0, <1>1, <1>3, <3>3 DEF Counts
    <3>4. QED
      BY <3>2, <3>3
  <2>7. QED
    BY <2>4, <2>5, <2>6
<1>6. QED
  BY <1>4, <1>5

-----------------------------------------------------------------------------
(* Where a codelet is.                                                     *)

InPool(d, p) == \E u \in Threads : d \in pool[u] /\ p = <<u, 0>>
InHand(d, p) == \E u \in Threads : carry[u] = d /\ p = <<u, -1>>
InRing(d, p) == \E u \in MCThreads : \E j \in 1 .. Len(ring[u]) : ring[u][j] = d /\ p = <<u, j>>

(* Places are of three kinds.                                              *)
LEMMA PlacesOf ==
  ASSUME NEW d, NEW p
  PROVE  /\ p \in Places(d) <=> InPool(d, p) \/ InHand(d, p) \/ InRing(d, p)
         /\ p \in Places(d)' <=> InPool(d, p)' \/ InHand(d, p)' \/ InRing(d, p)'
<1>1. /\ InPool(d, p) <=> p \in {<<t, 0>> : t \in {u \in Threads : d \in pool[u]}}
      /\ InPool(d, p)' <=> p \in {<<t, 0>> : t \in {u \in Threads' : d \in pool'[u]}}
  BY DEF InPool
<1>2. /\ InHand(d, p) <=> p \in {<<t, -1>> : t \in {u \in Threads : carry[u] = d}}
      /\ InHand(d, p)' <=> p \in {<<t, -1>> : t \in {u \in Threads' : carry'[u] = d}}
  BY DEF InHand
<1>3. /\ InRing(d, p) <=>
           p \in UNION {{<<w, k>> : k \in {j \in 1 .. Len(ring[w]) : ring[w][j] = d}} :
                           w \in MCThreads}
      /\ InRing(d, p)' <=>
           p \in UNION {{<<w, k>> : k \in {j \in 1 .. Len(ring'[w]) : ring'[w][j] = d}} :
                           w \in MCThreads'}
  BY DEF InRing
<1>4. QED
  BY <1>1, <1>2, <1>3 DEF Places

(* Nobody else has a codelet that is in a pool, a hand or a ring.          *)
LEMMA OnlyInPool ==
  ASSUME SInv, NEW v \in Threads, NEW d \in pool[v]
  PROVE  /\ d \in Codelets /\ Waiting(d) /\ Places(d) # {}
         /\ \A u \in Threads : d \in pool[u] => u = v
         /\ \A u \in Threads : carry[u] # d
         /\ \A u \in MCThreads : \A j \in 1 .. Len(ring[u]) : ring[u][j] # d
<1>0. TypeOK /\ Homes /\ Lives /\ d \in Codelets
  BY Types DEF SInv
<1>1. <<v, 0>> \in Places(d)
  BY PlacesOf DEF InPool
<1>2. \A p : p \in Places(d) => p = <<v, 0>>
  BY <1>0, <1>1 DEF Homes
<1>3. Waiting(d)
  BY <1>0, <1>1 DEF Lives
<1>4. \A p : InPool(d, p) \/ InHand(d, p) \/ InRing(d, p) => p = <<v, 0>>
  BY <1>2, PlacesOf
<1>5. \A u \in Threads : d \in pool[u] => u = v
  BY <1>4 DEF InPool
<1>6. \A u \in Threads : carry[u] # d
  <2>1. SUFFICES ASSUME NEW u \in Threads, carry[u] = d PROVE FALSE
    OBVIOUS
  <2>2. <<u, -1>> = <<v, 0>>
    BY <1>4, <2>1 DEF InHand
  <2>3. QED
    BY <2>2
<1>7. \A u \in MCThreads : \A j \in 1 .. Len(ring[u]) : ring[u][j] # d
  <2>1. SUFFICES ASSUME NEW u \in MCThreads, NEW j \in 1 .. Len(ring[u]), ring[u][j] = d
                 PROVE  FALSE
    OBVIOUS
  <2>2. <<u, j>> = <<v, 0>>
    BY <1>4, <2>1 DEF InRing
  <2>3. j = 0 /\ j \in 1 .. Len(ring[u])
    BY <2>2
  <2>4. QED
    BY <2>3
<1>8. QED
  BY <1>0, <1>1, <1>3, <1>5, <1>6, <1>7

(* The same of a hand.                                                     *)
LEMMA OnlyInHand ==
  ASSUME SInv, NEW v \in Threads, carry[v] # None, NEW d, d = carry[v]
  PROVE  /\ d \in Codelets /\ Waiting(d) /\ Places(d) # {}
         /\ \A u \in Threads : d \notin pool[u]
         /\ \A u \in Threads : carry[u] = d => u = v
         /\ \A u \in MCThreads : \A j \in 1 .. Len(ring[u]) : ring[u][j] # d
<1>0. TypeOK /\ Homes /\ Lives /\ d \in Codelets
  BY Types DEF SInv
<1>1. <<v, -1>> \in Places(d)
  BY PlacesOf DEF InHand
<1>2. \A p : p \in Places(d) => p = <<v, -1>>
  BY <1>0, <1>1 DEF Homes
<1>3. Waiting(d)
  BY <1>0, <1>1 DEF Lives
<1>4. \A p : InPool(d, p) \/ InHand(d, p) \/ InRing(d, p) => p = <<v, -1>>
  BY <1>2, PlacesOf
<1>5. \A u \in Threads : d \notin pool[u]
  <2>1. SUFFICES ASSUME NEW u \in Threads, d \in pool[u] PROVE FALSE
    OBVIOUS
  <2>2. <<u, 0>> = <<v, -1>>
    BY <1>4, <2>1 DEF InPool
  <2>3. QED
    BY <2>2
<1>6. \A u \in Threads : carry[u] = d => u = v
  BY <1>4 DEF InHand
<1>7. \A u \in MCThreads : \A j \in 1 .. Len(ring[u]) : ring[u][j] # d
  <2>1. SUFFICES ASSUME NEW u \in MCThreads, NEW j \in 1 .. Len(ring[u]), ring[u][j] = d
                 PROVE  FALSE
    OBVIOUS
  <2>2. <<u, j>> = <<v, -1>>
    BY <1>4, <2>1 DEF InRing
  <2>3. j = -1 /\ j \in 1 .. Len(ring[u])
    BY <2>2
  <2>4. QED
    BY <2>3
<1>8. QED
  BY <1>0, <1>1, <1>3, <1>5, <1>6, <1>7

(* The same of a ring.                                                     *)
LEMMA OnlyInRing ==
  ASSUME SInv, NEW v \in MCThreads, NEW k \in 1 .. Len(ring[v]), NEW d, d = ring[v][k]
  PROVE  /\ d \in Codelets /\ Waiting(d) /\ Places(d) # {}
         /\ \A u \in Threads : d \notin pool[u] /\ carry[u] # d
         /\ \A u \in MCThreads : \A j \in 1 .. Len(ring[u]) : ring[u][j] = d => u = v /\ j = k
<1>0. TypeOK /\ Homes /\ Lives /\ \A u \in MCThreads : Len(ring[u]) \in Nat
  BY Types DEF SInv
<1>1. d \in Codelets
  BY <1>0, Types
<1>2. <<v, k>> \in Places(d)
  BY PlacesOf DEF InRing
<1>3. \A p : p \in Places(d) => p = <<v, k>>
  BY <1>0, <1>1, <1>2 DEF Homes
<1>4. Waiting(d)
  BY <1>0, <1>1, <1>2 DEF Lives
<1>5. \A p : InPool(d, p) \/ InHand(d, p) \/ InRing(d, p) => p = <<v, k>>
  BY <1>3, PlacesOf
<1>6. k \in Nat \ {0}
  BY <1>0
<1>7. \A u \in Threads : d \notin pool[u]
  BY <1>5, <1>6 DEF InPool
<1>8. \A u \in Threads : carry[u] # d
  <2>1. SUFFICES ASSUME NEW u \in Threads, carry[u] = d PROVE FALSE
    OBVIOUS
  <2>2. <<u, -1>> = <<v, k>>
    BY <1>5, <2>1 DEF InHand
  <2>3. QED
    BY <1>6, <2>2
<1>9. \A u \in MCThreads : \A j \in 1 .. Len(ring[u]) : ring[u][j] = d => u = v /\ j = k
  BY <1>5 DEF InRing
<1>10. QED
  BY <1>1, <1>2, <1>4, <1>7, <1>8, <1>9

(* What a step may do to a codelet: leave it, fire or lose it, or put it   *)
(* in one place.                                                           *)
Left(d) ==
  /\ Waiting(d)' <=> Waiting(d)
  /\ (\A p, q \in Places(d) : p = q) => \A p, q \in Places(d)' : p = q
  /\ Places(d)' = {} <=> Places(d) = {}

Gone(d) == Places(d) # {} /\ Places(d)' = {} /\ (Waiting(d)' => d \in dropped')
Placed(d) == (Waiting(d) => Places(d) # {}) /\ Waiting(d)' /\ \E p : Places(d)' = {p}

(* A step drops nothing, or what it takes away.                            *)
Drops ==
  \/ Same
  \/ /\ \E d \in Codelets : dropped' = dropped \cup {d} /\ Gone(d) /\ Waiting(d)'
     /\ OnlyByStatus'

(* That is all that Homes, Lives and NoneLost ask for.                     *)
LEMMA Settled ==
  ASSUME SInv, policies' = policies, Drops,
         \A d \in Codelets : Left(d) \/ Gone(d) \/ Placed(d)
  PROVE  Homes' /\ Lives' /\ NoneLost'
<1>0. Homes /\ Lives /\ NoneLost /\ dropped \subseteq Codelets
  BY Types DEF SInv
<1>1. Homes'
  BY <1>0 DEF Homes, Left, Gone, Placed
<1>2. Lives'
  BY <1>0 DEF Lives, Left, Gone, Placed
<1>3. NoneLost'
  <2>1. \A d \in Codelets : Waiting(d)' => Places(d)' # {} \/ d \in dropped'
    BY <1>0 DEF NoneLost, Left, Gone, Placed, Drops, Same
  <2>2. \A d \in dropped : Waiting(d)' /\ Places(d)' = {}
    BY <1>0 DEF NoneLost, Left, Gone, Placed
  <2>3. \A d \in dropped' : Waiting(d)' /\ Places(d)' = {}
    BY <2>2 DEF Drops, Same, Gone
  <2>4. OnlyByStatus'
    BY <1>0, Fixed DEF NoneLost, OnlyByStatus, Drops, Same
  <2>5. QED
    BY <2>1, <2>3, <2>4 DEF NoneLost
<1>4. QED
  BY <1>1, <1>2, <1>3

(* Places of a codelet that a step does not touch, ...                     *)
LEMMA PlacesSame ==
  ASSUME policies' = policies, NEW c,
         \A u \in Threads : c \in pool'[u] <=> c \in pool[u],
         \A u \in Threads : carry'[u] = c <=> carry[u] = c,
         \A p : InRing(c, p)' <=> InRing(c, p)
  PROVE  Places(c)' = Places(c)
<1>1. Threads' = Threads
  BY Fixed
<1>2. \A p : (InPool(c, p)' <=> InPool(c, p)) /\ (InHand(c, p)' <=> InHand(c, p))
  BY <1>1 DEF InPool, InHand
<1>3. \A p : p \in Places(c)' <=> p \in Places(c)
  BY <1>2, PlacesOf
<1>4. QED
  BY <1>3

(* ... that is nowhere afterwards, ...                                     *)
LEMMA PlacesNone ==
  ASSUME policies' = policies, NEW c,
         \A u \in Threads : c \notin pool'[u] /\ carry'[u] # c,
         \A u \in MCThreads : \A j \in 1 .. Len(ring'[u]) : ring'[u][j] # c
  PROVE  Places(c)' = {}
<1>1. Threads' = Threads /\ MCThreads' = MCThreads
  BY Fixed
<1>2. \A p : ~ InPool(c, p)' /\ ~ InHand(c, p)' /\ ~ InRing(c, p)'
  BY <1>1 DEF InPool, InHand, InRing
<1>3. \A p : p \notin Places(c)'
  BY <1>2, PlacesOf
<1>4. QED
  BY <1>3

(* ... in one pool, ...                                                    *)
LEMMA PlacesPool ==
  ASSUME policies' = policies, NEW c, NEW v \in Threads,
         \A u \in Threads : c \in pool'[u] <=> u = v,
         \A u \in Threads : carry'[u] # c,
         \A u \in MCThreads : \A j \in 1 .. Len(ring'[u]) : ring'[u][j] # c
  PROVE  \E p : Places(c)' = {p}
<1>1. Threads' = Threads /\ MCThreads' = MCThreads
  BY Fixed
<1>2. \A p : (InPool(c, p)' <=> p = <<v, 0>>) /\ ~ InHand(c, p)' /\ ~ InRing(c, p)'
  BY <1>1 DEF InPool, InHand, InRing
<1>3. \A p : p \in Places(c)' <=> p = <<v, 0>>
  BY <1>2, PlacesOf
<1>4. Places(c)' = {<<v, 0>>}
  BY <1>3
<1>5. QED
  BY <1>4

(* ... in one hand, ...                                                    *)
LEMMA PlacesHand ==
  ASSUME policies' = policies, NEW c, NEW v \in Threads,
         \A u \in Threads : c \notin pool'[u],
         \A u \in Threads : carry'[u] = c <=> u = v,
         \A u \in MCThreads : \A j \in 1 .. Len(ring'[u]) : ring'[u][j] # c
  PROVE  \E p : Places(c)' = {p}
<1>1. Threads' = Threads /\ MCThreads' = MCThreads
  BY Fixed
<1>2. \A p : ~ InPool(c, p)' /\ (InHand(c, p)' <=> p = <<v, -1>>) /\ ~ InRing(c, p)'
  BY <1>1 DEF InPool, InHand, InRing
<1>3. \A p : p \in Places(c)' <=> p = <<v, -1>>
  BY <1>2, PlacesOf
<1>4. Places(c)' = {<<v, -1>>}
  BY <1>3
<1>5. QED
  BY <1>4

(* ... or in one ring.                                                     *)
LEMMA PlacesRing ==
  ASSUME policies' = policies, NEW c, NEW q,
         \A u \in Threads : c \notin pool'[u] /\ carry'[u] # c,
         \A p : InRing(c, p)' <=> p = q
  PROVE  \E p : Places(c)' = {p}
<1>1. Threads' = Threads
  BY Fixed
<1>2. \A p : ~ InPool(c, p)' /\ ~ InHand(c, p)' /\ (InRing(c, p)' <=> p = q)
  BY <1>1 DEF InPool, InHand
<1>3. \A p : p \in Places(c)' <=> p = q
  BY <1>2, PlacesOf
<1>4. Places(c)' = {q}
  BY <1>3
<1>5. QED
  BY <1>4

(* Where rings are left alone.                                             *)
LEMMA RingsSame ==
  ASSUME policies' = policies, ring' = ring
  PROVE  \A c, p : InRing(c, p)' <=> InRing(c, p)
BY Fixed DEF InRing

-----------------------------------------------------------------------------
(* What is ready.                                                          *)

(* Nothing becomes ready where nothing is called.                          *)
LEMMA QuietStep ==
  ASSUME SInv, begun' = begun, Done' = Done
  PROVE  /\ Begun' /\ \A y : Made(y)' = Made(y)
         /\ \A y : Waiting(y)' <=> Waiting(y)
<1>1. \A y : Made(y)' = Made(y) /\ (Available(y)' <=> Available(y))
  BY MadeSame
<1>2. QED
  BY <1>1 DEF SInv, Begun, Waiting

(* What begins was ready, and is no more.                                  *)
LEMMA BeginStep ==
  ASSUME SInv, policies' = policies, NEW t \in Threads, cur[t] = None,
         NEW x \in Activities, Waiting(x), Begin(t, x)
  PROVE  /\ Begun' /\ \A y : Made(y)' = Made(y)
         /\ begun' = begun \cup {x} /\ x \notin begun
         /\ ~ Waiting(x)' /\ \A z : z # x => (Waiting(z)' <=> Waiting(z))
<1>1. TypeOK /\ Control /\ Begun /\ x \notin begun /\ Available(x)
  BY DEF SInv, Waiting
<1>2. begun' = begun \cup {x} /\ Done' = Done /\ Done[x] = 0
  BY <1>1, DoneBegin DEF Begin
<1>3. \A y : Made(y)' = Made(y) /\ (Available(y)' <=> Available(y))
  BY <1>2, MadeSame
<1>4. QED
  BY <1>1, <1>2, <1>3 DEF Begun, Waiting

(* A call makes at most what it calls ready.                               *)
LEMMA CallStep ==
  ASSUME SInv, policies' = policies, NEW t \in Threads, Calling(t),
         NEW y \in Activities, y = Body[cur[t]][pos[t] + 1]
  PROVE  /\ Begun' /\ ~ Waiting(y) /\ (Waiting(y)' <=> Available(y)')
         /\ \A z : z # y => (Waiting(z)' <=> Waiting(z))
<1>1. /\ ~ Available(y) /\ y \notin begun /\ begun' = begun
      /\ \A z : z # y => (Available(z)' <=> Available(z))
  BY CallMade DEF Calling
<1>2. QED
  BY <1>1 DEF SInv, Begun, Waiting

-----------------------------------------------------------------------------
(* The steps, one by one.                                                  *)

Tokens == Begun /\ Counts /\ Closures /\ Homes /\ Lives /\ NoneLost

(* Counters stay right where nothing is called.                            *)
LEMMA CountsKept ==
  ASSUME SInv, dep' = dep, \A y : Made(y)' = Made(y)
  PROVE  Counts'
BY DEF SInv, Counts

(* Closures stay where they are.                                           *)
LEMMA ClosuresKept ==
  ASSUME SInv, policies' = policies, ready' = ready,
         \A p \in Procs : Waiting(p) => Waiting(p)'
  PROVE  Closures'
<1>1. TPThreads' = TPThreads /\ ready \in [TPThreads -> SUBSET Procs] /\ Closures
  BY Types, Fixed DEF SInv
<1>2. QED
  BY <1>1 DEF Closures

(* Codelets stay where they are when closures come and go.                 *)
LEMMA PlacesKept ==
  ASSUME SInv, policies' = policies, pool' = pool, carry' = carry, ring' = ring, Same,
         \A d \in Codelets : Waiting(d)' <=> Waiting(d)
  PROVE  Homes' /\ Lives' /\ NoneLost'
<1>1. \A c : Places(c)' = Places(c)
  BY PlacesSame, RingsSame
<1>2. \A d \in Codelets : Left(d)
  BY <1>1 DEF Left
<1>3. QED
  BY <1>2, Settled DEF Drops

(* A closure is run.                                                       *)
LEMMA RunClosureStep ==
  ASSUME SInv, policies' = policies, NEW t \in Threads, NEW v, NEW p, RunClosure(t, v, p)
  PROVE  Tokens'
<1>0. /\ cur[t] = None /\ p \in Procs /\ Waiting(p) /\ Closures /\ v \in TPThreads
      /\ ready \in [TPThreads -> SUBSET Procs] /\ TPThreads' = TPThreads
      /\ p \in ready[v] /\ ready' = [ready EXCEPT ![v] = @ \ {p}]
      /\ dep' = dep /\ pool' = pool /\ carry' = carry /\ ring' = ring /\ Begin(t, p) /\ Same
  BY Types, Fixed DEF SInv, Control, Closures, RunClosure
<1>1. /\ Begun' /\ \A y : Made(y)' = Made(y)
      /\ \A z : z # p => (Waiting(z)' <=> Waiting(z))
  BY <1>0, BeginStep, Program
<1>2. Counts'
  BY <1>0, <1>1, CountsKept
<1>3. Closures'
  <2>1. \A u \in TPThreads : ready'[u] = ready[u] \ {p}
    BY <1>0 DEF Closures
  <2>2. QED
    BY <1>0, <1>1, <2>1 DEF Closures
<1>4. Homes' /\ Lives' /\ NoneLost'
  <2>1. \A d \in Codelets : Waiting(d)' <=> Waiting(d)
    BY <1>0, <1>1, Program
  <2>2. QED
    BY <1>0, <2>1, PlacesKept
<1>5. QED
  BY <1>1, <1>2, <1>3, <1>4 DEF Tokens

(* A codelet is fired.                                                     *)
LEMMA FireStep ==
  ASSUME SInv, policies' = policies, NEW t \in Threads, cur[t] = None,
         NEW d \in Codelets, Waiting(d), Begin(t, d), Rest,
         Places(d) # {}, Places(d)' = {},
         \A c \in Codelets : c # d /\ (Waiting(c)' <=> Waiting(c)) => Left(c)
  PROVE  Tokens'
<1>1. /\ Begun' /\ (\A y : Made(y)' = Made(y)) /\ ~ Waiting(d)'
      /\ \A z : z # d => (Waiting(z)' <=> Waiting(z))
  BY BeginStep, Program
<1>2. Counts'
  BY <1>1, CountsKept DEF Rest
<1>3. Closures'
  <2>1. \A p \in Procs : Waiting(p) => Waiting(p)'
    BY <1>1, Program
  <2>2. QED
    BY <2>1, ClosuresKept DEF Rest
<1>4. Homes' /\ Lives' /\ NoneLost'
  <2>1. Gone(d)
    BY <1>1 DEF Gone
  <2>2. \A c \in Codelets : c # d => Left(c)
    BY <1>1
  <2>3. QED
    BY <2>1, <2>2, Settled DEF Drops, Rest
<1>5. QED
  BY <1>1, <1>2, <1>3, <1>4 DEF Tokens

(* Firing from a pool, ...                                                 *)
LEMMA FireFromPoolStep ==
  ASSUME SInv, policies' = policies, NEW t \in Threads, NEW v, NEW d, FireFromPool(t, v, d)
  PROVE  Tokens'
<1>0. /\ cur[t] = None /\ v \in Threads /\ d \in pool[v] /\ Begin(t, d) /\ Rest
      /\ pool \in [Threads -> SUBSET Codelets]
      /\ pool' = [pool EXCEPT ![v] = @ \ {d}] /\ carry' = carry /\ ring' = ring
      /\ MCThreads' = MCThreads
  BY Types, Fixed DEF SInv, Control, FireFromPool
<1>1. /\ d \in Codelets /\ Waiting(d) /\ Places(d) # {}
      /\ \A u \in Threads : d \in pool[u] => u = v
      /\ \A u \in Threads : carry[u] # d
      /\ \A u \in MCThreads : \A j \in 1 .. Len(ring[u]) : ring[u][j] # d
  BY <1>0, OnlyInPool
<1>2. Places(d)' = {}
  <2>1. \A u \in Threads : d \notin pool'[u] /\ carry'[u] # d
    BY <1>0, <1>1
  <2>2. QED
    BY <1>0, <1>1, <2>1, PlacesNone
<1>3. ASSUME NEW c \in Codelets, c # d PROVE Places(c)' = Places(c)
  <2>1. \A u \in Threads : c \in pool'[u] <=> c \in pool[u]
    BY <1>0, <1>3
  <2>2. QED
    BY <1>0, <2>1, PlacesSame, RingsSame
<1>4. \A c \in Codelets : c # d /\ (Waiting(c)' <=> Waiting(c)) => Left(c)
  BY <1>3 DEF Left
<1>5. QED
  BY <1>0, <1>1, <1>2, <1>4, FireStep

(* ... from the hand ...                                                   *)
LEMMA FireFromHandStep ==
  ASSUME SInv, policies' = policies, NEW t \in Threads, FireFromHand(t)
  PROVE  Tokens'
<1>0. PICK d : /\ cur[t] = None /\ d = carry[t] /\ d # None /\ Begin(t, d) /\ Rest
               /\ carry \in [Threads -> Codelets \cup {None}]
               /\ carry' = [carry EXCEPT ![t] = None] /\ pool' = pool /\ ring' = ring
               /\ None \notin Codelets
  BY Types, Program DEF SInv, Control, FireFromHand
<1>1. /\ d \in Codelets /\ Waiting(d) /\ Places(d) # {}
      /\ \A u \in Threads : d \notin pool[u]
      /\ \A u \in Threads : carry[u] = d => u = t
      /\ \A u \in MCThreads : \A j \in 1 .. Len(ring[u]) : ring[u][j] # d
  BY <1>0, OnlyInHand
<1>2. Places(d)' = {}
  <2>1. \A u \in Threads : d \notin pool'[u] /\ carry'[u] # d
    BY <1>0, <1>1
  <2>2. QED
    BY <1>0, <1>1, <2>1, PlacesNone
<1>3. ASSUME NEW c \in Codelets, c # d PROVE Places(c)' = Places(c)
  <2>1. \A u \in Threads : carry'[u] = c <=> carry[u] = c
    BY <1>0, <1>3
  <2>2. QED
    BY <1>0, <2>1, PlacesSame, RingsSame
<1>4. \A c \in Codelets : c # d /\ (Waiting(c)' <=> Waiting(c)) => Left(c)
  BY <1>3 DEF Left
<1>5. QED
  BY <1>0, <1>1, <1>2, <1>4, FireStep

(* ... and from a ring, where all others move up.                          *)
LEMMA FireFromRingStep ==
  ASSUME SInv, policies' = policies, NEW t \in Threads, FireFromRing(t)
  PROVE  Tokens'
<1>0. PICK d : /\ cur[t] = None /\ t \in MCThreads /\ Begin(t, d) /\ Rest
               /\ ring \in [MCThreads -> Seq(Codelets)] /\ ring[t] # <<>> /\ d = Head(ring[t])
               /\ ring' = [ring EXCEPT ![t] = Tail(@)] /\ pool' = pool /\ carry' = carry
               /\ MCThreads' = MCThreads
  BY Types, Fixed DEF SInv, Control, FireFromRing
<1>1. /\ 1 \in 1 .. Len(ring[t]) /\ d = ring[t][1] /\ Len(ring[t]) \in Nat \ {0}
      /\ Len(ring'[t]) = Len(ring[t]) - 1
      /\ \A j \in 1 .. Len(ring'[t]) : ring'[t][j] = ring[t][j + 1]
      /\ \A u \in MCThreads : u # t => ring'[u] = ring[u]
  <2>1. PICK q \in Seq(Codelets) : q = ring[t]
    BY <1>0
  <2>2. ring'[t] = Tail(q) /\ \A u \in MCThreads : u # t => ring'[u] = ring[u]
    BY <1>0, <2>1
  <2>3. /\ Len(q) \in Nat \ {0} /\ Head(q) = q[1] /\ Len(Tail(q)) = Len(q) - 1
        /\ \A j \in 1 .. Len(Tail(q)) : Tail(q)[j] = q[j + 1]
    BY <1>0, <2>1
  <2>4. QED
    BY <1>0, <2>1, <2>2, <2>3
<1>2. /\ d \in Codelets /\ Waiting(d) /\ Places(d) # {}
      /\ \A u \in Threads : d \notin pool[u] /\ carry[u] # d
      /\ \A u \in MCThreads : \A j \in 1 .. Len(ring[u]) : ring[u][j] = d => u = t /\ j = 1
  BY <1>0, <1>1, OnlyInRing
<1>3. Places(d)' = {}
  <2>1. ASSUME NEW u \in MCThreads, NEW j \in 1 .. Len(ring'[u]) PROVE ring'[u][j] # d
    <3>1. CASE u # t
      <4>1. ring'[u] = ring[u] /\ j \in 1 .. Len(ring[u])
        BY <1>1, <3>1
      <4>2. ring[u][j] # d
        BY <1>2, <3>1, <4>1
      <4>3. QED
        BY <4>1, <4>2
    <3>2. CASE u = t
      <4>1. j \in Nat /\ j # 0 /\ j + 1 \in 1 .. Len(ring[t])
        BY <1>1, <3>2
      <4>2. ring'[u][j] = ring[t][j + 1] /\ j + 1 # 1
        BY <1>1, <3>2, <4>1
      <4>3. QED
        BY <1>0, <1>2, <4>1, <4>2
    <3>3. QED
      BY <3>1, <3>2
  <2>2. QED
    BY <1>0, <1>2, <2>1, PlacesNone
<1>4. ASSUME NEW c \in Codelets, c # d, Waiting(c)' <=> Waiting(c)
      PROVE  Left(c)
  <2> DEFINE Up(p) == IF p[1] = t /\ p[2] > 0 THEN <<t, p[2] + 1>> ELSE p
  <2>1. \A p : InRing(c, p)' => InRing(c, Up(p))
    <3> HIDE DEF Up
    <3>0. SUFFICES ASSUME NEW p, InRing(c, p)' PROVE InRing(c, Up(p))
      OBVIOUS
    <3>1. PICK u, j : /\ u \in MCThreads /\ j \in 1 .. Len(ring'[u]) /\ ring'[u][j] = c
                      /\ p = <<u, j>>
      BY <1>0, <3>0 DEF InRing
    <3>2. CASE u # t
      <4>1. Up(p) = p
        BY <3>1, <3>2 DEF Up
      <4>2. QED
        BY <1>1, <3>1, <3>2, <4>1 DEF InRing
    <3>3. CASE u = t
      <4>0. j \in 1 .. Len(ring'[t]) /\ ring'[t][j] = c
        BY <3>1, <3>3
      <4>1. j \in Nat /\ j > 0 /\ j + 1 \in 1 .. Len(ring[t])
        BY <1>1, <4>0
      <4>a. ring[t][j + 1] = c
        BY <1>1, <4>0
      <4>2. Up(p) = <<t, j + 1>>
        BY <3>1, <3>3, <4>1 DEF Up
      <4>3. QED
        BY <1>0, <4>1, <4>a, <4>2 DEF InRing
    <3>4. QED
      BY <3>2, <3>3
  <2>2. \A p : InRing(c, p) => \E q : InRing(c, q)'
    <3>1. SUFFICES ASSUME NEW u \in MCThreads, NEW j \in 1 .. Len(ring[u]), ring[u][j] = c
                   PROVE  \E q : InRing(c, q)'
      BY DEF InRing
    <3>2. CASE u # t
      BY <1>0, <1>1, <3>1, <3>2 DEF InRing
    <3>3. CASE u = t
      <4>1. j # 1
        BY <1>1, <1>4, <3>1, <3>3
      <4>2. PICK k \in 1 .. Len(ring'[t]) : j = k + 1
        <5>1. j - 1 \in 1 .. Len(ring'[t]) /\ j = (j - 1) + 1
          BY <1>1, <3>1, <3>3, <4>1
        <5>2. QED
          BY <5>1
      <4>3. ring'[t][k] = c
        BY <1>1, <3>1, <3>3, <4>2
      <4>4. InRing(c, <<t, k>>)'
        BY <1>0, <4>2, <4>3 DEF InRing
      <4>5. QED
        BY <4>4
    <3>4. QED
      BY <3>2, <3>3
  <2>3. \A p : (InPool(c, p)' <=> InPool(c, p)) /\ (InHand(c, p)' <=> InHand(c, p))
    BY <1>0, Fixed DEF InPool, InHand
  <2>4. \A p : InPool(c, p) \/ InHand(c, p) => Up(p) = p
    BY DEF InPool, InHand
  <2>5. \A p : p \in Places(c)' => Up(p) \in Places(c)
    BY <2>1, <2>3, <2>4, PlacesOf
  <2>6. Places(c) # {} => Places(c)' # {}
    <3>1. SUFFICES ASSUME NEW p, p \in Places(c) PROVE \E q : q \in Places(c)'
      OBVIOUS
    <3>2. InPool(c, p) \/ InHand(c, p) \/ InRing(c, p)
      BY <3>1, PlacesOf
    <3>3. QED
      BY <2>2, <2>3, <3>2, PlacesOf
  <2>7. ASSUME \A p, q \in Places(c) : p = q, NEW p \in Places(c)', NEW q \in Places(c)'
        PROVE  p = q
    <3>1. Up(p) = Up(q)
      BY <2>5, <2>7
    <3>2. \E u, j : p = <<u, j>> /\ j \in Int
      BY <1>0, <1>1, PlacesOf DEF InPool, InHand, InRing
    <3>3. \E u, j : q = <<u, j>> /\ j \in Int
      BY <1>0, <1>1, PlacesOf DEF InPool, InHand, InRing
    <3>4. QED
      BY <3>1, <3>2, <3>3
  <2>8. QED
    BY <1>4, <2>5, <2>6, <2>7 DEF Left
<1>5. QED
  BY <1>0, <1>2, <1>3, <1>4, FireStep

(* Moving a codelet changes nothing but its place.                         *)
LEMMA MoveStep ==
  ASSUME SInv, policies' = policies, ready' = ready, dep' = dep, NoCall, Drops,
         \A d \in Codelets : (Waiting(d)' <=> Waiting(d)) => Left(d) \/ Gone(d) \/ Placed(d)
  PROVE  Tokens'
<1>1. begun' = begun /\ Done' = Done
  BY DoneSame DEF NoCall
<1>2. /\ Begun' /\ \A y : Made(y)' = Made(y)
      /\ \A y : Waiting(y)' <=> Waiting(y)
  BY <1>1, QuietStep
<1>3. Counts' /\ Closures'
  BY <1>2, CountsKept, ClosuresKept
<1>4. Homes' /\ Lives' /\ NoneLost'
  BY <1>2, Settled
<1>5. QED
  BY <1>2, <1>3, <1>4 DEF Tokens

(* From a pool to the hand.                                                *)
LEMMA TakeInHandStep ==
  ASSUME SInv, policies' = policies, NEW t \in Threads, NEW d, TakeInHand(t, d)
  PROVE  Tokens'
<1>0. /\ d \in pool[t] /\ carry[t] = None /\ Rest /\ NoCall
      /\ pool \in [Threads -> SUBSET Codelets] /\ carry \in [Threads -> Codelets \cup {None}]
      /\ pool' = [pool EXCEPT ![t] = @ \ {d}] /\ carry' = [carry EXCEPT ![t] = d]
      /\ ring' = ring /\ None \notin Codelets
  BY Types, Program DEF SInv, Control, TakeInHand
<1>1. /\ d \in Codelets /\ Waiting(d) /\ Places(d) # {}
      /\ \A u \in Threads : d \in pool[u] => u = t
      /\ \A u \in Threads : carry[u] # d
      /\ \A u \in MCThreads : \A j \in 1 .. Len(ring[u]) : ring[u][j] # d
  BY <1>0, OnlyInPool
<1>2. \E p : Places(d)' = {p}
  <2>1. /\ \A u \in Threads : d \notin pool'[u]
        /\ \A u \in Threads : carry'[u] = d <=> u = t
    BY <1>0, <1>1
  <2>2. \A u \in MCThreads : \A j \in 1 .. Len(ring'[u]) : ring'[u][j] # d
    BY <1>0, <1>1
  <2>3. QED
    BY <2>1, <2>2, PlacesHand
<1>3. ASSUME NEW c \in Codelets, c # d PROVE Places(c)' = Places(c)
  <2>1. /\ \A u \in Threads : c \in pool'[u] <=> c \in pool[u]
        /\ \A u \in Threads : carry'[u] = c <=> carry[u] = c
    BY <1>0, <1>3
  <2>2. QED
    BY <1>0, <2>1, PlacesSame, RingsSame
<1>4. \A c \in Codelets : (Waiting(c)' <=> Waiting(c)) => Left(c) \/ Gone(c) \/ Placed(c)
  BY <1>1, <1>2, <1>3 DEF Left, Placed
<1>5. QED
  BY <1>0, <1>4, MoveStep DEF Rest, Drops

(* From the hand to a pool.                                                *)
LEMMA HandToPoolStep ==
  ASSUME SInv, policies' = policies, NEW t \in Threads, NEW v, HandToPool(t, v)
  PROVE  Tokens'
<1>0. PICK d : /\ d = carry[t] /\ d # None /\ v \in Threads /\ Rest /\ NoCall
               /\ pool \in [Threads -> SUBSET Codelets]
               /\ carry \in [Threads -> Codelets \cup {None}]
               /\ pool' = [pool EXCEPT ![v] = @ \cup {d}]
               /\ carry' = [carry EXCEPT ![t] = None]
               /\ ring' = ring /\ None \notin Codelets
  BY Types, Program DEF SInv, HandToPool
<1>1. /\ d \in Codelets /\ Waiting(d) /\ Places(d) # {}
      /\ \A u \in Threads : d \notin pool[u]
      /\ \A u \in Threads : carry[u] = d => u = t
      /\ \A u \in MCThreads : \A j \in 1 .. Len(ring[u]) : ring[u][j] # d
  BY <1>0, OnlyInHand
<1>2. \E p : Places(d)' = {p}
  <2>1. /\ \A u \in Threads : d \in pool'[u] <=> u = v
        /\ \A u \in Threads : carry'[u] # d
    BY <1>0, <1>1
  <2>2. QED
    BY <1>0, <1>1, <2>1, PlacesPool
<1>3. ASSUME NEW c \in Codelets, c # d PROVE Places(c)' = Places(c)
  <2>1. /\ \A u \in Threads : c \in pool'[u] <=> c \in pool[u]
        /\ \A u \in Threads : carry'[u] = c <=> carry[u] = c
    BY <1>0, <1>3
  <2>2. QED
    BY <1>0, <2>1, PlacesSame, RingsSame
<1>4. \A c \in Codelets : (Waiting(c)' <=> Waiting(c)) => Left(c) \/ Gone(c) \/ Placed(c)
  BY <1>1, <1>2, <1>3 DEF Left, Placed
<1>5. QED
  BY <1>0, <1>4, MoveStep DEF Rest, Drops

(* From the hand to a ring.                                                *)
LEMMA HandToRingStep ==
  ASSUME SInv, policies' = policies, NEW t \in Threads, NEW v, HandToRing(t, v)
  PROVE  Tokens'
<1>0. PICK d : /\ d = carry[t] /\ d # None /\ v \in MCThreads /\ Rest /\ NoCall
               /\ carry \in [Threads -> Codelets \cup {None}]
               /\ ring \in [MCThreads -> Seq(Codelets)]
               /\ ring' = [ring EXCEPT ![v] = Append(@, d)]
               /\ carry' = [carry EXCEPT ![t] = None]
               /\ pool' = pool /\ None \notin Codelets /\ MCThreads' = MCThreads
  BY Types, Program, Fixed DEF SInv, HandToRing
<1>1. /\ d \in Codelets /\ Waiting(d) /\ Places(d) # {}
      /\ \A u \in Threads : d \notin pool[u]
      /\ \A u \in Threads : carry[u] = d => u = t
      /\ \A u \in MCThreads : \A j \in 1 .. Len(ring[u]) : ring[u][j] # d
  BY <1>0, OnlyInHand
<1>2. PICK n \in Nat : /\ n = Len(ring[v]) /\ Len(ring'[v]) = n + 1 /\ ring'[v][n + 1] = d
                       /\ \A j \in 1 .. n : ring'[v][j] = ring[v][j]
                       /\ \A u \in MCThreads : u # v => ring'[u] = ring[u]
  <2>1. PICK q \in Seq(Codelets) : q = ring[v]
    BY <1>0
  <2>2. ring'[v] = Append(q, d) /\ \A u \in MCThreads : u # v => ring'[u] = ring[u]
    BY <1>0, <2>1
  <2>3. /\ Len(q) \in Nat /\ Len(Append(q, d)) = Len(q) + 1 /\ Append(q, d)[Len(q) + 1] = d
        /\ \A j \in 1 .. Len(q) : Append(q, d)[j] = q[j]
    BY <1>1, <2>1
  <2>4. QED
    BY <2>1, <2>2, <2>3
<1>3. \A u \in MCThreads : \A j \in 1 .. Len(ring'[u]) :
        \/ j \in 1 .. Len(ring[u]) /\ ring'[u][j] = ring[u][j]
        \/ u = v /\ j = n + 1 /\ ring'[u][j] = d
  BY <1>2
<1>4. \E p : Places(d)' = {p}
  <2>1. v \in MCThreads /\ n + 1 \in 1 .. Len(ring'[v])
    BY <1>0, <1>2
  <2>2. \A u \in Threads : d \notin pool'[u] /\ carry'[u] # d
    BY <1>0, <1>1
  <2>3. \A u \in MCThreads : \A j \in 1 .. Len(ring'[u]) :
          ring'[u][j] = d <=> u = v /\ j = n + 1
    BY <1>1, <1>2, <1>3
  <2>4. \A p : InRing(d, p)' <=> p = <<v, n + 1>>
    BY <1>0, <2>1, <2>3 DEF InRing
  <2>5. QED
    BY <2>2, <2>4, PlacesRing
<1>5. ASSUME NEW c \in Codelets, c # d PROVE Places(c)' = Places(c)
  <2>1. \A u \in Threads : carry'[u] = c <=> carry[u] = c
    BY <1>0, <1>5
  <2>2. ASSUME NEW p, InRing(c, p)' PROVE InRing(c, p)
    <3>1. PICK u, j : /\ u \in MCThreads /\ j \in 1 .. Len(ring'[u]) /\ ring'[u][j] = c
                      /\ p = <<u, j>>
      BY <1>0, <2>2 DEF InRing
    <3>2. j \in 1 .. Len(ring[u]) /\ ring[u][j] = c
      BY <1>3, <1>5, <3>1
    <3>3. QED
      BY <3>1, <3>2 DEF InRing
  <2>3. ASSUME NEW p, InRing(c, p) PROVE InRing(c, p)'
    <3>1. PICK u, j : /\ u \in MCThreads /\ j \in 1 .. Len(ring[u]) /\ ring[u][j] = c
                      /\ p = <<u, j>>
      BY <2>3 DEF InRing
    <3>2. j \in 1 .. Len(ring'[u]) /\ ring'[u][j] = c
      BY <1>2, <3>1
    <3>3. QED
      BY <1>0, <3>1, <3>2 DEF InRing
  <2>4. QED
    BY <1>0, <2>1, <2>2, <2>3, PlacesSame
<1>6. \A c \in Codelets : (Waiting(c)' <=> Waiting(c)) => Left(c) \/ Gone(c) \/ Placed(c)
  BY <1>1, <1>4, <1>5 DEF Left, Placed
<1>7. QED
  BY <1>0, <1>6, MoveStep DEF Rest, Drops

(* From the hand to nowhere.                                               *)
LEMMA LoseStep ==
  ASSUME SInv, policies' = policies, NEW t \in Threads, Lose(t)
  PROVE  Tokens'
<1>0. PICK d : /\ d = carry[t] /\ d # None /\ NoCall /\ ready' = ready /\ dep' = dep
               /\ dropped' = dropped \cup {d}
               /\ carry \in [Threads -> Codelets \cup {None}]
               /\ carry' = [carry EXCEPT ![t] = None] /\ pool' = pool /\ ring' = ring
               /\ None \notin Codelets
  BY Types, Program DEF SInv, Lose
<1>1. /\ d \in Codelets /\ Waiting(d) /\ Places(d) # {}
      /\ \A u \in Threads : d \notin pool[u]
      /\ \A u \in Threads : carry[u] = d => u = t
      /\ \A u \in MCThreads : \A j \in 1 .. Len(ring[u]) : ring[u][j] # d
  BY <1>0, OnlyInHand
<1>2. Places(d)' = {}
  <2>1. \A u \in Threads : d \notin pool'[u] /\ carry'[u] # d
    BY <1>0, <1>1
  <2>2. QED
    BY <1>0, <1>1, <2>1, PlacesNone, Fixed
<1>3. ASSUME NEW c \in Codelets, c # d PROVE Places(c)' = Places(c)
  <2>1. \A u \in Threads : carry'[u] = c <=> carry[u] = c
    BY <1>0, <1>3
  <2>2. QED
    BY <1>0, <2>1, PlacesSame, RingsSame
<1>4. Gone(d) /\ Waiting(d)'
  <2>1. begun' = begun /\ Done' = Done
    BY <1>0, DoneSame DEF NoCall
  <2>2. Waiting(d)'
    BY <1>1, <2>1, QuietStep
  <2>3. QED
    BY <1>0, <1>1, <1>2, <2>2 DEF Gone
<1>5. \A c \in Codelets : (Waiting(c)' <=> Waiting(c)) => Left(c) \/ Gone(c) \/ Placed(c)
  BY <1>3, <1>4 DEF Left
<1>6. OnlyByStatus'
  <2>1. tpp = "static" /\ Status[d] # 0 /\ mcp # "static" /\ (torn' => torn \/ HasRing)
    BY <1>0 DEF SInv, Control, Lose
  <2>2. OnlyByStatus
    BY DEF SInv, NoneLost
  <2>3. QED
    BY <1>0, <2>1, <2>2, Fixed DEF OnlyByStatus
<1>7. Drops
  BY <1>0, <1>1, <1>4, <1>6 DEF Drops
<1>8. QED
  BY <1>0, <1>5, <1>7, MoveStep

(* No codelet moves.                                                       *)
LEMMA GoOnStep ==
  ASSUME SInv, policies' = policies, NEW t \in Threads, NEW l, GoOn(t, l)
  PROVE  Tokens'
<1>1. Rest /\ NoCall /\ pool' = pool /\ carry' = carry /\ ring' = ring
  BY DEF GoOn
<1>2. \A c : Places(c)' = Places(c)
  BY <1>1, PlacesSame, RingsSame
<1>3. \A c \in Codelets : (Waiting(c)' <=> Waiting(c)) => Left(c) \/ Gone(c) \/ Placed(c)
  BY <1>2 DEF Left
<1>4. QED
  BY <1>1, <1>3, MoveStep DEF Rest, Drops

(* A body ends.                                                            *)
LEMMA EndBodyStep ==
  ASSUME SInv, policies' = policies, NEW t \in Threads, EndBody(t)
  PROVE  Tokens'
<1>1. Rest /\ begun' = begun /\ pool' = pool /\ carry' = carry /\ ring' = ring
  BY DEF EndBody
<1>2. Done' = Done
  BY DoneEnd DEF SInv
<1>3. /\ Begun' /\ \A y : Made(y)' = Made(y)
      /\ \A y : Waiting(y)' <=> Waiting(y)
  BY <1>1, <1>2, QuietStep
<1>4. Counts' /\ Closures'
  BY <1>1, <1>3, CountsKept, ClosuresKept DEF Rest
<1>5. Homes' /\ Lives' /\ NoneLost'
  BY <1>1, <1>3, PlacesKept DEF Rest
<1>6. QED
  BY <1>3, <1>4, <1>5 DEF Tokens

(* A closure is invoked.                                                   *)
LEMMA CallClosureStep ==
  ASSUME SInv, policies' = policies, NEW t \in Threads, NEW y, CallClosure(t, y)
  PROVE  Tokens'
<1>0. /\ Calling(t) /\ y \in Procs /\ y \in Activities /\ y \notin Codelets
      /\ y = Body[cur[t]][pos[t] + 1] /\ Parent(t) \in TPThreads
      /\ ready \in [TPThreads -> SUBSET Procs] /\ TPThreads' = TPThreads
      /\ ready' = [ready EXCEPT ![Parent(t)] = @ \cup {y}]
      /\ dep' = dep /\ pool' = pool /\ carry' = carry /\ ring' = ring
      /\ Closures /\ Counts /\ Same
  BY Types, Program, ThreadKinds, Fixed DEF SInv, CallClosure, Calling
<1>1. /\ Begun' /\ ~ Waiting(y) /\ (Waiting(y)' <=> Available(y)')
      /\ \A z : z # y => (Waiting(z)' <=> Waiting(z))
  BY <1>0, CallStep
<1>2. /\ Cardinality(Made(y)') = Cardinality(Made(y)) + 1 /\ Cardinality(Made(y)') <= Needed(y)
      /\ Available(y)' <=> Cardinality(Made(y)') = Needed(y)
      /\ \A z : z # y => Made(z)' = Made(z)
  BY <1>0, CallMade
<1>3. Waiting(y)'
  <2>1. Needed(y) = 1 /\ Cardinality(Made(y)) \in Nat
    BY <1>0, MadeBound DEF Needed
  <2>2. QED
    BY <1>1, <1>2, <2>1
<1>4. Counts'
  BY <1>0, <1>2 DEF Counts
<1>5. Closures'
  <2>1. /\ \A u \in TPThreads : y \notin ready[u]
        /\ \A u \in TPThreads : \A p \in ready'[u] :
             p \in ready[u] \/ (p = y /\ u = Parent(t))
    BY <1>0, <1>1 DEF Closures
  <2>2. \A u \in TPThreads : \A p \in ready'[u] : Waiting(p)'
    BY <1>0, <1>1, <1>3, <2>1 DEF Closures
  <2>3. \A u, v \in TPThreads : \A p \in ready'[u] : p \in ready'[v] => u = v
    BY <1>0, <2>1 DEF Closures
  <2>4. QED
    BY <1>0, <2>2, <2>3 DEF Closures
<1>6. Homes' /\ Lives' /\ NoneLost'
  <2>1. \A d \in Codelets : Waiting(d)' <=> Waiting(d)
    BY <1>0, <1>1
  <2>2. QED
    BY <1>0, <2>1, PlacesKept
<1>7. QED
  BY <1>1, <1>4, <1>5, <1>6 DEF Tokens

(* A codelet is signalled or added.                                        *)
LEMMA CallCodeletStep ==
  ASSUME SInv, policies' = policies, NEW t \in Threads, NEW y, CallCodelet(t, y)
  PROVE  Tokens'
<1>0. /\ Calling(t) /\ y \in Codelets /\ y \in Activities /\ y \notin Procs
      /\ y = Body[cur[t]][pos[t] + 1] /\ carry[t] = None /\ None \notin Codelets
      /\ carry \in [Threads -> Codelets \cup {None}]
      /\ carry' = IF dep'[y] = 0 THEN [carry EXCEPT ![t] = y] ELSE carry
      /\ ready' = ready /\ pool' = pool /\ ring' = ring /\ Same
      /\ MCThreads' = MCThreads
  BY Types, Program, Fixed DEF SInv, CallCodelet, Calling
<1>1. /\ Begun' /\ ~ Waiting(y) /\ (Waiting(y)' <=> Available(y)')
      /\ \A z : z # y => (Waiting(z)' <=> Waiting(z))
  BY <1>0, CallStep
<1>2. Counts' /\ (dep'[y] = 0 <=> Available(y)')
  BY CallCounts
<1>3. Closures'
  BY <1>0, <1>1, ClosuresKept
<1>4. /\ \A u \in Threads : y \notin pool[u] /\ carry[u] # y
      /\ \A u \in MCThreads : \A j \in 1 .. Len(ring[u]) : ring[u][j] # y
  <2>1. \A p : p \notin Places(y)
    BY <1>0, <1>1 DEF SInv, Lives
  <2>2. \A p : ~ InPool(y, p) /\ ~ InHand(y, p) /\ ~ InRing(y, p)
    BY <2>1, PlacesOf
  <2>3. QED
    BY <2>2 DEF InPool, InHand, InRing
<1>5. CASE dep'[y] = 0
  <2>1. Placed(y)
    <3>1. /\ \A u \in Threads : y \notin pool'[u]
          /\ \A u \in Threads : carry'[u] = y <=> u = t
          /\ \A u \in MCThreads : \A j \in 1 .. Len(ring'[u]) : ring'[u][j] # y
      BY <1>0, <1>4, <1>5
    <3>2. \E p : Places(y)' = {p}
      BY <3>1, PlacesHand
    <3>3. QED
      BY <1>1, <1>2, <1>5, <3>2 DEF Placed
  <2>2. ASSUME NEW c \in Codelets, c # y PROVE Left(c)
    <3>1. \A u \in Threads : carry'[u] = c <=> carry[u] = c
      BY <1>0, <1>5, <2>2
    <3>2. Places(c)' = Places(c)
      BY <1>0, <3>1, PlacesSame, RingsSame
    <3>3. QED
      BY <1>1, <2>2, <3>2 DEF Left
  <2>3. Homes' /\ Lives' /\ NoneLost'
    BY <1>0, <2>1, <2>2, Settled DEF Drops
  <2>4. QED
    BY <1>1, <1>2, <1>3, <2>3 DEF Tokens
<1>6. CASE dep'[y] # 0
  <2>1. \A d \in Codelets : Waiting(d)' <=> Waiting(d)
    BY <1>1, <1>2, <1>6
  <2>2. Homes' /\ Lives' /\ NoneLost'
    BY <1>0, <1>6, <2>1, PlacesKept
  <2>3. QED
    BY <1>1, <1>2, <1>3, <2>2 DEF Tokens
<1>7. QED
  BY <1>5, <1>6

-----------------------------------------------------------------------------
(* Where threads are.                                                      *)

InLoop(t) ==
  /\ pc[t] \in {"run", "route"} <=> cur[t] # None
  /\ cur[t] # None => cur[t] \in begun /\ pos[t] <= Len(Body[cur[t]])
  /\ carry[t] # None => pc[t] \in {"run", "send", "push", "route"}
  /\ pc[t] \in {"send", "push", "route"} => carry[t] # None
  /\ pc[t] \in {"top", "send", "push"} => t \in TPThreads
  /\ pc[t] = "route" => tpp = "static" /\ Status[carry[t]] # 0
  /\ pc[t] \in {"send", "push"} => tpp # "static"

(* Control, thread by thread.                                              *)
LEMMA ControlStep ==
  ASSUME SInv, policies' = policies, NEW t \in Threads, begun \subseteq begun',
         \A u \in Threads : u # t =>
           pc'[u] = pc[u] /\ cur'[u] = cur[u] /\ pos'[u] = pos[u] /\ carry'[u] = carry[u],
         InLoop(t)',
         cur'[t] = cur[t] \/ cur'[t] = None \/ cur'[t] \notin begun
  PROVE  Control'
<1>1. /\ Threads' = Threads /\ TPThreads' = TPThreads /\ tpp' = tpp /\ Status' = Status
      /\ Control
  BY Fixed DEF SInv
<1>2. \A u \in Threads : InLoop(u)'
  <2>1. SUFFICES ASSUME NEW u \in Threads, u # t PROVE InLoop(u)'
    OBVIOUS
  <2>2. InLoop(u)
    BY <1>1 DEF Control, InLoop
  <2>3. pc'[u] = pc[u] /\ cur'[u] = cur[u] /\ pos'[u] = pos[u] /\ carry'[u] = carry[u]
    BY <2>1
  <2>4. QED
    BY <1>1, <2>2, <2>3 DEF InLoop
<1>3. ASSUME NEW u \in Threads, NEW v \in Threads, cur'[u] = cur'[v], cur'[u] # None
      PROVE  u = v
  BY <1>1, <1>3 DEF Control
<1>4. QED
  BY <1>1, <1>2, <1>3 DEF Control, InLoop

(* What begins is where bodies run.                                        *)
LEMMA ControlBegin ==
  ASSUME SInv, policies' = policies, NEW t \in Threads, NEW x \in Activities, Begin(t, x),
         x \notin begun, carry'[t] = None,
         \A u \in Threads : u # t => carry'[u] = carry[u]
  PROVE  Control'
<1>1. /\ pc \in [Threads -> PCs] /\ cur \in [Threads -> Activities \cup {None}]
      /\ pos \in [Threads -> Nat] /\ None \notin Activities /\ Len(Body[x]) \in Nat
  BY Types, Program DEF SInv
<1>2. /\ cur' = [cur EXCEPT ![t] = x] /\ pos' = [pos EXCEPT ![t] = 0]
      /\ begun' = begun \cup {x} /\ pc' = [pc EXCEPT ![t] = "run"]
  BY DEF Begin, Goto
<1>3. cur'[t] = x /\ pos'[t] = 0 /\ pc'[t] = "run" /\ x \in begun' /\ x # None
  BY <1>1, <1>2
<1>4. InLoop(t)'
  BY <1>1, <1>3 DEF InLoop
<1>5. QED
  BY <1>1, <1>2, <1>3, <1>4, ControlStep

(* A thread whose body does not run may go on.                             *)
LEMMA ControlKinds ==
  ASSUME SInv, policies' = policies, NEW t \in Threads, Kinds(t)
  PROVE  Control'
<1>1. /\ pc \in [Threads -> PCs] /\ cur \in [Threads -> Activities \cup {None}]
      /\ pos \in [Threads -> Nat] /\ carry \in [Threads -> Codelets \cup {None}]
      /\ None \notin Activities /\ Codelets \subseteq Activities /\ Procs \subseteq Activities
      /\ TypeOK /\ Control
  BY Types, Program DEF SInv
<1>2. InLoop(t)
  BY <1>1 DEF Control, InLoop
<1>3. TPThreads' = TPThreads /\ tpp' = tpp /\ Status' = Status
  BY Fixed
<1>4. ASSUME NEW v, NEW p, RunClosure(t, v, p) PROVE Control'
  <2>1. p \in Procs /\ p \in Activities /\ Waiting(p)
    BY <1>1, <1>4, Types DEF RunClosure, SInv, Closures
  <2>2. carry[t] = None /\ carry' = carry /\ Begin(t, p) /\ p \notin begun
    BY <1>2, <1>4, <2>1 DEF RunClosure, InLoop, Waiting
  <2>3. QED
    BY <2>1, <2>2, ControlBegin
<1>5. ASSUME NEW v, NEW d, FireFromPool(t, v, d) PROVE Control'
  <2>1. d \in Activities /\ d \notin begun
    BY <1>1, <1>5, OnlyInPool DEF FireFromPool, Waiting
  <2>2. carry[t] = None /\ carry' = carry /\ Begin(t, d)
    BY <1>2, <1>5 DEF FireFromPool, InLoop
  <2>3. QED
    BY <2>1, <2>2, ControlBegin
<1>6. CASE FireFromRing(t)
  <2>1. PICK d : d = Head(ring[t]) /\ d = ring[t][1] /\ t \in MCThreads /\ 1 \in 1 .. Len(ring[t])
    <3>1. t \in MCThreads /\ ring[t] \in Seq(Codelets) /\ ring[t] # <<>>
      BY <1>1, <1>6, Types DEF FireFromRing
    <3>2. \A q \in Seq(Codelets) : q # <<>> => Head(q) = q[1] /\ 1 \in 1 .. Len(q)
      OBVIOUS
    <3>3. QED
      BY <3>1, <3>2
  <2>2. d \in Activities /\ d \notin begun
    BY <1>1, <2>1, OnlyInRing DEF Waiting
  <2>3. carry[t] = None /\ carry' = carry /\ Begin(t, d)
    BY <1>2, <1>6, <2>1 DEF FireFromRing, InLoop
  <2>4. QED
    BY <2>2, <2>3, ControlBegin
<1>7. CASE FireFromHand(t)
  <2>1. PICK d : d = carry[t] /\ d # None /\ carry' = [carry EXCEPT ![t] = None] /\ Begin(t, d)
    BY <1>7 DEF FireFromHand
  <2>2. d \in Activities /\ d \notin begun
    BY <1>1, <2>1, OnlyInHand DEF Waiting
  <2>3. QED
    BY <1>1, <2>1, <2>2, ControlBegin
<1>8. ASSUME NEW d, TakeInHand(t, d) PROVE Control'
  <2>1. /\ d \in Codelets /\ pc'[t] = "send" /\ carry'[t] = d /\ NoCall /\ t \in TPThreads
        /\ cur[t] = None /\ tpp # "static"
        /\ \A u \in Threads : u # t => pc'[u] = pc[u] /\ carry'[u] = carry[u]
    BY <1>1, <1>2, <1>8, Types DEF TakeInHand, InLoop
  <2>2. InLoop(t)'
    BY <1>1, <1>2, <1>3, <2>1 DEF InLoop, NoCall
  <2>3. QED
    BY <2>1, <2>2, ControlStep DEF NoCall
<1>9. ASSUME pc[t] \in {"run", "push", "route"}, carry' = [carry EXCEPT ![t] = None],
             Back(t), NoCall
      PROVE  Control'
  <2>1. /\ pc'[t] = (IF pc[t] = "push" THEN "pop" ELSE "run") /\ carry'[t] = None
        /\ \A u \in Threads : u # t => pc'[u] = pc[u] /\ carry'[u] = carry[u]
    BY <1>1, <1>9 DEF Back
  <2>2. InLoop(t)'
    BY <1>1, <1>2, <1>3, <1>9, <2>1 DEF InLoop, NoCall
  <2>3. QED
    BY <1>9, <2>1, <2>2, ControlStep DEF NoCall
<1>10. ASSUME NEW v, HandToPool(t, v) \/ HandToRing(t, v) PROVE Control'
  BY <1>9, <1>10 DEF HandToPool, HandToRing
<1>11. CASE Lose(t)
  BY <1>1, <1>9, <1>11 DEF Lose, Back
<1>12. ASSUME Calling(t), carry'[t] = carry[t] \/ carry'[t] # None,
              \A u \in Threads : u # t => carry'[u] = carry[u]
       PROVE  Control'
  <2>1. /\ pc' = pc /\ cur' = cur /\ begun' = begun /\ pc[t] = "run"
        /\ pos'[t] = pos[t] + 1 /\ pos[t] < Len(Body[cur[t]])
        /\ \A u \in Threads : u # t => pos'[u] = pos[u]
    BY <1>1, <1>12 DEF Calling
  <2>2. pos'[t] <= Len(Body[cur[t]])
    <3>1. cur[t] \in Activities /\ pos[t] \in Nat
      BY <1>1, <1>2, <2>1 DEF InLoop
    <3>2. Len(Body[cur[t]]) \in Nat
      BY <3>1, Program
    <3>3. QED
      BY <2>1, <3>1, <3>2
  <2>3. InLoop(t)'
    BY <1>2, <1>3, <2>1, <2>2 DEF InLoop
  <2>4. QED
    BY <1>12, <2>1, <2>3, ControlStep
<1>13. ASSUME NEW y, CallClosure(t, y) PROVE Control'
  BY <1>12, <1>13 DEF CallClosure
<1>14. ASSUME NEW y, CallCodelet(t, y) PROVE Control'
  BY <1>1, <1>12, <1>14 DEF CallCodelet
<1>15. CASE EndBody(t)
  <2>1. /\ cur'[t] = None /\ pc'[t] = "pop" /\ carry' = carry /\ carry[t] = None /\ begun' = begun
        /\ \A u \in Threads : u # t => pc'[u] = pc[u] /\ cur'[u] = cur[u] /\ pos'[u] = pos[u]
    BY <1>1, <1>15 DEF EndBody
  <2>2. InLoop(t)'
    BY <2>1 DEF InLoop
  <2>3. QED
    BY <2>1, <2>2, ControlStep
<1>16. ASSUME NEW l, GoOn(t, l) PROVE Control'
  <2>1. /\ pc'[t] = l /\ NoCall /\ carry' = carry
        /\ \A u \in Threads : u # t => pc'[u] = pc[u]
    BY <1>1, <1>16 DEF GoOn
  <2>2. InLoop(t)'
    <3>1. CASE pc[t] \in {"run", "route"}
      BY <1>2, <1>3, <1>16, <2>1, <3>1 DEF InLoop, NoCall, GoOn
    <3>2. CASE pc[t] \notin {"run", "route"}
      <4>1. /\ l \in {"top", "steal", "pop", "send", "push"}
            /\ l \in {"send", "push"} <=> pc[t] \in {"send", "push"}
            /\ l \in {"top", "send", "push"} => t \in TPThreads
        BY <1>16, <3>2 DEF GoOn
      <4>2. QED
        BY <1>2, <1>3, <2>1, <3>2, <4>1 DEF InLoop, NoCall
    <3>3. QED
      BY <3>1, <3>2
  <2>3. QED
    BY <2>1, <2>2, ControlStep DEF NoCall
<1>17. QED
  BY <1>4, <1>5, <1>6, <1>7, <1>8, <1>10, <1>11, <1>13, <1>14, <1>15, <1>16 DEF Kinds

-----------------------------------------------------------------------------
(* Types.                                                                  *)

LoopTypes ==
  /\ pc \in [Threads -> PCs] /\ cur \in [Threads -> Activities \cup {None}]
  /\ pos \in [Threads -> Nat] /\ carry \in [Threads -> Codelets \cup {None}]
  /\ begun \subseteq Activities /\ dropped \subseteq Codelets /\ torn \in BOOLEAN

QueueTypes ==
  /\ dep \in [Codelets -> Nat] /\ ready \in [TPThreads -> SUBSET Procs]
  /\ pool \in [Threads -> SUBSET Codelets] /\ ring \in [MCThreads -> Seq(Codelets)]
  /\ \A w \in MCThreads : Len(ring[w]) <= Threshold

SendingTypes ==
  /\ whichSub \in [TPThreads -> 0 .. Workers - 1] /\ to \in [Threads -> 0 .. Workers - 1]
  /\ insist \in [Threads -> BOOLEAN] /\ tries \in [TPThreads -> 0 .. Workers]

(* These are all.                                                          *)
LEMMA TypesSplit ==
  TypeOK <=> /\ LoopTypes /\ QueueTypes /\ SendingTypes
             /\ <<Clusters, Workers, Status, tpp, mcp>> \in Settings
BY DEF TypeOK, LoopTypes, QueueTypes, SendingTypes

(* Where threads are and what they run.                                    *)
LEMMA LoopStep ==
  ASSUME SInv, policies' = policies, NEW t \in Threads, Kinds(t)
  PROVE  LoopTypes'
<1>1. /\ LoopTypes /\ Threads' = Threads /\ TypeOK /\ Control
      /\ Codelets \subseteq Activities /\ Procs \subseteq Activities
  BY Types, Fixed, Program DEF SInv, LoopTypes
<1>2. {"top", "steal", "pop", "run", "send", "push", "route"} = PCs
  BY DEF PCs
<1>3. ASSUME NEW x \in Activities, Begin(t, x), carry' \in [Threads -> Codelets \cup {None}]
      PROVE  LoopTypes'
  BY <1>1, <1>2, <1>3 DEF LoopTypes, Begin, Goto
<1>4. ASSUME NoCall, NEW l \in PCs, pc' = [pc EXCEPT ![t] = l],
             dropped' \subseteq Codelets, torn' \in BOOLEAN,
             carry' \in [Threads -> Codelets \cup {None}]
      PROVE  LoopTypes'
  BY <1>1, <1>4 DEF LoopTypes, NoCall
<1>5. ASSUME NEW v, NEW p, RunClosure(t, v, p) PROVE LoopTypes'
  <2>1. p \in Activities /\ Begin(t, p) /\ carry' = carry
    BY <1>1, <1>5, Types DEF RunClosure
  <2>2. QED
    BY <1>1, <1>3, <2>1 DEF LoopTypes
<1>6. ASSUME NEW v, NEW d, FireFromPool(t, v, d) PROVE LoopTypes'
  <2>1. d \in Activities /\ Begin(t, d) /\ carry' = carry
    BY <1>1, <1>6, Types DEF FireFromPool
  <2>2. QED
    BY <1>1, <1>3, <2>1 DEF LoopTypes
<1>7. CASE FireFromRing(t)
  <2>1. \A q \in Seq(Codelets) : q # <<>> => Head(q) \in Codelets
    OBVIOUS
  <2>2. Head(ring[t]) \in Activities /\ Begin(t, Head(ring[t])) /\ carry' = carry
    BY <1>1, <1>7, <2>1, Types DEF FireFromRing
  <2>3. QED
    BY <1>1, <1>3, <2>2 DEF LoopTypes
<1>8. CASE FireFromHand(t)
  <2>1. /\ carry[t] \in Activities /\ Begin(t, carry[t])
        /\ carry' \in [Threads -> Codelets \cup {None}]
    BY <1>1, <1>8 DEF FireFromHand, LoopTypes
  <2>2. QED
    BY <1>3, <2>1
<1>9. ASSUME NEW d, TakeInHand(t, d) PROVE LoopTypes'
  <2>1. d \in Codelets
    BY <1>1, <1>9, Types DEF TakeInHand
  <2>2. /\ NoCall /\ "send" \in PCs /\ pc' = [pc EXCEPT ![t] = "send"]
        /\ carry' \in [Threads -> Codelets \cup {None}]
    BY <1>1, <1>2, <1>9, <2>1 DEF TakeInHand, LoopTypes
  <2>3. dropped' \subseteq Codelets /\ torn' \in BOOLEAN
    BY <1>1, <1>9 DEF TakeInHand, Rest, Same, LoopTypes
  <2>4. QED
    BY <1>4, <2>2, <2>3
<1>10. ASSUME NoCall, Back(t), carry' = [carry EXCEPT ![t] = None],
              dropped' \subseteq Codelets, torn' \in BOOLEAN
       PROVE  LoopTypes'
  <2>1. carry' \in [Threads -> Codelets \cup {None}]
    BY <1>1, <1>10 DEF LoopTypes
  <2>2. CASE pc[t] = "push"
    BY <1>2, <1>4, <1>10, <2>1, <2>2 DEF Back
  <2>3. CASE pc[t] # "push"
    BY <1>2, <1>4, <1>10, <2>1, <2>3 DEF Back
  <2>4. QED
    BY <2>2, <2>3
<1>11. ASSUME NEW v, HandToPool(t, v) \/ HandToRing(t, v) PROVE LoopTypes'
  BY <1>1, <1>10, <1>11 DEF HandToPool, HandToRing, Rest, Same, LoopTypes
<1>12. CASE Lose(t)
  <2>1. dropped' \subseteq Codelets
    BY <1>1, <1>12 DEF Lose, LoopTypes
  <2>2. QED
    BY <1>10, <1>12, <2>1 DEF Lose, Back
<1>13. ASSUME Calling(t), carry' \in [Threads -> Codelets \cup {None}] PROVE LoopTypes'
  BY <1>1, <1>13 DEF Calling, Same, LoopTypes
<1>14. ASSUME NEW y, CallClosure(t, y) PROVE LoopTypes'
  BY <1>1, <1>13, <1>14 DEF CallClosure, LoopTypes
<1>15. ASSUME NEW y, CallCodelet(t, y) PROVE LoopTypes'
  <2>1. carry' \in [Threads -> Codelets \cup {None}]
    BY <1>1, <1>15 DEF CallCodelet, LoopTypes
  <2>2. QED
    BY <1>13, <1>15, <2>1 DEF CallCodelet
<1>16. CASE EndBody(t)
  BY <1>1, <1>2, <1>16 DEF EndBody, Rest, Same, LoopTypes
<1>17. ASSUME NEW l, GoOn(t, l) PROVE LoopTypes'
  <2>1. l \in PCs
    BY <1>2, <1>17 DEF GoOn
  <2>2. QED
    BY <1>1, <1>4, <1>17, <2>1 DEF GoOn, Rest, Same, LoopTypes
<1>18. QED
  BY <1>5, <1>6, <1>7, <1>8, <1>9, <1>11, <1>12, <1>14, <1>15, <1>16, <1>17 DEF Kinds

(* Queues.                                                                 *)
LEMMA QueueStep ==
  ASSUME SInv, policies' = policies, NEW t \in Threads, Kinds(t)
  PROVE  QueueTypes'
<1>1. /\ QueueTypes /\ Threads' = Threads /\ TPThreads' = TPThreads /\ MCThreads' = MCThreads
      /\ TypeOK /\ carry[t] \in Codelets \cup {None} /\ Parent(t) \in TPThreads
  BY Types, Fixed, ThreadKinds, TypesSplit DEF SInv
<1>2. ASSUME pool' \in [Threads -> SUBSET Codelets], Rest, ring' = ring PROVE QueueTypes'
  BY <1>1, <1>2 DEF QueueTypes, Rest
<1>3. ASSUME NEW v \in MCThreads, NEW q \in Seq(Codelets), ring' = [ring EXCEPT ![v] = q],
             Len(q) <= Threshold, Rest, pool' = pool
      PROVE  QueueTypes'
  BY <1>1, <1>3 DEF QueueTypes, Rest
<1>4. ASSUME NEW v, NEW p, RunClosure(t, v, p) PROVE QueueTypes'
  BY <1>1, <1>4 DEF RunClosure, QueueTypes
<1>5. ASSUME NEW v, NEW d, FireFromPool(t, v, d) PROVE QueueTypes'
  <2>1. pool' \in [Threads -> SUBSET Codelets]
    BY <1>1, <1>5 DEF FireFromPool, QueueTypes
  <2>2. QED
    BY <1>2, <1>5, <2>1 DEF FireFromPool
<1>6. CASE FireFromRing(t)
  <2>1. PICK q \in Seq(Codelets) : q = ring[t] /\ q # <<>> /\ Len(q) <= Threshold
    BY <1>1, <1>6 DEF FireFromRing, QueueTypes
  <2>2. Tail(q) \in Seq(Codelets) /\ Len(Tail(q)) <= Threshold
    <3>1. Tail(q) \in Seq(Codelets) /\ Len(Tail(q)) = Len(q) - 1 /\ Len(q) \in Nat
      BY <2>1
    <3>2. QED
      BY <2>1, <3>1, Program
  <2>3. QED
    BY <1>3, <1>6, <2>1, <2>2 DEF FireFromRing
<1>7. CASE FireFromHand(t)
  BY <1>1, <1>2, <1>7 DEF FireFromHand, QueueTypes
<1>8. ASSUME NEW d, TakeInHand(t, d) PROVE QueueTypes'
  <2>1. pool' \in [Threads -> SUBSET Codelets]
    BY <1>1, <1>8 DEF TakeInHand, QueueTypes
  <2>2. QED
    BY <1>2, <1>8, <2>1 DEF TakeInHand
<1>9. ASSUME NEW v, HandToPool(t, v) PROVE QueueTypes'
  <2>1. pool' \in [Threads -> SUBSET Codelets]
    BY <1>1, <1>9 DEF HandToPool, QueueTypes
  <2>2. QED
    BY <1>2, <1>9, <2>1 DEF HandToPool
<1>10. ASSUME NEW v, HandToRing(t, v) PROVE QueueTypes'
  <2>1. PICK q \in Seq(Codelets), d \in Codelets :
          q = ring[v] /\ d = carry[t] /\ Len(q) < Threshold
    BY <1>1, <1>10 DEF HandToRing, QueueTypes
  <2>2. Append(q, d) \in Seq(Codelets) /\ Len(Append(q, d)) <= Threshold
    <3>1. Append(q, d) \in Seq(Codelets) /\ Len(Append(q, d)) = Len(q) + 1 /\ Len(q) \in Nat
      BY <2>1
    <3>2. QED
      BY <2>1, <3>1, Program
  <2>3. QED
    BY <1>3, <1>10, <2>1, <2>2 DEF HandToRing
<1>11. CASE Lose(t)
  BY <1>1, <1>2, <1>11 DEF Lose, QueueTypes
<1>12. ASSUME NEW y, CallClosure(t, y) PROVE QueueTypes'
  BY <1>1, <1>12 DEF CallClosure, Calling, QueueTypes
<1>13. ASSUME NEW y, CallCodelet(t, y) PROVE QueueTypes'
  <2>1. dep' \in [Codelets -> Nat]
    BY <1>13, CallCounts
  <2>2. QED
    BY <1>1, <1>13, <2>1 DEF CallCodelet, Calling, QueueTypes
<1>14. CASE EndBody(t)
  BY <1>1, <1>2, <1>14 DEF EndBody, QueueTypes
<1>15. ASSUME NEW l, GoOn(t, l) PROVE QueueTypes'
  BY <1>1, <1>2, <1>15 DEF GoOn, QueueTypes
<1>16. QED
  BY <1>4, <1>5, <1>6, <1>7, <1>8, <1>9, <1>10, <1>11, <1>12, <1>13, <1>14, <1>15 DEF Kinds

(* To whom is sent.                                                        *)
LEMMA SendingStep ==
  ASSUME SInv, NEW t \in Threads, Thread(t)
  PROVE  SendingTypes'
<1>1. /\ SendingTypes /\ Threads' = Threads /\ TPThreads' = TPThreads /\ Workers' = Workers
      /\ Workers \in Nat \ {0} /\ Status \in [Codelets -> Nat] /\ Hint \in [Codelets -> Nat]
      /\ carry \in [Threads -> Codelets \cup {None}] /\ Control
  BY Types, Fixed, Stays, TypesSplit, Program DEF SInv
<1>2. \A a \in Nat : a % Workers \in 0 .. Workers - 1
  BY <1>1
<1>3. CASE sending' = sending
  BY <1>1, <1>3 DEF sending, SendingTypes
<1>4. CASE Deliver(t) /\ sending' # sending
  <2>1. /\ tries' = tries /\ whichSub' = whichSub /\ insist' = [insist EXCEPT ![t] = FALSE]
        /\ to' = [to EXCEPT ![t] = (Status[carry[t]] - 1) % Workers]
        /\ Status[carry[t]] # 0 /\ carry[t] # None
    BY <1>4 DEF Deliver, sending
  <2>2. carry[t] \in Codelets /\ Status[carry[t]] - 1 \in Nat
    BY <1>1, <2>1
  <2>3. (Status[carry[t]] - 1) % Workers \in 0 .. Workers - 1
    BY <1>2, <2>2
  <2>4. QED
    BY <1>1, <2>1, <2>3 DEF SendingTypes
<1>5. CASE Push(t) /\ sending' # sending
  <2>1. /\ tries' = tries /\ whichSub' = whichSub /\ insist' = [insist EXCEPT ![t] = TRUE]
        /\ to' = [to EXCEPT ![t] = Hint[carry[t]]] /\ Hint[carry[t]] < Workers
        /\ pc[t] \in {"push", "route"}
    BY <1>5 DEF Push, sending, Forwards
  <2>2. carry[t] \in Codelets
    BY <1>1, <2>1 DEF Control
  <2>3. Hint[carry[t]] \in 0 .. Workers - 1
    BY <1>1, <2>1, <2>2
  <2>4. QED
    BY <1>1, <2>1, <2>3 DEF SendingTypes
<1>6. CASE t \in TPThreads /\ Send(t)
  <2>1. carry[t] \in Codelets
    BY <1>1, <1>6 DEF Send, Control
  <2>2. PICK h \in BOOLEAN :
          /\ h => Hint[carry[t]] < Workers
          /\ to' = [to EXCEPT ![t] = IF h THEN Hint[carry[t]] ELSE whichSub[t]]
          /\ insist' = [insist EXCEPT ![t] = h]
          /\ whichSub' = IF h THEN whichSub
                         ELSE [whichSub EXCEPT ![t] = (@ + 1) % Workers]
          /\ tries' = IF tpp = "pushfull" THEN [tries EXCEPT ![t] = @ + 1] ELSE tries
          /\ tpp = "pushfull" => tries[t] < Workers
    BY <1>6 DEF Send
  <2>3. /\ whichSub[t] \in 0 .. Workers - 1 /\ (whichSub[t] + 1) % Workers \in 0 .. Workers - 1
        /\ h => Hint[carry[t]] \in 0 .. Workers - 1
        /\ tpp = "pushfull" => tries[t] + 1 \in 0 .. Workers
    <3>1. whichSub[t] \in 0 .. Workers - 1 /\ tries[t] \in 0 .. Workers
      BY <1>1, <1>6 DEF SendingTypes
    <3>2. whichSub[t] + 1 \in Nat /\ Hint[carry[t]] \in Nat
      BY <1>1, <2>1, <3>1
    <3>3. (whichSub[t] + 1) % Workers \in 0 .. Workers - 1
      BY <1>2, <3>2
    <3>4. QED
      BY <1>1, <2>2, <3>1, <3>2, <3>3
  <2>4. to' \in [Threads -> 0 .. Workers - 1] /\ whichSub' \in [TPThreads -> 0 .. Workers - 1]
    BY <1>1, <2>2, <2>3 DEF SendingTypes
  <2>5. insist' \in [Threads -> BOOLEAN] /\ tries' \in [TPThreads -> 0 .. Workers]
    BY <1>1, <1>6, <2>2, <2>3 DEF SendingTypes
  <2>6. QED
    BY <1>1, <2>4, <2>5 DEF SendingTypes
<1>7. CASE t \in TPThreads /\ PopCodelet(t) /\ sending' # sending
  <2>1. /\ to' = to /\ whichSub' = whichSub /\ insist' = insist
        /\ tries' = [tries EXCEPT ![t] = 0]
    BY <1>7 DEF PopCodelet, sending, Skip
  <2>2. 0 \in 0 .. Workers
    BY <1>1
  <2>3. tries' \in [TPThreads -> 0 .. Workers]
    BY <1>1, <2>1, <2>2 DEF SendingTypes
  <2>4. QED
    BY <1>1, <2>1, <2>3 DEF SendingTypes
<1>8. QED
  <2>1. CASE Call(t) \/ Finish(t) \/ Overwritten(t)
    BY <1>3, <2>1 DEF Call, Finish, Overwritten
  <2>2. CASE PopTP(t) \/ StealTP(t) \/ FireRefused(t)
    BY <1>3, <2>2 DEF PopTP, StealTP, FireRefused, TakeTP, Skip
  <2>3. CASE PopWork(t)
    BY <1>3, <2>3 DEF PopWork, TakeFrom, Skip
  <2>4. CASE StealCodelet(t)
    BY <1>3, <2>4 DEF StealCodelet, TakeFrom, Skip
  <2>5. QED
    BY <1>3, <1>4, <1>5, <1>6, <1>7, <2>1, <2>2, <2>3, <2>4
       DEF Thread, Running, TPStep, MCStep

-----------------------------------------------------------------------------
(* The invariant.                                                          *)

(* What no kind of step breaks.                                            *)
LEMMA TokensStep ==
  ASSUME SInv, policies' = policies, NEW t \in Threads, Kinds(t)
  PROVE  Tokens'
BY RunClosureStep, FireFromPoolStep, FireFromRingStep, FireFromHandStep, TakeInHandStep,
   HandToPoolStep, HandToRingStep, LoseStep, CallClosureStep, CallCodeletStep, EndBodyStep,
   GoOnStep DEF Kinds

(* A program that was pushed and has not begun.                            *)
LEMMA InitSInv == Init => SInv
<1> SUFFICES ASSUME Init PROVE SInv
  OBVIOUS
<1>1. <<Clusters, Workers, Status, tpp, mcp>> \in Settings
  <2>1. PICK s \in Settings : machine = <<s[1], s[2], s[3]>> /\ tpp = s[4] /\ mcp = s[5]
    BY DEF Init
  <2>2. s = <<s[1], s[2], s[3], s[4], s[5]>>
    BY ProgramAssumption
  <2>3. <<Clusters, Workers, Status, tpp, mcp>> = <<s[1], s[2], s[3], s[4], s[5]>>
    BY <2>1 DEF Clusters, Workers, Status
  <2>4. QED
    BY <2>2, <2>3
<1>2. Workers \in Nat \ {0} /\ Clusters \in Nat \ {0}
  BY <1>1, ProgramAssumption
<1>3. /\ Threads = TPThreads \cup MCThreads
      /\ \A t \in TPThreads : t[2] = 0 /\ t = <<t[1], 0>>
      /\ \A t \in MCThreads : t[2] # 0
  BY DEF Threads, TPThreads, MCThreads
<1>4. TypeOK
  <2>1. /\ 0 \in 0 .. Workers - 1 /\ 0 \in 0 .. Workers /\ "top" \in PCs /\ "pop" \in PCs
        /\ Len(<<>>) <= Threshold /\ <<>> \in Seq(Codelets)
    BY <1>2, Program DEF PCs
  <2>2. LoopTypes
    BY <2>1 DEF Init, LoopTypes
  <2>3. QueueTypes
    BY <2>1, Program DEF Init, QueueTypes
  <2>4. SendingTypes
    BY <2>1 DEF Init, SendingTypes
  <2>5. QED
    BY <1>1, <2>2, <2>3, <2>4, TypesSplit
<1>5. Control
  <2>1. \A t \in Threads : pc[t] = (IF t \in TPThreads THEN "top" ELSE "pop")
    BY <1>3 DEF Init
  <2>2. \A t \in Threads : cur[t] = None /\ carry[t] = None
    BY DEF Init
  <2>3. QED
    BY <2>1, <2>2 DEF Control
<1>6. \A y : Made(y) = {} /\ Cardinality(Made(y)) = 0
  BY FS_EmptySet DEF Init, Made
<1>7. Counts /\ Begun
  BY <1>6, Program DEF Init, Counts, Begun
<1>8. \A y \in Activities : Waiting(y) <=> y = Root
  BY <1>6, Program DEF Init, Waiting, Available
<1>9. Closures
  <2>1. \A t \in TPThreads : ready[t] = (IF t = <<0, 0>> THEN {Root} ELSE {})
    BY <1>3 DEF Init
  <2>2. QED
    BY <1>8, <2>1, Program DEF Closures
<1>10. Homes /\ Lives /\ NoneLost
  <2>1. ASSUME NEW d \in Codelets PROVE Places(d) = {} /\ ~ Waiting(d)
    <3>1. /\ \A u \in Threads : d \notin pool[u] /\ carry[u] # d
          /\ \A u \in MCThreads : Len(ring[u]) = 0
      BY Program DEF Init
    <3>2. \A p : ~ InPool(d, p) /\ ~ InHand(d, p) /\ ~ InRing(d, p)
      BY <3>1 DEF InPool, InHand, InRing
    <3>3. \A p : p \notin Places(d)
      BY <3>2, PlacesOf
    <3>4. QED
      BY <1>8, <3>3, Program
  <2>2. QED
    BY <2>1 DEF Homes, Lives, NoneLost, OnlyByStatus, Init
<1>11. QED
  BY <1>4, <1>5, <1>7, <1>9, <1>10 DEF SInv

(* A step of a thread.                                                     *)
LEMMA ThreadSInv ==
  ASSUME SInv, NEW t \in Threads, Thread(t)
  PROVE  SInv'
<1>1. policies' = policies /\ Kinds(t)
  BY Stays, StepKinds DEF SInv
<1>2. TypeOK'
  <2>1. LoopTypes' /\ QueueTypes' /\ SendingTypes'
    BY <1>1, LoopStep, QueueStep, SendingStep
  <2>2. <<Clusters, Workers, Status, tpp, mcp>>' \in Settings
    BY <1>1, Fixed, TypesSplit DEF SInv
  <2>3. QED
    BY <2>1, <2>2 DEF TypeOK, LoopTypes, QueueTypes, SendingTypes
<1>3. Control' /\ Tokens'
  BY <1>1, ControlKinds, TokensStep
<1>4. QED
  BY <1>2, <1>3 DEF SInv, Tokens

(* A step of none.                                                         *)
LEMMA StutterSInv == SInv /\ UNCHANGED vars => SInv'
<1> SUFFICES ASSUME SInv, UNCHANGED vars PROVE SInv'
  OBVIOUS
<1>1. /\ policies' = policies /\ dep' = dep /\ queues' = queues /\ pc' = pc /\ cur' = cur
      /\ pos' = pos /\ carry' = carry /\ sending' = sending /\ begun' = begun
      /\ Same
  BY DEF vars, history, Same
<1>2. /\ Threads' = Threads /\ TPThreads' = TPThreads /\ MCThreads' = MCThreads
      /\ Clusters' = Clusters /\ Workers' = Workers /\ Status' = Status
      /\ tpp' = tpp /\ mcp' = mcp
  BY <1>1, Fixed
<1>3. /\ ready' = ready /\ pool' = pool /\ ring' = ring
      /\ to' = to /\ insist' = insist /\ tries' = tries /\ whichSub' = whichSub
  BY <1>1 DEF queues, sending
<1>4. TypeOK' /\ Control'
  BY <1>1, <1>2, <1>3 DEF SInv, TypeOK, Control, Same
<1>5. Done' = Done
  BY <1>1, DoneSame DEF NoCall
<1>6. /\ Begun' /\ \A y : Made(y)' = Made(y)
      /\ \A y : Waiting(y)' <=> Waiting(y)
  BY <1>1, <1>5, QuietStep
<1>7. Counts' /\ Closures'
  BY <1>1, <1>3, <1>6, CountsKept, ClosuresKept
<1>8. Homes' /\ Lives' /\ NoneLost'
  BY <1>1, <1>3, <1>6, PlacesKept
<1>9. QED
  BY <1>4, <1>6, <1>7, <1>8 DEF SInv

(* On any machine and with any policies: threads run different bodies, a   *)
(* counter_ is what is still to come, a closure is in one pool, a codelet  *)
(* in at most one place and only while it is ready and not fired; it is in *)
(* one, unless TPStatic passed it to a worker and it was dropped there.    *)
THEOREM Invariance == Spec => []SInv
<1>1. Init => SInv
  BY InitSInv
<1>2. SInv /\ [Next]_vars => SInv'
  BY ThreadSInv, StutterSInv DEF Next, Undefined
<1>3. QED
  BY <1>1, <1>2, PTL DEF Spec

-----------------------------------------------------------------------------
(* Nothing is lost.                                                        *)

(* CodeletGraph finds the same calls made.                                 *)
LEMMA GraphReady ==
  ASSUME TypeOK, Control, NEW y \in Activities
  PROVE  Graph!Available(y) <=> Available(y)
<1>1. Graph!Calls(y) = Made(y)
  <2>1. ASSUME NEW p, p \in Graph!Calls(y) PROVE p \in Made(y)
    <3>1. PICK x \in begun : p \in {<<x, i>> : i \in {j \in 1 .. Done[x] : Body[x][j] = y}}
      BY <2>1 DEF Graph!Calls
    <3>2. PICK i \in 1 .. Done[x] : Body[x][i] = y /\ p = <<x, i>>
      BY <3>1
    <3>3. x \in Activities /\ Done[x] \in Nat /\ Done[x] <= Len(Body[x]) /\ Len(Body[x]) \in Nat
      BY Types, Program, DoneAt
    <3>4. i \in 1 .. Len(Body[x]) /\ i <= Done[x]
      BY <3>2, <3>3
    <3>5. p \in Positions(y)
      BY <3>2, <3>3, <3>4, PositionOf
    <3>6. QED
      BY <3>2, <3>4, <3>5 DEF Made
  <2>2. ASSUME NEW p, p \in Made(y) PROVE p \in Graph!Calls(y)
    <3>1. PICK x, i : x \in Activities /\ i \in 1 .. Len(Body[x]) /\ Body[x][i] = y /\ p = <<x, i>>
      BY <2>2, PositionOf DEF Made
    <3>2. x \in begun /\ i <= Done[x] /\ Done[x] \in Nat /\ Len(Body[x]) \in Nat
      BY <2>2, <3>1, DoneAt, Program DEF Made
    <3>3. i \in 1 .. Done[x]
      BY <3>1, <3>2
    <3>4. p \in {<<x, k>> : k \in {j \in 1 .. Done[x] : Body[x][j] = y}}
      BY <3>1, <3>3
    <3>5. QED
      BY <3>2, <3>4 DEF Graph!Calls
  <2>3. QED
    BY <2>1, <2>2
<1>2. Graph!Needed(y) = Needed(y)
  BY DEF Graph!Needed, Needed
<1>3. QED
  BY <1>1, <1>2, SameCardinality DEF Graph!Available, Available

(* The promise about places.                                               *)
LEMMA ConservedFits == SInv => Conserved
<1> SUFFICES ASSUME SInv, NEW d \in Codelets
             PROVE  Cardinality(Places(d)) =
                      IF Graph!Available(d) /\ d \notin begun \cup dropped THEN 1 ELSE 0
  BY DEF Conserved
<1>1. Waiting(d) <=> Graph!Available(d) /\ d \notin begun
  BY GraphReady, Program DEF SInv, Waiting
<1>2. CASE Waiting(d) /\ d \notin dropped
  <2>1. PICK p : p \in Places(d)
    BY <1>2 DEF SInv, NoneLost
  <2>2. Places(d) = {p}
    BY <2>1 DEF SInv, Homes
  <2>3. QED
    BY <1>1, <1>2, <2>2, FS_Singleton
<1>3. CASE ~ Waiting(d) \/ d \in dropped
  <2>1. Places(d) = {}
    BY <1>3 DEF SInv, Lives, NoneLost
  <2>2. QED
    BY <1>1, <1>3, <2>1, FS_EmptySet
<1>4. QED
  BY <1>2, <1>3

(* The machine and the policies never change.                              *)
LEMMA StepStays == [Next]_vars => policies' = policies
BY Stays DEF Next, Undefined, vars

(* From decDep or add to fire a codelet is in exactly one pool, ring or    *)
(* hand, and before and after in none, on every machine and with all       *)
(* policies.  The one exception is the codelet with a status that TPStatic *)
(* passes to a worker that refuses it, since decDep ignores the result, or *)
(* in whose ring it is overwritten.                                        *)
THEOREM NothingLost == Spec => []Inv
<1>1. SInv => Inv
  BY ConservedFits DEF Inv, SInv, NoneLost
<1>2. QED
  BY <1>1, Invariance, PTL

-----------------------------------------------------------------------------
(* Who writes to a ring.                                                   *)

(* A ring grows by a push of the thread of its cluster's TP scheduler, or  *)
(* of a codelet with a status.                                             *)
LEMMA RingGrows ==
  ASSUME SInv, NEW t \in Threads, Thread(t), NEW w \in MCThreads,
         Len(ring'[w]) > Len(ring[w])
  PROVE  \A u \in Threads \ {Parent(w)} :
           \/ pc'[u] = pc[u] /\ carry'[u] = carry[u]
           \/ tpp = "static" /\ Status[carry[u]] # 0
<1>0. /\ ring \in [MCThreads -> Seq(Codelets)] /\ Len(ring[w]) \in Nat
      /\ pc \in [Threads -> PCs] /\ carry \in [Threads -> Codelets \cup {None}]
      /\ TypeOK /\ Control
  BY Types DEF SInv
<1>1. ring' # ring
  BY <1>0
<1>2. ASSUME FireFromRing(t) PROVE FALSE
  <2>1. PICK q \in Seq(Codelets) : q = ring[t] /\ q # <<>> /\ t \in MCThreads
    BY <1>0, <1>2 DEF FireFromRing
  <2>2. Len(Tail(q)) = Len(q) - 1 /\ Len(q) \in Nat
    BY <2>1
  <2>3. Len(ring'[w]) = Len(ring[w]) \/ (w = t /\ Len(ring'[w]) = Len(ring[w]) - 1)
    BY <1>0, <1>2, <2>1, <2>2 DEF FireFromRing
  <2>4. QED
    BY <1>0, <2>3
<1>3. PICK v : HandToRing(t, v)
  BY <1>0, <1>1, <1>2, StepKinds DEF Kinds, RunClosure, FireFromPool, FireFromHand, TakeInHand,
     HandToPool, Lose, CallClosure, CallCodelet, Calling, EndBody, GoOn
<1>4. /\ pc[t] \in {"push", "route"} /\ carry[t] # None /\ HasRing /\ v = Sub(t, to[t])
      /\ ring' = [ring EXCEPT ![v] = Append(@, carry[t])]
      /\ carry' = [carry EXCEPT ![t] = None] /\ Back(t)
  BY <1>3 DEF HandToRing
<1>5. w = v
  BY <1>0, <1>4
<1>6. \A u \in Threads : u # t => pc'[u] = pc[u] /\ carry'[u] = carry[u]
  BY <1>0, <1>4 DEF Back
<1>7. CASE pc[t] = "route"
  BY <1>0, <1>6, <1>7 DEF Control
<1>8. CASE pc[t] = "push"
  <2>1. t \in TPThreads /\ to[t] \in 0 .. Workers - 1
    BY <1>0, <1>8 DEF Control, TypeOK
  <2>2. Parent(w) = t
    BY <1>0, <1>4, <1>5, <2>1, ThreadKinds
  <2>3. QED
    BY <1>6, <2>2
<1>9. QED
  BY <1>4, <1>7, <1>8

(* The ring of a worker has one producer, the thread of its cluster's TP   *)
(* scheduler, on every machine and with all policies, as long as TPStatic  *)
(* is given no codelet with a status: it passes such a codelet on in       *)
(* whatever thread made it ready.                                          *)
THEOREM OneProducer == Spec => SingleProducer
<1> DEFINE Alone == \A w \in MCThreads :
             Len(ring'[w]) > Len(ring[w]) =>
               \A t \in Threads \ {Parent(w)} :
                 \/ pc'[t] = pc[t] /\ carry'[t] = carry[t]
                 \/ tpp = "static" /\ Status[carry[t]] # 0
<1>1. SInv /\ [Next]_vars => [Alone]_vars
  BY RingGrows DEF Next, Undefined
<1>2. QED
  BY <1>1, Invariance, PTL DEF Spec, SingleProducer

-----------------------------------------------------------------------------
(* The schedulers run the program.                                         *)

(* A step begins what is ready, executes a call, or is nothing to the      *)
(* program.                                                                *)
LEMMA GraphStep ==
  ASSUME SInv, NEW t \in Threads, Thread(t)
  PROVE  [Graph!Next]_(Graph!vars)
<1>0. TypeOK /\ Control /\ policies' = policies /\ Kinds(t) /\ Graph!Activities = Activities
  BY Stays, StepKinds DEF SInv, Graph!Activities, Activities
<1>1. ASSUME NEW x \in Activities, Waiting(x), Begin(t, x), cur[t] = None
      PROVE  Graph!Next
  <2>1. /\ x \notin begun /\ Graph!Available(x) /\ begun' = begun \cup {x}
        /\ Done' = Done
    BY <1>0, <1>1, GraphReady, DoneBegin DEF Waiting, Begin
  <2>2. Graph!Start(x)
    BY <2>1 DEF Graph!Start
  <2>3. QED
    BY <1>0, <2>2 DEF Graph!Next
<1>2. ASSUME Calling(t) PROVE Graph!Next
  <2>1. PICK x \in Activities : x = cur[t] /\ x \in begun /\ Done[x] = pos[t]
    BY <1>0, <1>2, DoneCall
  <2>2. \A z \in Activities : Done'[z] = IF z = x THEN Done[x] + 1 ELSE Done[z]
    BY <1>0, <1>2, <2>1, DoneCall
  <2>3. Done' = [Done EXCEPT ![x] = @ + 1]
    BY <2>2 DEF Done
  <2>4. Done[x] < Len(Body[x]) /\ begun' = begun
    BY <1>2, <2>1 DEF Calling
  <2>5. Graph!Step(x)
    BY <2>1, <2>3, <2>4 DEF Graph!Step
  <2>6. QED
    BY <1>0, <2>1, <2>5 DEF Graph!Next
<1>3. ASSUME NoCall \/ EndBody(t) PROVE UNCHANGED Graph!vars
  <2>1. begun' = begun /\ Done' = Done
    BY <1>0, <1>3, DoneSame, DoneEnd DEF NoCall, EndBody
  <2>2. QED
    BY <2>1 DEF Graph!vars
<1>4. /\ Codelets \subseteq Activities /\ Procs \subseteq Activities
      /\ pc[t] \in {"top", "steal", "pop", "send"} => cur[t] = None
  BY <1>0, Program DEF Control
<1>5. ASSUME NEW v, NEW p, RunClosure(t, v, p) PROVE Graph!Next
  <2>1. p \in Activities /\ Waiting(p)
    BY <1>0, <1>4, <1>5, Types DEF RunClosure, SInv, Closures
  <2>2. Begin(t, p) /\ cur[t] = None
    BY <1>4, <1>5 DEF RunClosure
  <2>3. QED
    BY <1>1, <2>1, <2>2
<1>6. ASSUME NEW v, NEW d, FireFromPool(t, v, d) PROVE Graph!Next
  <2>1. d \in Activities /\ Waiting(d)
    BY <1>4, <1>6, OnlyInPool DEF FireFromPool
  <2>2. Begin(t, d) /\ cur[t] = None
    BY <1>4, <1>6 DEF FireFromPool
  <2>3. QED
    BY <1>1, <2>1, <2>2
<1>7. CASE FireFromRing(t)
  <2>1. PICK d : d = Head(ring[t]) /\ d = ring[t][1] /\ t \in MCThreads /\ 1 \in 1 .. Len(ring[t])
    <3>1. t \in MCThreads /\ ring[t] \in Seq(Codelets) /\ ring[t] # <<>>
      BY <1>0, <1>7, Types DEF FireFromRing
    <3>2. \A q \in Seq(Codelets) : q # <<>> => Head(q) = q[1] /\ 1 \in 1 .. Len(q)
      OBVIOUS
    <3>3. QED
      BY <3>1, <3>2
  <2>2. d \in Activities /\ Waiting(d)
    BY <1>4, <2>1, OnlyInRing
  <2>3. Begin(t, d) /\ cur[t] = None
    BY <1>4, <1>7, <2>1 DEF FireFromRing
  <2>4. QED
    BY <1>1, <2>2, <2>3
<1>8. CASE FireFromHand(t)
  <2>1. PICK d : d = carry[t] /\ d # None /\ Begin(t, d) /\ cur[t] = None
    BY <1>4, <1>8 DEF FireFromHand
  <2>2. d \in Activities /\ Waiting(d)
    BY <1>4, <2>1, OnlyInHand
  <2>3. QED
    BY <1>1, <2>1, <2>2
<1>9. QED
  BY <1>0, <1>2, <1>3, <1>5, <1>6, <1>7, <1>8 DEF Kinds, TakeInHand, HandToPool, HandToRing, Lose,
     CallClosure, CallCodelet, GoOn

(* Whatever the machine and the policies, a closure is run and a codelet   *)
(* fired only when it was invoked or has all its signals, and only once:   *)
(* the safety of CodeletGraph.                                             *)
THEOREM RunsTheProgram == Spec => Graph!Safety
<1>1. Init => Graph!Init
  <2>1. SUFFICES ASSUME Init PROVE begun = {} /\ Done = [x \in Graph!Activities |-> 0]
    BY DEF Graph!Init
  <2>2. begun = {} /\ \A t \in Threads : cur[t] = None
    BY <2>1 DEF Init
  <2>3. QED
    BY <2>2, Program DEF Done, Graph!Activities, Activities
<1>2. SInv /\ [Next]_vars => [Graph!Next]_(Graph!vars)
  <2>1. SUFFICES ASSUME SInv, UNCHANGED vars PROVE UNCHANGED Graph!vars
    BY GraphStep DEF Next, Undefined
  <2>2. begun' = begun /\ Done' = Done
    BY <2>1, DoneSame, StepStays DEF vars, history, NoCall
  <2>3. QED
    BY <2>2 DEF Graph!vars
<1>3. QED
  BY <1>1, <1>2, Invariance, PTL DEF Spec, Graph!Safety

-----------------------------------------------------------------------------
(* Hints.                                                                  *)

(* Worker w may have what it is hinted to, or what has no hint.            *)
MayHave(w, d) == Hint[d] >= Workers \/ w[2] = Hint[d] + 1

Hinting == tpp = "hint" \/ mcp = "hint"

HintInv ==
  /\ HintsFit /\ Aimed
  /\ \A w \in MCThreads : pc[w] = "steal" => mcp = "steal"
  /\ Hinting => \A w \in MCThreads : \A d \in Codelets :
       /\ d \in pool[w] \/ cur[w] = d => MayHave(w, d)
       /\ \A i \in 1 .. Len(ring[w]) : ring[w][i] = d => MayHave(w, d)

(* A push that is accepted is to a worker that may have the codelet.       *)
LEMMA PushesRight ==
  ASSUME SInv, HintInv, Hinting, NEW t \in Threads, pc[t] \in {"push", "route"},
         ~ Forwards(Sub(t, to[t]), carry[t])
  PROVE  MayHave(Sub(t, to[t]), carry[t])
<1>1. PICK d \in Codelets, j \in 0 .. Workers - 1 :
        /\ d = carry[t] /\ j = to[t] /\ Hint[d] \in Nat /\ Workers \in Nat \ {0}
        /\ Clusters \in Nat \ {0} /\ Sub(t, j)[2] = j + 1 /\ t[1] \in 0 .. Clusters - 1
  <2>1. carry[t] \in Codelets /\ to[t] \in 0 .. Workers - 1
    BY Types DEF SInv, Control, TypeOK
  <2>2. Workers \in Nat \ {0} /\ Clusters \in Nat \ {0} /\ Hint \in [Codelets -> Nat]
    BY Types, Program DEF SInv
  <2>3. t[1] \in 0 .. Clusters - 1
    BY DEF Threads, TPThreads, MCThreads, Cluster
  <2>4. QED
    BY <2>1, <2>2, <2>3 DEF Sub
<1>2. CASE tpp = "hint"
  <2>1. pc[t] = "push"
    BY <1>2 DEF SInv, Control
  <2>2. Hint[d] < Workers => j = Hint[d]
    BY <1>1, <1>2, <2>1 DEF HintInv, Aimed
  <2>3. QED
    BY <1>1, <2>2 DEF MayHave
<1>3. CASE tpp # "hint"
  <2>1. mcp = "hint" /\ (Clusters = 1 \/ Workers = 1)
    BY <1>3 DEF Hinting, HintInv, HintsFit
  <2>2. Hint[d] >= Workers \/ Hint[d] = (ID(Sub(t, j)) - 1) % Workers
    BY <1>1, <2>1 DEF Forwards, MySubID
  <2>3. ID(Sub(t, j)) = t[1] * (1 + Workers) + (j + 1)
    BY DEF ID, Sub
  <2>4. CASE Clusters = 1
    <3>1. ID(Sub(t, j)) - 1 = j
      BY <1>1, <2>3, <2>4
    <3>2. j % Workers = j
      BY <1>1
    <3>3. QED
      BY <1>1, <2>2, <3>1, <3>2 DEF MayHave
  <2>5. CASE Workers = 1
    BY <1>1, <2>5 DEF MayHave
  <2>6. QED
    BY <2>1, <2>4, <2>5
<1>4. QED
  BY <1>2, <1>3

(* Only the thread that steps can break it.                                *)
LEMMA HintKept ==
  ASSUME SInv, HintInv, policies' = policies, NEW t \in Threads,
         \A u \in Threads : u # t => pc'[u] = pc[u] /\ carry'[u] = carry[u] /\ to'[u] = to[u],
         pc'[t] = "push" /\ tpp = "hint" /\ Hint[carry'[t]] < Workers =>
           to'[t] = Hint[carry'[t]],
         t \in MCThreads /\ pc'[t] = "steal" => mcp = "steal",
         Hinting => \A w \in MCThreads : \A d \in Codelets :
           /\ d \in pool'[w] \/ cur'[w] = d => MayHave(w, d)
           /\ \A i \in 1 .. Len(ring'[w]) : ring'[w][i] = d => MayHave(w, d)
  PROVE  HintInv'
<1>1. /\ Threads' = Threads /\ MCThreads' = MCThreads /\ Workers' = Workers /\ tpp' = tpp
      /\ mcp' = mcp /\ MCThreads \subseteq Threads /\ (HintsFit' <=> HintsFit)
  BY Fixed, ThreadKinds DEF SInv
<1>2. HintsFit' /\ (Hinting' <=> Hinting)
  BY <1>1 DEF HintInv, Hinting
<1>3. Aimed'
  BY <1>1 DEF HintInv, Aimed
<1>4. \A w \in MCThreads : pc'[w] = "steal" => mcp = "steal"
  BY <1>1 DEF HintInv
<1>5. \A w, d : MayHave(w, d)' <=> MayHave(w, d)
  BY <1>1 DEF MayHave
<1>6. QED
  BY <1>1, <1>2, <1>3, <1>4, <1>5 DEF HintInv

(* A step that neither fills a worker's queue nor begins a codelet on a    *)
(* worker, nor ends as a push.                                             *)
LEMMA HintQuiet ==
  ASSUME SInv, HintInv, policies' = policies, NEW t \in Threads,
         \A u \in Threads : u # t => pc'[u] = pc[u] /\ carry'[u] = carry[u] /\ to'[u] = to[u],
         pc'[t] # "push", t \in MCThreads /\ pc'[t] = "steal" => mcp = "steal",
         \A w \in MCThreads : cur'[w] = cur[w] \/ cur'[w] \notin Codelets,
         \A w \in MCThreads : pool'[w] \subseteq pool[w],
         ring' = ring
  PROVE  HintInv'
<1>1. Hinting => \A w \in MCThreads : \A d \in Codelets :
           /\ d \in pool'[w] \/ cur'[w] = d => MayHave(w, d)
           /\ \A i \in 1 .. Len(ring'[w]) : ring'[w][i] = d => MayHave(w, d)
  BY DEF HintInv
<1>2. QED
  BY <1>1, HintKept

(* Bodies.                                                                 *)
LEMMA HintRunning ==
  ASSUME SInv, HintInv, NEW t \in Threads, Running(t), policies' = policies
  PROVE  HintInv'
<1>1. /\ pc \in [Threads -> PCs] /\ cur \in [Threads -> Activities \cup {None}]
      /\ carry \in [Threads -> Codelets \cup {None}] /\ pool \in [Threads -> SUBSET Codelets]
      /\ None \notin Codelets /\ MCThreads \subseteq Threads /\ Parent(t) \in TPThreads
      /\ TPThreads \cap MCThreads = {} /\ Codelets \subseteq Activities
      /\ to \in [Threads -> 0 .. Workers - 1]
  BY Types, ThreadKinds, Program DEF SInv, TypeOK
<1>2. CASE Call(t)
  <2>1. /\ pc' = pc /\ to' = to /\ cur' = cur /\ pool' = pool /\ ring' = ring /\ pc[t] = "run"
        /\ \A u \in Threads : u # t => carry'[u] = carry[u]
    BY <1>1, <1>2 DEF Call, sending
  <2>2. QED
    BY <2>1, HintQuiet
<1>3. CASE Finish(t)
  <2>1. /\ pc'[t] = "pop" /\ to' = to /\ pool' = pool /\ ring' = ring /\ carry' = carry
        /\ \A u \in Threads : u # t => pc'[u] = pc[u] /\ cur'[u] = cur[u]
        /\ cur'[t] = None
    BY <1>1, <1>3 DEF Finish, sending, queues, Goto
  <2>2. \A w \in MCThreads : cur'[w] = cur[w] \/ cur'[w] \notin Codelets
    BY <1>1, <2>1
  <2>3. QED
    BY <2>1, <2>2, HintQuiet
<1>4. CASE Deliver(t)
  <2>1. /\ ring' = ring /\ cur' = cur /\ pc'[t] \in {"run", "route"}
        /\ \A u \in Threads : u # t => pc'[u] = pc[u] /\ carry'[u] = carry[u] /\ to'[u] = to[u]
    BY <1>1, <1>4 DEF Deliver, PutInPool, Goto
  <2>2. CASE mcp # "steal" \/ t \notin MCThreads
    <3>1. \A w \in MCThreads : pool'[w] = pool[w]
      BY <1>1, <1>4, <2>2 DEF Deliver, PutInPool
    <3>2. QED
      BY <2>1, <3>1, HintQuiet
  <2>3. CASE mcp = "steal"
    <3>1. ~ Hinting
      BY <2>3 DEF HintInv, HintsFit, Hinting
    <3>2. QED
      BY <2>1, <3>1, HintKept
  <2>4. QED
    BY <2>2, <2>3
<1>5. QED
  BY <1>2, <1>3, <1>4 DEF Running

(* Pushes.                                                                 *)
LEMMA HintPush ==
  ASSUME SInv, HintInv, NEW t \in Threads, Push(t), policies' = policies
  PROVE  HintInv'
<1>1. PICK w, d :
        /\ w = Sub(t, to[t]) /\ d = carry[t] /\ w \in MCThreads /\ d \in Codelets
        /\ pc \in [Threads -> PCs] /\ carry \in [Threads -> Codelets \cup {None}]
        /\ pool \in [Threads -> SUBSET Codelets] /\ ring \in [MCThreads -> Seq(Codelets)]
        /\ to \in [Threads -> 0 .. Workers - 1] /\ MCThreads \subseteq Threads
        /\ pc[t] \in {"push", "route"} /\ cur' = cur /\ TypeOK
  <2>1. carry[t] \in Codelets /\ Sub(t, to[t]) \in MCThreads
    BY Types, ThreadKinds DEF SInv, Control, Push, TypeOK
  <2>2. QED
    BY <2>1, Types, ThreadKinds DEF SInv, TypeOK, Push
<1>2. CASE Forwards(w, d)
  <2>1. /\ to' = [to EXCEPT ![t] = Hint[d]] /\ pool' = pool /\ ring' = ring /\ carry' = carry
        /\ pc' = pc
    BY <1>1, <1>2 DEF Push
  <2>2. QED
    BY <1>1, <2>1, HintKept DEF HintInv
<1>3. CASE ~ Forwards(w, d) /\ ~ Accepts(w)
  <2>1. /\ pool' = pool /\ ring' = ring /\ to' = to /\ pc'[t] \in {"send", "run"}
        /\ \A u \in Threads : u # t => pc'[u] = pc[u] /\ carry'[u] = carry[u]
    BY <1>1, <1>3 DEF Push, Drop, Return, Goto
  <2>2. QED
    BY <1>1, <2>1, HintQuiet
<1>4. CASE ~ Forwards(w, d) /\ Accepts(w)
  <2>1. /\ IF HasRing
           THEN ring' = [ring EXCEPT ![w] = Append(@, d)] /\ pool' = pool
           ELSE pool' = [pool EXCEPT ![w] = @ \cup {d}] /\ ring' = ring
        /\ to' = to /\ pc'[t] \in {"pop", "run"}
        /\ \A u \in Threads : u # t => pc'[u] = pc[u] /\ carry'[u] = carry[u]
    BY <1>1, <1>4 DEF Push, Return, Goto
  <2>2. Hinting => MayHave(w, d)
    BY <1>1, <1>4, PushesRight
  <2>3. Hinting => \A v \in MCThreads : \A c \in Codelets : c \in pool'[v] => MayHave(v, c)
    <3>1. \A v \in MCThreads : \A c : c \in pool'[v] => c \in pool[v] \/ (v = w /\ c = d)
      <4>1. pool' = pool \/ pool' = [pool EXCEPT ![w] = @ \cup {d}]
        BY <2>1
      <4>2. \A v \in MCThreads : v \in Threads
        BY <1>1
      <4>3. QED
        BY <1>1, <4>1, <4>2
    <3>2. QED
      BY <2>2, <3>1 DEF HintInv
  <2>4. Hinting => \A v \in MCThreads : \A c \in Codelets : \A i \in 1 .. Len(ring'[v]) :
                     ring'[v][i] = c => MayHave(v, c)
    <3>1. CASE ring' = ring
      BY <3>1 DEF HintInv
    <3>2. CASE ring' = [ring EXCEPT ![w] = Append(@, d)]
      <4>1. PICK q \in Seq(Codelets) : q = ring[w]
        BY <1>1
      <4>2. ring'[w] = Append(q, d) /\ \A v \in MCThreads : v # w => ring'[v] = ring[v]
        BY <1>1, <3>2, <4>1
      <4>3. \A i \in 1 .. Len(Append(q, d)) :
              Append(q, d)[i] = d \/ (i \in 1 .. Len(q) /\ Append(q, d)[i] = q[i])
        BY <1>1, <4>1
      <4>4. ASSUME Hinting, NEW c \in Codelets, NEW i \in 1 .. Len(ring'[w]), ring'[w][i] = c
            PROVE  MayHave(w, c)
        <5>1. c = d \/ (i \in 1 .. Len(ring[w]) /\ ring[w][i] = c)
          BY <4>1, <4>2, <4>3, <4>4
        <5>2. QED
          BY <1>1, <2>2, <4>4, <5>1 DEF HintInv
      <4>5. QED
        BY <4>2, <4>4 DEF HintInv
    <3>3. QED
      BY <2>1, <3>1, <3>2
  <2>5. QED
    BY <1>1, <2>1, <2>3, <2>4, HintKept DEF HintInv
<1>5. QED
  BY <1>2, <1>3, <1>4

(* A codelet is overwritten.                                               *)
LEMMA HintOverwritten ==
  ASSUME SInv, HintInv, NEW t \in Threads, Overwritten(t), policies' = policies
  PROVE  HintInv'
<1>1. /\ pc \in [Threads -> PCs] /\ carry \in [Threads -> Codelets \cup {None}]
      /\ pool' = pool /\ ring' = ring /\ cur' = cur /\ to' = to
  BY Types DEF SInv, Overwritten, queues, sending
<1>2. /\ pc'[t] \in {"pop", "run"}
      /\ \A u \in Threads : u # t => pc'[u] = pc[u] /\ carry'[u] = carry[u]
  BY <1>1 DEF Overwritten, Drop, Return, Goto
<1>3. QED
  BY <1>1, <1>2, HintQuiet

(* The loop of a TP scheduler.                                             *)
LEMMA HintTP ==
  ASSUME SInv, HintInv, NEW t \in TPThreads, TPStep(t), policies' = policies
  PROVE  HintInv'
<1>1. /\ pc \in [Threads -> PCs] /\ cur \in [Threads -> Activities \cup {None}]
      /\ carry \in [Threads -> Codelets \cup {None}] /\ pool \in [Threads -> SUBSET Codelets]
      /\ to \in [Threads -> 0 .. Workers - 1] /\ t \in Threads /\ t \notin MCThreads
      /\ MCThreads \subseteq Threads
  BY Types, ThreadKinds DEF SInv, TypeOK
<1>2. ASSUME pc' \in [Threads -> PCs], pc'[t] # "push", ring' = ring, to' = to,
             \A u \in Threads : u # t =>
               pc'[u] = pc[u] /\ carry'[u] = carry[u] /\ cur'[u] = cur[u] /\ pool'[u] = pool[u]
      PROVE  HintInv'
  BY <1>1, <1>2, HintQuiet
<1>3. CASE Send(t)
  <2>1. /\ pool' = pool /\ ring' = ring /\ carry' = carry /\ cur' = cur
        /\ \A u \in Threads : u # t => pc'[u] = pc[u] /\ to'[u] = to[u]
        /\ tpp = "hint" /\ Hint[carry[t]] < Workers => to'[t] = Hint[carry[t]]
    BY <1>1, <1>3 DEF Send, Goto, queues
  <2>2. QED
    BY <1>1, <2>1, HintKept DEF HintInv
<1>4. CASE PopTP(t) \/ StealTP(t)
  <2>1. /\ pool' = pool /\ ring' = ring /\ carry' = carry /\ to' = to
        /\ pc' = [pc EXCEPT ![t] = "steal"] \/ pc' = [pc EXCEPT ![t] = "pop"]
             \/ pc' = [pc EXCEPT ![t] = "run"]
        /\ cur' = cur \/ \E p : cur' = [cur EXCEPT ![t] = p]
    BY <1>4 DEF PopTP, StealTP, TakeTP, Skip, Begin, Goto, queues, sending
  <2>2. QED
    BY <1>1, <1>2, <2>1 DEF PCs
<1>5. CASE PopCodelet(t)
  <2>1. /\ ring' = ring /\ to' = to
        /\ pc' = [pc EXCEPT ![t] = "top"] \/ pc' = [pc EXCEPT ![t] = "send"]
             \/ pc' = [pc EXCEPT ![t] = "run"]
        /\ cur' = cur \/ \E d : cur' = [cur EXCEPT ![t] = d]
        /\ carry' = carry \/ \E d : carry' = [carry EXCEPT ![t] = d]
        /\ pool' = pool \/ \E d : pool' = [pool EXCEPT ![t] = @ \ {d}]
    BY <1>5 DEF PopCodelet, Skip, Begin, Goto, queues, sending
  <2>2. QED
    BY <1>1, <1>2, <2>1 DEF PCs
<1>6. CASE FireRefused(t)
  <2>1. /\ pool' = pool /\ ring' = ring /\ to' = to /\ pc' = [pc EXCEPT ![t] = "run"]
        /\ carry' = [carry EXCEPT ![t] = None] /\ cur' = [cur EXCEPT ![t] = carry[t]]
    BY <1>6 DEF FireRefused, Begin, Goto, queues, sending
  <2>2. QED
    BY <1>1, <1>2, <2>1 DEF PCs
<1>7. QED
  BY <1>3, <1>4, <1>5, <1>6 DEF TPStep

(* The loop of a micro scheduler.                                          *)
LEMMA HintMC ==
  ASSUME SInv, HintInv, NEW w \in MCThreads, MCStep(w), policies' = policies
  PROVE  HintInv'
<1>1. /\ pc \in [Threads -> PCs] /\ cur \in [Threads -> Activities \cup {None}]
      /\ carry \in [Threads -> Codelets \cup {None}] /\ pool \in [Threads -> SUBSET Codelets]
      /\ ring \in [MCThreads -> Seq(Codelets)] /\ w \in Threads /\ MCThreads \subseteq Threads
  BY Types, ThreadKinds DEF SInv
<1>2. mcp = "steal" \/ mcp = "dynamic" => ~ Hinting
  BY DEF HintInv, HintsFit, Hinting
<1>3. ASSUME NEW d \in Codelets, Begin(w, d), carry' = carry, to' = to,
             Hinting => MayHave(w, d),
             \A v \in MCThreads : pool'[v] \subseteq pool[v],
             \A v \in MCThreads : \A i \in 1 .. Len(ring'[v]) :
               \E j \in 1 .. Len(ring[v]) : ring'[v][i] = ring[v][j]
      PROVE  HintInv'
  <2>1. /\ pc'[w] = "run" /\ cur'[w] = d
        /\ \A u \in Threads : u # w => pc'[u] = pc[u] /\ cur'[u] = cur[u]
    BY <1>1, <1>3 DEF Begin, Goto
  <2>2. Hinting => \A v \in MCThreads : \A c \in Codelets :
           /\ c \in pool'[v] \/ cur'[v] = c => MayHave(v, c)
           /\ \A i \in 1 .. Len(ring'[v]) : ring'[v][i] = c => MayHave(v, c)
    <3>1. SUFFICES ASSUME Hinting, NEW v \in MCThreads, NEW c \in Codelets
                   PROVE  /\ c \in pool'[v] \/ cur'[v] = c => MayHave(v, c)
                          /\ \A i \in 1 .. Len(ring'[v]) : ring'[v][i] = c => MayHave(v, c)
      OBVIOUS
    <3>2. /\ c \in pool[v] \/ cur[v] = c => MayHave(v, c)
          /\ \A i \in 1 .. Len(ring[v]) : ring[v][i] = c => MayHave(v, c)
      BY <3>1 DEF HintInv
    <3>3. c \in pool'[v] => c \in pool[v]
      BY <1>3
    <3>4. cur'[v] = c => cur[v] = c \/ (v = w /\ c = d)
      BY <1>1, <2>1
    <3>5. \A i \in 1 .. Len(ring'[v]) : ring'[v][i] = c => MayHave(v, c)
      BY <1>3, <3>2
    <3>6. QED
      BY <1>3, <3>1, <3>2, <3>3, <3>4, <3>5
  <2>3. QED
    BY <1>1, <1>3, <2>1, <2>2, HintKept
<1>4. ASSUME NEW p \in Threads, TakeFrom(w, p), Hinting => p = w PROVE HintInv'
  <2>1. PICK d \in Codelets :
          /\ d \in pool[p] /\ Begin(w, d) /\ carry' = carry /\ to' = to /\ ring' = ring
          /\ pool' = [pool EXCEPT ![p] = @ \ {d}]
    BY <1>1, <1>4 DEF TakeFrom, sending
  <2>2. Hinting => MayHave(w, d)
    BY <1>4, <2>1 DEF HintInv
  <2>3. \A v \in MCThreads : pool'[v] \subseteq pool[v]
    BY <1>1, <2>1
  <2>4. QED
    BY <1>3, <2>1, <2>2, <2>3
<1>5. ASSUME NEW l \in {"pop", "steal"}, Skip(w, l), l = "steal" => mcp = "steal"
      PROVE  HintInv'
  <2>1. /\ pool' = pool /\ ring' = ring /\ to' = to /\ carry' = carry /\ cur' = cur
        /\ pc'[w] = l /\ \A u \in Threads : u # w => pc'[u] = pc[u]
    BY <1>1, <1>5 DEF Skip, Goto, queues, sending
  <2>2. QED
    BY <1>1, <1>5, <2>1, HintQuiet
<1>6. CASE /\ HasRing /\ ring[w] # <<>> /\ ring' = [ring EXCEPT ![w] = Tail(@)]
           /\ Begin(w, Head(ring[w]))
           /\ UNCHANGED <<policies, dep, ready, pool, carry, sending>>
  <2>1. PICK q \in Seq(Codelets) : q = ring[w] /\ q # <<>>
    BY <1>1, <1>6
  <2>2. /\ Head(q) = q[1] /\ 1 \in 1 .. Len(q) /\ Head(q) \in Codelets
        /\ \A i \in 1 .. Len(Tail(q)) : i + 1 \in 1 .. Len(q) /\ Tail(q)[i] = q[i + 1]
    BY <2>1
  <2>3. ring'[w] = Tail(q) /\ \A v \in MCThreads : v # w => ring'[v] = ring[v]
    BY <1>1, <1>6, <2>1
  <2>4. \A v \in MCThreads : \A i \in 1 .. Len(ring'[v]) :
          \E j \in 1 .. Len(ring[v]) : ring'[v][i] = ring[v][j]
    <3>1. SUFFICES ASSUME NEW v \in MCThreads, NEW i \in 1 .. Len(ring'[v])
                   PROVE  \E j \in 1 .. Len(ring[v]) : ring'[v][i] = ring[v][j]
      OBVIOUS
    <3>2. CASE v # w
      BY <2>3, <3>2
    <3>3. CASE v = w
      <4>1. i \in 1 .. Len(Tail(q)) /\ ring'[v][i] = Tail(q)[i]
        BY <2>3, <3>3
      <4>2. i + 1 \in 1 .. Len(ring[v]) /\ ring'[v][i] = ring[v][i + 1]
        BY <2>1, <2>2, <3>3, <4>1
      <4>3. QED
        BY <4>2
    <3>4. QED
      BY <3>2, <3>3
  <2>5. Hinting => MayHave(w, Head(q))
    BY <2>1, <2>2 DEF HintInv
  <2>6. pool' = pool /\ carry' = carry /\ to' = to /\ Begin(w, Head(q))
    BY <1>6, <2>1 DEF sending
  <2>7. QED
    BY <1>3, <2>2, <2>4, <2>5, <2>6
<1>7. CASE PopWork(w)
  BY <1>1, <1>2, <1>4, <1>5, <1>6, <1>7, ThreadKinds DEF PopWork, SInv
<1>8. CASE StealCodelet(w)
  <2>1. mcp = "steal" /\ ~ Hinting
    BY <1>2, <1>8 DEF StealCodelet, HintInv
  <2>2. PICK v : v \in Threads /\ (Skip(w, "pop") \/ TakeFrom(w, v))
    <3>1. PICK r \in 0 .. Workers : \E v :
            /\ v = IF r = Workers THEN Parent(w) ELSE Sub(w, r)
            /\ Skip(w, "pop") \/ TakeFrom(w, v)
      BY <1>8 DEF StealCodelet
    <3>2. Workers \in Nat /\ (r = Workers \/ r \in 0 .. Workers - 1)
      BY <3>1, Types DEF SInv
    <3>3. QED
      BY <1>1, <3>1, <3>2, ThreadKinds DEF SInv
  <2>3. QED
    BY <1>4, <1>5, <2>1, <2>2
<1>9. QED
  BY <1>7, <1>8 DEF MCStep

(* A worker gets, and fires, no codelet that is hinted to another, where   *)
(* the micro policy keeps what TPHINT sends, and, without TPHINT, on one   *)
(* cluster or with one worker in each: elsewhere a MicroSchedHint takes    *)
(* another number than its own for its own.                                *)
THEOREM HintsHonoured == Spec /\ HintsFit => []HintHonoured
<1>1. Init /\ HintsFit => HintInv
  <2>1. SUFFICES ASSUME Init, HintsFit PROVE HintInv
    OBVIOUS
  <2>2. \A t \in Threads : pc[t] \in {"top", "pop"} /\ cur[t] = None /\ pool[t] = {}
    BY <2>1 DEF Init
  <2>3. \A w \in MCThreads : Len(ring[w]) = 0
    BY <2>1 DEF Init
  <2>4. Aimed
    BY <2>2 DEF Aimed
  <2>5. MCThreads \subseteq Threads
    BY DEF Threads
  <2>6. \A w \in MCThreads : pc[w] = "steal" => mcp = "steal"
    BY <2>2, <2>5
  <2>7. \A w \in MCThreads : \A d \in Codelets :
          /\ d \notin pool[w] /\ cur[w] # d
          /\ \A i \in 1 .. Len(ring[w]) : ring[w][i] # d
    BY <2>2, <2>3, <2>5, Program
  <2>8. QED
    BY <2>1, <2>4, <2>6, <2>7 DEF HintInv
<1>2. SInv /\ HintInv /\ [Next]_vars => HintInv'
  <2>1. ASSUME SInv, HintInv, NEW t \in Threads, Thread(t) PROVE HintInv'
    <3>1. policies' = policies
      BY <2>1, Stays
    <3>2. QED
      BY <2>1, <3>1, HintRunning, HintPush, HintOverwritten, HintTP, HintMC DEF Thread
  <2>2. ASSUME SInv, HintInv, UNCHANGED vars PROVE HintInv'
    <3>1. policies' = policies
      BY <2>2 DEF vars
    <3>2. /\ pool' = pool /\ ring' = ring /\ cur' = cur /\ pc' = pc /\ carry' = carry /\ to' = to
          /\ MCThreads' = MCThreads /\ Threads' = Threads /\ Workers' = Workers /\ tpp' = tpp
          /\ mcp' = mcp /\ (HintsFit' <=> HintsFit)
      BY <2>2, <3>1, Fixed DEF vars, queues, sending
    <3>3. QED
      BY <2>2, <3>2 DEF HintInv, Aimed, Hinting, MayHave
  <2>3. QED
    BY <2>1, <2>2 DEF Next, Undefined
<1>3. SInv /\ HintInv => HintHonoured
  <2>1. SUFFICES ASSUME SInv, HintInv, Hinting, NEW w \in MCThreads, NEW d \in Codelets,
                        \/ \E i \in 1 .. Len(ring[w]) : ring[w][i] = d
                        \/ cur[w] = d \/ d \in pool[w]
                 PROVE  MayHave(w, d)
    BY DEF HintHonoured, Hinting, MayHave
  <2>2. QED
    BY <2>1 DEF HintInv
<1>4. QED
  BY <1>1, <1>2, <1>3, Invariance, PTL DEF Spec
=============================================================================
