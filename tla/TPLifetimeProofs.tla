-------------------------- MODULE TPLifetimeProofs --------------------------
(***************************************************************************)
(* The reference counting protocol of TPLifetime is correct for every tree *)
(* of TPs, every set of codelets and every set of threads: IInv is         *)
(* inductive and implies the safety properties that MCTPLifetime checks.   *)
(***************************************************************************)
EXTENDS TPLifetime, FiniteSetTheorems, WellFoundedInduction, TLAPS

USE NamesAssumption, TreeAssumption, CodeletAssumption

-----------------------------------------------------------------------------
(* The frame a thread is working in can be used, and so can all above it:  *)
(* the thread itself, or the factory, is one of its holders.               *)
LEMMA FrameUsable ==
  ASSUME IInv, NEW w \in Threads, act[w] \in {"build", "fire"}
  PROVE  /\ Frame(w) \in TPs
         /\ Usable(Frame(w))
         /\ \A a \in Ancestors[Frame(w)] : a \in TPs /\ Usable(a)
<1>1. Frame(w) \in TPs
  BY DEF IInv, TypeOK, Frame
<1>2. Usable(Frame(w))
  <2>1. CASE act[w] = "build"
    BY <2>1 DEF IInv, ActInv, Usable, Frame
  <2>2. CASE act[w] = "fire"
    <3>1. <<"firing", w>> \in Holders(Frame(w))
      BY <2>2 DEF Holders, Frame
    <3>2. QED
      BY <1>1, <3>1 DEF IInv, HolderInv, HolderOK
  <2>3. QED
    BY <2>1, <2>2
<1>3. Allocated(Frame(w))
  BY <1>2 DEF Usable, Allocated
<1>4. QED
  BY <1>1, <1>2, <1>3 DEF IInv, AncestorInv

(* A holder arrives and ref_ is counted up, or leaves and it is counted    *)
(* down: the count stays right for the TP.                                 *)
LEMMA OneMore ==
  ASSUME NEW S, NEW x, IsFiniteSet(S), x \notin S
  PROVE  /\ IsFiniteSet(S \cup {x})
         /\ Cardinality(S \cup {x}) = Cardinality(S) + 1
         /\ Cardinality(S) \in Nat
BY FS_AddElement, FS_CardinalityType

LEMMA OneLess ==
  ASSUME NEW S, NEW x, IsFiniteSet(S), x \in S
  PROVE  /\ IsFiniteSet(S \ {x})
         /\ Cardinality(S \ {x}) = Cardinality(S) - 1
         /\ Cardinality(S) \in Nat
         /\ Cardinality(S) >= 1
         /\ Cardinality(S) = 1 => S \ {x} = {}
<1>1. /\ IsFiniteSet(S \ {x})
      /\ Cardinality(S \ {x}) = Cardinality(S) - 1
      /\ Cardinality(S) \in Nat
      /\ Cardinality(S \ {x}) \in Nat
  BY FS_RemoveElement, FS_CardinalityType
<1>2. Cardinality(S) = 1 => Cardinality(S \ {x}) = 0
  BY <1>1
<1>3. QED
  BY <1>1, <1>2, FS_EmptySet

(* What it means for a frame that it has no holder.                        *)
LEMMA NoHolders ==
  ASSUME NEW t \in TPs, Holders(t) = {}
  PROVE  /\ \A c \in Codelets : Owner[c] = t => place[c] \notin {"counted", "queued"}
         /\ \A w \in Threads : act[w] = "fire" => Owner[obj[w]] # t
         /\ \A u \in TPs : Parent[u] = t => tp[u] \in {"none", "deleted"}
         /\ tp[t] # "building"
<1>1. ASSUME NEW c \in Codelets, Owner[c] = t, place[c] \in {"counted", "queued"}
      PROVE  FALSE
  <2>1. <<"activation", c>> \in Holders(t)
    BY <1>1 DEF Holders
  <2>2. QED
    BY <2>1
<1>2. ASSUME NEW w \in Threads, act[w] = "fire", Owner[obj[w]] = t
      PROVE  FALSE
  <2>1. <<"firing", w>> \in Holders(t)
    BY <1>2 DEF Holders
  <2>2. QED
    BY <2>1
<1>3. ASSUME NEW u \in TPs, Parent[u] = t, tp[u] \notin {"none", "deleted"}
      PROVE  FALSE
  <2>1. <<"child", u>> \in Holders(t)
    BY <1>3 DEF Holders
  <2>2. QED
    BY <2>1
<1>4. ASSUME tp[t] = "building"
      PROVE  FALSE
  <2>1. <<"factory", t>> \in Holders(t)
    BY <1>4 DEF Holders
  <2>2. QED
    BY <2>1
<1>5. QED
  BY <1>1, <1>2, <1>3, <1>4

LEMMA NoHoldersNext ==
  ASSUME NEW t \in TPs, Holders(t)' = {}
  PROVE  \A u \in TPs : Parent[u] = t => tp'[u] \in {"none", "deleted"}
<1> SUFFICES ASSUME NEW u \in TPs, Parent[u] = t, tp'[u] \notin {"none", "deleted"}
             PROVE  FALSE
  OBVIOUS
<1>1. <<"child", u>> \in Holders(t)'
  BY DEF Holders
<1>2. QED
  BY <1>1

-----------------------------------------------------------------------------
LEMMA InitIInv == Init => IInv
<1> SUFFICES ASSUME Init PROVE IInv
  OBVIOUS
<1>1. TypeOK
  BY DEF Init, TypeOK, TPStates, Places
<1>2. \A t \in TPs : Holders(t) = {}
  <2> TAKE t \in TPs
  <2>1. {u \in TPs : Parent[u] = t /\ tp[u] \notin {"none", "deleted"}} = {}
    BY DEF Init
  <2>2. QED
    BY <2>1 DEF Init, Holders
<1>3. HolderInv
  BY <1>2, FS_EmptySet DEF Init, HolderInv, HolderOK, Usable
<1>4. HandInv
  BY DEF Init, HandInv
<1>5. CounterInv
  BY DEF Init, CounterInv, Pending
<1>6. ActInv
  BY DEF Init, ActInv
<1>7. AncestorInv
  <2>1. \A t \in TPs : Parent[t] = NoTP => Ancestors[t] = {}
    OBVIOUS
  <2>2. QED
    BY <2>1 DEF Init, AncestorInv, Allocated
<1>8. QED
  BY <1>1, <1>3, <1>4, <1>5, <1>6, <1>7 DEF IInv

-----------------------------------------------------------------------------
(* Steps that change no set of holders.                                    *)
LEMMA AddStep ==
  ASSUME IInv, NEW w \in Threads, NEW c \in Codelets, Add(w, c)
  PROVE  IInv'
<1> USE DEF Add
<1>1. TypeOK'
  BY DEF IInv, TypeOK, Places
<1>2. \A t \in TPs : Holders(t)' = Holders(t)
  BY DEF IInv, TypeOK, Holders
<1>3. HolderInv'
  BY <1>2 DEF IInv, HolderInv, HolderOK, Usable
<1>4. HandInv'
  BY DEF IInv, TypeOK, HandInv, Frame
<1>5. CounterInv'
  BY DEF IInv, TypeOK, CounterInv, Pending
<1>6. ActInv'
  BY DEF IInv, ActInv
<1>7. AncestorInv'
  BY DEF IInv, AncestorInv, Allocated, Usable
<1>8. QED
  BY <1>1, <1>3, <1>4, <1>5, <1>6, <1>7 DEF IInv

LEMMA DecDepStep ==
  ASSUME IInv, NEW w \in Threads, NEW c \in Codelets, DecDep(w, c)
  PROVE  IInv'
<1> USE DEF DecDep
<1>0. ~ Pending(c)
  BY DEF IInv, CounterInv
<1>1. TypeOK'
  BY DEF IInv, TypeOK, Places
<1>2. \A t \in TPs : Holders(t)' = Holders(t)
  BY <1>0 DEF IInv, TypeOK, Holders, Pending
<1>3. HolderInv'
  BY <1>2 DEF IInv, HolderInv, HolderOK, Usable
<1>4. HandInv'
  BY SMTT(30), <1>0 DEF IInv, TypeOK, HandInv, Frame, Pending
<1>5. CounterInv'
  BY <1>0 DEF IInv, TypeOK, CounterInv, Pending
<1>6. ActInv'
  BY DEF IInv, ActInv
<1>7. AncestorInv'
  BY DEF IInv, AncestorInv, Allocated, Usable
<1>8. QED
  BY <1>1, <1>3, <1>4, <1>5, <1>6, <1>7 DEF IInv

LEMMA PushStep ==
  ASSUME IInv, NEW w \in Threads, Push(w)
  PROVE  IInv'
<1> USE DEF Push
<1>0. hand[w] \in Codelets
  BY DEF IInv, TypeOK
<1>1. TypeOK'
  BY <1>0 DEF IInv, TypeOK, Places
<1>2. \A t \in TPs : Holders(t)' = Holders(t)
  BY <1>0 DEF IInv, TypeOK, Holders
<1>3. HolderInv'
  BY <1>2 DEF IInv, HolderInv, HolderOK, Usable
<1>4. HandInv'
  BY <1>0 DEF IInv, TypeOK, HandInv, Frame
<1>5. CounterInv'
  BY <1>0 DEF IInv, TypeOK, CounterInv, Pending
<1>6. ActInv'
  BY DEF IInv, ActInv
<1>7. AncestorInv'
  BY DEF IInv, AncestorInv, Allocated, Usable
<1>8. QED
  BY <1>1, <1>3, <1>4, <1>5, <1>6, <1>7 DEF IInv

LEMMA ResetStep ==
  ASSUME IInv, NEW w \in Threads, ResetCodelet(w)
  PROVE  IInv'
<1> USE DEF ResetCodelet
<1>0. obj[w] \in Codelets
  BY DEF IInv, TypeOK
<1>1. TypeOK'
  BY <1>0 DEF IInv, TypeOK
<1>2. \A t \in TPs : Holders(t)' = Holders(t)
  BY DEF Holders
<1>3. HolderInv'
  BY <1>2 DEF IInv, HolderInv, HolderOK, Usable
<1>4. HandInv'
  BY DEF IInv, HandInv, Frame
<1>5. CounterInv'
  BY <1>0 DEF IInv, TypeOK, CounterInv, Pending
<1>6. ActInv'
  BY DEF IInv, ActInv
<1>7. AncestorInv'
  BY DEF IInv, AncestorInv, Allocated, Usable
<1>8. QED
  BY <1>1, <1>3, <1>4, <1>5, <1>6, <1>7 DEF IInv

-----------------------------------------------------------------------------
(* Steps that add a holder.                                                *)
LEMMA IncRefStep ==
  ASSUME IInv, NEW w \in Threads, IncRef(w)
  PROVE  IInv'
<1> USE DEF IncRef
<1> PICK c \in Codelets : c = hand[w]
  BY DEF IInv, TypeOK
<1> DEFINE o == Owner[c]
           token == <<"activation", c>>
<1>0. o \in TPs /\ Usable(o)
  <2>1. o \in TPs
    OBVIOUS
  <2>2. act[w] \in {"build", "fire"} /\ o \in {Frame(w)} \cup Ancestors[Frame(w)]
    BY DEF IInv, HandInv
  <2>3. QED
    BY <2>1, <2>2, FrameUsable
<1>1. TypeOK'
  BY <1>0 DEF IInv, TypeOK, Places
<1>2. \A t \in TPs \ {o} : Holders(t)' = Holders(t)
  BY <1>0 DEF IInv, TypeOK, Holders
<1>3. Holders(o)' = Holders(o) \cup {token} /\ token \notin Holders(o)
  BY <1>0 DEF IInv, TypeOK, Holders
<1>4. HolderInv'
  <2>1. HolderOK(o)'
    <3>1. IsFiniteSet(Holders(o))
      BY <1>0 DEF IInv, HolderInv, HolderOK
    <3>2. /\ IsFiniteSet(Holders(o) \cup {token})
          /\ Cardinality(Holders(o) \cup {token}) = Cardinality(Holders(o)) + 1
          /\ Cardinality(Holders(o)) \in Nat
      <4> HIDE DEF token
      <4> QED BY <1>3, <3>1, OneMore
    <3>3. ref'[o] = ref[o] + 1 /\ ref[o] \in Nat
      BY <1>0 DEF IInv, TypeOK
    <3>4. Usable(o)'
      BY <1>0 DEF Usable
    <3>5. QED
      BY <1>0, <1>3, <3>2, <3>3, <3>4 DEF IInv, HolderInv, HolderOK, CheckParent
  <2>2. \A t \in TPs \ {o} : HolderOK(t)'
    <3>1. \A t \in TPs \ {o} : ref'[t] = ref[t]
      BY <1>0 DEF IInv, TypeOK
    <3>2. QED
      BY <1>2, <3>1 DEF IInv, HolderInv, HolderOK, Usable
  <2>3. QED
    BY <2>1, <2>2 DEF HolderInv
<1>5. HandInv'
  BY <1>0 DEF IInv, TypeOK, HandInv, Frame
<1>6. CounterInv'
  BY <1>0 DEF IInv, TypeOK, CounterInv, Pending
<1>7. ActInv'
  BY DEF IInv, ActInv
<1>8. AncestorInv'
  BY DEF IInv, AncestorInv, Allocated, Usable
<1>9. QED
  BY <1>1, <1>4, <1>5, <1>6, <1>7, <1>8 DEF IInv

LEMMA InvokeStep ==
  ASSUME IInv, NEW w \in Threads, NEW t \in TPs, Invoke(w, t)
  PROVE  IInv'
<1> DEFINE p == Parent[t]
           token == <<"child", t>>
<1> USE DEF Invoke, Busy
<1>0. p \in TPs /\ Usable(p) /\ p # t /\ p # NoTP
      /\ \A a \in Ancestors[p] : Usable(a)
  BY FrameUsable DEF Usable
<1>1. TypeOK'
  BY <1>0 DEF IInv, TypeOK, TPStates
<1>2. \A u \in TPs \ {p} : Holders(u)' = Holders(u)
  <2> TAKE u \in TPs \ {p}
  <2>1. {x \in TPs : Parent[x] = u /\ tp'[x] \notin {"none", "deleted"}}
        = {x \in TPs : Parent[x] = u /\ tp[x] \notin {"none", "deleted"}}
    BY DEF IInv, TypeOK
  <2>2. {x \in {u} : tp'[x] = "building"} = {x \in {u} : tp[x] = "building"}
    BY DEF IInv, TypeOK
  <2>3. QED
    BY <2>1, <2>2 DEF Holders
<1>3. Holders(p)' = Holders(p) \cup {token} /\ token \notin Holders(p)
  <2>1. {x \in TPs : Parent[x] = p /\ tp'[x] \notin {"none", "deleted"}}
        = {x \in TPs : Parent[x] = p /\ tp[x] \notin {"none", "deleted"}} \cup {t}
    BY DEF IInv, TypeOK
  <2>2. {x \in {p} : tp'[x] = "building"} = {x \in {p} : tp[x] = "building"}
    BY <1>0 DEF IInv, TypeOK
  <2>3. Holders(p)' = Holders(p) \cup {token}
    BY <2>1, <2>2 DEF Holders
  <2>4. token \notin Holders(p)
    BY DEF Holders
  <2>5. QED
    BY <2>3, <2>4
<1>4. HolderInv'
  <2>1. HolderOK(p)'
    <3>1. IsFiniteSet(Holders(p))
      BY <1>0 DEF IInv, HolderInv, HolderOK
    <3>2. /\ IsFiniteSet(Holders(p) \cup {token})
          /\ Cardinality(Holders(p) \cup {token}) = Cardinality(Holders(p)) + 1
          /\ Cardinality(Holders(p)) \in Nat
      <4> HIDE DEF token
      <4> QED BY <1>3, <3>1, OneMore
    <3>3. ref'[p] = ref[p] + 1 /\ ref[p] \in Nat
      BY <1>0 DEF IInv, TypeOK
    <3>4. Usable(p)'
      BY <1>0 DEF IInv, TypeOK, Usable
    <3>5. QED
      BY <1>0, <1>3, <3>2, <3>3, <3>4 DEF IInv, HolderInv, HolderOK, CheckParent
  <2>2. \A u \in TPs \ {p} : HolderOK(u)'
    <3>1. \A u \in TPs \ {p} : ref'[u] = ref[u] /\ (Usable(u)' <=> Usable(u))
      BY <1>0 DEF IInv, TypeOK, Usable
    <3>2. QED
      BY <1>2, <3>1 DEF IInv, HolderInv, HolderOK
  <2>3. QED
    BY <2>1, <2>2 DEF HolderInv
<1>5. HandInv'
  BY DEF IInv, HandInv, Frame
<1>6. CounterInv'
  BY DEF IInv, CounterInv, Pending
<1>7. ActInv'
  BY DEF IInv, TypeOK, ActInv
<1>8. AncestorInv'
  <2>1. \A u \in TPs : Usable(u) => Usable(u)'
    BY DEF IInv, TypeOK, Usable
  <2>2. \A u \in TPs \ {t} : Allocated(u)' => Allocated(u)
    BY DEF IInv, TypeOK, Allocated
  <2>3. \A a \in Ancestors[t] : a \in TPs /\ Usable(a)
    BY <1>0
  <2>4. QED
    BY <2>1, <2>2, <2>3 DEF IInv, AncestorInv
<1>9. QED
  BY <1>1, <1>4, <1>5, <1>6, <1>7, <1>8 DEF IInv

LEMMA PopTPStep ==
  ASSUME IInv, NEW w \in Threads, NEW t \in TPs, PopTP(w, t)
  PROVE  IInv'
<1> DEFINE token == <<"factory", t>>
<1> USE DEF PopTP
<1>1. TypeOK'
  BY DEF IInv, TypeOK, TPStates
<1>2. \A u \in TPs \ {t} : Holders(u)' = Holders(u)
  <2> TAKE u \in TPs \ {t}
  <2>1. {x \in TPs : Parent[x] = u /\ tp'[x] \notin {"none", "deleted"}}
        = {x \in TPs : Parent[x] = u /\ tp[x] \notin {"none", "deleted"}}
    BY DEF IInv, TypeOK
  <2>2. {x \in {u} : tp'[x] = "building"} = {x \in {u} : tp[x] = "building"}
    BY DEF IInv, TypeOK
  <2>3. {x \in Threads : act'[x] = "fire" /\ Owner[obj'[x]] = u}
        = {x \in Threads : act[x] = "fire" /\ Owner[obj[x]] = u}
    BY DEF IInv, TypeOK
  <2>4. QED
    BY <2>1, <2>2, <2>3 DEF Holders
<1>3. Holders(t)' = {token}
  <2>0. Holders(t) = {}
    BY DEF IInv, HolderInv, HolderOK, Usable
  <2>1. {x \in TPs : Parent[x] = t /\ tp'[x] \notin {"none", "deleted"}} = {}
    <3>1. \A x \in TPs : Parent[x] = t => tp[x] \in {"none", "deleted"}
      BY <2>0, NoHolders
    <3>2. QED
      BY <3>1 DEF IInv, TypeOK
  <2>2. {x \in {t} : tp'[x] = "building"} = {t}
    BY DEF IInv, TypeOK
  <2>3. {x \in Threads : act'[x] = "fire" /\ Owner[obj'[x]] = t} = {}
    <3>1. \A x \in Threads : ~ (act[x] = "fire" /\ Owner[obj[x]] = t)
      BY <2>0, NoHolders
    <3>2. QED
      BY <3>1 DEF IInv, TypeOK
  <2>4. {c \in Codelets : Owner[c] = t /\ place'[c] \in {"counted", "queued"}} = {}
    BY <2>0, NoHolders
  <2>5. QED
    BY <2>1, <2>2, <2>3, <2>4 DEF Holders
<1>4. HolderInv'
  <2>1. HolderOK(t)'
    <3>1. ref'[t] = 1 /\ Usable(t)'
      BY DEF IInv, TypeOK, Usable
    <3>2. IsFiniteSet({token}) /\ Cardinality({token}) = 1
      BY FS_Singleton
    <3>3. QED
      BY <1>3, <3>1, <3>2 DEF HolderOK
  <2>2. \A u \in TPs \ {t} : HolderOK(u)'
    <3>1. \A u \in TPs \ {t} : ref'[u] = ref[u] /\ (Usable(u)' <=> Usable(u))
      BY DEF IInv, TypeOK, Usable
    <3>2. QED
      BY <1>2, <3>1 DEF IInv, HolderInv, HolderOK
  <2>3. QED
    BY <2>1, <2>2 DEF HolderInv
<1>5. HandInv'
  BY DEF IInv, TypeOK, HandInv, Frame
<1>6. CounterInv'
  BY DEF IInv, CounterInv, Pending
<1>7. ActInv'
  BY DEF IInv, TypeOK, ActInv
<1>8. AncestorInv'
  BY DEF IInv, TypeOK, AncestorInv, Allocated, Usable
<1>9. QED
  BY <1>1, <1>4, <1>5, <1>6, <1>7, <1>8 DEF IInv

-----------------------------------------------------------------------------
(* Steps that remove a holder, and may delete the frame with the last one. *)

(* A frame that nothing holds any more can stop being usable: no frame     *)
(* below it is left.                                                       *)
LEMMA AncestorKept ==
  ASSUME IInv, NEW d \in TPs,
         \A u \in TPs : Allocated(u)' => Allocated(u),
         \A u \in TPs \ {d} : Usable(u) => Usable(u)',
         Usable(d)' \/ \A u \in TPs : Parent[u] = d => ~ Allocated(u)'
  PROVE  AncestorInv'
<1> SUFFICES ASSUME NEW t \in TPs, Allocated(t)', NEW a \in Ancestors[t]
             PROVE  Usable(a)'
  BY DEF AncestorInv
<1>1. \A b \in Ancestors[t] : b \in TPs /\ Usable(b)
  BY DEF IInv, AncestorInv
<1>2. CASE a # d
  BY <1>1, <1>2
<1>3. CASE a = d /\ ~ Usable(d)'
  <2>1. PICK u \in {t} \cup Ancestors[t] : Parent[u] = d
    BY <1>3
  <2>2. u \in TPs /\ u # d
    BY <2>1, <1>1
  <2>3. Allocated(u)'
    BY <2>1, <2>2, <1>1 DEF Usable, Allocated
  <2>4. QED
    BY <1>3, <2>1, <2>2, <2>3
<1>4. QED
  BY <1>2, <1>3

LEMMA PopCodeletStep ==
  ASSUME IInv, NEW w \in Threads, NEW c \in Codelets, PopCodelet(w, c)
  PROVE  IInv'
<1> DEFINE o == Owner[c]
           old == <<"activation", c>>
           new == <<"firing", w>>
<1> USE DEF PopCodelet
<1>0. o \in TPs
  OBVIOUS
<1>1. TypeOK'
  BY DEF IInv, TypeOK, Places
<1>2. /\ \A t \in TPs \ {o} : Holders(t)' = Holders(t)
      /\ Holders(o)' = (Holders(o) \ {old}) \cup {new}
      /\ old \in Holders(o) /\ new \notin Holders(o)
  <2>1. \A t \in TPs \ {o} :
          {x \in Codelets : Owner[x] = t /\ place'[x] \in {"counted", "queued"}}
          = {x \in Codelets : Owner[x] = t /\ place[x] \in {"counted", "queued"}}
    BY DEF IInv, TypeOK
  <2>2. \A t \in TPs \ {o} :
          {x \in Threads : act'[x] = "fire" /\ Owner[obj'[x]] = t}
          = {x \in Threads : act[x] = "fire" /\ Owner[obj[x]] = t}
    BY DEF IInv, TypeOK
  <2>3. {x \in Codelets : Owner[x] = o /\ place'[x] \in {"counted", "queued"}}
        = {x \in Codelets : Owner[x] = o /\ place[x] \in {"counted", "queued"}} \ {c}
    BY DEF IInv, TypeOK
  <2>4. {x \in Threads : act'[x] = "fire" /\ Owner[obj'[x]] = o}
        = {x \in Threads : act[x] = "fire" /\ Owner[obj[x]] = o} \cup {w}
    BY DEF IInv, TypeOK
  <2>5. \A t \in TPs \ {o} : Holders(t)' = Holders(t)
    BY <2>1, <2>2 DEF Holders
  <2>6. Holders(o)' = (Holders(o) \ {old}) \cup {new}
    BY <2>3, <2>4 DEF Holders
  <2>7. old \in Holders(o) /\ new \notin Holders(o)
    BY DEF Holders
  <2>8. QED
    BY <2>5, <2>6, <2>7
<1>3. HolderInv'
  <2>1. HolderOK(o)'
    <3>1. Usable(o) /\ IsFiniteSet(Holders(o))
      BY <1>0, <1>2 DEF IInv, HolderInv, HolderOK
    <3>2. /\ IsFiniteSet((Holders(o) \ {old}) \cup {new})
          /\ Cardinality((Holders(o) \ {old}) \cup {new}) = Cardinality(Holders(o))
      <4> DEFINE S == Holders(o) \ {old}
      <4>1. /\ IsFiniteSet(S) /\ Cardinality(S) = Cardinality(Holders(o)) - 1
            /\ Cardinality(Holders(o)) \in Nat
        <5> HIDE DEF old
        <5> QED BY <1>2, <3>1, OneLess
      <4>2. new \notin S
        BY <1>2
      <4>3. IsFiniteSet(S \cup {new}) /\ Cardinality(S \cup {new}) = Cardinality(S) + 1
        <5> HIDE DEF S, new
        <5> QED BY <4>1, <4>2, OneMore
      <4>4. QED
        BY <4>1, <4>3
    <3>3. QED
      BY <1>0, <1>2, <3>1, <3>2 DEF IInv, HolderInv, HolderOK, Usable, CheckParent
  <2>2. \A t \in TPs \ {o} : HolderOK(t)'
    BY <1>2 DEF IInv, HolderInv, HolderOK, Usable
  <2>3. QED
    BY <2>1, <2>2 DEF HolderInv
<1>4. HandInv'
  BY DEF IInv, TypeOK, HandInv, Frame
<1>5. CounterInv'
  BY DEF IInv, TypeOK, CounterInv, Pending
<1>6. ActInv'
  BY DEF IInv, TypeOK, ActInv
<1>7. AncestorInv'
  BY DEF IInv, AncestorInv, Allocated, Usable
<1>8. QED
  BY <1>1, <1>3, <1>4, <1>5, <1>6, <1>7 DEF IInv

(* The arithmetic of giving back one reference, for all three places that  *)
(* do it: ref_ of d is counted down, token leaves its holders, and d stays *)
(* usable exactly when the count was not 1.                                *)
LEMMA GiveBack ==
  ASSUME IInv, NEW d \in TPs, Usable(d), NEW token,
         token \in Holders(d),
         Holders(d)' = Holders(d) \ {token},
         ref'[d] = ref[d] - 1,
         Usable(d)' <=> ref[d] # 1
  PROVE  /\ HolderOK(d)'
         /\ ref[d] >= 1
         /\ ~ Usable(d)' => Holders(d)' = {}
<1> DEFINE S == Holders(d)
<1>1. IsFiniteSet(S) /\ ref[d] \in Nat /\ ref[d] >= Cardinality(S)
  BY DEF IInv, HolderInv, HolderOK, TypeOK
<1>2. /\ IsFiniteSet(S \ {token})
      /\ Cardinality(S \ {token}) = Cardinality(S) - 1
      /\ Cardinality(S) \in Nat
      /\ Cardinality(S) >= 1
      /\ Cardinality(S) = 1 => S \ {token} = {}
  <2> HIDE DEF S
  <2> QED BY <1>1, OneLess DEF S
<1>3. ref[d] = 1 => Cardinality(S) = 1
  BY <1>1, <1>2
<1>4. CheckParent(d) => ref[d] = Cardinality(S)
  BY DEF IInv, HolderInv, HolderOK
<1>5. QED
  BY <1>1, <1>2, <1>3, <1>4 DEF HolderOK, CheckParent

LEMMA FactoryDecRefStep ==
  ASSUME IInv, NEW w \in Threads, FactoryDecRef(w)
  PROVE  IInv'
<1> USE DEF FactoryDecRef
<1> PICK t \in TPs : t = obj[w]
  BY DEF IInv, TypeOK
<1> DEFINE token == <<"factory", t>>
<1>0. tp[t] = "building" /\ Usable(t)
  BY DEF IInv, ActInv, Usable
<1>1. /\ \A u \in TPs \ {t} : Holders(u)' = Holders(u)
      /\ Holders(t)' = Holders(t) \ {token}
      /\ token \in Holders(t)
  <2>1. \A u \in TPs :
          {x \in TPs : Parent[x] = u /\ tp'[x] \notin {"none", "deleted"}}
          = {x \in TPs : Parent[x] = u /\ tp[x] \notin {"none", "deleted"}}
    BY <1>0 DEF IInv, TypeOK
  <2>2. \A u \in TPs :
          {x \in Threads : act'[x] = "fire" /\ Owner[obj'[x]] = u}
          = {x \in Threads : act[x] = "fire" /\ Owner[obj[x]] = u}
    BY DEF IInv, TypeOK
  <2>3. \A u \in TPs \ {t} :
          {x \in {u} : tp'[x] = "building"} = {x \in {u} : tp[x] = "building"}
    BY DEF IInv, TypeOK
  <2>4. {x \in {t} : tp'[x] = "building"} = {}
    BY DEF IInv, TypeOK
  <2>5. \A u \in TPs \ {t} : Holders(u)' = Holders(u)
    BY <2>1, <2>2, <2>3 DEF Holders
  <2>6. Holders(t)' = Holders(t) \ {token}
    BY <1>0, <2>1, <2>2, <2>4 DEF Holders
  <2>7. token \in Holders(t)
    BY <1>0 DEF Holders
  <2>8. QED
    BY <2>5, <2>6, <2>7
<1>2. /\ HolderOK(t)'
      /\ ref[t] >= 1
      /\ ~ Usable(t)' => Holders(t)' = {}
  <2>1. ref'[t] = ref[t] - 1 /\ (Usable(t)' <=> ref[t] # 1)
    BY <1>0 DEF IInv, TypeOK, Usable
  <2>2. QED
    BY <1>0, <1>1, <2>1, GiveBack
<1>3. TypeOK'
  BY <1>2 DEF IInv, TypeOK, TPStates
<1>4. HolderInv'
  <2>1. \A u \in TPs \ {t} : ref'[u] = ref[u] /\ (Usable(u)' <=> Usable(u))
    BY DEF IInv, TypeOK, Usable
  <2>2. \A u \in TPs \ {t} : HolderOK(u)'
    BY <1>1, <2>1 DEF IInv, HolderInv, HolderOK
  <2>3. QED
    BY <1>2, <2>2 DEF HolderInv
<1>5. HandInv'
  BY DEF IInv, TypeOK, HandInv, Frame
<1>6. CounterInv'
  BY DEF IInv, CounterInv, Pending
<1>7. ActInv'
  BY DEF IInv, TypeOK, ActInv
<1>8. AncestorInv'
  <2>1. \A u \in TPs : Allocated(u)' => Allocated(u)
    BY <1>0 DEF IInv, TypeOK, Allocated
  <2>2. \A u \in TPs \ {t} : Usable(u) => Usable(u)'
    BY DEF IInv, TypeOK, Usable
  <2>3. ~ Usable(t)' => \A u \in TPs : Parent[u] = t => ~ Allocated(u)'
    BY <1>2, NoHoldersNext DEF Allocated
  <2>4. QED
    BY <2>1, <2>2, <2>3, AncestorKept
<1>9. QED
  BY <1>3, <1>4, <1>5, <1>6, <1>7, <1>8 DEF IInv

LEMMA EndFireStep ==
  ASSUME IInv, NEW w \in Threads, EndFire(w)
  PROVE  IInv'
<1> USE DEF EndFire
<1> PICK c \in Codelets : c = obj[w]
  BY DEF IInv, TypeOK
<1> PICK t \in TPs : t = Owner[c]
  OBVIOUS
<1> DEFINE token == <<"firing", w>>
           last == CheckParent(t) /\ ref[t] = 1
<1>0. Usable(t)
  BY FrameUsable DEF Frame
<1>a. last => tp[t] # "building"
  <2>1. ASSUME tp[t] = "building", ref[t] = 1, CheckParent(t)
        PROVE  FALSE
    <3>1. <<"factory", t>> \in Holders(t) /\ token \in Holders(t)
      BY <2>1 DEF Holders
    <3>2. Cardinality(Holders(t)) = 1 /\ IsFiniteSet(Holders(t))
      BY <1>0, <2>1 DEF IInv, HolderInv, HolderOK
    <3>3. PICK x : Holders(t) = {x}
      BY <3>2, FS_Singleton
    <3>4. QED
      BY <3>1, <3>3
  <2>2. QED
    BY <2>1
<1>1. /\ \A u \in TPs \ {t} : Holders(u)' = Holders(u)
      /\ Holders(t)' = Holders(t) \ {token}
      /\ token \in Holders(t)
  <2>1. \A u \in TPs :
          {x \in TPs : Parent[x] = u /\ tp'[x] \notin {"none", "deleted"}}
          = {x \in TPs : Parent[x] = u /\ tp[x] \notin {"none", "deleted"}}
    BY <1>0 DEF IInv, TypeOK, Usable
  <2>2. \A u \in TPs \ {t} :
          {x \in Threads : act'[x] = "fire" /\ Owner[obj'[x]] = u}
          = {x \in Threads : act[x] = "fire" /\ Owner[obj[x]] = u}
    BY DEF IInv, TypeOK
  <2>3. {x \in Threads : act'[x] = "fire" /\ Owner[obj'[x]] = t}
          = {x \in Threads : act[x] = "fire" /\ Owner[obj[x]] = t} \ {w}
    BY DEF IInv, TypeOK
  <2>4. \A u \in TPs \ {t} :
          {x \in {u} : tp'[x] = "building"} = {x \in {u} : tp[x] = "building"}
    BY DEF IInv, TypeOK
  <2>5. {x \in {t} : tp'[x] = "building"} = {x \in {t} : tp[x] = "building"}
    BY <1>a DEF IInv, TypeOK
  <2>6. \A u \in TPs \ {t} : Holders(u)' = Holders(u)
    BY <2>1, <2>2, <2>4 DEF Holders
  <2>7. Holders(t)' = Holders(t) \ {token}
    BY <2>1, <2>3, <2>5 DEF Holders
  <2>8. token \in Holders(t)
    BY DEF Holders
  <2>9. QED
    BY <2>6, <2>7, <2>8
<1>2. /\ HolderOK(t)'
      /\ CheckParent(t) => ref[t] >= 1
      /\ ~ Usable(t)' => Holders(t)' = {}
  <2>1. CASE CheckParent(t)
    <3>1. ref'[t] = ref[t] - 1 /\ (Usable(t)' <=> ref[t] # 1)
      BY <1>0, <2>1 DEF IInv, TypeOK, Usable
    <3>2. QED
      BY <1>0, <1>1, <3>1, GiveBack
  <2>2. CASE ~ CheckParent(t)
    <3>1. ref'[t] = ref[t] /\ Usable(t)' /\ ~ CheckParent(t)'
      BY <1>0, <2>2 DEF Usable, CheckParent
    <3>2. /\ IsFiniteSet(Holders(t) \ {token})
          /\ Cardinality(Holders(t) \ {token}) = Cardinality(Holders(t)) - 1
          /\ Cardinality(Holders(t)) \in Nat
      <4>1. IsFiniteSet(Holders(t))
        BY DEF IInv, HolderInv, HolderOK
      <4> HIDE DEF token
      <4> QED BY <1>1, <4>1, OneLess
    <3>3. ref[t] \in Nat /\ ref[t] >= Cardinality(Holders(t))
      BY <1>0 DEF IInv, TypeOK, HolderInv, HolderOK
    <3>4. QED
      BY <1>1, <2>2, <3>1, <3>2, <3>3 DEF HolderOK
  <2>3. QED
    BY <2>1, <2>2
<1>3. TypeOK'
  BY <1>2 DEF IInv, TypeOK, TPStates
<1>4. HolderInv'
  <2>1. \A u \in TPs \ {t} : ref'[u] = ref[u] /\ (Usable(u)' <=> Usable(u))
    BY DEF IInv, TypeOK, Usable
  <2>2. \A u \in TPs \ {t} : HolderOK(u)'
    BY <1>1, <2>1 DEF IInv, HolderInv, HolderOK
  <2>3. QED
    BY <1>2, <2>2 DEF HolderInv
<1>5. HandInv'
  BY SMTT(30) DEF IInv, TypeOK, HandInv, Frame
<1>6. CounterInv'
  BY DEF IInv, CounterInv, Pending
<1>7. ActInv'
  <2>1. \A v \in Threads : act[v] \in {"build", "dtor"} /\ obj[v] = t => ~ last
    <3>1. ASSUME NEW v \in Threads, act[v] = "build", obj[v] = t, last
          PROVE  FALSE
      BY <1>a, <3>1 DEF IInv, ActInv
    <3>2. ASSUME NEW v \in Threads, act[v] = "dtor", obj[v] = t
          PROVE  FALSE
      BY <1>0, <3>2 DEF IInv, ActInv, Usable
    <3>3. QED
      BY <3>1, <3>2
  <2>2. QED
    BY <2>1 DEF IInv, TypeOK, ActInv
<1>8. AncestorInv'
  <2>1. \A u \in TPs : Allocated(u)' => Allocated(u)
    BY <1>0 DEF IInv, TypeOK, Allocated, Usable
  <2>2. \A u \in TPs \ {t} : Usable(u) => Usable(u)'
    BY DEF IInv, TypeOK, Usable
  <2>3. ~ Usable(t)' => \A u \in TPs : Parent[u] = t => ~ Allocated(u)'
    BY <1>2, NoHoldersNext DEF Allocated
  <2>4. QED
    BY <2>1, <2>2, <2>3, AncestorKept
<1>9. QED
  BY <1>3, <1>4, <1>5, <1>6, <1>7, <1>8 DEF IInv

LEMMA DestroyStep ==
  ASSUME IInv, NEW w \in Threads, Destroy(w)
  PROVE  IInv'
<1> USE DEF Destroy
<1> PICK t \in TPs : t = obj[w]
  BY DEF IInv, TypeOK
<1> PICK p \in TPs \cup {NoTP} : p = Parent[t]
  OBVIOUS
<1> DEFINE token == <<"child", t>>
           release == p # NoTP /\ CheckParent(p)
           last == release /\ ref[p] = 1
<1>0. /\ tp[t] = "dying" /\ ~ Usable(t) /\ Allocated(t)
      /\ Holders(t) = {}
  BY DEF IInv, ActInv, Usable, Allocated, HolderInv, HolderOK
<1>a. p # NoTP => p \in TPs /\ p # t /\ token \in Holders(p) /\ Usable(p)
  <2>1. p # NoTP => p \in TPs /\ p # t
    OBVIOUS
  <2>2. p # NoTP => token \in Holders(p)
    BY <1>0 DEF Holders
  <2>3. QED
    BY <2>1, <2>2 DEF IInv, HolderInv, HolderOK
<1>b. last => tp[p] # "building"
  <2>1. ASSUME last, tp[p] = "building"
        PROVE  FALSE
    <3>1. <<"factory", p>> \in Holders(p) /\ token \in Holders(p)
      BY <1>a, <2>1 DEF Holders
    <3>2. Cardinality(Holders(p)) = 1 /\ IsFiniteSet(Holders(p))
      BY <1>a, <2>1 DEF IInv, HolderInv, HolderOK
    <3>3. PICK x : Holders(p) = {x}
      BY <3>2, FS_Singleton
    <3>4. QED
      BY <3>1, <3>3
  <2>2. QED
    BY <2>1
<1>c. \A u \in TPs : tp'[u] = IF u = t THEN "deleted"
                           ELSE IF u = p /\ last THEN "dying" ELSE tp[u]
  BY DEF IInv, TypeOK
<1>e. place' = place
  OBVIOUS
<1>1. \A u \in TPs : u # p => Holders(u)' = Holders(u)
  <2> SUFFICES ASSUME NEW u \in TPs, u # p
               PROVE  Holders(u)' = Holders(u)
    OBVIOUS
  <2>1. {x \in TPs : Parent[x] = u /\ tp'[x] \notin {"none", "deleted"}}
          = {x \in TPs : Parent[x] = u /\ tp[x] \notin {"none", "deleted"}}
    <3>1. \A x \in TPs : Parent[x] = u =>
            (tp'[x] \notin {"none", "deleted"} <=> tp[x] \notin {"none", "deleted"})
      BY <1>a, <1>c DEF Usable
    <3>2. QED
      BY <3>1
  <2>2. {x \in Threads : act'[x] = "fire" /\ Owner[obj'[x]] = u}
          = {x \in Threads : act[x] = "fire" /\ Owner[obj[x]] = u}
    BY DEF IInv, TypeOK
  <2>3. {x \in {u} : tp'[x] = "building"} = {x \in {u} : tp[x] = "building"}
    BY <1>0, <1>c
  <2> HIDE DEF Destroy, token
  <2>4. QED
    BY <1>e, <2>1, <2>2, <2>3 DEF Holders
<1>2. p # NoTP => Holders(p)' = Holders(p) \ {token}
  <2> SUFFICES ASSUME p # NoTP
               PROVE  Holders(p)' = Holders(p) \ {token}
    OBVIOUS
  <2>1. {x \in TPs : Parent[x] = p /\ tp'[x] \notin {"none", "deleted"}}
          = {x \in TPs : Parent[x] = p /\ tp[x] \notin {"none", "deleted"}} \ {t}
    <3>1. \A x \in TPs : Parent[x] = p /\ x # t =>
            (tp'[x] \notin {"none", "deleted"} <=> tp[x] \notin {"none", "deleted"})
      BY <1>a, <1>c DEF Usable
    <3>2. tp'[t] = "deleted"
      BY <1>c
    <3>3. QED
      BY <3>1, <3>2
  <2>2. {x \in Threads : act'[x] = "fire" /\ Owner[obj'[x]] = p}
          = {x \in Threads : act[x] = "fire" /\ Owner[obj[x]] = p}
    BY DEF IInv, TypeOK
  <2>3. {x \in {p} : tp'[x] = "building"} = {x \in {p} : tp[x] = "building"}
    BY <1>a, <1>b, <1>c
  <2>4. {<<"child", x>> : x \in
           {x \in TPs : Parent[x] = p /\ tp[x] \notin {"none", "deleted"}} \ {t}}
          = {<<"child", x>> : x \in
              {x \in TPs : Parent[x] = p /\ tp[x] \notin {"none", "deleted"}}} \ {token}
    OBVIOUS
  <2> HIDE DEF Destroy
  <2>5. QED
    BY <1>e, <2>1, <2>2, <2>3, <2>4 DEF Holders
<1>3. ASSUME p # NoTP
      PROVE  /\ HolderOK(p)'
             /\ release => ref[p] >= 1
             /\ ~ Usable(p)' => Holders(p)' = {}
  <2>1. CASE release
    <3>1. ref'[p] = ref[p] - 1 /\ (Usable(p)' <=> ref[p] # 1)
      BY <1>3, <1>a, <1>c, <2>1 DEF IInv, TypeOK, Usable
    <3>2. /\ p \in TPs /\ Usable(p) /\ token \in Holders(p)
          /\ Holders(p)' = Holders(p) \ {token}
      BY <1>3, <1>a, <1>2
    <3> HIDE DEF Destroy, release, last
    <3>3. QED
      BY <3>1, <3>2, GiveBack
  <2>2. CASE ~ release
    <3>1. ref'[p] = ref[p] /\ Usable(p)' /\ ~ CheckParent(p)'
      BY <1>3, <1>a, <1>c, <2>2 DEF Usable, CheckParent
    <3>2. /\ IsFiniteSet(Holders(p) \ {token})
          /\ Cardinality(Holders(p) \ {token}) = Cardinality(Holders(p)) - 1
          /\ Cardinality(Holders(p)) \in Nat
      <4>1. IsFiniteSet(Holders(p)) /\ token \in Holders(p)
        BY <1>3, <1>a DEF IInv, HolderInv, HolderOK
      <4> HIDE DEF token
      <4> QED BY <4>1, OneLess
    <3>3. ref[p] \in Nat /\ ref[p] >= Cardinality(Holders(p))
      BY <1>3, <1>a DEF IInv, TypeOK, HolderInv, HolderOK
    <3> DEFINE S == Holders(p) \ {token}
    <3>4. Holders(p)' = S
      BY <1>3, <1>2
    <3> HIDE DEF Destroy, S
    <3>5. /\ IsFiniteSet(S)
          /\ ref'[p] >= Cardinality(S)
      BY <3>1, <3>2, <3>3 DEF S
    <3>6. HolderOK(p)'
      BY <3>1, <3>4, <3>5 DEF HolderOK
    <3>7. QED
      BY <2>2, <3>1, <3>6
  <2>3. QED
    BY <2>1, <2>2
<1>4. TypeOK'
  BY <1>3, <1>a DEF IInv, TypeOK, TPStates
<1>5. HolderInv'
  <2>1. \A u \in TPs : u # p => ref'[u] = ref[u] /\ (Usable(u)' <=> Usable(u))
    BY <1>0, <1>a, <1>c DEF IInv, TypeOK, Usable
  <2>2. \A u \in TPs : u # p => HolderOK(u)'
    BY <1>1, <2>1 DEF IInv, HolderInv, HolderOK
  <2>3. QED
    BY <1>3, <2>2 DEF HolderInv
<1>6. HandInv'
  BY SMTT(30) DEF IInv, TypeOK, HandInv, Frame
<1>7. CounterInv'
  BY DEF IInv, CounterInv, Pending
<1>8. ActInv'
  <2>1. \A v \in Threads : act[v] \in {"build", "dtor"} /\ obj[v] = p => ~ last
    <3>1. ASSUME NEW v \in Threads, act[v] = "build", obj[v] = p, last
          PROVE  FALSE
      BY <1>b, <3>1 DEF IInv, ActInv
    <3>2. ASSUME NEW v \in Threads, act[v] = "dtor", obj[v] = p, last
          PROVE  FALSE
      BY <1>a, <3>2 DEF IInv, ActInv, Usable
    <3>3. QED
      BY <3>1, <3>2
  <2>2. \A v \in Threads \ {w} : act[v] \in {"build", "dtor"} => obj[v] # t
    BY DEF IInv, ActInv
  <2>3. QED
    BY SMTT(30), <1>a, <1>c, <2>1, <2>2 DEF IInv, TypeOK, ActInv
<1>9. AncestorInv'
  <2>1. \A u \in TPs : Allocated(u)' => Allocated(u)
    BY <1>0, <1>a, <1>c DEF Allocated, Usable
  <2>2. CASE p # NoTP
    <3>1. \A u \in TPs \ {p} : Usable(u) => Usable(u)'
      BY <1>0, <1>c DEF Usable
    <3>2. ~ Usable(p)' => \A u \in TPs : Parent[u] = p => ~ Allocated(u)'
      BY <1>3, <1>a, <2>2, NoHoldersNext DEF Allocated
    <3>3. QED
      BY <1>a, <2>1, <2>2, <3>1, <3>2, AncestorKept
  <2>3. CASE p = NoTP
    <3>1. \A u \in TPs : Usable(u) => Usable(u)'
      BY <1>0, <1>c, <2>3 DEF Usable
    <3>2. QED
      BY <2>1, <3>1 DEF IInv, AncestorInv
  <2>4. QED
    BY <2>2, <2>3
<1>10. QED
  BY <1>4, <1>5, <1>6, <1>7, <1>8, <1>9 DEF IInv

-----------------------------------------------------------------------------
LEMMA NextIInv == IInv /\ [Next]_vars => IInv'
<1> SUFFICES ASSUME IInv, [Next]_vars PROVE IInv'
  OBVIOUS
<1>1. CASE Next
  <2> PICK w \in Threads :
        \/ \E c \in Codelets : Add(w, c) \/ DecDep(w, c) \/ PopCodelet(w, c)
        \/ \E t \in TPs : Invoke(w, t) \/ PopTP(w, t)
        \/ IncRef(w) \/ Push(w) \/ ResetCodelet(w)
        \/ FactoryDecRef(w) \/ EndFire(w) \/ Destroy(w)
    BY <1>1 DEF Next
  <2> QED
    BY AddStep, DecDepStep, PopCodeletStep, InvokeStep, PopTPStep, IncRefStep,
       PushStep, ResetStep, FactoryDecRefStep, EndFireStep, DestroyStep
<1>2. CASE UNCHANGED vars
  <2> USE <1>2 DEF vars
  <2>1. TypeOK'
    BY DEF IInv, TypeOK
  <2>2. HolderInv'
    <3>1. \A t \in TPs : Holders(t)' = Holders(t)
      BY DEF Holders
    <3>2. QED
      BY <3>1 DEF IInv, HolderInv, HolderOK, Usable
  <2>3. HandInv' /\ CounterInv' /\ ActInv' /\ AncestorInv'
    BY DEF IInv, HandInv, CounterInv, ActInv, AncestorInv, Frame, Pending,
           Allocated, Usable
  <2>4. QED
    BY <2>1, <2>2, <2>3 DEF IInv
<1>3. QED
  BY <1>1, <1>2

(* IInv holds throughout every execution, and with it the type invariant.  *)
THEOREM Invariance == Spec => []IInv
BY InitIInv, NextIInv, PTL DEF Spec

THEOREM TypeCorrect == Spec => []TypeOK
<1>1. IInv => TypeOK
  BY DEF IInv
<1>2. QED
  BY <1>1, Invariance, PTL

(* Nothing the runtime still dereferences is in a deleted frame, for every *)
(* tree of TPs and number of threads.                                      *)
THEOREM Safety == Spec => []NoUseAfterDelete
<1>1. ASSUME IInv PROVE NoUseAfterDelete
  <2>1. ASSUME NEW w \in Threads, act[w] = "fire"
        PROVE  \A t \in {Frame(w)} \cup Ancestors[Frame(w)] : Usable(t)
    BY <1>1, <2>1, FrameUsable
  <2>2. ASSUME NEW t \in TPs, Parent[t] # NoTP, tp[t] \notin {"none", "deleted"}
        PROVE  Usable(Parent[t])
    BY <1>1, <2>2 DEF IInv, AncestorInv, Allocated
  <2>3. ASSUME NEW c \in Codelets, Pending(c)
        PROVE  Usable(Owner[c])
    <3>1. CASE place[c] \in {"enabled", "counted"}
      <4>1. PICK w \in Threads : hand[w] = c
        BY <1>1, <3>1 DEF IInv, HandInv
      <4>2. /\ act[w] \in {"build", "fire"}
            /\ Owner[c] \in {Frame(w)} \cup Ancestors[Frame(w)]
        BY <1>1, <4>1 DEF IInv, HandInv
      <4>3. QED
        BY <1>1, <4>2, FrameUsable
    <3>2. CASE place[c] = "queued"
      <4>1. <<"activation", c>> \in Holders(Owner[c])
        BY <3>2 DEF Holders
      <4>2. QED
        BY <1>1, <4>1 DEF IInv, HolderInv, HolderOK
    <3>3. QED
      BY <2>3, <3>1, <3>2 DEF Pending
  <2>4. QED
    BY <2>1, <2>2, <2>3 DEF NoUseAfterDelete
<1>2. QED
  BY <1>1, Invariance, PTL

(* ref_ is the number of holders of every frame that is reclaimed.         *)
THEOREM CountsAreExact == Spec => []RefExact
<1>1. IInv => RefExact
  BY DEF IInv, HolderInv, HolderOK, RefExact
<1>2. QED
  BY <1>1, Invariance, PTL

-----------------------------------------------------------------------------
(* No frame is leaked.                                                     *)

(* A TP that is being built or deleted is in the hands of a thread.        *)
Attended ==
  \A t \in TPs : tp[t] \in {"building", "dying"} =>
    \E w \in Threads : act[w] \in {"build", "dtor"} /\ obj[w] = t

(* Whoever takes the last reference of a frame deletes it, so that one     *)
(* which is still there is referenced.                                     *)
Referenced == \A t \in TPs : Usable(t) /\ CheckParent(t) => ref[t] >= 1

(* The TPs that have been invoked from another one.                        *)
Invoked == {t \in TPs : CheckParent(t) /\ tp[t] # "none"}

(* What is needed besides IInv: that no frame leaks.                       *)
LeakInv == Attended /\ Referenced /\ IsFiniteSet(Invoked)

(* No TP has been invoked and none is at work initially.                   *)
LEMMA InitLeakInv == Init => LeakInv
<1> SUFFICES ASSUME Init PROVE LeakInv
  OBVIOUS
<1>1. Invoked = {}
  BY DEF Init, Invoked, CheckParent
<1>2. Attended /\ Referenced
  BY DEF Init, Attended, Referenced, Usable
<1>3. QED
  BY <1>1, <1>2, FS_EmptySet DEF LeakInv

(* What destructors do to the states of the TPs, without CASE.             *)
LEMMA DestroyIs ==
  ASSUME IInv, NEW w \in Threads, Destroy(w)
  PROVE  \E t \in TPs, p \in TPs \cup {NoTP} :
           LET last == p # NoTP /\ CheckParent(p) /\ ref[p] = 1 IN
           /\ t = obj[w] /\ p = Parent[t] /\ p # t /\ tp[t] = "dying"
           /\ \A u \in TPs : tp'[u] = IF u = t THEN "deleted"
                                      ELSE IF u = p /\ last THEN "dying" ELSE tp[u]
           /\ \A u \in TPs : ref'[u] = IF u = p /\ CheckParent(p) THEN ref[u] - 1 ELSE ref[u]
           /\ \A v \in Threads : v # w => act'[v] = act[v] /\ obj'[v] = obj[v]
           /\ last => act'[w] = "dtor" /\ obj'[w] = p
<1> USE DEF Destroy
<1>1. PICK t \in TPs : t = obj[w]
  BY DEF IInv, TypeOK
<1>2. PICK p \in TPs \cup {NoTP} : p = Parent[t]
  OBVIOUS
<1>3. tp[t] = "dying"
  BY <1>1 DEF IInv, ActInv
<1>4. p # t
  BY <1>2
<1> DEFINE last == p # NoTP /\ CheckParent(p) /\ ref[p] = 1
<1>5. \A u \in TPs : tp'[u] = IF u = t THEN "deleted"
                              ELSE IF u = p /\ last THEN "dying" ELSE tp[u]
  BY <1>1, <1>2 DEF IInv, TypeOK
<1>6. \A u \in TPs : ref'[u] = IF u = p /\ CheckParent(p) THEN ref[u] - 1 ELSE ref[u]
  BY <1>1, <1>2 DEF IInv, TypeOK
<1>7. \A v \in Threads : v # w => act'[v] = act[v] /\ obj'[v] = obj[v]
  BY DEF IInv, TypeOK
<1>8. last => act'[w] = "dtor" /\ obj'[w] = p
  BY <1>1, <1>2 DEF IInv, TypeOK
<1>9. QED
  BY <1>1, <1>2, <1>3, <1>4, <1>5, <1>6, <1>7, <1>8

(* Steps that leave all TPs and all references as they are, but for those  *)
(* that incRef adds.                                                       *)
LEMMA QuietLeak ==
  ASSUME IInv, LeakInv, tp' = tp,
         \A w \in Threads : act[w] \in {"build", "dtor"} =>
           act'[w] = act[w] /\ obj'[w] = obj[w],
         \A t \in TPs : ref'[t] >= ref[t] /\ ref'[t] \in Nat
  PROVE  LeakInv'
<1>1. Attended'
  BY DEF LeakInv, Attended
<1>2. Referenced'
  <2>1. \A t \in TPs : ref[t] \in Nat
    BY DEF IInv, TypeOK
  <2>2. QED
    BY <2>1 DEF LeakInv, Referenced, Usable, CheckParent
<1>3. Invoked' = Invoked
  BY DEF Invoked, CheckParent
<1>4. QED
  BY <1>1, <1>2, <1>3 DEF LeakInv

(* These are the steps before a push and at the beginning of a firing.     *)
LEMMA QuietLeakSteps ==
  ASSUME IInv, LeakInv, NEW w \in Threads,
         \/ \E c \in Codelets : Add(w, c) \/ DecDep(w, c) \/ PopCodelet(w, c)
         \/ IncRef(w) \/ Push(w) \/ ResetCodelet(w)
  PROVE  LeakInv'
<1>1. tp' = tp
  BY DEF Add, DecDep, PopCodelet, IncRef, Push, ResetCodelet
<1>2. ASSUME NEW v \in Threads, act[v] \in {"build", "dtor"}
      PROVE  act'[v] = act[v] /\ obj'[v] = obj[v]
  BY <1>2 DEF Add, DecDep, PopCodelet, IncRef, Push, ResetCodelet, IInv, TypeOK
<1>3. ASSUME NEW t \in TPs PROVE ref'[t] >= ref[t] /\ ref'[t] \in Nat
  BY DEF Add, DecDep, PopCodelet, IncRef, Push, ResetCodelet, IInv, TypeOK
<1>4. QED
  BY <1>1, <1>2, <1>3, QuietLeak

(* invoke adds one TP to those that were invoked.                          *)
LEMMA InvokeLeak ==
  ASSUME IInv, LeakInv, NEW w \in Threads, NEW t \in TPs, Invoke(w, t)
  PROVE  LeakInv'
<1> USE DEF Invoke
<1>1. /\ \A u \in TPs : tp'[u] = IF u = t THEN "closure" ELSE tp[u]
      /\ \A u \in TPs : ref[u] \in Nat /\ ref'[u] \in {ref[u], ref[u] + 1}
  BY DEF IInv, TypeOK
<1>2. Attended'
  BY <1>1 DEF LeakInv, Attended
<1>3. Referenced'
  BY <1>1 DEF LeakInv, Referenced, Usable, CheckParent
<1>4. Invoked' \subseteq Invoked \cup {t}
  BY <1>1 DEF Invoked, CheckParent
<1>5. IsFiniteSet(Invoked \cup {t})
  BY FS_AddElement DEF LeakInv
<1>6. QED
  BY <1>2, <1>3, <1>4, <1>5, FS_Subset DEF LeakInv

(* TPFactory takes the first reference.                                    *)
LEMMA PopTPLeak ==
  ASSUME IInv, LeakInv, NEW w \in Threads, NEW t \in TPs, PopTP(w, t)
  PROVE  LeakInv'
<1> USE DEF PopTP
<1>1. /\ \A u \in TPs : tp'[u] = IF u = t THEN "building" ELSE tp[u]
      /\ \A u \in TPs : ref'[u] = IF u = t THEN 1 ELSE ref[u]
      /\ \A v \in Threads : v # w => act'[v] = act[v] /\ obj'[v] = obj[v]
      /\ act[w] = "idle" /\ act'[w] = "build" /\ obj'[w] = t
  BY DEF IInv, TypeOK
<1>2. Attended'
  BY <1>1 DEF LeakInv, Attended
<1>3. Referenced'
  BY <1>1 DEF LeakInv, Referenced, Usable, CheckParent
<1>4. Invoked' = Invoked
  BY <1>1 DEF Invoked, CheckParent
<1>5. QED
  BY <1>2, <1>3, <1>4 DEF LeakInv

(* TPFactory gives its reference up, and goes on to delete the TP if that  *)
(* was the last.                                                           *)
LEMMA FactoryDecRefLeak ==
  ASSUME IInv, LeakInv, NEW w \in Threads, FactoryDecRef(w)
  PROVE  LeakInv'
<1> USE DEF FactoryDecRef
<1>0. PICK t \in TPs : t = obj[w]
  BY DEF IInv, TypeOK
<1>1. /\ \A u \in TPs : tp'[u] = IF u # t THEN tp[u]
                                 ELSE IF ref[t] = 1 THEN "dying" ELSE "live"
      /\ \A u \in TPs : ref'[u] = IF u = t THEN ref[u] - 1 ELSE ref[u]
      /\ \A v \in Threads : v # w => act'[v] = act[v] /\ obj'[v] = obj[v]
      /\ ref[t] = 1 => act'[w] = "dtor" /\ obj'[w] = t
  BY <1>0 DEF IInv, TypeOK
<1>2. tp[t] = "building" /\ \A u \in TPs : ref[u] \in Nat
  BY <1>0 DEF IInv, TypeOK, ActInv
<1>3. Attended'
  BY <1>0, <1>1 DEF LeakInv, Attended
<1>4. Referenced'
  BY <1>1, <1>2 DEF LeakInv, Referenced, Usable, CheckParent
<1>5. Invoked' = Invoked
  BY <1>1, <1>2 DEF Invoked, CheckParent
<1>6. QED
  BY <1>3, <1>4, <1>5 DEF LeakInv

(* A policy gives a reference back after fire, and goes on to delete the   *)
(* TP if that was the last.                                                *)
LEMMA EndFireLeak ==
  ASSUME IInv, LeakInv, NEW w \in Threads, EndFire(w)
  PROVE  LeakInv'
<1> USE DEF EndFire
<1>0. PICK t \in TPs : t = Owner[obj[w]] /\ Usable(t)
  BY FrameUsable DEF Frame
<1> DEFINE last == CheckParent(t) /\ ref[t] = 1
<1>1. /\ \A u \in TPs : tp'[u] = IF u = t /\ last THEN "dying" ELSE tp[u]
      /\ \A u \in TPs : ref'[u] = IF u = t /\ CheckParent(t) THEN ref[u] - 1 ELSE ref[u]
      /\ \A v \in Threads : v # w => act'[v] = act[v] /\ obj'[v] = obj[v]
      /\ last => act'[w] = "dtor" /\ obj'[w] = t
      /\ act[w] = "fire"
  BY <1>0 DEF IInv, TypeOK
<1>2. \A u \in TPs : ref[u] \in Nat
  BY DEF IInv, TypeOK
<1>3. Attended'
  BY <1>1 DEF LeakInv, Attended
<1>4. Referenced'
  BY <1>1, <1>2 DEF LeakInv, Referenced, Usable, CheckParent
<1>5. Invoked' = Invoked
  BY <1>0, <1>1 DEF Invoked, CheckParent, Usable
<1>6. QED
  BY <1>3, <1>4, <1>5 DEF LeakInv

(* A destructor gives the reference of the parent back, and goes on to     *)
(* delete it if that was the last.                                         *)
LEMMA DestroyLeak ==
  ASSUME IInv, LeakInv, NEW w \in Threads, Destroy(w)
  PROVE  LeakInv'
<1>0. PICK t \in TPs, p \in TPs \cup {NoTP} :
        LET last == p # NoTP /\ CheckParent(p) /\ ref[p] = 1 IN
        /\ t = obj[w] /\ p = Parent[t] /\ p # t /\ tp[t] = "dying"
        /\ \A u \in TPs : tp'[u] = IF u = t THEN "deleted"
                                   ELSE IF u = p /\ last THEN "dying" ELSE tp[u]
        /\ \A u \in TPs : ref'[u] = IF u = p /\ CheckParent(p) THEN ref[u] - 1 ELSE ref[u]
        /\ \A v \in Threads : v # w => act'[v] = act[v] /\ obj'[v] = obj[v]
        /\ last => act'[w] = "dtor" /\ obj'[w] = p
  BY DestroyIs
<1>1. p # NoTP => Usable(p)
  BY <1>0 DEF IInv, AncestorInv, Allocated
<1>2. \A u \in TPs : ref[u] \in Nat
  BY DEF IInv, TypeOK
<1>3. Attended'
  BY <1>0 DEF LeakInv, Attended
<1>4. Referenced'
  BY <1>0, <1>2 DEF LeakInv, Referenced, Usable, CheckParent
<1>5. Invoked' = Invoked
  BY <1>0, <1>1 DEF Invoked, CheckParent, Usable
<1>6. QED
  BY <1>3, <1>4, <1>5 DEF LeakInv

(* Every step keeps LeakInv.                                               *)
LEMMA NextLeakInv == IInv /\ LeakInv /\ [Next]_vars => LeakInv'
<1> SUFFICES ASSUME IInv, LeakInv, [Next]_vars PROVE LeakInv'
  OBVIOUS
<1>1. CASE UNCHANGED vars
  <2>1. \A t \in TPs : ref[t] \in Nat
    BY DEF IInv, TypeOK
  <2>2. QED
    BY <1>1, <2>1, QuietLeak DEF vars
<1>2. CASE Next
  <2> PICK w \in Threads :
        \/ \E c \in Codelets : Add(w, c) \/ DecDep(w, c) \/ PopCodelet(w, c)
        \/ \E t \in TPs : Invoke(w, t) \/ PopTP(w, t)
        \/ IncRef(w) \/ Push(w) \/ ResetCodelet(w)
        \/ FactoryDecRef(w) \/ EndFire(w) \/ Destroy(w)
    BY <1>2 DEF Next
  <2> QED
    BY QuietLeakSteps, InvokeLeak, PopTPLeak, FactoryDecRefLeak, EndFireLeak, DestroyLeak
<1>3. QED
  BY <1>1, <1>2

(* LeakInv holds throughout every execution.                               *)
LEMMA LeakInvariance == Spec => [](IInv /\ LeakInv)
<1>1. Init => IInv /\ LeakInv
  BY InitIInv, InitLeakInv
<1>2. (IInv /\ LeakInv) /\ [Next]_vars => (IInv /\ LeakInv)'
  BY NextIInv, NextLeakInv
<1>3. QED
  BY <1>1, <1>2, PTL DEF Spec

(* A finite set of TPs has one that is no parent in the set, since a child *)
(* has its parent above it besides all that its parent has.                *)
LEMMA Childless ==
  ASSUME NEW L \in SUBSET TPs, IsFiniteSet(L), L # {}
  PROVE  \E t \in L : \A u \in L : Parent[u] # t
<1> DEFINE Rest(t) == L \ Ancestors[t]
           Rests == {Rest(t) : t \in L}
<1>1. Rests \subseteq FiniteSubsetsOf(L) /\ Rests # {}
  <2>1. Rests \subseteq SUBSET L /\ Rests # {}
    <3>1. \A t \in L : Rest(t) \in SUBSET L
      OBVIOUS
    <3>2. PICK t \in L : TRUE
      OBVIOUS
    <3>3. Rest(t) \in Rests
      BY <3>2
    <3> HIDE DEF Rest
    <3>4. QED
      BY <3>1, <3>3
  <2> HIDE DEF Rests
  <2>2. QED
    BY <2>1, FS_FiniteSubsetsOfFinite
<1>2. PICK R \in Rests : \A Q \in Rests : ~ (<<Q, R>> \in StrictSubsetOrdering(L))
  <2> HIDE DEF Rests
  <2> QED BY <1>1, FS_StrictSubsetOrderingWellFounded, WFMin
<1>3. PICK t \in L : R = Rest(t)
  OBVIOUS
<1>4. ASSUME NEW u \in L, Parent[u] = t PROVE FALSE
  <2>1. Ancestors[u] = {t} \cup Ancestors[t] /\ t \notin Ancestors[t]
    BY <1>4
  <2>2. Rest(u) \subseteq Rest(t) /\ t \in Rest(t) /\ t \notin Rest(u)
    BY <2>1
  <2>3. <<Rest(u), Rest(t)>> \in StrictSubsetOrdering(L)
    BY <2>2 DEF StrictSubsetOrdering
  <2>4. QED
    BY <1>2, <1>3, <2>3
<1>5. QED
  BY <1>4

(* No frame is leaked, in any tree: of the frames that are left when all   *)
(* is quiet one has no child, no activation and no factory, hence no       *)
(* holder, and so it would have been deleted with its last reference.      *)
THEOREM NothingLeaks == Spec => []NoLeak
<1>1. ASSUME IInv, LeakInv PROVE NoLeak
  <2>1. SUFFICES ASSUME Quiescent, NEW s \in TPs, CheckParent(s),
                        tp[s] \notin {"none", "deleted"}
                 PROVE  FALSE
    BY DEF NoLeak
  <2> DEFINE L == {t \in TPs : CheckParent(t) /\ tp[t] \notin {"none", "deleted"}}
  <2>2. L \subseteq Invoked /\ L \subseteq TPs /\ L # {}
    BY <2>1 DEF Invoked
  <2>3. IsFiniteSet(L)
    BY <1>1, <2>2, FS_Subset DEF LeakInv
  <2>4. PICK t \in L : \A u \in L : Parent[u] # t
    <3> HIDE DEF L
    <3> QED BY <2>2, <2>3, Childless
  <2>5. tp[t] = "live"
    BY <1>1, <2>1 DEF IInv, TypeOK, TPStates, Quiescent, LeakInv, Attended
  <2>6. Holders(t) = {}
    <3>1. {c \in Codelets : Owner[c] = t /\ place[c] \in {"counted", "queued"}} = {}
      BY <2>1 DEF Quiescent, Pending
    <3>2. {w \in Threads : act[w] = "fire" /\ Owner[obj[w]] = t} = {}
      BY <2>1 DEF Quiescent
    <3>3. {u \in TPs : Parent[u] = t /\ tp[u] \notin {"none", "deleted"}} = {}
      BY <2>4 DEF CheckParent
    <3>4. {u \in {t} : tp[u] = "building"} = {}
      BY <2>5
    <3>5. QED
      BY <3>1, <3>2, <3>3, <3>4 DEF Holders
  <2>7. ref[t] = 0 /\ ref[t] >= 1
    <3>1. Usable(t) /\ CheckParent(t) /\ t \in TPs
      BY <2>5 DEF Usable
    <3>2. ref[t] = Cardinality(Holders(t)) /\ ref[t] >= 1
      BY <1>1, <3>1 DEF IInv, HolderInv, HolderOK, LeakInv, Referenced
    <3>3. QED
      BY <2>6, <3>2, FS_EmptySet
  <2>8. QED
    BY <2>7
<1>2. QED
  BY <1>1, LeakInvariance, PTL

-----------------------------------------------------------------------------
(* Every step of the runtime is a step of ScopedFrames or a stutter.       *)
aliveF == {t \in TPs : tp[t] \notin {"none", "deleted"}}
goneF == {t \in TPs : tp[t] = "deleted"}
pendingF == {c \in Codelets : Pending(c)}
runningF == [w \in Threads |-> IF act[w] = "fire" THEN obj[w] ELSE NoCodelet]

LEMMA InitFrames == Init => Frames!Init
BY DEF Init, Frames!Init, Pending

(* A frame that a codelet is enabled for is a frame that exists.           *)
LEMMA EnableFrames ==
  ASSUME IInv, NEW w \in Threads, NEW c \in Codelets,
         act[w] \in {"build", "fire"},
         Owner[c] \in {Frame(w)} \cup Ancestors[Frame(w)],
         ~ Pending(c), place' = [place EXCEPT ![c] = "enabled"],
         UNCHANGED <<tp, act, obj>>
  PROVE  Frames!Enable(c)
<1>1. Usable(Owner[c])
  BY FrameUsable
<1>2. Owner[c] \in aliveF /\ c \notin pendingF
  BY <1>1 DEF aliveF, pendingF, Usable
<1>3. pendingF' = pendingF \cup {c}
  <2>1. \A d \in Codelets : Pending(d)' <=> d = c \/ Pending(d)
    BY DEF IInv, TypeOK, Pending
  <2>2. QED
    BY <2>1 DEF pendingF
<1>4. aliveF' = aliveF /\ goneF' = goneF /\ runningF' = runningF
  BY DEF aliveF, goneF, runningF
<1>5. QED
  BY <1>2, <1>3, <1>4 DEF Frames!Enable, aliveF, goneF, pendingF, runningF

LEMMA AddFrames ==
  ASSUME IInv, NEW w \in Threads, NEW c \in Codelets, Add(w, c)
  PROVE  Frames!Enable(c)
BY EnableFrames DEF Add, Frame, Pending

LEMMA DecDepFrames ==
  ASSUME IInv, NEW w \in Threads, NEW c \in Codelets, DecDep(w, c)
  PROVE  Frames!Enable(c) \/ UNCHANGED Frames!vars
<1>1. CASE counter[c] = 1
  <2>1. ~ Pending(c)
    BY <1>1 DEF IInv, CounterInv
  <2>2. QED
    BY <1>1, <2>1, EnableFrames DEF DecDep
<1>2. CASE counter[c] # 1
  BY <1>2 DEF DecDep, Frames!vars, Pending
<1>3. QED
  BY <1>1, <1>2

LEMMA PushFrames ==
  ASSUME IInv, NEW w \in Threads, IncRef(w) \/ Push(w)
  PROVE  UNCHANGED Frames!vars
<1>1. \A d \in Codelets : Pending(d)' <=> Pending(d)
  BY DEF IInv, TypeOK, Pending, IncRef, Push
<1>2. UNCHANGED <<tp, act, obj>>
  BY DEF IncRef, Push
<1>3. QED
  BY <1>1, <1>2 DEF Frames!vars

LEMMA InvokeFrames ==
  ASSUME IInv, NEW w \in Threads, NEW t \in TPs, Invoke(w, t)
  PROVE  Frames!Create(t)
<1>1. Frame(w) \in TPs /\ Usable(Frame(w))
  BY FrameUsable DEF Invoke, Busy
<1>2. t \notin aliveF \cup goneF /\ Parent[t] \in aliveF
  BY <1>1 DEF aliveF, goneF, Invoke, Usable
<1>3. aliveF' = aliveF \cup {t} /\ goneF' = goneF
  BY DEF aliveF, goneF, Invoke, IInv, TypeOK
<1>4. pendingF' = pendingF /\ runningF' = runningF
  BY DEF pendingF, runningF, Pending, Invoke
<1>5. QED
  BY <1>2, <1>3, <1>4 DEF Frames!Create, aliveF, goneF, pendingF, runningF

LEMMA BuildFrames ==
  ASSUME IInv, NEW w \in Threads,
         FactoryDecRef(w) \/ ResetCodelet(w) \/ \E t \in TPs : PopTP(w, t)
  PROVE  UNCHANGED Frames!vars
<1>1. \A u \in TPs : (tp'[u] \in {"none", "deleted"} <=> tp[u] \in {"none", "deleted"})
                   /\ (tp'[u] = "deleted" <=> tp[u] = "deleted")
  BY DEF IInv, TypeOK, ActInv, FactoryDecRef, ResetCodelet, PopTP
<1>2. runningF' = runningF
  <2>1. \A v \in Threads : (act'[v] = "fire" <=> act[v] = "fire")
                       /\ (act[v] = "fire" => obj'[v] = obj[v])
    BY DEF IInv, TypeOK, FactoryDecRef, ResetCodelet, PopTP
  <2>2. QED
    BY <2>1 DEF runningF
<1>3. place' = place
  BY DEF FactoryDecRef, ResetCodelet, PopTP
<1>4. QED
  BY <1>1, <1>2, <1>3 DEF Frames!vars, runningF, Pending

LEMMA PopCodeletFrames ==
  ASSUME IInv, NEW w \in Threads, NEW c \in Codelets, PopCodelet(w, c)
  PROVE  Frames!Fire(w, c)
<1>1. runningF[w] = NoCodelet /\ c \in pendingF
  BY DEF runningF, pendingF, Pending, PopCodelet
<1>2. pendingF' = pendingF \ {c}
  BY DEF pendingF, Pending, PopCodelet, IInv, TypeOK
<1>3. runningF' = [runningF EXCEPT ![w] = c]
  BY DEF runningF, PopCodelet, IInv, TypeOK
<1>4. tp' = tp
  BY DEF PopCodelet
<1>5. QED
  BY <1>1, <1>2, <1>3, <1>4 DEF Frames!Fire, pendingF, runningF

LEMMA EndFireFrames ==
  ASSUME IInv, NEW w \in Threads, EndFire(w)
  PROVE  Frames!Finish(w)
<1>1. runningF[w] # NoCodelet
  BY DEF runningF, EndFire, IInv, TypeOK
<1>2. runningF' = [runningF EXCEPT ![w] = NoCodelet]
  BY DEF runningF, EndFire, IInv, TypeOK
<1>3. Usable(Owner[obj[w]])
  BY FrameUsable DEF EndFire, Frame
<1>4. \A u \in TPs : (tp'[u] \in {"none", "deleted"} <=> tp[u] \in {"none", "deleted"})
                   /\ (tp'[u] = "deleted" <=> tp[u] = "deleted")
  BY <1>3 DEF EndFire, IInv, TypeOK, Usable
<1>5. place' = place
  BY DEF EndFire
<1>6. QED
  BY <1>1, <1>2, <1>4, <1>5 DEF Frames!Finish, runningF, Pending

LEMMA DestroyFrames ==
  ASSUME IInv, NEW w \in Threads, Destroy(w)
  PROVE  \E t \in TPs : Frames!Reclaim(t)
<1> PICK t \in TPs : t = obj[w]
  BY DEF IInv, TypeOK, Destroy
<1> PICK p \in TPs \cup {NoTP} : p = Parent[t]
  OBVIOUS
<1>1. tp[t] = "dying" /\ ~ Usable(t) /\ Holders(t) = {}
  BY DEF IInv, ActInv, Usable, HolderInv, HolderOK, Destroy
<1>2. \A c \in Codelets : Pending(c) => Owner[c] # t
  <2> SUFFICES ASSUME NEW c \in Codelets, Pending(c), Owner[c] = t
               PROVE  FALSE
    OBVIOUS
  <2>1. place[c] = "enabled"
    BY <1>1, NoHolders DEF Pending
  <2>2. PICK v \in Threads : hand[v] = c
    BY <2>1 DEF IInv, HandInv
  <2>3. /\ act[v] \in {"build", "fire"}
        /\ Owner[c] \in {Frame(v)} \cup Ancestors[Frame(v)]
    BY <2>2 DEF IInv, HandInv
  <2>4. QED
    BY <1>1, <2>3, FrameUsable
<1>3. \A u \in TPs : Allocated(u) => Parent[u] # t
  BY <1>1, NoHolders DEF Allocated
<1>4. \A v \in Threads : act[v] = "fire" => Owner[obj[v]] # t
  BY <1>1, NoHolders
<1>5. tp[p] \notin {"none", "deleted", "dying"} \/ p = NoTP
  BY <1>1 DEF IInv, AncestorInv, Allocated, Usable
<1>6. \A u \in TPs :
        /\ tp'[u] \in {"none", "deleted"} <=> tp[u] \in {"none", "deleted"} \/ u = t
        /\ tp'[u] = "deleted" <=> tp[u] = "deleted" \/ u = t
  BY <1>5 DEF Destroy, IInv, TypeOK
<1>7. aliveF' = aliveF \ {t} /\ goneF' = goneF \cup {t} /\ t \in aliveF
  BY <1>1, <1>6 DEF aliveF, goneF
<1>8. runningF' = runningF
  BY DEF runningF, Destroy, IInv, TypeOK
<1>9. pendingF' = pendingF
  BY DEF pendingF, Pending, Destroy
<1>10. /\ \A c \in pendingF : Owner[c] # t
       /\ \A v \in Threads : runningF[v] # NoCodelet => Owner[runningF[v]] # t
       /\ \A u \in aliveF : Parent[u] # t
  BY <1>2, <1>3, <1>4 DEF pendingF, runningF, aliveF, Allocated
<1>11. QED
  BY <1>7, <1>8, <1>9, <1>10
     DEF Frames!Reclaim, aliveF, goneF, pendingF, runningF

LEMMA NextFrames == IInv /\ [Next]_vars => [Frames!Next]_(Frames!vars)
<1> SUFFICES ASSUME IInv, [Next]_vars PROVE [Frames!Next]_(Frames!vars)
  OBVIOUS
<1>1. CASE UNCHANGED vars
  BY <1>1 DEF vars, Frames!vars, Pending
<1>2. ASSUME NEW w \in Threads, NEW c \in Codelets,
             Add(w, c) \/ DecDep(w, c) \/ PopCodelet(w, c)
      PROVE  [Frames!Next]_(Frames!vars)
  BY <1>2, AddFrames, DecDepFrames, PopCodeletFrames DEF Frames!Next
<1>3. ASSUME NEW w \in Threads, NEW t \in TPs, Invoke(w, t)
      PROVE  Frames!Next
  BY <1>3, InvokeFrames DEF Frames!Next
<1>4. ASSUME NEW w \in Threads, EndFire(w) \/ Destroy(w)
      PROVE  Frames!Next
  BY <1>4, EndFireFrames, DestroyFrames DEF Frames!Next
<1>5. QED
  BY <1>1, <1>2, <1>3, <1>4, PushFrames, BuildFrames DEF Next

(* The runtime's reference counting implements the scoped frames: a frame  *)
(* disappears once, and only when nothing below or inside it is left.      *)
THEOREM Refinement == Spec => ImplementsFrames
BY InitFrames, NextFrames, Invariance, PTL DEF Spec, ImplementsFrames, Frames!Spec
=============================================================================
