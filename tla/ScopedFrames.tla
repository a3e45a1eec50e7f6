---------------------------- MODULE ScopedFrames ----------------------------
(***************************************************************************)
(* What the runtime promises about the frames of threaded procedures,      *)
(* without reference counts: a frame is created below a frame that exists, *)
(* it exists as long as a codelet of it is pending or runs or a frame      *)
(* below it exists, and it disappears once.                                *)
(***************************************************************************)
CONSTANTS TPs, Codelets, Threads, NoTP, NoCodelet, Parent, Owner

VARIABLES
  alive,    \* frames that exist
  gone,     \* frames that existed
  pending,  \* codelets that are enabled and not fired yet
  running   \* the codelet each thread is firing, or NoCodelet

vars == <<alive, gone, pending, running>>

Init ==
  /\ alive = {t \in TPs : Parent[t] = NoTP}
  /\ gone = {}
  /\ pending = {}
  /\ running = [w \in Threads |-> NoCodelet]

Create(t) ==
  /\ t \notin alive \cup gone
  /\ Parent[t] \in alive
  /\ alive' = alive \cup {t}
  /\ UNCHANGED <<gone, pending, running>>

Enable(c) ==
  /\ Owner[c] \in alive
  /\ c \notin pending
  /\ pending' = pending \cup {c}
  /\ UNCHANGED <<alive, gone, running>>

Fire(w, c) ==
  /\ running[w] = NoCodelet
  /\ c \in pending
  /\ pending' = pending \ {c}
  /\ running' = [running EXCEPT ![w] = c]
  /\ UNCHANGED <<alive, gone>>

Finish(w) ==
  /\ running[w] # NoCodelet
  /\ running' = [running EXCEPT ![w] = NoCodelet]
  /\ UNCHANGED <<alive, gone, pending>>

Reclaim(t) ==
  /\ t \in alive
  /\ \A c \in pending : Owner[c] # t
  /\ \A w \in Threads : running[w] # NoCodelet => Owner[running[w]] # t
  /\ \A u \in alive : Parent[u] # t
  /\ alive' = alive \ {t}
  /\ gone' = gone \cup {t}
  /\ UNCHANGED <<pending, running>>

Next ==
  \/ \E t \in TPs : Create(t) \/ Reclaim(t)
  \/ \E c \in Codelets : Enable(c)
  \/ \E w \in Threads, c \in Codelets : Fire(w, c)
  \/ \E w \in Threads : Finish(w)

Spec == Init /\ [][Next]_vars
=============================================================================
