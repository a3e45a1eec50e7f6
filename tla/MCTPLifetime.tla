---------------------------- MODULE MCTPLifetime ----------------------------
(* A launched TP, a child of it and two grandchildren; three threads of    *)
(* which two also build TPs.  The child has a ready codelet and a cyclic   *)
(* one that waits for two signals at first and for one after each reset,   *)
(* the first grandchild a codelet that signals it, and the second has no   *)
(* codelet at all, so that TPFactory deletes it.                           *)
EXTENDS TPLifetime, TLC

CONSTANTS
  root, kid, sub, twin,                   \* TPs
  rootStart, kidSync, subStart, kidStart, \* codelets
  tp1, tp2, mc1                           \* threads

MCTPs == {root, kid, sub, twin}
MCParent == (root :> NoTP) @@ (kid :> root) @@ (sub :> kid) @@ (twin :> kid)
MCAncestors ==
  (root :> {}) @@ (kid :> {root}) @@ (sub :> {kid, root}) @@ (twin :> {kid, root})

MCThreads == {tp1, tp2, mc1}
MCTPThreads == {tp1, tp2}

MCCodelets == {rootStart, kidSync, subStart, kidStart}
MCOwner == (rootStart :> root) @@ (kidSync :> kid)
             @@ (subStart :> sub) @@ (kidStart :> kid)
MCDep == (rootStart :> 0) @@ (kidSync :> 2)
           @@ (subStart :> 0) @@ (kidStart :> 0)
MCRes == (rootStart :> 0) @@ (kidSync :> 1)
           @@ (subStart :> 0) @@ (kidStart :> 0)

Symmetry == Permutations({tp1, tp2})
=============================================================================
