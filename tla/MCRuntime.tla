----------------------------- MODULE MCRuntime -----------------------------
(* Two clusters with a worker each; two Runtimes one after the other,      *)
(* three programs on each.                                                 *)
EXTENDS Runtime, TLC
CONSTANTS tp0, tp1, mc0, mc1
MCHome == (mc0 :> tp0) @@ (mc1 :> tp1)
=============================================================================
