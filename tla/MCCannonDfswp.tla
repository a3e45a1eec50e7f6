--------------------------- MODULE MCCannonDfswp ---------------------------
(* Two by two tiles in every interleaving of the workers; three by three,  *)
(* where a step to the left is not one to the right, in those in which the *)
(* workers take turns: one at a time is in the middle of a codelet, and    *)
(* the workers keep to the order of the tiles.                             *)
EXTENDS CannonDfswp

Busy == {w \in Worker : run[w] # None /\ at[run[w]] # "test"}
Before(t, u) == t[1] * S + t[2] < u[1] * S + u[2]
Touched(k, t) == at[<<k, t>>] \notin {"wait", "ready"}

Turns == S = 3 =>
  /\ Cardinality(Busy) <= 1
  /\ \A t, u \in Tile : Before(t, u) =>
       /\ Touched("copyA", u) \/ Touched("copyB", u) => at[<<"skew", t>>] = "done"
       /\ Touched("copyC", u) => at[<<"copyC", t>>] = "done"
       /\ iter[u] <= iter[t]
  /\ \A t, u \in Tile : Touched("copyC", t) => at[<<"compute", u>>] = "done"
=============================================================================
