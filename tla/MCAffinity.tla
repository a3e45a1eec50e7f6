----------------------------- MODULE MCAffinity -----------------------------
(* Every request of up to four TPs with up to four workers each, on every  *)
(* machine of up to four clusters of up to five units: TPs smaller than a  *)
(* cluster, as large, larger, and too many.                                *)
EXTENDS Affinity
SmallRequests == Modes \X (1 .. 4) \X (1 .. 5) \X (0 .. 4) \X (0 .. 4)
=============================================================================
