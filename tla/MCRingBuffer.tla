---------------------------- MODULE MCRingBuffer ----------------------------
(* Two or four slots and counters that wrap at eight, so that the wrap     *)
(* happens with the ring empty, partly filled and full.                    *)
EXTENDS RingBuffer
CONSTANTS a, b
=============================================================================
