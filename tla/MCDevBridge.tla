----------------------------- MODULE MCDevBridge -----------------------------
(* Three clients, any of which may send garbage, a queue of two and a Tick of    *)
(* two: a request expires while it is queued, popped, in hand or running, the    *)
(* queue is full with two such requests when the next one arrives, one Tick pops *)
(* both, and Stop comes at any of these moments.                                 *)
EXTENDS DevBridge

CONSTANTS a, b, d
MCClient == {a, b, d}
=============================================================================
