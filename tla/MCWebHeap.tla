----------------------------- MODULE MCWebHeap -----------------------------
(* Instances of WebHeap for TLC. *)
EXTENDS WebHeap
=============================================================================
