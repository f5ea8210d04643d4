----------------------------- MODULE AskedSizes -----------------------------
(***************************************************************************)
(* A Pool whose callers ask for no capacity, and no array, within one      *)
(* alignment unit of SIZE_MAX.  s2r_align_up wraps there and s2r_pool_init *)
(* and s2r_reserve succeed with an empty block (run claim_align), so this  *)
(* is what the theorems about a pool rest on.                              *)
(***************************************************************************)
EXTENDS Pool

ASSUME AskedAssumption ==
  /\ \A cap \in CapArgs : Askable(cap)
  /\ \A arr \in Arrays : Askable(Len(arr))
=============================================================================
