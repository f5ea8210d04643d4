--------------------------- MODULE TrackedColumn ---------------------------
(***************************************************************************)
(* S2RTracked: an adaptive pool that carries its least and greatest        *)
(* element along.  The pool is in the open, as t.p: whoever changes it     *)
(* there sets the dirty flag after it.  (The field `empty` is written and  *)
(* never read.)                                                            *)
(***************************************************************************)
EXTENDS AdaptiveColumn

CONSTANT TrackedCaps   \* capacities structures are made with

VARIABLE t   \* the structure but for its pool, or Plain for a pool by itself
Plain == [umin |-> Pow(K), umax |-> 0, dirty |-> TRUE]

\* A pool by itself, or an empty structure of any class.
TrackedInit ==
  /\ Init
  /\ \/ t = Plain
     \/ \E size \in Sizes, cap \in TrackedCaps :
          /\ PoolInit(0, size, cap, TRUE).ret
          /\ pool = PoolInit(0, size, cap, TRUE).pool
          /\ t = [umin |-> Pow(K) - 1, umax |-> 0, dirty |-> FALSE]

Lower(a, b)  == IF b < a THEN b ELSE a
Higher(a, b) == IF b > a THEN b ELSE a

\* s2r_min and s2r_max read the elements as unsigned.
s2r_min(p) == CHOOSE v \in RawSet(p) : \A w \in RawSet(p) : v <= w
s2r_max(p) == CHOOSE v \in RawSet(p) : \A w \in RawSet(p) : w <= v

s2r_tracked_push(v, ok1, ok2) ==
  /\ t # Plain
  /\ Return(v, PushAdaptive(pool, v, ok1, ok2))
  /\ t' = IF res' = "OK" THEN [t EXCEPT !.umin = Lower(@, v), !.umax = Higher(@, v)] ELSE t

\* Any call on t.p itself.
Around ==
  /\ Next
  /\ t' = [t EXCEPT !.dirty = @ \/ Values(pool) # Values(pool')]

CleanAlways ==   \* mutant: the flag goes down for an empty column too
  IF Count(pool) > 0 THEN [umin |-> s2r_min(pool), umax |-> s2r_max(pool), dirty |-> FALSE]
  ELSE [t EXCEPT !.dirty = FALSE]
Rescanned ==
  IF t.dirty /\ Count(pool) > 0
  THEN [umin |-> s2r_min(pool), umax |-> s2r_max(pool), dirty |-> FALSE] ELSE t
s2r_tracked_range == t # Plain /\ t' = Rescanned /\ UNCHANGED vars

TrackedNext ==
  \/ \E v \in Args, ok1, ok2 \in BOOLEAN : s2r_tracked_push(v, ok1, ok2)
  \/ Around
  \/ s2r_tracked_range

TrackedSpec == TrackedInit /\ [][TrackedNext]_<<vars, t>>

-----------------------------------------------------------------------------
\* The range that s2r_tracked_range returns without a scan is that of the column, after
\* removals, emptyings, refused pushes and changes of class too.
RangeTrue ==
  ~t.dirty /\ ~IsSigned(pool) /\ Count(pool) > 0 =>
    t.umin = s2r_min(pool) /\ t.umax = s2r_max(pool)
=============================================================================
