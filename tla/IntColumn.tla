----------------------------- MODULE IntColumn -----------------------------
(***************************************************************************)
(* What an adaptive pool promises its caller: a column of integers.  There *)
(* are no widths here: a value pushed is the value stored, a call that     *)
(* fails says so and changes nothing, and width maintenance is invisible.  *)
(***************************************************************************)
EXTENDS Integers, Sequences

CONSTANTS
  UnsignedArgs,  \* values handed to the unsigned calls
  SignedArgs     \* values handed to the signed calls

VARIABLES
  col,     \* the values, as integers
  signed,  \* whether the column takes negative values
  arg,     \* value the last call was given, 0 when it took none
  res      \* code the last call returned
vars == <<col, signed, arg, res>>

Refusals == {"INVALID", "TOO_LARGE", "TOO_SMALL"}

Init ==
  /\ col \in Seq(Int)
  /\ signed \in BOOLEAN
  /\ ~signed => \A i \in DOMAIN col : col[i] >= 0
  /\ arg = 0 /\ res = "OK"

-----------------------------------------------------------------------------
Stored(v) == res' = "OK" /\ col' = Append(col, v) /\ UNCHANGED signed
Failed(codes) == res' \in codes /\ UNCHANGED <<col, signed>>

\* An adaptive push is refused for the sign of the column and for nothing else.
PushAdaptive(v) ==
  IF signed THEN Failed({"INVALID"}) ELSE Stored(v) \/ Failed({"OOM"})
PushSignedAdaptive(v) ==
  IF signed THEN Stored(v) \/ Failed({"OOM"}) ELSE Failed({"INVALID"})

\* A checked push may also refuse a value for its size.
PushChecked(v)       == ~signed /\ (Stored(v) \/ Failed(Refusals \cup {"OOM"}))
PushSignedChecked(v) == Stored(v) \/ Failed(Refusals \cup {"OOM"})

Replace(i, v) ==
  res' = "OK" /\ col' = [col EXCEPT ![i] = v] /\ UNCHANGED signed
Remove(i) ==
  /\ res' = "OK"
  /\ col' = SubSeq([col EXCEPT ![i] = col[Len(col)]], 1, Len(col) - 1)
  /\ UNCHANGED signed
Clear == res' = "OK" /\ col' = <<>> /\ UNCHANGED signed

\* The places of d hold the values of c's, each place of c once.
Rearranges(c, d) ==
  \E f \in [DOMAIN c -> DOMAIN c] :
    /\ \A i, j \in DOMAIN c : f[i] = f[j] => i = j
    /\ \A i \in DOMAIN c : d[i] = c[f[i]]
Sort ==
  /\ res' = "OK"
  /\ DOMAIN col' = DOMAIN col
  /\ \A i, j \in DOMAIN col : i < j => col'[i] <= col'[j]
  /\ Rearranges(col, col')
  /\ UNCHANGED signed

\* Capacity and width calls: nothing the caller stored is touched.
Maintain == res' \in {"OK", "OOM"} /\ UNCHANGED <<col, signed>>

\* A column without negatives may give up its sign.
DropSign ==
  /\ signed
  /\ \A i \in DOMAIN col : col[i] >= 0
  /\ res' = "OK" /\ signed' = FALSE /\ UNCHANGED col

Next ==
  \/ \E v \in UnsignedArgs : arg' = v /\ (PushAdaptive(v) \/ PushChecked(v))
  \/ \E v \in SignedArgs : arg' = v /\ (PushSignedAdaptive(v) \/ PushSignedChecked(v))
  \/ \E i \in DOMAIN col, v \in UnsignedArgs \cup SignedArgs : arg' = v /\ Replace(i, v)
  \/ /\ arg' = 0
     /\ \/ \E i \in DOMAIN col : Remove(i)
        \/ Clear
        \/ Sort
        \/ Maintain
        \/ DropSign

Spec == Init /\ [][Next]_vars
=============================================================================
