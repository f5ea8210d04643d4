------------------------------ MODULE GroupOps ------------------------------
(***************************************************************************)
(* Grouping over one pool: how often each byte occurs, and how many values *)
(* are different.                                                          *)
(***************************************************************************)
EXTENDS PoolOps, FiniteSets

CONSTANT BitmapClasses   \* the classes of 8 and 16 bits
ASSUME GroupAssumption == BitmapClasses \subseteq Classes

\* s2r_value_counts_u8, and s2r_histogram_u8, whose four partial tables add up to the
\* same: by the stored byte, so that -1 is counted in the last bin.
ByteCounts(p) ==
  [b \in 0 .. Pow(1) - 1 |-> Cardinality({i \in DOMAIN p.data : p.data[i] = b})]

\* Narrow classes by a table of the words seen (only that of 16 bits is allocated), the
\* others by the changes in a sorted copy.
Failure == [ok |-> FALSE, n |-> 0]
ByBitmap(p, ok) ==
  IF Abs(p.size) = 1 \/ ok THEN [ok |-> TRUE, n |-> Cardinality(RawSet(p))] ELSE Failure
BySorting(p, ok) ==
  LET tmp == Copy(0, p, ok)
      q   == CHOOSE s \in Sort(tmp.pool) : TRUE
  IN  IF ~tmp.ret \/ "READONLY" \in tmp.pool.flags THEN Failure   \* s2r_sort refuses it
      ELSE [ok |-> TRUE, n |-> 1 + Cardinality({i \in 2 .. Count(q) : q.data[i] # q.data[i - 1]})]
Nunique(p, ok) ==
  IF Count(p) = 0 THEN [ok |-> TRUE, n |-> 0]
  ELSE IF Abs(p.size) \in BitmapClasses THEN ByBitmap(p, ok)
  ELSE BySorting(p, ok)
=============================================================================
