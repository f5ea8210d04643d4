------------------------------ MODULE IndexOps ------------------------------
(***************************************************************************)
(* The cumulative index S2RIndex over a pool, as operators: how it is      *)
(* built, when it answers and what.  It is a copy of what was true when it *)
(* was built; it decides whether it still speaks for the pool by comparing *)
(* epoch and class.                                                        *)
(***************************************************************************)
EXTENDS PoolOps, FiniteSets

CONSTANT IndexClasses   \* classes narrow enough to be indexed: 8 and 16 bits
ASSUME IndexAssumption == IndexClasses \subseteq Classes

NoIndex == [cum |-> <<>>, epoch |-> 0, size |-> 0, base |-> 0, nbins |-> 0]
Indexable(p) == Abs(p.size) \in IndexClasses

-----------------------------------------------------------------------------
\* cum[v] is the number of elements whose bin is below v.
Bin(p, base, i) == (IF IsSigned(p) THEN AsSigned(Abs(p.size), p.data[i]) ELSE p.data[i]) - base
Table(p, base, nbins) ==
  [v \in 0 .. nbins |-> Cardinality({i \in DOMAIN p.data : Bin(p, base, i) < v})]

Built(p) ==
  LET base  == IF IsSigned(p) THEN MinSigned(p.size) ELSE 0
      nbins == Pow(Abs(p.size))
  IN  [cum |-> Table(p, base, nbins), epoch |-> p.epoch, size |-> p.size, base |-> base, nbins |-> nbins]

ValidByClass(ix, p) == ix # NoIndex /\ ix.size = p.size   \* mutant: epoch not compared
Valid(ix, p) == ix # NoIndex /\ ix.epoch = p.epoch /\ ix.size = p.size

\* A query answers [ok |-> TRUE, n |-> count] or refuses with ok = FALSE.
Answer(n) == [ok |-> TRUE, n |-> n]
Refusal   == [ok |-> FALSE, n |-> 0]
Top(ix)   == ix.base + ix.nbins - 1

CountRange(ix, p, lo, hi) ==
  LET a == IF lo < ix.base THEN ix.base ELSE lo
      b == IF hi > Top(ix) THEN Top(ix) ELSE hi
  IN  IF ~Valid(ix, p) \/ lo > hi THEN Refusal
      ELSE IF hi < ix.base \/ lo > Top(ix) THEN Answer(0)
      ELSE Answer(ix.cum[b - ix.base + 1] - ix.cum[a - ix.base])

CountGt(ix, p, thr) ==
  IF ~Valid(ix, p) THEN Refusal
  ELSE IF thr >= Top(ix) THEN Answer(0)
  ELSE CountRange(ix, p, thr + 1, Top(ix))

CountLt(ix, p, thr) ==
  IF ~Valid(ix, p) THEN Refusal
  ELSE IF thr <= ix.base THEN Answer(0)
  ELSE CountRange(ix, p, ix.base, thr - 1)
=============================================================================
