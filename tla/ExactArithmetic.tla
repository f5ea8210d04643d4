-------------------------- MODULE ExactArithmetic --------------------------
(***************************************************************************)
(* What scalar arithmetic on a column promises: the column holds integers, *)
(* an addition or a product is the exact one or is refused, and a chain of *)
(* deferred operations is applied whole or not at all.  No width, no wrap. *)
(***************************************************************************)
EXTENDS Integers, Sequences

CONSTANTS
  MaxOps,          \* operations a chain can hold
  Largest(_),      \* Largest(signed), Least(signed): the ends of the widest class
  Least(_),
  Short(_)         \* there is never memory for so many values

VARIABLES
  col,     \* the values
  signed,  \* whether the column takes negative values
  chain,   \* the deferred chain: who it is for, the range it started from, its operations
  call,    \* the last call: its name, its argument, whether memory was to be had
  ret      \* whether it said it succeeded
vars == <<col, signed, chain, call, ret>>

Image(o, v) == IF o.op = "add" THEN v + o.arg ELSE v * o.arg
Through(ops, v) ==
  LET f[i \in 0 .. Len(ops)] == IF i = 0 THEN v ELSE Image(ops[i], f[i - 1])
  IN  f[Len(ops)]

Representable(s, v) == Least(s) <= v /\ v <= Largest(s)

\* The end points of the values a chain started from; 0 stands in for an empty column.
Ends(c) ==
  IF c = <<>> THEN {0}
  ELSE {v \in {c[i] : i \in DOMAIN c} :
          (\A i \in DOMAIN c : v <= c[i]) \/ (\A i \in DOMAIN c : c[i] <= v)}
Within(ends, v) == \E a, b \in ends : a <= v /\ v <= b

-----------------------------------------------------------------------------
Called(name, arg, ok) == call' = [name |-> name, arg |-> arg, ok |-> ok]
Nothing == UNCHANGED <<col, signed, chain>>

\* One operation at once: exact, or refused because an element of the result is
\* not representable, memory is short, or the column is of the other kind.
Safe(s, o, ok) ==
  LET exact == [i \in DOMAIN col |-> Image(o, col[i])]
      fits  == \A i \in DOMAIN col : Representable(s, exact[i])
  IN  /\ Called("safe", o, ok)
      /\ UNCHANGED <<signed, chain>>
      /\ \/ ret' /\ s = signed /\ fits /\ col' = exact
         \/ ~ret' /\ (s # signed \/ ~fits \/ ~ok \/ Short(Len(col))) /\ UNCHANGED col

Begin(s) ==
  /\ Called("begin", s, TRUE)
  /\ chain' = [signed |-> s, ends |-> Ends(col), ops |-> <<>>, lost |-> FALSE]
  /\ UNCHANGED <<col, signed>>

\* A chain is lost when it is full or an end of its range leaves the widest class.
Defer(o) ==
  LET longer == Append(chain.ops, o)
      full   == Len(chain.ops) = MaxOps
      holds  == \A v \in chain.ends : Representable(chain.signed, Through(longer, v))
  IN  /\ Called("defer", o, TRUE)
      /\ chain' = IF full \/ ~holds THEN [chain EXCEPT !.lost = TRUE]
                  ELSE [chain EXCEPT !.ops = longer]
      /\ UNCHANGED <<col, signed>>

\* The whole chain on every element, exactly on those that lie in the range the
\* chain started from; or nothing.  An element that came into the column from outside
\* that range after the chain was begun is promised nothing.
Commit(ok) ==
  /\ Called("commit", 0, ok)
  /\ UNCHANGED <<signed, chain>>
  /\ \/ /\ ret' /\ ~chain.lost /\ DOMAIN col' = DOMAIN col
        /\ \A i \in DOMAIN col :
             Within(chain.ends, col[i]) => col'[i] = Through(chain.ops, col[i])
     \/ ~ret' /\ (chain.lost \/ chain.signed # signed \/ ~ok \/ Short(Len(col))) /\ UNCHANGED col

\* Any other call on the column leaves the chain alone.
Other == call'.name = "other" /\ UNCHANGED chain

Next ==
  \/ Other
  \/ \E s \in BOOLEAN : Begin(s)
  \/ \E s \in BOOLEAN, ok \in BOOLEAN : Safe(s, call'.arg, ok)
  \/ Defer(call'.arg)
  \/ \E ok \in BOOLEAN : Commit(ok)

Init == chain = [signed |-> signed, ends |-> Ends(col), ops |-> <<>>, lost |-> FALSE]
Spec == Init /\ [][Next]_vars
=============================================================================
