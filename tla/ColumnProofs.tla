---------------------------- MODULE ColumnProofs ----------------------------
(***************************************************************************)
(* Theorems about the adaptive column and the tracked pool for every       *)
(* number and width of classes and every set of arguments: the adaptive    *)
(* interface implements IntColumn, healing finds the smallest class, and   *)
(* the range a tracked pool answers without a scan is that of the column.  *)
(***************************************************************************)
EXTENDS TrackedColumn, PoolFacts

-----------------------------------------------------------------------------
(* Edits.                                                                   *)

\* A value that the class represents is the one stored.
LEMMA SetColumn ==
  ASSUME NEW p, Clean(p), ~IsSigned(p), NEW i \in DOMAIN p.data, NEW v \in Word, v <= MaxValue(p.size)
  PROVE  Clean(Set(p, i, v)) /\ Replaces(p, Set(p, i, v), i, v)
  <1>1. Honest(p) /\ InUse(p) /\ v \in Int
    BY CleanFacts, Conversions
  <1>2. Holds(p.size, v)
    <2>1. Takes(p, v) /\ Meaning(p, v) = v
      BY DEF Takes, Meaning
    <2> QED
      BY <1>1, <2>1, TakesHolds
  <1> DEFINE q == Set(p, i, v)
  <1>3. InUse(q) /\ Dropped(p, q, 1) /\ q.data = [p.data EXCEPT ![i] = Raw(Abs(p.size), v)]
    BY <1>1, SetInUse, SetEffect
  <1> HIDE DEF q
  <1>4. Clean(q) /\ q.size = p.size
    BY <1>3, DroppedColumn
  <1> QED
    BY <1>1, <1>2, <1>3, <1>4, StoredColumn DEF q

LEMMA SetSignedColumn ==
  ASSUME NEW p, Clean(p), IsSigned(p), NEW i \in DOMAIN p.data, NEW v \in Int64,
         v \in MinSigned(p.size) .. MaxSigned(p.size)
  PROVE  Clean(SetSigned(p, i, v)) /\ Replaces(p, SetSigned(p, i, v), i, v)
  <1>1. /\ Honest(p) /\ InUse(p) /\ v \in Int /\ U64(v) \in Word /\ I64(U64(v)) = v
        /\ MinSigned(p.size) \in Int /\ MaxSigned(p.size) \in Int
    BY CleanFacts, SignedWord, SignedLimits
  <1>2. Holds(p.size, v)
    <2>1. Takes(p, U64(v)) /\ Meaning(p, U64(v)) = v
      BY <1>1 DEF Takes, Meaning, InRange
    <2> QED
      BY <1>1, <2>1, TakesHolds
  <1> DEFINE q == SetSigned(p, i, v)
  <1>3. InUse(q) /\ (\E k \in 1 .. 2 : Dropped(p, q, k))
        /\ q.data = [p.data EXCEPT ![i] = Raw(Abs(p.size), v)]
    BY <1>1, SetSignedInUse, SetSignedEffect
  <1> HIDE DEF q
  <1>4. PICK k \in 1 .. 2 : Dropped(p, q, k)
    BY <1>3
  <1>5. Clean(q) /\ q.size = p.size
    BY <1>3, <1>4, DroppedColumn
  <1>6. v \in Int /\ q.data = [p.data EXCEPT ![i] = Raw(Abs(p.size), v)]
    BY <1>1, <1>3
  <1>7. Replaces(p, q, i, v)
    BY <1>2, <1>5, <1>6, StoredColumn
  <1> QED
    BY <1>5, <1>7 DEF q

LEMMA ClearedColumn ==
  ASSUME NEW p, Clean(p)
  PROVE  Clean(Clear(p)) /\ Values(Clear(p)) = <<>> /\ IsSigned(Clear(p)) = IsSigned(p)
  <1> DEFINE q == Clear(p)
  <1>1. Honest(p) /\ InUse(p)
    BY CleanFacts
  <1>2. InUse(q) /\ Dropped(p, q, 1) /\ q.data = <<>>
    BY <1>1, ClearInUse, ClearEffect
  <1> HIDE DEF q
  <1>3. Clean(q)
    BY <1>1, <1>2, DroppedOnward DEF Clean, Onward, Dropped
  <1>4. IsSigned(q) = IsSigned(p)
    BY <1>2, <1>3, CleanFacts DEF Dropped
  <1>5. Values(q) = <<>>
    BY <1>2 DEF Values
  <1> QED
    BY <1>3, <1>4, <1>5 DEF q

\* Sorting keeps every value as often as it was there.
LEMMA SortedColumn ==
  ASSUME NEW p, Clean(p), NEW q \in Sort(p)
  PROVE  /\ Clean(q) /\ IsSigned(q) = IsSigned(p)
         /\ DOMAIN Values(q) = DOMAIN Values(p)
         /\ Column!Rearranges(Values(p), Values(q))
         /\ \A i, j \in DOMAIN Values(p) : i < j => Values(q)[i] <= Values(q)[j]
  <1> DEFINE n == Count(p)
  <1>1. /\ Honest(p) /\ InUse(p) /\ "READONLY" \notin p.flags
        /\ n \in Nat /\ DOMAIN p.data = 1 .. n /\ DOMAIN Values(p) = 1 .. n /\ Len(Values(p)) = n
    BY CleanFacts
  <1>2. Honest(q)
    BY <1>1, SortOnward DEF Onward
  <1>3. CASE q = p /\ n < 2
    <2>1. Column!Rearranges(Values(p), Values(p))
      <3> DEFINE f == [i \in 1 .. n |-> i]
      <3>1. f \in [1 .. n -> 1 .. n] /\ \A i \in 1 .. n : f[i] = i
        OBVIOUS
      <3> HIDE DEF f
      <3> QED
        BY <1>1, <3>1 DEF Column!Rearranges
    <2> QED
      BY <1>1, <1>3, <2>1
  <1>4. CASE /\ q.size = p.size /\ q.flags = p.flags \cup {"SORTED"} /\ InOrder(q)
             /\ \E f \in Rearrangements(n) : q.data = [i \in 1 .. n |-> p.data[f[i]]]
    <2>1. PICK f \in Rearrangements(n) : q.data = [i \in 1 .. n |-> p.data[f[i]]]
      BY <1>4
    <2>2. f \in [1 .. n -> 1 .. n]
      BY DEF Rearrangements
    <2>3. Clean(q)
      BY <1>2, <1>4 DEF Clean
    <2>4. IsSigned(q) = IsSigned(p)
      BY <1>4, <2>3, CleanFacts
    <2>5. DOMAIN q.data = 1 .. n /\ \A i \in 1 .. n : q.data[i] = p.data[f[i]]
      BY <2>1
    <2>6. \A i \in 1 .. n : Value(q, i) = Value(p, f[i])
      BY <1>4, <2>4, <2>5 DEF Value, Get, GetSigned
    <2>7. DOMAIN Values(q) = 1 .. n /\ \A i \in 1 .. n : Values(q)[i] = Values(p)[f[i]]
      BY <1>1, <2>2, <2>5, <2>6 DEF Values
    <2>8. \A i, j \in 1 .. n : f[i] = f[j] => i = j
      BY DEF Rearrangements
    <2>9. Column!Rearranges(Values(p), Values(q))
      BY <1>1, <2>2, <2>7, <2>8 DEF Column!Rearranges
    <2>10. \A i, j \in 1 .. n : i < j => Values(q)[i] <= Values(q)[j]
      BY <1>4, <2>5 DEF InOrder, Values
    <2> HIDE DEF n
    <2> QED
      BY <1>1, <2>3, <2>4, <2>7, <2>9, <2>10
  <1> QED
    BY <1>1, <1>3, <1>4, SortEffect

-----------------------------------------------------------------------------
(* Capacity and class.                                                      *)

\* A call that leaves the column alone and says whether it succeeded.
Kept(p, r) == Clean(r.pool) /\ SameColumn(p, r.pool) /\ r.ret \in {"OK", "OOM"}

LEMMA CodedFields ==
  ASSUME NEW p, NEW b, NEW r, r = Coded(Result(p, b))
  PROVE  r.pool = p /\ r.ret = IF b THEN "OK" ELSE "OOM"
  BY DEF Coded, Result

LEMMA RegrownColumn ==
  ASSUME NEW p, Clean(p), NEW q, InUse(q), Regrown(p, q)
  PROVE  Clean(q) /\ SameColumn(p, q)
  <1>1. Honest(p) /\ "READONLY" \notin p.flags /\ "EXTERNAL" \notin p.flags
    BY CleanFacts
  <1>2. Honest(q)
    BY <1>1, RegrownOnward DEF Onward
  <1>3. q.flags = p.flags /\ SameElements(p, q)
    BY <1>1 DEF Regrown
  <1>4. IsSigned(q) = IsSigned(p)
    BY <1>3 DEF IsSigned, SameElements
  <1> QED
    BY <1>2, <1>3, <1>4, SameReading DEF Clean, SameColumn

LEMMA ReserveColumn ==
  ASSUME NEW p, Clean(p), NEW cap \in Nat, Askable(cap), NEW ok \in BOOLEAN
  PROVE  Kept(p, Coded(Reserve(p, cap, ok)))
  <1> DEFINE s == Reserve(p, cap, ok)
  <1>1. InUse(p)
    BY CleanFacts
  <1>2. InUse(s.pool) /\ (s.pool = p \/ Regrown(p, s.pool))
    BY <1>1, ReserveInUse, ReserveEffect
  <1>3. s = Result(s.pool, s.ret)
    BY DEF Reserve, Result
  <1> HIDE DEF s
  <1>4. Clean(s.pool) /\ SameColumn(p, s.pool)
    BY <1>2, RegrownColumn DEF SameColumn
  <1> QED
    BY <1>3, <1>4, CodedFields DEF Kept, s

LEMMA ShrinkColumn ==
  ASSUME NEW p, Clean(p), NEW ok \in BOOLEAN
  PROVE  Kept(p, Coded(ShrinkToFit(p, ok)))
  <1> DEFINE s == ShrinkToFit(p, ok)
  <1>1. InUse(p)
    BY CleanFacts
  <1>2. InUse(s.pool) /\ (s.pool = p \/ Regrown(p, s.pool))
    BY <1>1, ShrinkInUse, ShrinkEffect
  <1>3. s = Result(s.pool, s.ret)
    BY DEF ShrinkToFit, Result
  <1> HIDE DEF s
  <1>4. Clean(s.pool) /\ SameColumn(p, s.pool)
    BY <1>2, RegrownColumn DEF SameColumn
  <1> QED
    BY <1>3, <1>4, CodedFields DEF Kept, s

LEMMA PromotedColumn ==
  ASSUME NEW p, Clean(p), NEW size \in Sizes, NEW ok \in BOOLEAN
  PROVE  Kept(p, Coded(Promote(p, size, ok)))
  <1> DEFINE s == Promote(p, size, ok)
  <1>1. Clean(s.pool) /\ SameColumn(p, s.pool)
    BY PromoteColumn
  <1>2. s = Result(s.pool, s.ret)
    BY DEF Promote, Result
  <1> HIDE DEF s
  <1> QED
    BY <1>1, <1>2, CodedFields DEF Kept, s

Fitting(p, c) == IF IsSigned(p) THEN SFits(c, ValueSet(p)) ELSE UFits(c, RawSet(p))

LEMMA TargetLeast ==
  ASSUME NEW p, InUse(p), NEW c \in Classes, Fitting(p, c)
  PROVE  Abs(Target(p)) <= c
  <1>1. Target(p) \in Sizes /\ IsSigned(p) = (Target(p) < 0) /\ IsSigned(p) \in BOOLEAN
    BY TargetHolds DEF IsSigned
  <1>2. CASE IsSigned(p)
    <2>1. -Target(p) <= c /\ Target(p) < 0
      BY <1>1, <1>2, ClassifySignedLeast DEF Target, Fitting
    <2> QED
      BY <2>1 DEF Abs
  <1>3. CASE ~IsSigned(p)
    <2>1. Target(p) <= c /\ ~(Target(p) < 0)
      BY <1>1, <1>3, ClassifyLeast DEF Target, Fitting
    <2> QED
      BY <2>1 DEF Abs
  <1> QED
    BY <1>1, <1>2, <1>3

\* Equal columns fit the same classes.
LEMMA SameFitting ==
  ASSUME NEW p, NEW q, SameColumn(p, q), NEW c
  PROVE  Fitting(q, c) <=> Fitting(p, c)
  <1>1. DOMAIN q.data = DOMAIN p.data /\ \A i \in DOMAIN p.data : Value(q, i) = Value(p, i)
    BY SameValues DEF SameColumn
  <1>2. ValueSet(q) = ValueSet(p)
    BY <1>1 DEF ValueSet
  <1>3. ~IsSigned(p) => RawSet(q) = RawSet(p)
    BY <1>1 DEF RawSet, Value, Get, SameColumn
  <1> QED
    BY <1>2, <1>3 DEF Fitting, SameColumn

\* What a fit of the class answers.
LEMMA FitClassColumn ==
  ASSUME NEW p, Clean(p), NEW ok \in BOOLEAN, NEW r, r = Coded(FitClass(p, ok))
  PROVE  /\ Kept(p, r)
         /\ r.ret = "OK" /\ Count(p) > 0 => Smallest(r.pool)
  <1> DEFINE s == FitClass(p, ok)
             u == Reclass(p, Target(p), ok)
  <1>1. Honest(p) /\ InUse(p) /\ "EXTERNAL" \notin p.flags /\ Count(p) \in Nat /\ p.size \in Sizes
    BY CleanFacts
  <1>2. Honest(s.pool) /\ Fitted(p, s.pool) /\ (s.pool = p \/ IsSigned(p) = (s.pool.size < 0))
    BY <1>1, FitClassInUse, FitClassEffect, FittedOnward DEF Onward
  <1>3. s = Result(s.pool, s.ret)
    BY DEF FitClass, Reclass, Result
  <1>4. \/ s = Result(p, TRUE) /\ (Count(p) = 0 \/ Abs(Target(p)) >= Abs(p.size))
        \/ s = u /\ Count(p) # 0
    BY DEF FitClass, Target
  <1>5. Count(p) # 0 => \/ u.pool = p /\ ~u.ret
                        \/ u.ret /\ u.pool.size = Target(p)
    <2> HIDE DEF u
    <2>1. ASSUME Count(p) # 0
          PROVE  \/ u.pool = p /\ ~u.ret
                 \/ /\ u.ret /\ Refitted(p, u.pool) /\ u.pool.size = Target(p)
                    /\ u.pool.flags = Resigned(p.flags, Target(p))
      BY <1>1, <2>1, TargetHolds, ReclassEffect DEF u
    <2> QED
      BY <2>1
  <1> HIDE DEF s, u
  <1>6. Clean(s.pool) /\ SameColumn(p, s.pool)
    <2>1. CASE s.pool = p
      BY <2>1 DEF SameColumn
    <2>2. CASE /\ Refitted(p, s.pool) /\ s.pool.flags = Resigned(p.flags, s.pool.size)
               /\ IsSigned(p) = (s.pool.size < 0)
      <3>1. s.pool.flags \subseteq {"SIGNED", "SORTED"}
        BY <2>2 DEF Resigned, SignFlag, Clean
      <3>2. IsSigned(s.pool) = IsSigned(p)
        <4>1. Clean(s.pool)
          BY <1>2, <3>1 DEF Clean
        <4> QED
          BY <2>2, <4>1, CleanFacts
      <3> QED
        BY <1>2, <2>2, <3>1, <3>2, RefittedColumn
    <2> QED
      BY <1>2, <2>1, <2>2 DEF Fitted
  <1>7. r.pool = s.pool /\ r.ret = IF s.ret THEN "OK" ELSE "OOM"
    BY <1>3, CodedFields DEF s
  <1>8. ASSUME s.ret, Count(p) > 0  PROVE Abs(s.pool.size) <= Abs(Target(p))
    <2>1. Target(p) \in Int /\ Abs(Target(p)) \in Int /\ Abs(p.size) \in Int
      BY <1>1, TargetHolds DEF Sizes, Abs
    <2>2. CASE s = Result(p, TRUE) /\ Abs(Target(p)) >= Abs(p.size)
      BY <2>1, <2>2 DEF Result
    <2>3. CASE s = u
      BY <1>1, <1>5, <1>8, <2>1, <2>3
    <2>4. Count(p) # 0
      BY <1>1, <1>8
    <2> QED
      BY <1>4, <2>2, <2>3, <2>4
  <1>9. ASSUME s.ret, Count(p) > 0  PROVE Smallest(s.pool)
    <2>1. ASSUME NEW c \in Classes, Fitting(s.pool, c)
          PROVE  Abs(s.pool.size) <= c
      <3>1. Abs(Target(p)) <= c
        BY <1>1, <1>6, <2>1, SameFitting, TargetLeast
      <3>2. Abs(Target(p)) \in Int /\ Abs(s.pool.size) \in Int /\ c \in Int
        <4>1. Target(p) \in Sizes /\ s.pool.size \in Sizes
          BY <1>1, <1>6, TargetHolds, CleanFacts
        <4> QED
          BY <4>1 DEF Sizes, Abs, Classes
      <3> QED
        BY <1>8, <1>9, <3>1, <3>2
    <2> QED
      BY <2>1 DEF Smallest, Fitting
  <1> QED
    BY <1>6, <1>7, <1>9 DEF Kept

\* Fitting across signedness may make a column without negatives unsigned.
LEMMA FitClassSignednessColumn ==
  ASSUME NEW p, Clean(p), NEW ok \in BOOLEAN, NEW r, r = Coded(FitClassSignedness(p, ok))
  PROVE  \/ Kept(p, r)
         \/ /\ Clean(r.pool) /\ Values(r.pool) = Values(p) /\ r.ret = "OK"
            /\ IsSigned(p) /\ ~IsSigned(r.pool)
            /\ \A i \in DOMAIN p.data : Value(p, i) >= 0
  <1> DEFINE s == FitClassSignedness(p, ok)
             c == Classify(ValueSet(p))
             u == Reclass(p, c, ok)
  <1>1. /\ Honest(p) /\ InUse(p) /\ "EXTERNAL" \notin p.flags /\ Count(p) \in Nat /\ p.size \in Sizes
        /\ IsSigned(p) = (p.size < 0) /\ IsSigned(p) \in BOOLEAN
    BY CleanFacts
  <1>2. /\ Honest(s.pool) /\ Fitted(p, s.pool)
        /\ \/ s.pool = p
           \/ IsSigned(p) = (s.pool.size < 0)
           \/ IsSigned(p) /\ \A i \in DOMAIN p.data : Value(p, i) >= 0
    BY <1>1, FitClassSignednessInUse, FitClassSignednessEffect, FittedOnward DEF Onward
  <1>3. s = Result(s.pool, s.ret)
    BY DEF FitClassSignedness, FitClass, Reclass, Result
  <1>4. \/ s = Result(p, TRUE)
        \/ s = FitClass(p, ok)
        \/ s = u /\ Count(p) # 0
    BY DEF FitClassSignedness
  <1>5. Count(p) # 0 /\ ~u.ret => u.pool = p
    BY DEF Reclass, Result
  <1>6. ASSUME ~s.ret  PROVE s.pool = p
    <2>1. CASE s = FitClass(p, ok)
      BY <1>6, <2>1 DEF FitClass, Reclass, Result
    <2> HIDE DEF s, u
    <2> QED
      BY <1>4, <1>5, <1>6, <2>1 DEF Result
  <1> HIDE DEF s, u, c
  <1>7. r.pool = s.pool /\ r.ret = IF s.ret THEN "OK" ELSE "OOM"
    BY <1>3, CodedFields DEF s
  <1>8. CASE s.pool = p
    BY <1>7, <1>8 DEF Kept, SameColumn
  <1>9. CASE s.pool # p
    <2>1. /\ Refitted(p, s.pool) /\ s.pool.flags = Resigned(p.flags, s.pool.size)
          /\ r.ret = "OK"
      BY <1>2, <1>6, <1>7, <1>9 DEF Fitted
    <2>2. Clean(s.pool)
      BY <1>2, <2>1 DEF Resigned, SignFlag, Clean
    <2>3. IsSigned(s.pool) = (s.pool.size < 0) /\ IsSigned(s.pool) \in BOOLEAN
      BY <2>2, CleanFacts
    <2>4. Values(s.pool) = Values(p)
      BY <2>1 DEF Refitted
    <2>5. CASE IsSigned(p) = IsSigned(s.pool)
      BY <1>7, <2>1, <2>2, <2>4, <2>5 DEF Kept, SameColumn
    <2>6. CASE IsSigned(p) # IsSigned(s.pool)
      <3>1. IsSigned(p) /\ \A i \in DOMAIN p.data : Value(p, i) >= 0
        BY <1>2, <1>9, <2>3, <2>6
      <3>2. ~IsSigned(s.pool)
        BY <2>3, <2>6, <3>1
      <3> QED
        BY <1>7, <2>1, <2>2, <2>4, <3>1, <3>2
    <2> QED
      BY <2>5, <2>6
  <1> QED
    BY <1>8, <1>9

-----------------------------------------------------------------------------
(* The column implements IntColumn.                                         *)

LEMMA SignedArguments ==
  ASSUME NEW v \in SignedArgs
  PROVE  v \in Int64
  BY ColumnAssumption, Conversions DEF SignedArgs

LEMMA Arguments ==
  ASSUME NEW v \in Args
  PROVE  v \in Word
  BY ColumnAssumption

LEMMA SignedReadings ==
  ASSUME NEW arr \in Seq(Word)
  PROVE  /\ [i \in DOMAIN arr |-> I64(arr[i])] \in Seq(Int64)
         /\ Len([i \in DOMAIN arr |-> I64(arr[i])]) = Len(arr)
  <1>1. \A i \in 1 .. Len(arr) : arr[i] \in Word
    OBVIOUS
  <1>2. \A i \in 1 .. Len(arr) : I64(arr[i]) \in Int64
    BY <1>1, Conversions
  <1> QED
    BY <1>2

\* What the calls of Init create.
LEMMA CreatedClean ==
  ASSUME NEW ok \in BOOLEAN, NEW r \in Created(ok), r.ret
  PROVE  Clean(r.pool)
  <1>f. ASSUME NEW size \in Sizes, NEW q, Fresh(0, size, q), Honest(q)
        PROVE  Clean(q)
    BY <1>f DEF Fresh, Clean, SignFlag
  <1>2. CASE \E size \in Sizes, cap \in CapArgs : r = PoolInit(0, size, cap, ok)
    <2>1. PICK size \in Sizes, cap \in CapArgs : r = PoolInit(0, size, cap, ok)
      BY <1>2
    <2>2. cap \in Nat /\ Aligns(cap * Bytes(size))
      BY ColumnAssumption, AskedAssumption, AskableAligns
    <2> DEFINE s == PoolInit(0, size, cap, ok)
    <2>3. InUse(r.pool) /\ Fresh(0, size, r.pool)
      <3>1. 0 \in Int /\ r = s
        BY <2>1
      <3>2. Fresh(0, size, s.pool)
        BY <2>2, <3>1, PoolInitEffect
      <3>3. s.ret => InUse(s.pool)
        BY <2>2, <3>1, PoolInitInUse
      <3> HIDE DEF s
      <3> QED
        BY <3>1, <3>2, <3>3
    <2>4. Honest(r.pool)
      BY <2>3, FreshHonest
    <2> QED
      BY <1>f, <2>3, <2>4
  <1>3. CASE \E arr \in Arrays : r = FromArrayAuto(0, arr, ok)
    <2>1. PICK arr \in Arrays : r = FromArrayAuto(0, arr, ok)
      BY <1>3
    <2>2. arr \in Seq(Word) /\ Askable(Len(arr))
      BY ColumnAssumption, AskedAssumption
    <2>3. PICK size \in Sizes : Fresh(0, size, r.pool)
      <3>1. 0 \in Int /\ AutoBuilt(0, arr, FromArrayAuto(0, arr, ok))
        BY <2>2, FromArrayAutoEffect
      <3>2. AutoBuilt(0, arr, r)
        BY <2>1, <3>1
      <3> QED
        BY <3>2 DEF AutoBuilt
    <2>4. Honest(r.pool)
      BY <2>1, <2>2, FromArrayAutoHonest
    <2> QED
      BY <1>f, <2>3, <2>4
  <1>4. CASE \E arr \in Arrays : r = FromArraySignedAuto(0, [i \in DOMAIN arr |-> I64(arr[i])], ok)
    <2>1. PICK arr \in Arrays : r = FromArraySignedAuto(0, [i \in DOMAIN arr |-> I64(arr[i])], ok)
      BY <1>4
    <2> DEFINE s == [i \in DOMAIN arr |-> I64(arr[i])]
    <2>2. s \in Seq(Int64) /\ Askable(Len(s))
      BY ColumnAssumption, AskedAssumption, SignedReadings
    <2>r. r = FromArraySignedAuto(0, s, ok)
      BY <2>1
    <2> HIDE DEF s
    <2>3. PICK size \in Sizes : Fresh(0, size, r.pool)
      <3>1. 0 \in Int
        OBVIOUS
      <3> QED
        BY <2>r, <2>2, <3>1, FromArraySignedAutoEffect
    <2>4. Honest(r.pool)
      BY <2>r, <2>2, FromArraySignedAutoHonest
    <2> QED
      BY <1>f, <2>3, <2>4
  <1> QED
    BY <1>2, <1>3, <1>4 DEF Created

LEMMA InitClean ==
  ASSUME Init
  PROVE  Clean(pool) /\ arg = 0 /\ res = "OK"
  BY CreatedClean DEF Init

LEMMA InitColumn ==
  ASSUME Init
  PROVE  Column!Init
  <1>1. Clean(pool) /\ arg = 0 /\ res = "OK"
    BY InitClean
  <1>2. Values(pool) \in Seq(Int) /\ IsSigned(pool) \in BOOLEAN /\ DOMAIN Values(pool) = DOMAIN pool.data
    BY <1>1, CleanFacts
  <1>3. ASSUME ~IsSigned(pool), NEW i \in DOMAIN pool.data
        PROVE  Values(pool)[i] >= 0
    <2>1. Values(pool)[i] = pool.data[i]
      BY <1>3 DEF Values, Value, Get
    <2>2. pool.data[i] \in Nat
      <3>1. pool \in PoolType
        BY <1>1, CleanFacts DEF InUse
      <3> QED
        BY <3>1, Fields, Conversions
    <2> QED
      BY <2>1, <2>2
  <1> QED
    BY <1>1, <1>2, <1>3 DEF Column!Init

\* The calls of the column in the terms of IntColumn.
LEMMA StoredStep ==
  ASSUME NEW v, Lengthens(pool, pool', v), res' = "OK"
  PROVE  Column!Stored(v)
  BY DEF Lengthens, Column!Stored

LEMMA FailedStep ==
  ASSUME NEW codes, SameColumn(pool, pool'), res' \in codes
  PROVE  Column!Failed(codes)
  BY DEF SameColumn, Column!Failed

LEMMA KeptStep ==
  ASSUME NEW r, Kept(pool, r), Return(0, r)
  PROVE  Clean(pool') /\ Column!Next
  BY DEF Kept, SameColumn, Return, Column!Next, Column!Maintain

LEMMA AdaptivePushStep ==
  ASSUME Clean(pool), NEW ok1 \in BOOLEAN, NEW ok2 \in BOOLEAN, AdaptivePush(ok1, ok2)
  PROVE  Clean(pool') /\ Column!Next
  <1>1. CASE \E v \in Args : Return(v, PushAdaptive(pool, v, ok1, ok2))
    <2>1. PICK v \in Args : Return(v, PushAdaptive(pool, v, ok1, ok2))
      BY <1>1
    <2> DEFINE r == PushAdaptive(pool, v, ok1, ok2)
    <2>2. arg' = v /\ pool' = r.pool /\ res' = r.ret
      BY <2>1 DEF Return
    <2>3. /\ Clean(r.pool)
          /\ \/ IsSigned(pool) /\ r.ret = "INVALID" /\ SameColumn(pool, r.pool)
             \/ ~IsSigned(pool) /\ r.ret = "OK" /\ Lengthens(pool, r.pool, v)
             \/ ~IsSigned(pool) /\ r.ret = "OOM" /\ SameColumn(pool, r.pool)
      BY Arguments, PushAdaptiveColumn
    <2> HIDE DEF r
    <2>4. Column!PushAdaptive(v)
      BY <2>2, <2>3, StoredStep, FailedStep DEF Column!PushAdaptive
    <2> QED
      BY <2>2, <2>3, <2>4 DEF Column!Next
  <1>2. CASE \E v \in SignedArgs : Return(v, PushSignedAdaptive(pool, v, ok1, ok2))
    <2>1. PICK v \in SignedArgs : Return(v, PushSignedAdaptive(pool, v, ok1, ok2))
      BY <1>2
    <2> DEFINE r == PushSignedAdaptive(pool, v, ok1, ok2)
    <2>2. arg' = v /\ pool' = r.pool /\ res' = r.ret
      BY <2>1 DEF Return
    <2>3. /\ Clean(r.pool)
          /\ \/ ~IsSigned(pool) /\ r.ret = "INVALID" /\ SameColumn(pool, r.pool)
             \/ IsSigned(pool) /\ r.ret = "OK" /\ Lengthens(pool, r.pool, v)
             \/ IsSigned(pool) /\ r.ret = "OOM" /\ SameColumn(pool, r.pool)
      BY SignedArguments, PushSignedAdaptiveColumn
    <2> HIDE DEF r
    <2>4. Column!PushSignedAdaptive(v)
      BY <2>2, <2>3, StoredStep, FailedStep DEF Column!PushSignedAdaptive
    <2> QED
      BY <2>2, <2>3, <2>4 DEF Column!Next
  <1> QED
    BY <1>1, <1>2 DEF AdaptivePush

LEMMA CheckedPushStep ==
  ASSUME Clean(pool), NEW ok \in BOOLEAN, CheckedPush(ok)
  PROVE  Clean(pool') /\ Column!Next
  <1>1. CASE \E v \in Args : ~IsSigned(pool) /\ Return(v, PushChecked(pool, v, ok))
    <2>1. PICK v \in Args : ~IsSigned(pool) /\ Return(v, PushChecked(pool, v, ok))
      BY <1>1
    <2> DEFINE r == PushChecked(pool, v, ok)
    <2>2. arg' = v /\ pool' = r.pool /\ res' = r.ret
      BY <2>1 DEF Return
    <2>3. /\ Clean(r.pool)
          /\ \/ r.ret = "OK" /\ Lengthens(pool, r.pool, v)
             \/ r.ret \in {"OOM", "TOO_LARGE"} /\ SameColumn(pool, r.pool)
      BY <2>1, Arguments, PushCheckedColumn
    <2> HIDE DEF r
    <2>4. res' \in {"OOM", "TOO_LARGE"} => res' \in Column!Refusals \cup {"OOM"}
      BY DEF Column!Refusals
    <2>5. Column!PushChecked(v)
      BY <2>1, <2>2, <2>3, <2>4, StoredStep, FailedStep DEF Column!PushChecked
    <2> QED
      BY <2>2, <2>3, <2>5 DEF Column!Next
  <1>2. CASE \E v \in SignedArgs : Return(v, PushSignedChecked(pool, v, ok))
    <2>1. PICK v \in SignedArgs : Return(v, PushSignedChecked(pool, v, ok))
      BY <1>2
    <2> DEFINE r == PushSignedChecked(pool, v, ok)
    <2>2. arg' = v /\ pool' = r.pool /\ res' = r.ret
      BY <2>1 DEF Return
    <2>3. /\ Clean(r.pool)
          /\ \/ r.ret = "OK" /\ Lengthens(pool, r.pool, v)
             \/ r.ret \in {"OOM", "INVALID", "TOO_SMALL", "TOO_LARGE"} /\ SameColumn(pool, r.pool)
      BY SignedArguments, PushSignedCheckedColumn
    <2> HIDE DEF r
    <2>4. res' \in {"OOM", "INVALID", "TOO_SMALL", "TOO_LARGE"} => res' \in Column!Refusals \cup {"OOM"}
      BY DEF Column!Refusals
    <2>5. Column!PushSignedChecked(v)
      BY <2>1, <2>2, <2>3, <2>4, StoredStep, FailedStep DEF Column!PushSignedChecked
    <2> QED
      BY <2>2, <2>3, <2>5 DEF Column!Next
  <1> QED
    BY <1>1, <1>2 DEF CheckedPush

LEMMA EditStep ==
  ASSUME Clean(pool), NEW i \in DOMAIN pool.data, Assign(i) \/ RemoveAt(i)
  PROVE  Clean(pool') /\ Column!Next
  <1>1. DOMAIN Values(pool) = DOMAIN pool.data
    BY ValuesDomain
  <1>2. CASE \E v \in Args : /\ ~IsSigned(pool) /\ v <= MaxValue(pool.size)
                             /\ Done(v, Set(pool, i, v))
    <2>1. PICK v \in Args : /\ ~IsSigned(pool) /\ v <= MaxValue(pool.size)
                            /\ Done(v, Set(pool, i, v))
      BY <1>2
    <2>2. Clean(pool') /\ Replaces(pool, pool', i, v) /\ res' = "OK" /\ arg' = v
      BY <2>1, Arguments, SetColumn DEF Done
    <2>3. Column!Replace(i, v)
      BY <2>2 DEF Replaces, Column!Replace
    <2> QED
      BY <1>1, <2>2, <2>3 DEF Column!Next
  <1>3. CASE \E v \in SignedArgs :
               /\ IsSigned(pool) /\ v \in MinSigned(pool.size) .. MaxSigned(pool.size)
               /\ Done(v, SetSigned(pool, i, v))
    <2>1. PICK v \in SignedArgs :
               /\ IsSigned(pool) /\ v \in MinSigned(pool.size) .. MaxSigned(pool.size)
               /\ Done(v, SetSigned(pool, i, v))
      BY <1>3
    <2>2. Clean(pool') /\ Replaces(pool, pool', i, v) /\ res' = "OK" /\ arg' = v
      BY <2>1, SignedArguments, SetSignedColumn DEF Done
    <2>3. Column!Replace(i, v)
      BY <2>2 DEF Replaces, Column!Replace
    <2> QED
      BY <1>1, <2>2, <2>3 DEF Column!Next
  <1>4. CASE RemoveAt(i)
    <2>1. pool' = RemoveSwap(pool, i) /\ res' = "OK" /\ arg' = 0
      BY <1>4 DEF RemoveAt, Done
    <2>2. /\ Clean(pool') /\ IsSigned(pool') = IsSigned(pool)
          /\ Values(pool') = SubSeq([Values(pool) EXCEPT ![i] = Values(pool)[Len(Values(pool))]],
                                    1, Len(Values(pool)) - 1)
      BY <2>1, RemovedColumn
    <2>3. Column!Remove(i)
      BY <2>1, <2>2 DEF Column!Remove
    <2> QED
      BY <1>1, <2>1, <2>2, <2>3 DEF Column!Next
  <1> QED
    BY <1>2, <1>3, <1>4 DEF Assign

LEMMA EmptyStep ==
  ASSUME Clean(pool), Empty
  PROVE  Clean(pool') /\ Column!Next
  BY ClearedColumn DEF Empty, Done, Column!Clear, Column!Next

LEMMA OrderStep ==
  ASSUME Clean(pool), Order
  PROVE  Clean(pool') /\ Column!Next
  <1>1. PICK q \in Sort(pool) : Done(0, q)
    BY DEF Order
  <1>2. pool' = q /\ res' = "OK" /\ arg' = 0
    BY <1>1 DEF Done
  <1>3. /\ Clean(pool') /\ IsSigned(pool') = IsSigned(pool)
        /\ DOMAIN Values(pool') = DOMAIN Values(pool)
        /\ Column!Rearranges(Values(pool), Values(pool'))
        /\ \A i, j \in DOMAIN Values(pool) : i < j => Values(pool')[i] <= Values(pool')[j]
    BY <1>2, SortedColumn
  <1>4. Column!Sort
    BY <1>2, <1>3 DEF Column!Sort
  <1> QED
    BY <1>2, <1>3, <1>4 DEF Column!Next

LEMMA ResizeStep ==
  ASSUME Clean(pool), NEW ok \in BOOLEAN, Resize(ok)
  PROVE  Clean(pool') /\ Column!Next
  BY ReserveColumn, ShrinkColumn, KeptStep, ColumnAssumption, AskedAssumption DEF Resize

LEMMA HealAcrossStep ==
  ASSUME Clean(pool), NEW ok \in BOOLEAN, HealAcross(ok)
  PROVE  Clean(pool') /\ Column!Next
  <1> DEFINE r == Coded(FitClassSignedness(pool, ok))
  <1>1. \/ Kept(pool, r)
        \/ /\ Clean(r.pool) /\ Values(r.pool) = Values(pool) /\ r.ret = "OK"
           /\ IsSigned(pool) /\ ~IsSigned(r.pool)
           /\ \A i \in DOMAIN pool.data : Value(pool, i) >= 0
    BY FitClassSignednessColumn
  <1>2. Return(0, r)
    BY DEF HealAcross
  <1> HIDE DEF r
  <1>3. CASE /\ Clean(r.pool) /\ Values(r.pool) = Values(pool) /\ r.ret = "OK"
             /\ IsSigned(pool) /\ ~IsSigned(r.pool)
             /\ \A i \in DOMAIN pool.data : Value(pool, i) >= 0
    <2>1. arg' = 0 /\ res' = "OK" /\ pool' = r.pool
      BY <1>2, <1>3 DEF Return
    <2>2. \A i \in DOMAIN Values(pool) : Values(pool)[i] >= 0
      BY <1>3, ValuesDomain
    <2>3. IsSigned(pool') = FALSE
      BY <1>3, <2>1, CleanFacts
    <2>4. Column!DropSign
      BY <1>3, <2>1, <2>2, <2>3 DEF Column!DropSign
    <2> QED
      BY <1>3, <2>1, <2>4 DEF Column!Next
  <1> QED
    BY <1>1, <1>2, <1>3, KeptStep

LEMMA NextColumn ==
  ASSUME Clean(pool), Next
  PROVE  Clean(pool') /\ Column!Next
  <1>1. ASSUME NEW ok \in BOOLEAN, Heal(ok)
        PROVE  Clean(pool') /\ Column!Next
    BY <1>1, FitClassColumn, KeptStep DEF Heal
  <1>2. ASSUME NEW size \in Sizes, NEW ok \in BOOLEAN, PromoteTo(size, ok)
        PROVE  Clean(pool') /\ Column!Next
    BY <1>2, PromotedColumn, KeptStep DEF PromoteTo
  <1>3. ASSUME NEW i \in DOMAIN pool.data, Assign(i) \/ RemoveAt(i)
        PROVE  Clean(pool') /\ Column!Next
    BY <1>3, EditStep
  <1>4. ASSUME NEW ok1 \in BOOLEAN, NEW ok2 \in BOOLEAN, AdaptivePush(ok1, ok2)
        PROVE  Clean(pool') /\ Column!Next
    BY <1>4, AdaptivePushStep
  <1>5. ASSUME NEW ok \in BOOLEAN, CheckedPush(ok) \/ Resize(ok) \/ Heal(ok) \/ HealAcross(ok)
        PROVE  Clean(pool') /\ Column!Next
    BY <1>1, <1>5, CheckedPushStep, ResizeStep, HealAcrossStep
  <1> QED
    BY <1>2, <1>3, <1>4, <1>5, EmptyStep, OrderStep DEF Next

LEMMA StepColumn ==
  ASSUME Clean(pool), [Next]_vars
  PROVE  Clean(pool') /\ [Column!Next]_(Column!vars)
  BY NextColumn DEF vars, Column!vars

LEMMA AlwaysClean == Spec => []Clean(pool)
  <1>1. Init => Clean(pool)
    BY InitClean
  <1>2. Clean(pool) /\ [Next]_vars => Clean(pool)'
    BY StepColumn
  <1> QED
    BY <1>1, <1>2, PTL DEF Spec

\* The adaptive interface is a column of integers: every call, through every
\* widening, healing and failed allocation, does to the values what IntColumn says
\* and nothing else.
THEOREM AdaptiveIsColumn == Spec => ImplementsColumn
  <1>1. Init => Column!Init
    BY InitColumn
  <1>2. Clean(pool) /\ [Next]_vars => [Column!Next]_(Column!vars)
    BY StepColumn
  <1> QED
    BY <1>1, <1>2, AlwaysClean, PTL DEF Spec, ImplementsColumn, Column!Spec

\* After a successful fit the class of the pool is the least that holds its values.
THEOREM FitIsLeast == Spec => HealingIsComplete
  <1>1. ASSUME Clean(pool), NEW ok \in BOOLEAN, Heal(ok), res' = "OK", Count(pool) > 0
        PROVE  Smallest(pool')
    <2> DEFINE r == Coded(FitClass(pool, ok))
    <2>1. pool' = r.pool /\ res' = r.ret
      BY <1>1 DEF Heal, Return
    <2>2. r.ret = "OK" /\ Count(pool) > 0 => Smallest(r.pool)
      BY <1>1, FitClassColumn
    <2> HIDE DEF r
    <2> QED
      BY <1>1, <2>1, <2>2
  <1>2. Clean(pool) => [\A ok \in BOOLEAN : Heal(ok) /\ res' = "OK" /\ Count(pool) > 0 => Smallest(pool')]_vars
    BY <1>1
  <1> QED
    BY <1>2, AlwaysClean, PTL DEF HealingIsComplete

-----------------------------------------------------------------------------
(* The tracked pool.                                                        *)

\* Its pool runs as an adaptive column.
LEMMA TrackedRuns == TrackedSpec => Spec
  <1>1. TrackedInit => Init
    BY DEF TrackedInit
  <1>2. [TrackedNext]_<<vars, t>> => [Next]_vars
    <2>1. ASSUME NEW v \in Args, NEW ok1 \in BOOLEAN, NEW ok2 \in BOOLEAN,
                 s2r_tracked_push(v, ok1, ok2)
          PROVE  Next
      BY <2>1 DEF s2r_tracked_push, Next, AdaptivePush
    <2>2. Around => Next
      BY DEF Around
    <2>3. s2r_tracked_range => UNCHANGED vars
      BY DEF s2r_tracked_range
    <2> QED
      BY <2>1, <2>2, <2>3 DEF TrackedNext
  <1> QED
    BY <1>1, <1>2, PTL DEF TrackedSpec, Spec

\* A tracked pool is a column of integers too, and heals as completely.
THEOREM TrackedIsColumn == TrackedSpec => ImplementsColumn /\ HealingIsComplete
  BY TrackedRuns, AdaptiveIsColumn, FitIsLeast

\* Extremes of a nonempty set of words exist.
LEMMA LeastWord ==
  ASSUME NEW S \in SUBSET Nat, S # {}
  PROVE  \E m \in S : \A w \in S : m <= w
  <1>1. \E c \in S : \A d \in S : ~ (<<d, c>> \in OpToRel(<, Nat))
    BY NatLessThanWellFounded, WFMin, Zenon
  <1>2. PICK c \in S : \A d \in S : ~ (<<d, c>> \in OpToRel(<, Nat))
    BY <1>1
  <1>3. ASSUME NEW d \in S  PROVE c <= d
    <2>1. c \in Nat /\ d \in Nat
      BY <1>2
    <2>2. ~ (d < c)
      BY <1>2, <2>1 DEF OpToRel
    <2> QED
      BY <2>1, <2>2
  <1> QED
    BY <1>2, <1>3

LEMMA GreatestWord ==
  ASSUME NEW n \in Nat, NEW S \in SUBSET (0 .. n), S # {}
  PROVE  \E m \in S : \A w \in S : w <= m
  <1> DEFINE T == {n - w : w \in S}
  <1>1. T \in SUBSET Nat /\ T # {}
    <2>1. \A w \in S : n - w \in Nat
      OBVIOUS
    <2>2. T \subseteq Nat
      BY <2>1
    <2>3. T # {}
      OBVIOUS
    <2> QED
      BY <2>2, <2>3
  <1>2. PICK x \in T : \A y \in T : x <= y
    BY <1>1, LeastWord
  <1>3. PICK m \in S : x = n - m
    BY <1>2
  <1>4. \A w \in S : n - m <= n - w
    BY <1>2, <1>3
  <1> QED
    BY <1>4

\* The remembered extremes, and what an empty structure remembers.
Tight(s, p) ==
  IF Count(p) = 0 THEN s.umin = Pow(K) - 1 /\ s.umax = 0
  ELSE /\ s.umin \in RawSet(p) /\ \A w \in RawSet(p) : s.umin <= w
       /\ s.umax \in RawSet(p) /\ \A w \in RawSet(p) : w <= s.umax

\* A signed structure may be scanned as well, and lose its sign afterwards: what counts
\* is that no element is negative, for then each reads as its bytes do.
Natural(p) == \A i \in DOMAIN Values(p) : Values(p)[i] >= 0

RangeKnown(s, p) ==
  \/ s = Plain
  \/ /\ s \in [umin : Word, umax : Word, dirty : BOOLEAN]
     /\ ~s.dirty /\ Natural(p) => Tight(s, p)

TrackedInv == Clean(pool) /\ RangeKnown(t, pool)

LEMMA UnsignedNatural ==
  ASSUME NEW p, Clean(p), ~IsSigned(p)
  PROVE  Natural(p)
  <1>1. p.data \in Seq(Word)
    BY CleanFacts
  <1>2. \A i \in DOMAIN p.data : p.data[i] \in Word
    BY <1>1
  <1>3. \A i \in DOMAIN p.data : p.data[i] >= 0
    BY <1>2 DEF Word
  <1> QED
    BY <1>3 DEF Natural, Values, Value, Get

LEMMA UnsignedColumn ==
  ASSUME NEW p, Clean(p), Natural(p)
  PROVE  Values(p) = p.data /\ RawSet(p) \subseteq Word /\ (Count(p) > 0 => RawSet(p) # {})
  <1>1. p.data \in Seq(Word) /\ Count(p) \in Nat /\ DOMAIN p.data = 1 .. Count(p)
    BY CleanFacts
  <1>2. Values(p) = [i \in DOMAIN p.data |-> Value(p, i)] /\ DOMAIN Values(p) = DOMAIN p.data
    BY DEF Values
  <1>3. ASSUME NEW i \in DOMAIN p.data  PROVE Value(p, i) = p.data[i]
    <2>1. CASE ~IsSigned(p)
      BY <2>1 DEF Value, Get
    <2>2. CASE IsSigned(p)
      <3>1. p.size < 0 /\ -p.size \in Classes /\ Abs(p.size) = -p.size
        BY <2>2, CleanFacts, SizeFacts DEF Abs
      <3>2. Value(p, i) = AsSigned(-p.size, p.data[i])
        BY <2>2, <3>1 DEF Value, GetSigned
      <3>3. p.data[i] \in Int /\ p.data[i] < Pow(-p.size)
        <4>1. p.data[i] \in Word /\ Sound(p)
          BY <1>1, CleanFacts DEF InUse
        <4>2. p.data[i] < Pow(Abs(p.size))
          BY <4>1 DEF Sound
        <4>3. p.data[i] \in Int
          BY <4>1 DEF Word
        <4> QED
          BY ONLY <3>1, <4>2, <4>3
      <3>4. Half[-p.size] \in Nat /\ Pow(-p.size) \in Nat
        BY <3>1, PowFacts, ClassAssumption
      <3>5. Value(p, i) >= 0
        BY <1>2 DEF Natural
      <3> QED
        BY <3>2, <3>3, <3>4, <3>5 DEF AsSigned
    <2> QED
      BY <2>1, <2>2
  <1>4. Values(p) = p.data
    BY <1>1, <1>2, <1>3
  <1>5. RawSet(p) \subseteq Word
    BY <1>1 DEF RawSet
  <1>6. Count(p) > 0 => 1 \in DOMAIN p.data
    BY <1>1
  <1> QED
    BY <1>4, <1>5, <1>6 DEF RawSet

LEMMA SameTight ==
  ASSUME NEW p, NEW q, Clean(p), Clean(q), Natural(q), Values(q) = Values(p),
         NEW s, Natural(p) => Tight(s, p)
  PROVE  Tight(s, q)
  <1>1. Natural(p)
    BY DEF Natural
  <1>2. q.data = p.data
    BY <1>1, UnsignedColumn
  <1> QED
    BY <1>1, <1>2 DEF Tight, RawSet, Count

LEMMA RaisedTight ==
  ASSUME NEW p, NEW q, Clean(p), Clean(q), ~IsSigned(p), NEW v \in Word, Lengthens(p, q, v),
         NEW s \in [umin : Word, umax : Word, dirty : BOOLEAN], Tight(s, p), NEW s2,
         s2.umin = Lower(s.umin, v), s2.umax = Higher(s.umax, v)
  PROVE  Tight(s2, q)
  <1>1. /\ s2.umin = Lower(s.umin, v) /\ s2.umax = Higher(s.umax, v)
        /\ s.umin \in Word /\ s.umax \in Word
    OBVIOUS
  <1>n. Natural(p) /\ Natural(q)
    BY UnsignedNatural DEF Lengthens
  <1>2. /\ q.data = Append(p.data, v) /\ p.data \in Seq(Word) /\ Count(p) \in Nat
        /\ DOMAIN p.data = 1 .. Count(p)
    BY <1>n, UnsignedColumn, CleanFacts DEF Lengthens
  <1>3. Count(q) = Count(p) + 1 /\ Count(q) # 0
    BY <1>2 DEF Count
  <1>4. RawSet(q) = RawSet(p) \cup {v}
    <2>1. DOMAIN q.data = 1 .. Count(p) + 1 /\ q.data[Count(p) + 1] = v
          /\ \A i \in 1 .. Count(p) : q.data[i] = p.data[i]
      BY <1>2 DEF Count
    <2>2. \A w : w \in RawSet(q) <=> w \in RawSet(p) \cup {v}
      BY <1>2, <2>1 DEF RawSet
    <2> QED
      BY <2>2
  <1>5. v \in Nat /\ s.umin \in Nat /\ s.umax \in Nat /\ RawSet(p) \subseteq Nat /\ Pow(K) \in Nat
    BY <1>1, <1>n, Conversions, UnsignedColumn, PowFacts
  <1>6. CASE Count(p) = 0
    <2>1. s.umin = Pow(K) - 1 /\ s.umax = 0 /\ RawSet(p) = {}
      BY <1>n, <1>2, <1>6 DEF Tight, RawSet
    <2>2. v <= Pow(K) - 1
      BY <1>5 DEF Word
    <2>3. s2.umin = v /\ s2.umax = v
      BY <1>1, <1>5, <2>1, <2>2 DEF Lower, Higher
    <2> QED
      BY <1>3, <1>4, <1>5, <2>1, <2>3 DEF Tight
  <1>7. CASE Count(p) # 0
    <2>1. /\ s.umin \in RawSet(p) /\ \A w \in RawSet(p) : s.umin <= w
          /\ s.umax \in RawSet(p) /\ \A w \in RawSet(p) : w <= s.umax
      BY <1>n, <1>7 DEF Tight
    <2>2. s2.umin \in RawSet(q) /\ \A w \in RawSet(q) : s2.umin <= w
      BY <1>1, <1>4, <1>5, <2>1 DEF Lower
    <2>3. s2.umax \in RawSet(q) /\ \A w \in RawSet(q) : w <= s2.umax
      BY <1>1, <1>4, <1>5, <2>1 DEF Higher
    <2> QED
      BY <1>3, <2>2, <2>3 DEF Tight
  <1> QED
    BY <1>6, <1>7

\* s2r_min and s2r_max are the extremes.
LEMMA Extremes ==
  ASSUME NEW p, Clean(p), Count(p) > 0
  PROVE  /\ RawSet(p) \subseteq Word
         /\ s2r_min(p) \in RawSet(p) /\ \A w \in RawSet(p) : s2r_min(p) <= w
         /\ s2r_max(p) \in RawSet(p) /\ \A w \in RawSet(p) : w <= s2r_max(p)
  <1>1. RawSet(p) \subseteq Word /\ RawSet(p) # {}
    <2>1. p.data \in Seq(Word) /\ DOMAIN p.data = 1 .. Count(p) /\ Count(p) \in Nat
      BY CleanFacts
    <2>2. 1 \in DOMAIN p.data
      BY <2>1
    <2> QED
      BY <2>1, <2>2 DEF RawSet
  <1>2. \E m \in RawSet(p) : \A w \in RawSet(p) : m <= w
    BY <1>1, LeastWord, Conversions
  <1>3. \E m \in RawSet(p) : \A w \in RawSet(p) : w <= m
    <2>1. Pow(K) - 1 \in Nat
      BY Conversions, PowFacts
    <2> QED
      BY <1>1, <2>1, GreatestWord DEF Word
  <1> QED
    BY <1>1, <1>2, <1>3 DEF s2r_min, s2r_max

LEMMA TightRange ==
  ASSUME NEW p, Clean(p), Natural(p), Count(p) > 0, NEW s, Tight(s, p)
  PROVE  s.umin = s2r_min(p) /\ s.umax = s2r_max(p)
  <1>1. RawSet(p) \subseteq Nat
    BY UnsignedColumn, Conversions
  <1>2. /\ s.umin \in RawSet(p) /\ \A w \in RawSet(p) : s.umin <= w
        /\ s.umax \in RawSet(p) /\ \A w \in RawSet(p) : w <= s.umax
    BY DEF Tight
  <1> QED
    BY <1>1, <1>2, Extremes

LEMMA PlainOutside == Plain \notin [umin : Word, umax : Word, dirty : BOOLEAN]
  <1>1. Pow(K) \in Nat
    BY Conversions, PowFacts
  <1>2. Plain.umin = Pow(K)
    BY DEF Plain
  <1> QED
    BY <1>1, <1>2 DEF Word

LEMMA TrackedInitInv == TrackedInit => TrackedInv
  <1> SUFFICES ASSUME TrackedInit  PROVE TrackedInv
    OBVIOUS
  <1>1. Clean(pool)
    BY InitClean DEF TrackedInit
  <1>2. CASE t = Plain
    BY <1>1, <1>2 DEF TrackedInv, RangeKnown
  <1>3. CASE \E size \in Sizes, cap \in TrackedCaps :
               /\ PoolInit(0, size, cap, TRUE).ret
               /\ pool = PoolInit(0, size, cap, TRUE).pool
               /\ t = [umin |-> Pow(K) - 1, umax |-> 0, dirty |-> FALSE]
    <2>1. PICK size \in Sizes, cap \in TrackedCaps :
               /\ pool = PoolInit(0, size, cap, TRUE).pool
               /\ t = [umin |-> Pow(K) - 1, umax |-> 0, dirty |-> FALSE]
      BY <1>3
    <2>2. pool.data = <<>>
      BY <2>1 DEF PoolInit, Result, CanAlloc, Zeroed, SignFlag
    <2>3. Count(pool) = 0
      BY <2>2 DEF Count
    <2>4. Pow(K) - 1 \in Word /\ 0 \in Word
      <3>1. Pow(K) \in Nat \ {0}
        BY Conversions, PowFacts
      <3> QED
        BY <3>1 DEF Word
    <2>5. t \in [umin : Word, umax : Word, dirty : BOOLEAN] /\ t.umin = Pow(K) - 1 /\ t.umax = 0
      BY <2>1, <2>4
    <2>6. Tight(t, pool)
      BY <2>3, <2>5 DEF Tight
    <2> QED
      BY <1>1, <2>5, <2>6 DEF TrackedInv, RangeKnown
  <1> QED
    BY <1>2, <1>3 DEF TrackedInit

\* A call around the structure: when the column is not marked, it is the same.
LEMMA AroundInv ==
  ASSUME TrackedInv, Around
  PROVE  TrackedInv'
  <1>1. Clean(pool) /\ Clean(pool') /\ Column!Next
    BY NextColumn DEF TrackedInv, Around
  <1>2. t' = [t EXCEPT !.dirty = @ \/ Values(pool) # Values(pool')]
    BY DEF Around
  <1>3. CASE t = Plain
    <2>1. t' = t
      <3> DEFINE changed == t.dirty \/ Values(pool) # Values(pool')
      <3>1. t.dirty = TRUE /\ t = [umin |-> Pow(K), umax |-> 0, dirty |-> TRUE]
        BY <1>3 DEF Plain
      <3>2. changed = TRUE
        BY <3>1
      <3>3. t' = [t EXCEPT !.dirty = changed]
        BY <1>2
      <3> HIDE DEF changed
      <3> QED
        BY <3>1, <3>2, <3>3
    <2> QED
      BY <1>1, <1>3, <2>1 DEF TrackedInv, RangeKnown
  <1>4. CASE /\ t \in [umin : Word, umax : Word, dirty : BOOLEAN]
             /\ ~t.dirty /\ Natural(pool) => Tight(t, pool)
    <2>1. /\ t' \in [umin : Word, umax : Word, dirty : BOOLEAN]
          /\ t'.umin = t.umin /\ t'.umax = t.umax
          /\ ~t'.dirty => ~t.dirty /\ Values(pool') = Values(pool)
      BY <1>2, <1>4
    <2>2. ASSUME ~t'.dirty, Natural(pool')  PROVE Tight(t', pool')
      <3>1. Tight(t, pool')
        BY <1>1, <1>4, <2>1, <2>2, SameTight
      <3> QED
        BY <2>1, <3>1 DEF Tight
    <2> QED
      BY <1>1, <2>1, <2>2 DEF TrackedInv, RangeKnown
  <1> QED
    BY <1>3, <1>4 DEF TrackedInv, RangeKnown

LEMMA TrackedPushInv ==
  ASSUME TrackedInv, NEW v \in Args, NEW ok1 \in BOOLEAN, NEW ok2 \in BOOLEAN,
         s2r_tracked_push(v, ok1, ok2)
  PROVE  TrackedInv'
  <1> DEFINE r == PushAdaptive(pool, v, ok1, ok2)
  <1>1. /\ Clean(pool) /\ IsSigned(pool) \in BOOLEAN
        /\ t \in [umin : Word, umax : Word, dirty : BOOLEAN]
        /\ (~t.dirty /\ Natural(pool) => Tight(t, pool))
    BY CleanFacts DEF TrackedInv, RangeKnown, s2r_tracked_push
  <1>2. v \in Word /\ v \in Nat
    BY Arguments, Conversions
  <1>3. /\ pool' = r.pool /\ res' = r.ret
        /\ t' = IF res' = "OK" THEN [t EXCEPT !.umin = Lower(@, v), !.umax = Higher(@, v)] ELSE t
    BY DEF s2r_tracked_push, Return
  <1>r. r = PushAdaptive(pool, v, ok1, ok2)
    OBVIOUS
  <1> HIDE DEF r
  <1>4. /\ Clean(r.pool)
        /\ \/ r.ret = "INVALID" /\ SameColumn(pool, r.pool)
           \/ ~IsSigned(pool) /\ r.ret = "OK" /\ Lengthens(pool, r.pool, v)
           \/ r.ret = "OOM" /\ SameColumn(pool, r.pool)
    <2>1. Clean(pool)
      BY <1>1
    <2> QED
      BY <1>2, <1>r, <2>1, PushAdaptiveColumn
  <1>5. CASE ~IsSigned(pool) /\ r.ret = "OK" /\ Lengthens(pool, r.pool, v)
    <2>1. t' = [t EXCEPT !.umin = Lower(@, v), !.umax = Higher(@, v)]
      BY <1>3, <1>5
    <2>2. t' \in [umin : Word, umax : Word, dirty : BOOLEAN] /\ t'.dirty = t.dirty
      <3>1. Lower(t.umin, v) \in Word /\ Higher(t.umax, v) \in Word
        BY <1>1, <1>2 DEF Lower, Higher
      <3> QED
        BY <1>1, <2>1, <3>1
    <2>3. ~t.dirty => Tight(t', pool')
      <3>1. SUFFICES ASSUME ~t.dirty  PROVE Tight(t', pool')
        OBVIOUS
      <3>2. /\ Clean(pool) /\ Clean(pool') /\ ~IsSigned(pool) /\ Lengthens(pool, pool', v)
            /\ Tight(t, pool)
        BY <1>1, <1>3, <1>4, <1>5, <3>1, UnsignedNatural
      <3>3. t'.umin = Lower(t.umin, v) /\ t'.umax = Higher(t.umax, v)
        BY <1>1, <2>1
      <3> QED
        BY ONLY <1>1, <1>2, <3>2, <3>3, RaisedTight
    <2> QED
      BY <1>3, <1>4, <2>2, <2>3 DEF TrackedInv, RangeKnown
  <1>6. CASE r.ret \in {"OOM", "INVALID"} /\ SameColumn(pool, r.pool)
    <2>1. t' = t /\ Values(pool') = Values(pool) /\ Clean(pool')
      BY <1>3, <1>4, <1>6 DEF SameColumn
    <2>2. ~t.dirty /\ Natural(pool') => Tight(t, pool')
      BY <1>1, <2>1, SameTight
    <2> QED
      BY <1>1, <2>1, <2>2 DEF TrackedInv, RangeKnown
  <1> QED
    BY <1>4, <1>5, <1>6

LEMMA RescanInv ==
  ASSUME TrackedInv, s2r_tracked_range
  PROVE  TrackedInv'
  <1>1. /\ Clean(pool) /\ pool' = pool
        /\ t \in [umin : Word, umax : Word, dirty : BOOLEAN]
        /\ (~t.dirty /\ Natural(pool) => Tight(t, pool))
        /\ t' = Rescanned
    BY DEF TrackedInv, RangeKnown, s2r_tracked_range, vars
  <1>2. CASE t' = t
    BY <1>1, <1>2 DEF TrackedInv, RangeKnown
  <1>3. CASE Count(pool) > 0 /\ t' = [umin |-> s2r_min(pool), umax |-> s2r_max(pool), dirty |-> FALSE]
    <2>1. /\ s2r_min(pool) \in RawSet(pool) /\ \A w \in RawSet(pool) : s2r_min(pool) <= w
          /\ s2r_max(pool) \in RawSet(pool) /\ \A w \in RawSet(pool) : w <= s2r_max(pool)
          /\ RawSet(pool) \subseteq Word
      BY <1>1, <1>3, Extremes
    <2>2. t' \in [umin : Word, umax : Word, dirty : BOOLEAN]
          /\ t'.umin = s2r_min(pool) /\ t'.umax = s2r_max(pool)
      BY <1>3, <2>1
    <2>3. Count(pool) # 0
      BY <1>3
    <2>4. Tight(t', pool)
      BY <2>1, <2>2, <2>3 DEF Tight
    <2> QED
      BY <1>1, <2>2, <2>4 DEF TrackedInv, RangeKnown
  <1> QED
    BY <1>1, <1>2, <1>3 DEF Rescanned

\* The range a tracked pool answers without a scan is that of its elements,
\* whatever was pushed, refused, edited or re-classed before.
THEOREM RangeIsTrue == TrackedSpec => []RangeTrue
  <1>1. TrackedInit => TrackedInv
    BY TrackedInitInv
  <1>2. TrackedInv /\ [TrackedNext]_<<vars, t>> => TrackedInv'
    <2>1. ASSUME TrackedInv, TrackedNext  PROVE TrackedInv'
      BY <2>1, TrackedPushInv, AroundInv, RescanInv DEF TrackedNext
    <2>2. ASSUME TrackedInv, UNCHANGED <<vars, t>>  PROVE TrackedInv'
      BY <2>2 DEF TrackedInv, Clean, RangeKnown, vars
    <2> QED
      BY <2>1, <2>2
  <1>3. TrackedInv => RangeTrue
    BY TightRange, UnsignedNatural DEF TrackedInv, RangeKnown, RangeTrue, Plain
  <1> QED
    BY <1>1, <1>2, <1>3, PTL DEF TrackedSpec

=============================================================================
