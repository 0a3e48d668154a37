------------------------- MODULE IDGeneratorProofs -------------------------
(***************************************************************************)
(* The first MaxInt identifiers are distinct, for any number of callers,   *)
(* any seed and any width of the counter.                                  *)
(***************************************************************************)
EXTENDS IDGenerator, TLAPS

\* The i-th identifier after the seed s: one more than the one before up to
\* MaxInt, and counted from w after it.
Id(s, w, i) == IF i <= MaxInt - s THEN s + i ELSE w + i - (MaxInt - s)

\* Where the count goes on after MaxInt: at 1, after a CompareAndSwap that
\* met MaxInt, or at MinInt, when another caller's Add was there first.
Restarts == {0, MinInt - 1}

\* The identifiers are the ones that Id counts, and the counter is the last
\* of them, or has just been set to 0.
Follows(s, w) ==
  /\ \A i \in 1..Len(issued) : issued[i] = Id(s, w, i)
  /\ Len(issued) < MaxInt =>
       \/ counter = Id(s, w, Len(issued))
       \/ Len(issued) = MaxInt - s /\ w = 0 /\ counter = 0

\* Up to MaxInt identifiers, the count has gone on after MaxInt once at
\* most, and has not come back to the seed.
SeedInv ==
  Len(issued) <= MaxInt => \E s \in Seeds, w \in Restarts : Follows(s, w)

IInv == TypeOK /\ SeedInv

\* The constants are integers of the counter's width.
LEMMA Widths ==
  ASSUME IDAssumption
  PROVE  /\ MaxInt \in Nat /\ MaxInt > 0
         /\ MinInt \in Int /\ MinInt = -MaxInt - 1
         /\ \A s \in Seeds : s \in 0..MaxInt
BY DEF IDAssumption, MinInt

\* Init: nothing issued, and the counter is the seed.
LEMMA InitIInv ==
  ASSUME IDAssumption
  PROVE  Init => IInv
<1> SUFFICES ASSUME Init PROVE IInv
  OBVIOUS
<1>1. TypeOK
  BY Widths DEF Init, TypeOK
<1>2. PICK s \in Seeds : counter = s
  BY DEF Init
<1>3. Len(issued) = 0
  BY DEF Init
<1>4. Follows(s, 0)
  BY <1>2, <1>3, Widths DEF Follows, Id
<1>5. SeedInv
  BY <1>4 DEF SeedInv, Restarts
<1> QED
  BY <1>1, <1>5 DEF IInv

\* Neither atomic operation leaves the counter's width.
LEMMA TypeStep ==
  ASSUME IDAssumption
  PROVE  TypeOK /\ [Next]_vars => TypeOK'
<1> SUFFICES ASSUME TypeOK, [Next]_vars PROVE TypeOK'
  OBVIOUS
<1>1. ASSUME NEW c \in Callers, CompareAndSwap(c) PROVE TypeOK'
  BY <1>1, Widths DEF CompareAndSwap, TypeOK
<1>2. ASSUME NEW c \in Callers, Add(c) PROVE TypeOK'
  <2>1. counter' \in MinInt..MaxInt
    BY <1>2, Widths DEF Add, WrapAdd, TypeOK
  <2> QED
    BY <1>2, <2>1 DEF Add, TypeOK
<1>3. CASE UNCHANGED vars
  BY <1>3 DEF vars, TypeOK
<1> QED
  BY <1>1, <1>2, <1>3 DEF Next

\* CompareAndSwap meets MaxInt only after the MaxInt - s identifiers above
\* the seed: then the count goes on at 1.
LEMMA CompareAndSwapStep ==
  ASSUME IDAssumption, IInv, NEW c \in Callers, CompareAndSwap(c)
  PROVE  SeedInv'
<1> SUFFICES ASSUME Len(issued) <= MaxInt
             PROVE  \E s \in Seeds, w \in Restarts : Follows(s, w)'
  BY DEF CompareAndSwap, SeedInv, Restarts
<1>0. issued' = issued /\ Len(issued) \in Nat /\ counter \in Int
  BY Widths DEF IInv, TypeOK, CompareAndSwap
<1>1. PICK s \in Seeds, w \in Restarts : Follows(s, w)
  BY DEF IInv, SeedInv
<1>2. s \in 0..MaxInt /\ w \in Int /\ w <= 0
  BY Widths DEF Restarts
<1>3. CASE counter # MaxInt
  <2>1. counter' = counter
    BY <1>3 DEF CompareAndSwap
  <2> QED
    BY <1>0, <1>1, <2>1 DEF Follows
<1>4. CASE counter = MaxInt /\ Len(issued) < MaxInt
  <2>1. counter' = 0
    BY <1>4 DEF CompareAndSwap
  <2>2. Len(issued) = MaxInt - s
    BY <1>0, <1>1, <1>2, <1>4, Widths DEF Follows, Id
  <2>3. Follows(s, 0)'
    BY <1>0, <1>1, <1>2, <2>1, <2>2, Widths DEF Follows, Id
  <2> QED
    BY <2>3 DEF Restarts
<1>5. CASE Len(issued) = MaxInt
  BY <1>0, <1>1, <1>5, Widths DEF Follows
<1> QED
  BY <1>0, <1>3, <1>4, <1>5, Widths

\* Add goes on with the count; at MaxInt it goes on at MinInt.
LEMMA AddStep ==
  ASSUME IDAssumption, IInv, NEW c \in Callers, Add(c)
  PROVE  SeedInv'
<1> DEFINE n == Len(issued)
<1>0. /\ n \in Nat
      /\ counter \in MinInt..MaxInt
      /\ counter' = WrapAdd(counter)
      /\ Len(issued') = n + 1
      /\ issued'[n + 1] = counter'
      /\ \A i \in 1..n : issued'[i] = issued[i]
  <2>1. counter' \in MinInt..MaxInt
    BY TypeStep DEF IInv, TypeOK, Next
  <2> QED
    BY <2>1 DEF IInv, TypeOK, Add
<1> HIDE DEF n
<1> SUFFICES ASSUME n + 1 <= MaxInt
             PROVE  \E s \in Seeds, w \in Restarts : Follows(s, w)'
  BY <1>0 DEF SeedInv, Restarts
<1>1. PICK s \in Seeds, w \in Restarts : Follows(s, w)
  BY <1>0, Widths DEF IInv, SeedInv, n
<1>2. s \in 0..MaxInt /\ w \in Int
  BY Widths DEF Restarts
<1>3. /\ \A i \in 1..n : issued'[i] = Id(s, w, i)
      /\ \/ counter = Id(s, w, n)
         \/ n = MaxInt - s /\ w = 0 /\ counter = 0
  BY <1>0, <1>1, Widths DEF Follows, n
<1>4. SUFFICES ASSUME NEW v \in Restarts,
                      \A i \in 1..n : Id(s, v, i) = Id(s, w, i),
                      counter' = Id(s, v, n + 1)
               PROVE  Follows(s, v)'
  <2>1. CASE counter = MaxInt
    <3>1. n = MaxInt - s
      BY <1>0, <1>2, <1>3, <2>1, Widths DEF Id, Restarts
    <3>2. counter' = Id(s, MinInt - 1, n + 1)
      BY <1>0, <1>2, <2>1, <3>1, Widths DEF Id, WrapAdd
    <3>3. \A i \in 1..n : Id(s, MinInt - 1, i) = Id(s, w, i)
      BY <1>0, <1>2, <3>1, Widths DEF Id
    <3> QED
      BY <1>4, <3>2, <3>3 DEF Restarts
  <2>2. CASE counter # MaxInt
    <3>0. MaxInt \in Nat /\ counter \in Int /\ counter' = counter + 1
      BY <1>0, <2>2, Widths DEF WrapAdd
    <3>1. counter' = Id(s, w, n + 1)
      <4>1. CASE counter = Id(s, w, n)
        BY <1>0, <1>2, <2>2, <3>0, <4>1 DEF Id
      <4>2. CASE n = MaxInt - s /\ w = 0 /\ counter = 0
        BY <1>0, <1>2, <3>0, <4>2 DEF Id
      <4> QED
        BY <1>3, <4>1, <4>2
    <3> QED
      BY <1>4, <3>1
  <2> QED
    BY <2>1, <2>2
<1>5. \A i \in 1..(n + 1) : issued'[i] = Id(s, v, i)
  BY <1>0, <1>3, <1>4
<1> QED
  BY <1>0, <1>4, <1>5 DEF Follows

\* Every step keeps the invariant.
LEMMA NextIInv ==
  ASSUME IDAssumption
  PROVE  IInv /\ [Next]_vars => IInv'
<1> SUFFICES ASSUME IInv, [Next]_vars PROVE IInv'
  OBVIOUS
<1>1. TypeOK'
  BY TypeStep DEF IInv
<1>2. ASSUME NEW c \in Callers, CompareAndSwap(c) PROVE SeedInv'
  BY <1>2, CompareAndSwapStep
<1>3. ASSUME NEW c \in Callers, Add(c) PROVE SeedInv'
  BY <1>3, AddStep
<1>4. ASSUME UNCHANGED vars PROVE SeedInv'
  BY <1>4 DEF vars, IInv, SeedInv, Follows
<1> QED
  BY <1>1, <1>2, <1>3, <1>4 DEF Next, IInv

\* The invariant of the generator holds in every reachable state.
THEOREM Invariant ==
  ASSUME IDAssumption
  PROVE  Spec => []IInv
<1>1. Init => IInv
  BY InitIInv
<1>2. IInv /\ [Next]_vars => IInv'
  BY NextIInv
<1> QED
  BY <1>1, <1>2, PTL DEF Spec

\* No two calls of Generate return the same identifier until MaxInt have
\* been returned, whichever caller meets the wrap-around and however it is
\* raced.  One more identifier may repeat the first.
THEOREM IdsAreDistinct ==
  ASSUME IDAssumption
  PROVE  Spec => [](Len(issued) <= MaxInt => IdsDistinct)
<1>1. ASSUME IInv, Len(issued) <= MaxInt PROVE IdsDistinct
  <2>1. PICK s \in Seeds, w \in Restarts : Follows(s, w)
    BY <1>1 DEF IInv, SeedInv
  <2>2. s \in 0..MaxInt /\ Len(issued) \in Nat
    BY <1>1, Widths DEF IInv, TypeOK
  <2>3. ASSUME NEW i \in 1..Len(issued), NEW j \in 1..Len(issued),
               Id(s, w, i) = Id(s, w, j)
        PROVE  i = j
    BY <1>1, <2>2, <2>3, Widths DEF Id, Restarts
  <2>4. DOMAIN issued = 1..Len(issued)
    BY <1>1 DEF IInv, TypeOK
  <2>5. \A i, j \in 1..Len(issued) : issued[i] = issued[j] => i = j
    BY <2>1, <2>3 DEF Follows
  <2> QED
    BY <2>4, <2>5 DEF IdsDistinct, IsInjective
<1>2. Spec => []IInv
  BY Invariant
<1> QED
  BY <1>1, <1>2, PTL

=============================================================================
