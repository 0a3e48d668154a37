---------------------------- MODULE IDGenerator ----------------------------
(***************************************************************************)
(* IDGenerator, the source of LSNs: a shared int64 that Generate changes   *)
(* in two atomic steps, a CompareAndSwap of the largest value by 0 and an  *)
(* Add of 1.  Go's integer addition wraps around in two's complement.      *)
(***************************************************************************)
EXTENDS Integers, Sequences, Functions

CONSTANTS
  Callers,    \* goroutines that call Generate
  MaxInt,     \* math.MaxInt64
  Seeds,      \* what NewIDGenerator is called with
  MaxCalls    \* bound: calls of Generate

MinInt == -MaxInt - 1

\* What the counter's type and NewIDGenerator's argument make of the constants.
IDAssumption ==
  /\ MaxInt \in Nat \ {0}
  /\ Seeds \subseteq 0..MaxInt
  /\ MaxCalls \in Nat

VARIABLES
  counter,    \* IDGenerator.counter
  pc,         \* where each caller is: before the CAS, or before the Add
  issued      \* history: the identifiers returned, in the order of the Adds

vars == <<counter, pc, issued>>

TypeOK ==
  /\ counter \in MinInt..MaxInt
  /\ pc \in [Callers -> {"cas", "add"}]
  /\ issued \in Seq(MinInt..MaxInt)

Init ==
  /\ counter \in Seeds
  /\ pc = [c \in Callers |-> "cas"]
  /\ issued = <<>>

\* counter.CompareAndSwap(math.MaxInt64, 0)
CompareAndSwap(c) ==
  /\ pc[c] = "cas"
  /\ Len(issued) < MaxCalls
  /\ counter' = IF counter = MaxInt THEN 0 ELSE counter
  /\ pc' = [pc EXCEPT ![c] = "add"]
  /\ UNCHANGED issued

\* Addition in two's complement.
WrapAdd(n) == IF n = MaxInt THEN MinInt ELSE n + 1

\* return counter.Add(1)
Add(c) ==
  /\ pc[c] = "add"
  /\ counter' = WrapAdd(counter)
  /\ issued' = Append(issued, counter')
  /\ pc' = [pc EXCEPT ![c] = "cas"]

Next == \E c \in Callers : CompareAndSwap(c) \/ Add(c)

Spec == Init /\ [][Next]_vars

-----------------------------------------------------------------------------
\* Concurrent callers never get the same LSN, through the wrap-around and
\* through the race in it, as long as there are fewer calls than LSNs: see
\* IDGeneratorProofs.
IdsDistinct == IsInjective(issued)

\* The counter goes back to 1 after its largest value, so that no LSN is
\* negative: what the comment on IDGenerator says of Generate.
IdsNonNegative == \A i \in DOMAIN issued : issued[i] >= 0

=============================================================================
