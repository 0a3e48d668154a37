-------------------------- MODULE SemaphoreProofs --------------------------
(***************************************************************************)
(* The semaphore admits at most Limit holders and loses no wake-up, for    *)
(* any set of threads and any limit.                                       *)
(***************************************************************************)
EXTENDS Semaphore, FiniteSetTheorems, SequenceTheorems, TLAPS

\* The counter is the number of holders.
CountInv ==
  /\ IsFiniteSet(Inside)
  /\ count = Cardinality(Inside)
  /\ count <= Limit

\* The list of waiters holds only threads in Wait, each once.
WaitersInv ==
  /\ \A i \in 1..Len(waiters) : spc[waiters[i]] = "wait"
  /\ \A i, j \in 1..Len(waiters) : waiters[i] = waiters[j] => i = j

\* NoLostWakeup, with what its cardinality needs.
WakeupInv == IsFiniteSet(Woken) /\ NoLostWakeup

IInv == TypeOK /\ CountInv /\ WaitersInv /\ WakeupInv

\* Init: nobody holds, waits or is woken.
LEMMA InitIInv == Init => IInv
<1> SUFFICES ASSUME Init PROVE IInv
  OBVIOUS
<1>1. TypeOK
  BY DEF Init, TypeOK
<1>2. Inside = {} /\ Woken = {}
  BY DEF Init, Inside, Woken
<1>3. CountInv
  BY <1>2, FS_EmptySet, SemaphoreAssumption DEF Init, CountInv
<1>4. WaitersInv
  BY DEF Init, WaitersInv
<1>5. WakeupInv
  BY <1>2, FS_EmptySet DEF Init, WakeupInv, NoLostWakeup
<1> QED
  BY <1>1, <1>3, <1>4, <1>5 DEF IInv

\* A turn of the loop in Acquire by a thread that neither holds nor waits.
LEMMA TakeOrWaitStep ==
  ASSUME IInv, NEW t \in Threads, spc[t] \in {"out", "woken"}, TakeOrWait(t)
  PROVE  IInv'
<1> USE DEF IInv
<1> DEFINE W == IF spc[t] = "woken" THEN Woken \ {t} ELSE Woken
<1>0. \A i \in 1..Len(waiters) : waiters[i] \in Threads /\ waiters[i] # t
  BY DEF TypeOK, WaitersInv
<1>1. /\ IsFiniteSet(W)
      /\ Cardinality(W) \in Nat
      /\ Cardinality(Woken) \in Nat
      /\ Cardinality(Woken) <= Cardinality(W) + 1
  <2>1. CASE spc[t] = "woken"
    <3>1. IsFiniteSet(Woken) /\ t \in Woken
      BY <2>1 DEF WakeupInv, Woken
    <3>2. /\ IsFiniteSet(Woken \ {t})
          /\ Cardinality(Woken \ {t}) = Cardinality(Woken) - 1
      BY <3>1, FS_RemoveElement
    <3>3. Cardinality(Woken) \in Nat /\ Cardinality(Woken \ {t}) \in Nat
      BY <3>1, <3>2, FS_CardinalityType
    <3>4. W = Woken \ {t}
      BY <2>1
    <3> QED
      BY <3>2, <3>3, <3>4
  <2>2. CASE spc[t] # "woken"
    BY <2>2, FS_CardinalityType DEF WakeupInv
  <2> QED
    BY <2>1, <2>2
<1>2. CASE /\ count < Limit
           /\ count' = count + 1
           /\ spc' = [spc EXCEPT ![t] = "in"]
           /\ UNCHANGED waiters
  <2>1. TypeOK'
    BY <1>2 DEF TypeOK
  <2>2. Inside' = Inside \cup {t} /\ t \notin Inside /\ Woken' = W
    BY <1>2 DEF TypeOK, Inside, Woken
  <2>3. CountInv'
    BY <1>2, <2>2, FS_AddElement, SemaphoreAssumption DEF CountInv, TypeOK
  <2>4. WaitersInv'
    BY <1>0, <1>2 DEF TypeOK, WaitersInv
  <2>5. WakeupInv'
    BY <1>1, <1>2, <2>2, SemaphoreAssumption
      DEF WakeupInv, NoLostWakeup, TypeOK
  <2> QED
    BY <2>1, <2>3, <2>4, <2>5
<1>3. CASE /\ count >= Limit
           /\ waiters' = Append(waiters, t)
           /\ spc' = [spc EXCEPT ![t] = "wait"]
           /\ UNCHANGED count
  <2>1. TypeOK'
    BY <1>3 DEF TypeOK
  <2>2. Inside' = Inside /\ Woken' = W
    BY <1>3 DEF TypeOK, Inside, Woken
  <2>3. CountInv'
    BY <1>3, <2>2 DEF CountInv
  <2>4. WaitersInv'
    <3>1. /\ Len(waiters') = Len(waiters) + 1
          /\ waiters'[Len(waiters) + 1] = t
          /\ \A i \in 1..Len(waiters) : waiters'[i] = waiters[i]
      BY <1>3 DEF TypeOK
    <3>2. Len(waiters) \in Nat
      BY DEF TypeOK
    <3>3. \A i \in 1..Len(waiters') : spc'[waiters'[i]] = "wait"
      BY <1>0, <1>3, <3>1, <3>2 DEF TypeOK, WaitersInv
    <3>4. \A i, j \in 1..Len(waiters') : waiters'[i] = waiters'[j] => i = j
      BY <1>0, <3>1, <3>2 DEF WaitersInv
    <3> QED
      BY <3>3, <3>4 DEF WaitersInv
  <2>5. WakeupInv'
    BY <1>1, <1>3, <2>2, SemaphoreAssumption
      DEF WakeupInv, NoLostWakeup, TypeOK
  <2> QED
    BY <2>1, <2>3, <2>4, <2>5
<1> QED
  BY <1>2, <1>3 DEF TakeOrWait

\* Release: one holder less, and one waiter more on its way, if there is one.
LEMMA ReleaseStep ==
  ASSUME IInv, NEW t \in Threads, Release(t)
  PROVE  IInv'
<1> USE DEF IInv
<1>0. spc[t] = "in" /\ count' = count - 1 /\ t \in Inside
  BY DEF Release, Inside
<1>1. /\ IsFiniteSet(Inside \ {t})
      /\ Cardinality(Inside \ {t}) = count - 1
      /\ count - 1 \in Nat
  <2>1. IsFiniteSet(Inside) /\ count = Cardinality(Inside)
    BY DEF CountInv
  <2>2. IsFiniteSet(Inside \ {t}) /\ Cardinality(Inside \ {t}) = count - 1
    BY <1>0, <2>1, FS_RemoveElement
  <2> QED
    BY <2>2, FS_CardinalityType
<1>2. CASE /\ waiters = <<>>
           /\ spc' = [spc EXCEPT ![t] = "out"]
           /\ UNCHANGED waiters
  <2>1. TypeOK'
    BY <1>0, <1>1, <1>2 DEF TypeOK
  <2>2. Inside' = Inside \ {t} /\ Woken' = Woken
    BY <1>0, <1>2 DEF TypeOK, Inside, Woken
  <2>3. CountInv'
    BY <1>0, <1>1, <2>2, SemaphoreAssumption DEF CountInv, TypeOK
  <2>4. WaitersInv'
    BY <1>2 DEF WaitersInv
  <2>5. WakeupInv'
    BY <1>2, <2>2 DEF WakeupInv, NoLostWakeup
  <2> QED
    BY <2>1, <2>3, <2>4, <2>5
<1>3. CASE /\ waiters # <<>>
           /\ spc' = [spc EXCEPT ![t] = "out", ![Head(waiters)] = "woken"]
           /\ waiters' = Tail(waiters)
  <2> DEFINE h == Head(waiters)
  <2>0. /\ h \in Threads
        /\ h = waiters[1]
        /\ Len(waiters) \in Nat \ {0}
        /\ Tail(waiters) \in Seq(Threads)
        /\ Len(Tail(waiters)) = Len(waiters) - 1
        /\ \A i \in 1..(Len(waiters) - 1) : Tail(waiters)[i] = waiters[i + 1]
    BY <1>3, HeadTailProperties DEF TypeOK
  <2>1. spc[h] = "wait" /\ h # t
    BY <1>0, <2>0 DEF WaitersInv
  <2>2. TypeOK'
    BY <1>0, <1>1, <1>3, <2>0 DEF TypeOK
  <2>3. Inside' = Inside \ {t} /\ Woken' = Woken \cup {h} /\ h \notin Woken
    BY <1>0, <1>3, <2>0, <2>1 DEF TypeOK, Inside, Woken
  <2>4. CountInv'
    BY <1>0, <1>1, <2>3, SemaphoreAssumption DEF CountInv, TypeOK
  <2>5. WaitersInv'
    <3>1. \A i \in 1..Len(waiters') :
            /\ i + 1 \in 1..Len(waiters)
            /\ waiters'[i] = waiters[i + 1]
            /\ waiters[i + 1] \in Threads
            /\ waiters[i + 1] # h
      BY <1>3, <2>0 DEF TypeOK, WaitersInv
    <3>2. \A i \in 1..Len(waiters') : spc'[waiters'[i]] = "wait"
      BY <1>0, <1>3, <3>1 DEF TypeOK, WaitersInv
    <3>3. \A i, j \in 1..Len(waiters') : waiters'[i] = waiters'[j] => i = j
      BY <1>3, <2>0, <3>1 DEF WaitersInv
    <3> QED
      BY <3>2, <3>3 DEF WaitersInv
  <2>6. WakeupInv'
    <3>1. /\ IsFiniteSet(Woken')
          /\ Cardinality(Woken') = Cardinality(Woken) + 1
          /\ Cardinality(Woken) \in Nat
      BY <2>3, FS_AddElement, FS_CardinalityType DEF WakeupInv
    <3>2. count + Cardinality(Woken) >= Limit
      BY <1>3 DEF WakeupInv, NoLostWakeup
    <3> QED
      BY <1>0, <1>1, <3>1, <3>2, SemaphoreAssumption
        DEF WakeupInv, NoLostWakeup, TypeOK
  <2> QED
    BY <2>2, <2>4, <2>5, <2>6
<1> QED
  BY <1>2, <1>3 DEF Release, Signal

\* Every step keeps the invariant.
LEMMA NextIInv == IInv /\ [Next]_semVars => IInv'
<1> SUFFICES ASSUME IInv, [Next]_semVars PROVE IInv'
  OBVIOUS
<1>1. ASSUME NEW t \in Threads, Acquire(t) PROVE IInv'
  BY <1>1, TakeOrWaitStep DEF Acquire
<1>2. ASSUME NEW t \in Threads, Wake(t) PROVE IInv'
  BY <1>2, TakeOrWaitStep DEF Wake
<1>3. ASSUME NEW t \in Threads, Release(t) PROVE IInv'
  BY <1>3, ReleaseStep
<1>4. CASE UNCHANGED semVars
  BY <1>4 DEF semVars, IInv, TypeOK, CountInv, WaitersInv, WakeupInv,
    NoLostWakeup, Inside, Woken
<1> QED
  BY <1>1, <1>2, <1>3, <1>4 DEF Next

\* The invariant of the semaphore holds in every reachable state.
THEOREM Invariant == Spec => []IInv
<1> QED
  BY InitIInv, NextIInv, PTL DEF Spec

\* Acquire admits at most max goroutines, for any number of them.
THEOREM SemaphoreBound == Spec => []HoldersBounded
<1>1. IInv => HoldersBounded
  BY DEF IInv, CountInv, HoldersBounded
<1> QED
  BY <1>1, Invariant, PTL

\* Release never leaves a waiter asleep beside a free slot.
THEOREM WakeupsAreKept == Spec => []NoLostWakeup
<1>1. IInv => NoLostWakeup
  BY DEF IInv, WakeupInv
<1> QED
  BY <1>1, Invariant, PTL

\* The counter, the list and the states keep their types: Release never
\* takes the counter below 0.
THEOREM TypeCorrect == Spec => []TypeOK
<1>1. IInv => TypeOK
  BY DEF IInv
<1> QED
  BY <1>1, Invariant, PTL

=============================================================================
