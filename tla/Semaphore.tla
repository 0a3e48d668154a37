----------------------------- MODULE Semaphore -----------------------------
(***************************************************************************)
(* concurrency.Semaphore, a counter under a mutex with a condition         *)
(* variable.  A thread that finds no free slot joins the list of waiters   *)
(* before it lets go of the mutex, so each critical section is one step.   *)
(* Signal takes the thread that has waited longest off the list, but that  *)
(* thread has to lock the mutex again, and others may do so first: this is *)
(* why Acquire tests the counter in a loop.                                *)
(***************************************************************************)
EXTENDS Integers, Sequences, FiniteSets

CONSTANTS
  Threads,    \* who acquires and releases
  Limit       \* Semaphore.max

ASSUME SemaphoreAssumption == Limit \in Nat \ {0}

VARIABLES
  count,      \* Semaphore.count
  waiters,    \* the threads in condition.Wait(), in the order they came
  spc         \* out, wait, woken (signalled, not yet running) or in

semVars == <<count, waiters, spc>>

Inside == {t \in Threads : spc[t] = "in"}
Woken == {t \in Threads : spc[t] = "woken"}

TypeOK ==
  /\ count \in Nat
  /\ waiters \in Seq(Threads)
  /\ spc \in [Threads -> {"out", "wait", "woken", "in"}]

Init ==
  /\ count = 0
  /\ waiters = <<>>
  /\ spc = [t \in Threads |-> "out"]

\* One turn of the loop in Acquire: take a slot, or wait.
TakeOrWait(t) ==
  \/ /\ count < Limit
     /\ count' = count + 1
     /\ spc' = [spc EXCEPT ![t] = "in"]
     /\ UNCHANGED waiters
  \/ /\ count >= Limit
     /\ waiters' = Append(waiters, t)
     /\ spc' = [spc EXCEPT ![t] = "wait"]
     /\ UNCHANGED count

Acquire(t) ==
  /\ spc[t] = "out"
  /\ TakeOrWait(t)

\* Mutant: Acquire tests the counter once, with an if.
WakeIf(t) ==
  /\ spc[t] = "woken"
  /\ count' = count + 1
  /\ spc' = [spc EXCEPT ![t] = "in"]
  /\ UNCHANGED waiters

\* Wait returns and the loop is entered again.
Wake(t) ==
  /\ spc[t] = "woken"
  /\ TakeOrWait(t)

\* Mutant: the last to come is the first to be signalled.
SignalLast(t) ==
  \/ /\ waiters = <<>>
     /\ spc' = [spc EXCEPT ![t] = "out"]
     /\ UNCHANGED waiters
  \/ /\ waiters # <<>>
     /\ spc' = [spc EXCEPT ![t] = "out", ![waiters[Len(waiters)]] = "woken"]
     /\ waiters' = SubSeq(waiters, 1, Len(waiters) - 1)

\* condition.Signal(), together with the end of t's hold on its slot.
Signal(t) ==
  \/ /\ waiters = <<>>
     /\ spc' = [spc EXCEPT ![t] = "out"]
     /\ UNCHANGED waiters
  \/ /\ waiters # <<>>
     /\ spc' = [spc EXCEPT ![t] = "out", ![Head(waiters)] = "woken"]
     /\ waiters' = Tail(waiters)

\* Mutant: signals only if the semaphore was full.
ReleaseIfFull(t) ==
  /\ spc[t] = "in"
  /\ count' = count - 1
  /\ IF count = Limit THEN Signal(t)
     ELSE spc' = [spc EXCEPT ![t] = "out"] /\ UNCHANGED waiters

\* Mutant: the slot is given back by a thread that does not hold one.
ReleaseTwice(t) ==
  /\ spc[t] \in {"in", "out"}
  /\ count' = count - 1
  /\ Signal(t)

Release(t) ==
  /\ spc[t] = "in"
  /\ count' = count - 1
  /\ Signal(t)

Next == \E t \in Threads : Acquire(t) \/ Wake(t) \/ Release(t)

Spec == Init /\ [][Next]_semVars

\* Threads run, and whoever holds a slot gives it back.
Fairness == \A t \in Threads : WF_semVars(Wake(t)) /\ WF_semVars(Release(t))

FairSpec == Spec /\ Fairness

-----------------------------------------------------------------------------
\* The semaphore admits at most limit holders, although a thread that was
\* signalled competes for its slot with threads that call Acquire.
HoldersBounded == Cardinality(Inside) <= Limit

\* Nobody sleeps beside a free slot: while threads wait, every slot is held
\* or there is a signalled thread on its way to it.
NoLostWakeup ==
  waiters # <<>> => count + Cardinality(Woken) >= Limit

\* Every thread in Wait is signalled in the end.  (It need not get a slot:
\* others may be faster each time, and it goes to the end of the list.)
WaitersSignalled ==
  \A t \in Threads : spc[t] = "wait" ~> spc[t] = "woken"

=============================================================================
