----------------------------- MODULE DurableLog -----------------------------
(***************************************************************************)
(* What the storage engine promises for writes, without batches, channels, *)
(* files or a flusher.  There is a durable log that only grows, by groups  *)
(* of records.  A write is in doubt from its request to its verdict;       *)
(* meanwhile its record may enter the log, once.  The verdict ok is given  *)
(* only to a record that is in the log, the verdict err says nothing.  A   *)
(* process that ends forgets everything but the log, and leaves each write *)
(* in doubt in or out.                                                     *)
(***************************************************************************)
EXTENDS Sequences, SequencesExt

CONSTANTS
  Clients,    \* who writes, one write at a time
  Records,    \* the records of all writes
  None        \* no write, and not a record

VARIABLES
  log,        \* the durable log: groups of records, in order
  pend,       \* the write of each client
  verdict,    \* its verdict: none, ok or err
  acked       \* the writes whose clients were told ok

vars == <<log, pend, verdict, acked>>

TypeOK ==
  /\ log \in Seq(Seq(Records))
  /\ pend \in [Clients -> Records \cup {None}]
  /\ verdict \in [Clients -> {"none", "ok", "err"}]
  /\ acked \subseteq Records

Init ==
  /\ log = <<>>
  /\ pend = [c \in Clients |-> None]
  /\ verdict = [c \in Clients |-> "none"]
  /\ acked = {}

\* The records in the log.
Logged == UNION {ToSet(log[i]) : i \in DOMAIN log}

Undecided == {c \in Clients : pend[c] # None /\ verdict[c] = "none"}

InDoubt == {pend[c] : c \in Undecided} \ Logged

\* A request, with a record of its own.
Begin(c, r) ==
  /\ pend[c] = None
  /\ r \notin Logged
  /\ \A d \in Clients : pend[d] # r
  /\ pend' = [pend EXCEPT ![c] = r]
  /\ UNCHANGED <<log, verdict, acked>>

\* Some of the writes in doubt enter the log together, perhaps none.
Extend == \E s \in SetToAllKPermutations(InDoubt) : log' = Append(log, s)

Commit ==
  /\ Extend
  /\ UNCHANGED <<pend, verdict, acked>>

\* The writes of the clients in C get their verdict.
Resolve(C, v) ==
  /\ v = "ok" => \A c \in C : pend[c] \in Logged
  /\ verdict' = [c \in Clients |-> IF c \in C THEN v ELSE verdict[c]]
  /\ UNCHANGED <<log, pend, acked>>

\* The client is told.
Answer(c) ==
  /\ verdict[c] # "none"
  /\ acked' = IF verdict[c] = "ok" THEN acked \cup {pend[c]} ELSE acked
  /\ pend' = [pend EXCEPT ![c] = None]
  /\ verdict' = [verdict EXCEPT ![c] = "none"]
  /\ UNCHANGED log

End ==
  /\ Extend \/ UNCHANGED log
  /\ pend' = [c \in Clients |-> None]
  /\ verdict' = [c \in Clients |-> "none"]
  /\ UNCHANGED acked

Next ==
  \/ \E c \in Clients : Answer(c) \/ \E r \in Records : Begin(c, r)
  \/ Commit
  \/ \E C \in SUBSET Undecided, v \in {"ok", "err"} : Resolve(C, v)
  \/ End

Spec == Init /\ [][Next]_vars

=============================================================================
