----------------------------- MODULE WalRefines -----------------------------
(***************************************************************************)
(* Wal as an implementation of DurableLog: the durable log is what the     *)
(* segment files hold in streams that are synced.                          *)
(***************************************************************************)
EXTENDS Wal

\* The last stream is written, and not yet synced.
UnsyncedTail == fpc = "sync"

\* The records of the streams that no crash can change any more, a group for
\* each stream.  Bytes that do not decode hold none.
SyncedLog ==
  [i \in 1..(Len(disk) - IF UnsyncedTail THEN 1 ELSE 0) |->
     IF disk[i].whole THEN disk[i].recs ELSE <<>>]

Durable == INSTANCE DurableLog
  WITH Records <- [run : 1..MaxRuns, lsn : 1..MaxLSN,
                   cmd : {CommandSetID, CommandDelID},
                   key : Keys, val : Values \cup {Absent}],
       log <- SyncedLog,
       pend <- req,
       verdict <- promise,
       acked <- {a.rec : a \in acked}

\* The engine is a durable log: whatever handlers, flusher, crashes, failed
\* writes and restarts do, a record enters the synced streams once and while
\* its write is in doubt, never leaves, and is acknowledged only from there.
ImplementsDurableLog == Durable!Spec

=============================================================================
