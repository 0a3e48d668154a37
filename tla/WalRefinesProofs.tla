-------------------------- MODULE WalRefinesProofs --------------------------
(***************************************************************************)
(* The proof that Wal implements DurableLog, for any number of handlers,   *)
(* batches, segments, processes and any set of failures.                   *)
(***************************************************************************)
EXTENDS WalRefines, WalProofs

-----------------------------------------------------------------------------
(***************************************************************************)
(* The durable log.                                                        *)
(***************************************************************************)

\* The records that Recovery gets from a stream.
Group(s) == IF s.whole THEN s.recs ELSE <<>>

\* The number of streams that no crash can change.
SyncedLen == Len(disk) - IF UnsyncedTail THEN 1 ELSE 0

\* The durable log, stream by stream.
LEMMA SyncedLogFacts ==
  ASSUME TypeOK, WrittenInv
  PROVE  /\ SyncedLen \in Nat /\ SyncedLen <= Len(disk)
         /\ SyncedLog \in Seq(Seq(Log))
         /\ Len(SyncedLog) = SyncedLen
         /\ \A i \in 1..SyncedLen : SyncedLog[i] = Group(disk[i])
<1>1. /\ disk \in Seq(Stream) /\ Len(disk) \in Nat
      /\ SyncedLen \in Nat /\ SyncedLen <= Len(disk)
  BY DEF TypeOK, WrittenInv, SyncedLen, UnsyncedTail
<1>2. SyncedLog = [i \in 1..SyncedLen |-> Group(disk[i])]
  BY DEF SyncedLog, SyncedLen, Group
<1> HIDE DEF SyncedLen
<1>3. ASSUME NEW i \in 1..SyncedLen
      PROVE  Group(disk[i]) \in Seq(Log)
  <2>1. disk[i] \in Stream
    BY <1>1
  <2> QED
    BY <2>1 DEF Group, Stream
<1>4. SyncedLog \in Seq(Seq(Log))
  BY <1>1, <1>2, <1>3
<1>5. Len(SyncedLog) = SyncedLen
  BY <1>1, <1>2, <1>4
<1> QED
  BY <1>1, <1>2, <1>4, <1>5

\* Whatever is synced is in the durable log, and nothing else.
LEMMA LoggedRecords ==
  ASSUME TypeOK, WrittenInv, NEW r
  PROVE  r \in Durable!Logged <=> Synced(r)
<1>1. /\ SyncedLen \in Nat /\ SyncedLen <= Len(disk)
      /\ SyncedLog \in Seq(Seq(Log)) /\ Len(SyncedLog) = SyncedLen
      /\ \A i \in 1..SyncedLen : SyncedLog[i] = Group(disk[i])
  BY SyncedLogFacts
<1>2. DOMAIN SyncedLog = 1..SyncedLen
  BY <1>1
<1>3. r \in Durable!Logged <=> \E i \in 1..SyncedLen : r \in ToSet(SyncedLog[i])
  BY <1>2 DEF Durable!Logged, Durable!ToSet, ToSet
<1>4. ASSUME NEW i \in 1..SyncedLen
      PROVE  /\ i \in DOMAIN disk /\ (fpc = "sync" => i # Len(disk))
             /\ r \in ToSet(SyncedLog[i]) <=> Holds(i, r)
  <2>1. i \in DOMAIN disk /\ (fpc = "sync" => i # Len(disk))
    BY <1>1 DEF TypeOK, SyncedLen, UnsyncedTail
  <2>2. SyncedLog[i] = Group(disk[i])
    BY <1>1
  <2> QED
    BY <2>1, <2>2 DEF Holds, Group, ToSet
<1>5. ASSUME NEW i \in DOMAIN disk, fpc = "sync" => i # Len(disk)
      PROVE  i \in 1..SyncedLen
  BY <1>5 DEF TypeOK, SyncedLen, UnsyncedTail
<1> QED
  BY <1>3, <1>4, <1>5 DEF Synced

\* The durable log after a step.
LEMMA SyncedLogStep ==
  ASSUME TypeOK, TypeOK', WrittenInv, WrittenInv',
         \A i \in 1..SyncedLen : disk'[i] = disk[i]
  PROVE  /\ SyncedLen' = SyncedLen => SyncedLog' = SyncedLog
         /\ SyncedLen' = SyncedLen + 1 =>
              SyncedLog' = Append(SyncedLog, Group(disk'[SyncedLen + 1]))
<1>1. /\ SyncedLen \in Nat /\ SyncedLog \in Seq(Seq(Log)) /\ Len(SyncedLog) = SyncedLen
      /\ \A i \in 1..SyncedLen : SyncedLog[i] = Group(disk[i])
  BY SyncedLogFacts
<1>2. /\ SyncedLen' \in Nat /\ SyncedLog' \in Seq(Seq(Log))
      /\ Len(SyncedLog') = SyncedLen'
      /\ \A i \in 1..SyncedLen' : SyncedLog'[i] = Group(disk'[i])
  <2>1. (TypeOK /\ WrittenInv =>
          /\ SyncedLen \in Nat /\ SyncedLog \in Seq(Seq(Log))
          /\ Len(SyncedLog) = SyncedLen
          /\ \A i \in 1..SyncedLen : SyncedLog[i] = Group(disk[i]))'
    BY SyncedLogFacts, PTL
  <2> QED
    BY <2>1 DEF Group
<1> HIDE DEF SyncedLen, SyncedLog
<1>3. ASSUME SyncedLen' = SyncedLen
      PROVE  SyncedLog' = SyncedLog
  <2>1. \A i \in 1..SyncedLen : SyncedLog'[i] = SyncedLog[i]
    BY <1>1, <1>2, <1>3
  <2> QED
    BY <1>1, <1>2, <1>3, <2>1, SeqEqual
<1>4. ASSUME SyncedLen' = SyncedLen + 1
      PROVE  SyncedLog' = Append(SyncedLog, Group(disk'[SyncedLen + 1]))
  <2> DEFINE g == Group(disk'[SyncedLen + 1])
  <2>1. SyncedLog'[SyncedLen + 1] = g
    BY <1>1, <1>2, <1>4
  <2>2. g \in Seq(Log)
    BY <1>1, <1>2, <1>4, <2>1
  <2>3. \A i \in 1..SyncedLen : SyncedLog'[i] = SyncedLog[i]
    BY <1>1, <1>2, <1>4
  <2> HIDE DEF g
  <2>4. /\ Append(SyncedLog, g) \in Seq(Seq(Log))
        /\ Len(Append(SyncedLog, g)) = SyncedLen + 1
        /\ Append(SyncedLog, g)[SyncedLen + 1] = g
        /\ \A i \in 1..SyncedLen : Append(SyncedLog, g)[i] = SyncedLog[i]
    BY <1>1, <2>2
  <2>5. \A i \in 1..(SyncedLen + 1) : SyncedLog'[i] = Append(SyncedLog, g)[i]
    BY <1>1, <2>1, <2>3, <2>4
  <2>6. SyncedLog' = Append(SyncedLog, g)
    BY <1>1, <1>2, <1>4, <2>4, <2>5, SeqEqual
  <2> QED
    BY <2>6 DEF g
<1> QED
  BY <1>3, <1>4

\* A sequence without repetitions is a permutation of what it holds.
LEMMA Permutation ==
  ASSUME NEW S, NEW s \in Seq(S),
         \A p, q \in DOMAIN s : s[p] = s[q] => p = q
  PROVE  s \in Durable!SetToAllKPermutations(S)
<1> DEFINE n == Len(s)
           T == {s[p] : p \in 1..n}
<1>1. n \in Nat /\ DOMAIN s = 1..n /\ T \in SUBSET S
  OBVIOUS
<1>2. s \in [1..n -> T]
  <2>1. s = [p \in 1..n |-> s[p]]
    OBVIOUS
  <2> HIDE DEF n
  <2> QED
    BY <2>1
<1>3. s \in Bijection(1..n, T)
  BY <1>1, <1>2 DEF Bijection, Injection, Surjection, IsInjective
<1>4. Cardinality(T) = n
  BY <1>1, <1>3, FS_CountingElements DEF ExistsBijection
<1>5. Durable!Cardinality(T) = Cardinality(T)
  BY DEF Durable!Cardinality, Cardinality
<1>6. s \in Durable!SetToSeqs(T)
  BY <1>1, <1>2, <1>4, <1>5 DEF Durable!SetToSeqs
<1> QED
  BY <1>1, <1>6 DEF Durable!SetToAllKPermutations

\* What an interrupted or finished flush leaves of its batch was in doubt.
LEMMA GroupInDoubt ==
  ASSUME TypeOK, RequestInv, WrittenInv, IdleInv, OwnInv, QueueInv, OnceInv,
         fpc \in {"write", "sync"}, NEW s \in Stream,
         \A p \in DOMAIN s.recs : p \in DOMAIN fbatch /\ s.recs[p] = fbatch[p]
  PROVE  Group(s) \in Durable!SetToAllKPermutations(Durable!InDoubt)
<1> DEFINE g == Group(s)
<1>1. g \in Seq(Log) /\ \A p \in DOMAIN g : p \in DOMAIN fbatch /\ g[p] = fbatch[p]
  BY DEF Group, Stream
<1> HIDE DEF g
<1>2. \A p, q \in DOMAIN fbatch : fbatch[p] = fbatch[q] => p = q
  <2>1. \A q \in DOMAIN fbatch : At(<<"flush", 0>>, q, fbatch[q])
    BY InFlightKinds DEF At, Flushing
  <2> QED
    BY <2>1, QueueAt
<1>3. ASSUME NEW p \in DOMAIN g
      PROVE  g[p] \in Durable!InDoubt
  <2>1. p \in DOMAIN fbatch /\ g[p] = fbatch[p] /\ g[p] \in ToSet(fbatch)
    BY <1>1 DEF ToSet
  <2>2. PICK c \in Clients : Pending(c) /\ req[c] = g[p]
    BY <2>1, FlushPending DEF Flushing
  <2>3. c \in Durable!Undecided
    BY <2>2, WalAssumption DEF Pending, RequestInv, Durable!Undecided
  <2>4. ~Synced(g[p])
    <3> SUFFICES ASSUME NEW i \in DOMAIN disk, Holds(i, g[p]),
                        fpc = "sync" => i # Len(disk)
                 PROVE  FALSE
      BY DEF Synced
    <3>1. PICK q : InLog(i, q, g[p])
      BY DEF Holds, InLog, ToSet
    <3>2. CASE fpc = "write"
      BY <2>1, <3>1, <3>2, WritesPending
    <3>3. CASE fpc = "sync"
      <4>1. InLog(Len(disk), p, g[p])
        BY <2>1, <3>3 DEF WrittenInv, InLog, TypeOK
      <4> QED
        BY <3>1, <3>3, <4>1, OnceAt
    <3> QED
      BY <3>2, <3>3
  <2>5. g[p] \notin Durable!Logged
    BY <2>4, LoggedRecords
  <2> QED
    BY <2>2, <2>3, <2>5 DEF Durable!InDoubt
<1>4. g \in Seq(Durable!InDoubt)
  BY <1>1, <1>3
<1>5. \A p, q \in DOMAIN g : g[p] = g[q] => p = q
  BY <1>1, <1>2
<1>6. g \in Durable!SetToAllKPermutations(Durable!InDoubt)
  BY <1>4, <1>5, Permutation
<1> QED
  BY <1>6 DEF g

\* The record of a request is nobody's, and not in the log.
LEMMA FreshRequest ==
  ASSUME TypeOK, RequestInv, WrittenInv, IdleInv, OwnInv, OnceInv,
         mode = "serving", NEW r \in Log, r.run = run, r.lsn = currentLSN + 1
  PROVE  /\ r \notin Durable!Logged
         /\ \A d \in Clients : req[d] # r
<1>1. ~Known(r)
  BY DEF Known, TypeOK
<1>2. ~Synced(r)
  BY <1>1, OnceAt DEF Synced, Holds, InLog, ToSet
<1>3. ASSUME NEW d \in Clients, req[d] = r
      PROVE  FALSE
  <2>1. CASE pc[d] = "idle"
    BY <1>3, <2>1, WalAssumption DEF RequestInv
  <2>2. CASE pc[d] # "idle"
    BY <1>3, <2>2 DEF OwnInv, TypeOK
  <2> QED
    BY <2>1, <2>2
<1> QED
  BY <1>2, <1>3, LoggedRecords

-----------------------------------------------------------------------------
(***************************************************************************)
(* The steps of Wal are steps of DurableLog.                               *)
(***************************************************************************)

\* A step that writes, syncs or fails to: the log grows by the stream, or not.
LEMMA CommitStep ==
  ASSUME LogInv, LogInv', Next, WriteOk \/ WriteFails \/ SyncOk \/ SyncFails
  PROVE  Durable!Commit \/ UNCHANGED Durable!vars
<1> USE DEF serverVars, fileVars, tableVars, batchVars, clientVars,
            flusherVars, history
<1>1. /\ TypeOK /\ RequestInv /\ WrittenInv /\ IdleInv /\ OwnInv /\ QueueInv
      /\ OnceInv /\ TypeOK' /\ WrittenInv'
  BY DEF LogInv, IInv, QueueInv
<1>2. /\ disk \in Seq(Stream) /\ disk' \in Seq(Stream)
      /\ Len(disk) \in Nat /\ DOMAIN disk = 1..Len(disk) /\ DOMAIN disk' = 1..Len(disk')
      /\ Len(disk') \in Nat
  BY <1>1 DEF TypeOK
<1>3. UNCHANGED <<req, promise, acked>>
  BY DEF WriteOk, WriteFails, SyncOk, SyncFails
<1>4. \A i \in 1..SyncedLen : i \in DOMAIN disk' /\ disk'[i] = disk[i]
  <2>1. \A i \in 1..SyncedLen : i \in DOMAIN disk /\ (fpc = "sync" => i # Len(disk))
    <3>1. SyncedLen \in Nat /\ SyncedLen <= Len(disk)
      BY <1>1, SyncedLogFacts
    <3>2. fpc = "sync" => SyncedLen = Len(disk) - 1
      BY DEF SyncedLen, UnsyncedTail
    <3> HIDE DEF SyncedLen
    <3>3. Len(disk) \in Nat
      BY <1>2
    <3>4. \A i \in 1..SyncedLen : i \in 1..Len(disk) /\ (fpc = "sync" => i # Len(disk))
      BY <3>1, <3>2, <3>3
    <3> QED
      BY <1>2, <3>4
  <2> QED
    BY <1>1, <2>1, DiskStep DEF DiskKept
<1>5. ASSUME SyncedLen' = SyncedLen
      PROVE  UNCHANGED Durable!vars
  <2>1. SyncedLog' = SyncedLog
    BY <1>1, <1>4, <1>5, SyncedLogStep
  <2> QED
    BY <1>3, <2>1 DEF Durable!vars
<1>6. ASSUME SyncedLen' = SyncedLen + 1, fpc \in {"write", "sync"},
             \A p \in DOMAIN disk'[SyncedLen + 1].recs :
               /\ p \in DOMAIN fbatch
               /\ disk'[SyncedLen + 1].recs[p] = fbatch[p]
      PROVE  Durable!Commit
  <2>1. SyncedLog' = Append(SyncedLog, Group(disk'[SyncedLen + 1]))
    BY <1>1, <1>4, <1>6, SyncedLogStep
  <2>2. disk'[SyncedLen + 1] \in Stream
    <3>1. SyncedLen' \in Nat /\ SyncedLen' <= Len(disk')
      BY <1>1, <1>2 DEF SyncedLen, UnsyncedTail, WrittenInv
    <3>2. SyncedLen \in Nat
      BY <1>1, SyncedLogFacts
    <3>3. SyncedLen + 1 \in DOMAIN disk'
      BY <1>2, <1>6, <3>1, <3>2
    <3> HIDE DEF SyncedLen
    <3> QED
      BY <1>2, <3>3
  <2>3. Group(disk'[SyncedLen + 1]) \in Durable!SetToAllKPermutations(Durable!InDoubt)
    BY <1>1, <1>6, <2>2, GroupInDoubt
  <2>4. Durable!Extend
    BY <2>1, <2>3 DEF Durable!Extend
  <2> QED
    BY <1>3, <2>4 DEF Durable!Commit
<1>7. CASE WriteOk
  <2>1. fpc = "write" /\ fpc' = "sync" /\ Len(disk') = Len(disk) + 1
    BY <1>1, <1>7 DEF WriteOk, Encoded, TypeOK, Stream
  <2> QED
    BY <1>2, <1>5, <2>1 DEF SyncedLen, UnsyncedTail
<1>8. CASE WriteFails
  <2>1. fpc = "write" /\ fpc' = "nack"
    BY <1>8 DEF WriteFails
  <2>2. CASE disk' = disk
    BY <1>5, <2>1, <2>2 DEF SyncedLen, UnsyncedTail
  <2>3. ASSUME NEW s \in Torn(Encoded), disk' = Append(disk, s)
        PROVE  Durable!Commit
    <3>1. Encoded \in Stream
      BY <1>1 DEF TypeOK, Encoded, Stream
    <3>2. s \in Stream /\ CutOf(s, Encoded)
      BY <3>1, TornCut
    <3>3. /\ SyncedLen = Len(disk) /\ SyncedLen' = SyncedLen + 1
          /\ disk'[SyncedLen + 1] = s
      BY <1>2, <2>1, <2>3, <3>2 DEF SyncedLen, UnsyncedTail
    <3> QED
      BY <1>6, <2>1, <3>2, <3>3 DEF CutOf, Encoded
  <2> QED
    BY <1>8, <2>2, <2>3 DEF WriteFails
<1>9. CASE SyncFails /\ disk' = Front(disk)
  <2>1. fpc = "sync" /\ fpc' = "nack"
    BY <1>9 DEF SyncFails
  <2>2. Len(disk) > 0
    BY <1>1, <2>1 DEF WrittenInv
  <2>3. Len(disk') = Len(disk) - 1
    BY <1>2, <1>9, <2>2, DropLast
  <2>4. SyncedLen' = SyncedLen
    BY <2>1, <2>3 DEF SyncedLen, UnsyncedTail
  <2> QED
    BY <1>5, <2>4
<1>10. CASE SyncOk \/ (SyncFails /\ disk' # Front(disk))
  <2>1. fpc = "sync" /\ fpc' \in {"ack", "nack"}
    BY <1>10 DEF SyncOk, SyncFails
  <2>2. Len(disk) > 0 /\ disk[Len(disk)].recs = fbatch
    BY <1>1, <2>1 DEF WrittenInv
  <2>3. Len(disk') = Len(disk) /\ Len(disk) \in DOMAIN disk'
    <3>1. CASE disk' = disk
      BY <1>2, <2>2, <3>1
    <3>2. ASSUME NEW s \in Torn(Last(disk)), disk' = Append(Front(disk), s)
          PROVE  Len(disk') = Len(disk) /\ Len(disk) \in DOMAIN disk'
      <4>1. Last(disk) \in Stream
        BY <1>2, <2>2 DEF Last
      <4>2. s \in Stream
        BY <4>1, TornCut
      <4>3. Len(disk') = Len(disk)
        BY <1>2, <2>2, <3>2, <4>2, ReplaceLast
      <4> QED
        BY <1>2, <2>2, <4>3
    <3> QED
      BY <1>10, <3>1, <3>2 DEF SyncOk, SyncFails
  <2>4. SyncedLen = Len(disk) - 1 /\ SyncedLen' = Len(disk)
    <3>1. SyncedLen = Len(disk) - 1
      BY <2>1 DEF SyncedLen, UnsyncedTail
    <3>2. fpc' # "sync"
      BY <2>1
    <3>3. SyncedLen' = Len(disk')
      BY <1>2, <3>2 DEF SyncedLen, UnsyncedTail
    <3> QED
      BY <2>3, <3>1, <3>3
  <2>5. CutOf(disk'[Len(disk)], disk[Len(disk)])
    <3>1. ~Written
      BY <2>1 DEF Written, WriteOk, WriteFails
    <3> QED
      BY <1>1, <2>3, <3>1, DiskGrowth
  <2>6. SyncedLen' = SyncedLen + 1 /\ SyncedLen + 1 = Len(disk)
    BY <1>2, <2>4
  <2> QED
    BY <1>6, <2>1, <2>2, <2>5, <2>6 DEF CutOf
<1> QED
  BY <1>7, <1>8, <1>9, <1>10

\* A step that leaves the log, the writes and the answers alone.
LEMMA StutterStep ==
  ASSUME LogInv, LogInv', UNCHANGED <<disk, req, promise, acked>>,
         fpc = "sync" <=> fpc' = "sync"
  PROVE  UNCHANGED Durable!vars
<1>1. SyncedLog' = SyncedLog
  BY DEF SyncedLog, UnsyncedTail
<1> QED
  BY <1>1 DEF Durable!vars

\* A process that ends leaves each write in the log or out of it.
LEMMA EndStep ==
  ASSUME LogInv, LogInv', Next, NEW m, Lose(m)
  PROVE  Durable!End
<1> USE DEF serverVars, fileVars, tableVars, batchVars, clientVars,
            flusherVars, history
<1>1. /\ TypeOK /\ RequestInv /\ WrittenInv /\ IdleInv /\ OwnInv /\ QueueInv
      /\ OnceInv /\ TypeOK' /\ WrittenInv'
  BY DEF LogInv, IInv, QueueInv
<1>2. /\ req' = [c \in Clients |-> None]
      /\ promise' = [c \in Clients |-> "none"]
      /\ acked' = acked /\ fpc' = "off"
  BY DEF Lose
<1>3. SyncedLen' = Len(disk') /\ Len(disk) \in Nat /\ Len(disk') \in Nat
  BY <1>1, <1>2 DEF SyncedLen, UnsyncedTail, TypeOK
<1>4. SyncedLen \in Nat /\ SyncedLen <= Len(disk)
  BY <1>1, SyncedLogFacts
<1>5. \A i \in 1..SyncedLen : disk'[i] = disk[i]
  <2>1. fpc = "sync" => SyncedLen = Len(disk) - 1
    BY DEF SyncedLen, UnsyncedTail
  <2> HIDE DEF SyncedLen
  <2>2. \A i \in 1..SyncedLen : i \in 1..Len(disk) /\ (fpc = "sync" => i # Len(disk))
    BY <1>3, <1>4, <2>1
  <2>3. DOMAIN disk = 1..Len(disk)
    BY <1>1 DEF TypeOK
  <2> QED
    BY <1>1, <2>2, <2>3, DiskStep DEF DiskKept
<1>6. ASSUME SyncedLog' = SyncedLog
      PROVE  Durable!End
  BY <1>2, <1>6 DEF Durable!End
<1>7. ASSUME fpc # "sync"
      PROVE  Durable!End
  <2>1. disk' = disk
    BY <1>7
       DEF Lose, IdleInv, Next, Boot, Crash, Shutdown, Exit, Recovery,
           RecoverDecode, RecoverApply, RecoverFinish, RecoverFails, Handler, Set,
           Del, Issue, push, Send, Respond, Get, Flusher, CheckCtx, SelectDone,
           SelectBatch, SelectTick, DrainBatch, DrainSeal, Receive, flushBatch,
           Rotate, RotateFails, WriteOk, WriteFails, SyncOk, SyncFails, NotifyOk,
           NotifyErr, ApplyRecord
  <2>2. SyncedLog' = SyncedLog
    BY <1>2, <1>7, <2>1 DEF SyncedLog, UnsyncedTail
  <2> QED
    BY <1>6, <2>2
<1>8. ASSUME fpc = "sync"
      PROVE  Durable!End
  <2>1. SyncedLen + 1 = Len(disk) /\ Len(disk) > 0 /\ disk[Len(disk)].recs = fbatch
    BY <1>1, <1>3, <1>8 DEF SyncedLen, UnsyncedTail, WrittenInv
  <2>2. Len(disk') \in {Len(disk) - 1, Len(disk)}
    <3>1. CASE disk' = disk
      BY <1>3, <3>1
    <3>2. CASE disk' = Front(disk)
      BY <1>1, <2>1, <3>2, DropLast DEF TypeOK
    <3>3. ASSUME NEW s \in Torn(Last(disk)), disk' = Append(Front(disk), s)
          PROVE  Len(disk') = Len(disk)
      <4>1. Last(disk) \in Stream
        BY <1>1, <2>1 DEF Last, TypeOK
      <4>2. s \in Stream
        BY <3>3, <4>1, TornCut
      <4> QED
        BY <1>1, <2>1, <3>3, <4>2, ReplaceLast DEF TypeOK
    <3>4. \/ disk' = disk \/ disk' = Front(disk)
          \/ \E s \in Torn(Last(disk)) : disk' = Append(Front(disk), s)
      BY <1>2, <1>8
         DEF Lose, IdleInv, Next, Boot, Crash, Shutdown, Exit, Recovery,
             RecoverDecode, RecoverApply, RecoverFinish, RecoverFails, Handler, Set,
             Del, Issue, push, Send, Respond, Get, Flusher, CheckCtx, SelectDone,
             SelectBatch, SelectTick, DrainBatch, DrainSeal, Receive, flushBatch,
             Rotate, RotateFails, WriteOk, WriteFails, SyncOk, SyncFails, NotifyOk,
             NotifyErr, ApplyRecord
    <3> QED
      BY <3>1, <3>2, <3>3, <3>4
  <2>3. CASE Len(disk') = Len(disk) - 1
    <3>1. SyncedLen' = SyncedLen
      BY <1>3, <1>4, <2>1, <2>3
    <3>2. SyncedLog' = SyncedLog
      BY <1>1, <1>5, <3>1, SyncedLogStep
    <3> QED
      BY <1>6, <3>2
  <2>4. CASE Len(disk') = Len(disk)
    <3>1. SyncedLen' = SyncedLen + 1
      BY <1>3, <2>1, <2>4
    <3>2. SyncedLog' = Append(SyncedLog, Group(disk'[Len(disk)]))
      <4>1. SyncedLog' = Append(SyncedLog, Group(disk'[SyncedLen + 1]))
        BY <1>1, <1>5, <3>1, SyncedLogStep
      <4> QED
        BY <2>1, <4>1
    <3>3. Len(disk) \in DOMAIN disk' /\ disk' \in Seq(Stream)
      <4>1. disk' \in Seq(Stream)
        BY <1>1 DEF TypeOK
      <4>2. DOMAIN disk' = 1..Len(disk')
        BY <4>1
      <4> QED
        BY <1>3, <2>1, <2>4, <4>1, <4>2
    <3>4. CutOf(disk'[Len(disk)], disk[Len(disk)])
      <4>1. ~Written
        BY <1>8 DEF Written, WriteOk, WriteFails
      <4> QED
        BY <1>1, <3>3, <4>1, DiskGrowth
    <3>5. disk'[Len(disk)] \in Stream
      BY <3>3
    <3>6. Group(disk'[Len(disk)]) \in Durable!SetToAllKPermutations(Durable!InDoubt)
      BY <1>1, <1>8, <2>1, <3>4, <3>5, GroupInDoubt DEF CutOf
    <3>7. Durable!Extend
      BY <3>2, <3>6 DEF Durable!Extend
    <3> QED
      BY <1>2, <3>7 DEF Durable!End
  <2> QED
    BY <2>2, <2>3, <2>4
<1> QED
  BY <1>7, <1>8

\* notification gives the writes of the batch their verdict.
LEMMA ResolveStep ==
  ASSUME LogInv, LogInv', NotifyOk \/ NotifyErr
  PROVE  \E C \in SUBSET Durable!Undecided, v \in {"ok", "err"} : Durable!Resolve(C, v)
<1> USE DEF serverVars, fileVars, tableVars, batchVars, clientVars,
            flusherVars, history
<1>1. /\ TypeOK /\ RequestInv /\ WrittenInv /\ DurableInv /\ IdleInv /\ OwnInv
      /\ QueueInv
  BY DEF LogInv, IInv, QueueInv
<1>2. PICK v \in {"ok", "err"} : notification(v) /\ (v = "ok" => fpc = "ack")
  BY DEF NotifyOk, NotifyErr
<1>3. /\ UNCHANGED <<disk, req, acked>> /\ Flushing /\ fpc # "sync" /\ fpc' # "sync"
  BY <1>1 DEF NotifyOk, NotifyErr, Flushing, TypeOK
<1>4. SyncedLog' = SyncedLog
  BY <1>3 DEF SyncedLog, UnsyncedTail
<1> DEFINE C == {c \in Clients : req[c] \in ToSet(fbatch)}
<1>5. C \in SUBSET Durable!Undecided
  <2> SUFFICES ASSUME NEW c \in Clients, req[c] \in ToSet(fbatch)
               PROVE  c \in Durable!Undecided
    OBVIOUS
  <2>1. PICK d \in Clients : Pending(d) /\ req[d] = req[c]
    BY <1>1, <1>3, FlushPending
  <2>2. d = c
    BY <1>1, <2>1 DEF OwnInv, Pending
  <2> QED
    BY <1>1, <2>1, <2>2, WalAssumption DEF Pending, RequestInv, Durable!Undecided
<1>6. v = "ok" => \A c \in C : req[c] \in Durable!Logged
  BY <1>1, <1>2, LoggedRecords DEF DurableInv
<1>7. promise' = [c \in Clients |-> IF c \in C THEN v ELSE promise[c]]
  BY <1>2 DEF notification
<1>8. Durable!Resolve(C, v)
  BY <1>3, <1>4, <1>6, <1>7 DEF Durable!Resolve
<1> QED
  BY <1>5, <1>8

\* Respond is the answer to the client.
LEMMA AnswerStep ==
  ASSUME LogInv, LogInv', NEW c \in Clients, Respond(c)
  PROVE  Durable!Answer(c)
<1> USE DEF serverVars, fileVars, tableVars, batchVars, clientVars,
            flusherVars, history
<1>1. TypeOK
  BY DEF LogInv, IInv
<1>2. /\ promise[c] # "none"
      /\ req' = [req EXCEPT ![c] = None]
      /\ promise' = [promise EXCEPT ![c] = "none"]
      /\ UNCHANGED <<disk, fpc>>
      /\ acked' = IF Reply(req[c], promise[c]) \in {"OK", "DELETED"}
                  THEN acked \cup {[rec |-> req[c], run |-> run, at |-> currentLSN]}
                  ELSE acked
  BY DEF Respond
<1>3. SyncedLog' = SyncedLog
  BY <1>2 DEF SyncedLog, UnsyncedTail
<1>4. Reply(req[c], promise[c]) \in {"OK", "DELETED"} <=> promise[c] = "ok"
  BY DEF Reply, handleSet, handleDel
<1>5. {a.rec : a \in acked'} =
        IF promise[c] = "ok" THEN {a.rec : a \in acked} \cup {req[c]}
        ELSE {a.rec : a \in acked}
  <2>1. CASE promise[c] = "ok"
    <3> DEFINE new == [rec |-> req[c], run |-> run, at |-> currentLSN]
    <3>1. acked' = acked \cup {new} /\ new.rec = req[c]
      BY <1>2, <1>4, <2>1
    <3> HIDE DEF new
    <3> QED
      BY <2>1, <3>1
  <2>2. CASE promise[c] # "ok"
    BY <1>2, <1>4, <2>2
  <2> QED
    BY <2>1, <2>2
<1> QED
  BY <1>2, <1>3, <1>5 DEF Durable!Answer

\* A request begins a write.
LEMMA BeginStep ==
  ASSUME LogInv, LogInv', NEW c \in Clients, NEW k \in Keys,
         NEW v \in Values \cup {Absent}, NEW cmd \in {CommandSetID, CommandDelID},
         Issue(c, cmd, k, v)
  PROVE  \E r \in [run : 1..MaxRuns, lsn : 1..MaxLSN,
                   cmd : {CommandSetID, CommandDelID},
                   key : Keys, val : Values \cup {Absent}] : Durable!Begin(c, r)
<1> USE DEF serverVars, fileVars, tableVars, batchVars, clientVars,
            flusherVars, history
<1>1. TypeOK /\ RequestInv /\ WrittenInv /\ IdleInv /\ OwnInv /\ OnceInv
  BY DEF LogInv, IInv
<1> DEFINE r == [run |-> run, lsn |-> currentLSN + 1, cmd |-> cmd, key |-> k, val |-> v]
<1>2. /\ mode = "serving" /\ pc[c] = "idle" /\ currentLSN < MaxLSN
      /\ req' = [req EXCEPT ![c] = r]
      /\ UNCHANGED <<disk, fpc, promise, acked>>
  BY DEF Issue
<1>3. SyncedLog' = SyncedLog
  BY <1>2 DEF SyncedLog, UnsyncedTail
<1>4. run \in 1..MaxRuns /\ currentLSN + 1 \in 1..MaxLSN
  BY <1>1, <1>2, WalAssumption DEF IdleInv, TypeOK
<1>5. r \in [run : 1..MaxRuns, lsn : 1..MaxLSN, cmd : {CommandSetID, CommandDelID},
             key : Keys, val : Values \cup {Absent}]
  BY <1>4
<1>6. r \in Log /\ r.run = run /\ r.lsn = currentLSN + 1
  BY <1>1 DEF Log, TypeOK
<1> HIDE DEF r
<1>7. r \notin Durable!Logged /\ \A d \in Clients : req[d] # r
  BY <1>1, <1>2, <1>6, FreshRequest
<1>8. req[c] = None
  BY <1>1, <1>2 DEF RequestInv
<1>9. Durable!Begin(c, r)
  BY <1>2, <1>3, <1>7, <1>8 DEF Durable!Begin
<1> QED
  BY <1>5, <1>9

\* Every step of Wal is a step of DurableLog, or leaves it alone.
LEMMA RefinementStep ==
  ASSUME LogInv, LogInv', Next
  PROVE  [Durable!Next]_(Durable!vars)
<1> USE DEF serverVars, fileVars, tableVars, batchVars, clientVars,
            flusherVars, history
<1>1. ASSUME UNCHANGED <<disk, req, promise, acked>>, fpc = "sync" <=> fpc' = "sync"
      PROVE  UNCHANGED Durable!vars
  BY <1>1, StutterStep
<1>2. ASSUME NEW m, Lose(m)
      PROVE  Durable!Next
  BY <1>2, EndStep DEF Durable!Next
<1>3. CASE Boot \/ Crash \/ Shutdown \/ Exit
  BY <1>1, <1>2, <1>3 DEF Boot, Crash, Shutdown, Exit
<1>4. CASE Recovery
  <2>1. CASE RecoverFinish
    BY <1>1, <2>1 DEF RecoverFinish, LogInv, IdleInv
  <2>2. CASE ~RecoverFinish
    BY <1>1, <1>2, <1>4, <2>2 DEF Recovery, RecoverDecode, RecoverApply, RecoverFails
  <2> QED
    BY <2>1, <2>2
<1>5. CASE Handler
  <2>1. ASSUME NEW c \in Clients, NEW k \in Keys, NEW v \in Values \cup {Absent},
               NEW cmd \in {CommandSetID, CommandDelID}, Issue(c, cmd, k, v)
        PROVE  Durable!Next
    BY <2>1, BeginStep DEF Durable!Next
  <2>2. ASSUME NEW c \in Clients, push(c) \/ Send(c)
        PROVE  UNCHANGED Durable!vars
    BY <1>1, <2>2 DEF push, Send
  <2>3. ASSUME NEW c \in Clients, Respond(c)
        PROVE  Durable!Next
    BY <2>3, AnswerStep DEF Durable!Next
  <2>4. ASSUME NEW x \in Readers, NEW k \in Keys, Get(x, k)
        PROVE  UNCHANGED Durable!vars
    BY <1>1, <2>4 DEF Get
  <2> QED
    BY <1>5, <2>1, <2>2, <2>3, <2>4 DEF Handler, Set, Del
<1>6. CASE Flusher
  <2>1. CASE WriteOk \/ WriteFails \/ SyncOk \/ SyncFails
    BY <2>1, CommitStep DEF Durable!Next
  <2>2. CASE NotifyOk \/ NotifyErr
    BY <2>2, ResolveStep DEF Durable!Next
  <2>3. CASE CheckCtx \/ SelectDone \/ SelectBatch \/ SelectTick \/ DrainBatch
               \/ DrainSeal \/ Rotate \/ RotateFails
    BY <1>1, <2>3
       DEF CheckCtx, SelectDone, SelectBatch, SelectTick, DrainBatch, DrainSeal,
           Receive, flushBatch, Rotate, RotateFails
  <2>4. CASE ApplyRecord
    BY <1>1, <2>4 DEF ApplyRecord, LogInv, IInv, TypeOK
  <2> QED
    BY <1>6, <2>1, <2>2, <2>3, <2>4 DEF Flusher
<1> QED
  BY <1>3, <1>4, <1>5, <1>6 DEF Next

\* The engine implements the durable log.
THEOREM EngineIsADurableLog == Spec => ImplementsDurableLog
<1>1. Init => Durable!Init
  <2> SUFFICES ASSUME Init PROVE Durable!Init
    OBVIOUS
  <2>1. disk = <<>> /\ fpc # "sync"
    BY DEF Init, Fresh
  <2>2. SyncedLog = <<>>
    BY <2>1 DEF SyncedLog, UnsyncedTail
  <2> QED
    BY <2>2 DEF Init, Fresh, Durable!Init
<1>2. LogInv /\ LogInv' /\ [Next]_vars => [Durable!Next]_(Durable!vars)
  <2> SUFFICES ASSUME LogInv, LogInv', [Next]_vars
               PROVE  [Durable!Next]_(Durable!vars)
    OBVIOUS
  <2>1. CASE Next
    BY <2>1, RefinementStep
  <2>2. CASE UNCHANGED vars
    BY <2>2, StutterStep
       DEF vars, serverVars, fileVars, tableVars, batchVars, clientVars,
           flusherVars, history
  <2> QED
    BY <2>1, <2>2
<1> QED
  BY <1>1, <1>2, LogInvariance, PTL DEF Spec, ImplementsDurableLog, Durable!Spec

=============================================================================
