----------------------------- MODULE WalProofs -----------------------------
(***************************************************************************)
(* Proofs about Wal, for any number of handlers, keys, values, batches,    *)
(* segments, processes and any set of failures: the variables keep their   *)
(* types, no acknowledged write is ever lost from the segment files, no    *)
(* record is lost or logged twice on its way from the handler to the log,  *)
(* and the log keeps the real-time order.                                  *)
(***************************************************************************)
EXTENDS Wal, SequenceTheorems, FiniteSetTheorems, TLAPS

-----------------------------------------------------------------------------
(***************************************************************************)
(* The inductive invariant of durability.                                  *)
(***************************************************************************)

\* A handler holds a record exactly while it serves a write, and an idle one
\* has no resolved promise left over.
RequestInv ==
  \A c \in Clients :
    /\ pc[c] # "idle" => req[c] \in Log
    /\ pc[c] = "idle" => req[c] = None /\ promise[c] = "none"

\* Between file.Write and file.Sync the last stream is the batch.
WrittenInv ==
  fpc = "sync" => /\ Len(disk) > 0
                  /\ disk[Len(disk)].whole
                  /\ disk[Len(disk)].recs = fbatch

\* The record is in a stream that a crash can no longer take away.
Synced(record) ==
  \E i \in DOMAIN disk : Holds(i, record) /\ (fpc = "sync" => i # Len(disk))

\* What clients have been told, are about to be told and will be told after
\* notification is synced.
DurableInv ==
  /\ \A a \in acked : Synced(a.rec)
  /\ \A c \in Clients : promise[c] = "ok" => Synced(req[c])
  /\ fpc = "ack" => \A r \in ToSet(fbatch) : Synced(r)

IInv == TypeOK /\ RequestInv /\ WrittenInv /\ DurableInv

-----------------------------------------------------------------------------
(***************************************************************************)
(* Facts about the operators.                                              *)
(***************************************************************************)

\* The records of a sequence of records.
LEMMA ToSetType ==
  ASSUME NEW s \in Seq(Log)
  PROVE  ToSet(s) \subseteq Log
BY DEF ToSet

\* A cut stream is a stream of the same file.
LEMMA TornType ==
  ASSUME NEW s \in Stream
  PROVE  Torn(s) \subseteq Stream
<1>1. ASSUME NEW n \in 1..(Len(s.recs) - 1)
      PROVE  [s EXCEPT !.recs = SubSeq(s.recs, 1, n)] \in Stream
  <2>1. s.recs \in Seq(Log)
    BY DEF Stream
  <2>2. SubSeq(s.recs, 1, n) \in Seq(Log)
    BY <2>1
  <2> QED
    BY <2>2 DEF Stream
<1>2. [s EXCEPT !.whole = FALSE] \in Stream
  BY DEF Stream
<1> QED
  BY <1>1, <1>2 DEF Torn

\* Dropping the last stream leaves the others where they are.
LEMMA DropLast ==
  ASSUME NEW d \in Seq(Stream), Len(d) > 0
  PROVE  /\ Front(d) \in Seq(Stream)
         /\ Len(Front(d)) = Len(d) - 1
         /\ \A i \in 1..(Len(d) - 1) : Front(d)[i] = d[i]
<1> DEFINE n == Len(d) - 1
           f == SubSeq(d, 1, n)
<1>1. n \in Nat /\ \A i \in 1..n : d[i] \in Stream
  OBVIOUS
<1>2. Front(d) = f
  BY DEF Front
<1> HIDE DEF n
<1>3. /\ f \in Seq(Stream)
      /\ Len(f) = IF 1 <= n THEN n - 1 + 1 ELSE 0
      /\ \A i \in 1..(n - 1 + 1) : f[i] = d[1 + i - 1]
  BY <1>1, SubSeqProperties
<1> HIDE DEF f
<1>4. /\ f \in Seq(Stream)
      /\ Len(f) = n
      /\ \A i \in 1..n : f[i] = d[i]
  <2>1. n - 1 + 1 = n
    BY <1>1
  <2>2. \A i \in 1..n : 1 + i - 1 = i
    BY <1>1
  <2> QED
    BY <1>1, <1>3, <2>1, <2>2
<1> QED
  BY <1>2, <1>4 DEF n

\* Replacing the last stream gives a disk that agrees with the old one
\* everywhere else.
LEMMA ReplaceLast ==
  ASSUME NEW d \in Seq(Stream), Len(d) > 0, NEW s \in Stream
  PROVE  /\ Append(Front(d), s) \in Seq(Stream)
         /\ Len(Append(Front(d), s)) = Len(d)
         /\ \A i \in 1..(Len(d) - 1) : Append(Front(d), s)[i] = d[i]
<1> DEFINE f == Front(d)
<1>1. /\ f \in Seq(Stream)
      /\ Len(f) = Len(d) - 1
      /\ \A i \in 1..(Len(d) - 1) : f[i] = d[i]
  BY DropLast
<1> HIDE DEF f
<1>2. /\ Append(f, s) \in Seq(Stream)
      /\ Len(Append(f, s)) = Len(d)
      /\ \A i \in 1..(Len(d) - 1) : Append(f, s)[i] = d[i]
  BY <1>1
<1> QED
  BY <1>2 DEF f

\* Recovery decodes log records.
LEMMA FileLogsType ==
  ASSUME NEW d \in Seq(Stream), NEW f \in Nat
  PROVE  FileLogs(d, f) \subseteq Log
<1>1. ASSUME NEW i \in DOMAIN d
      PROVE  ToSet(d[i].recs) \subseteq Log
  <2>1. d[i] \in Stream
    OBVIOUS
  <2>2. d[i].recs \in Seq(Log)
    BY <2>1 DEF Stream
  <2> QED
    BY <2>2, ToSetType
<1> QED
  BY <1>1 DEF FileLogs

\* Encoded lengths and file sizes are natural numbers.
LEMMA EncodedSizeType ==
  ASSUME NEW n \in Nat
  PROVE  EncodedSize(n) \in Nat
BY DiskAssumption DEF EncodedSize

LEMMA NewestFileSizeType ==
  ASSUME NEW d \in Seq(Stream), NEW f \in Nat
  PROVE  NewestFileSize(d, f) \in Nat
<1>1. CASE d = <<>>
  BY <1>1 DEF NewestFileSize
<1>2. CASE d # <<>>
  <2>1. Last(d) \in Stream
    BY <1>2 DEF Last
  <2>2. Len(Last(d).recs) \in Nat
    BY <2>1 DEF Stream
  <2> QED
    BY <2>2, EncodedSizeType DEF NewestFileSize
<1> QED
  BY <1>1, <1>2

\* Applying a record keeps the hash table a table of values.
LEMMA ApplyType ==
  ASSUME NEW tab \in [Keys -> Values \cup {Absent}], NEW r \in Log
  PROVE  apply(tab, r) \in [Keys -> Values \cup {Absent}]
BY DEF apply, Effect, Log

-----------------------------------------------------------------------------
(***************************************************************************)
(* Type correctness.  Records reach the batches and the history through    *)
(* req, and the disk is cut at its last stream, so that the step needs     *)
(* RequestInv and WrittenInv.                                              *)
(***************************************************************************)

\* A stopped process holds nothing, whatever it held before.
LEMMA TypeLose ==
  ASSUME TypeOK, NEW m \in {"down", "failed"}, Lose(m), disk' \in Seq(Stream)
  PROVE  TypeOK'
<1>1. /\ table' \in [Keys -> Values \cup {Absent}]
      /\ pc' \in [Clients -> {"idle", "push", "send", "wait"}]
      /\ req' \in [Clients -> Log \cup {None}]
      /\ sealed' \in [Clients -> Seq(Log)]
      /\ promise' \in [Clients -> {"none", "ok", "err"}]
  BY DEF Lose
<1>2. batch' \in Seq(Log) /\ fbatch' \in Seq(Log) /\ batches' \in Seq(Seq(Log))
  BY DEF Lose
<1>3. UNCHANGED <<run, nfiles, acked, seen>>
  BY DEF Lose
<1>4. /\ mode' \in {"down", "failed"}
      /\ rfile' = 0 /\ segmentSize' = 0 /\ currentLSN' = 0 /\ activeBatchVolume' = 0
      /\ todo' = {} /\ failed' = {}
      /\ fileOpen' = FALSE /\ ctxDone' = FALSE
      /\ fpc' = "off" /\ fret' = "top"
  BY DEF Lose
<1> QED
  BY <1>1, <1>2, <1>3, <1>4 DEF TypeOK

LEMMA TypeServer ==
  ASSUME TypeOK, RequestInv, WrittenInv, Boot \/ Crash \/ Shutdown \/ Exit
  PROVE  TypeOK'
<1> USE DEF serverVars, fileVars, tableVars, batchVars, clientVars,
            flusherVars, history
<1>1. CASE Boot
  BY <1>1 DEF TypeOK, Boot
<1>2. CASE Crash
  <2>1. disk' \in Seq(Stream)
    <3>1. CASE disk' = disk
      BY <3>1 DEF TypeOK
    <3>2. CASE fpc = "sync" /\ disk' = Front(disk)
      BY <3>2, DropLast DEF TypeOK, WrittenInv
    <3>3. CASE fpc = "sync" /\ \E s \in Torn(Last(disk)) : disk' = Append(Front(disk), s)
      <4>1. Len(disk) > 0 /\ disk \in Seq(Stream)
        BY <3>3 DEF TypeOK, WrittenInv
      <4>2. Last(disk) \in Stream
        BY <4>1 DEF Last
      <4> QED
        BY <3>3, <4>1, <4>2, TornType, ReplaceLast
    <3> QED
      BY <1>2, <3>1, <3>2, <3>3 DEF Crash
  <2> QED
    BY <1>2, <2>1, TypeLose DEF Crash
<1>3. CASE Shutdown
  BY <1>3 DEF TypeOK, Shutdown
<1>4. CASE Exit
  <2>1. disk' \in Seq(Stream)
    BY <1>4 DEF Exit, TypeOK
  <2> QED
    BY <1>4, <2>1, TypeLose DEF Exit
<1> QED
  BY <1>1, <1>2, <1>3, <1>4

LEMMA TypeRecovery ==
  ASSUME TypeOK, Recovery
  PROVE  TypeOK'
<1> USE DEF serverVars, fileVars, tableVars, batchVars, clientVars,
            flusherVars, history
<1>1. CASE RecoverDecode
  <2>1. FileLogs(disk, NextFile) \subseteq Log
    BY FileLogsType DEF TypeOK, NextFile
  <2>2. CASE Decodes(disk, NextFile)
    BY <1>1, <2>1, <2>2 DEF TypeOK, RecoverDecode, NextFile
  <2>3. CASE ~Decodes(disk, NextFile)
    <3>1. Lose("failed") /\ disk' \in Seq(Stream)
      BY <1>1, <2>3 DEF TypeOK, RecoverDecode
    <3> QED
      BY <3>1, TypeLose
  <2> QED
    BY <2>2, <2>3
<1>2. CASE RecoverApply
  <2>1. table' \in [Keys -> Values \cup {Absent}] /\ todo' \subseteq Log
    BY <1>2, ApplyType DEF TypeOK, RecoverApply
  <2> QED
    BY <1>2, <2>1 DEF TypeOK, RecoverApply
<1>3. CASE RecoverFinish
  <2>1. NewestFileSize(disk, nfiles) \in Nat
    BY NewestFileSizeType DEF TypeOK
  <2> QED
    BY <1>3, <2>1 DEF TypeOK, RecoverFinish
<1>4. CASE RecoverFails
  <2>1. disk' \in Seq(Stream)
    BY <1>4 DEF RecoverFails, TypeOK
  <2> QED
    BY <1>4, <2>1, TypeLose DEF RecoverFails
<1> QED
  BY <1>1, <1>2, <1>3, <1>4 DEF Recovery

LEMMA TypeHandler ==
  ASSUME TypeOK, RequestInv, Handler
  PROVE  TypeOK'
<1> USE DEF serverVars, fileVars, tableVars, batchVars, clientVars,
            flusherVars, history
<1>1. ASSUME NEW c \in Clients, NEW k \in Keys, NEW v \in Values \cup {Absent},
             NEW cmd \in {CommandSetID, CommandDelID}, Issue(c, cmd, k, v)
      PROVE  TypeOK'
  <2>1. [run |-> run, lsn |-> currentLSN + 1, cmd |-> cmd, key |-> k, val |-> v]
          \in Log
    BY DEF TypeOK, Log
  <2> QED
    BY <1>1, <2>1 DEF TypeOK, Issue
<1>2. ASSUME NEW c \in Clients, push(c)
      PROVE  TypeOK'
  <2>1. Append(batch, req[c]) \in Seq(Log)
    BY <1>2 DEF TypeOK, RequestInv, push
  <2>2. EncodedSize(1) \in Nat
    BY EncodedSizeType
  <2>3. activeBatchVolume + EncodedSize(1) \in Nat
    BY <2>2 DEF TypeOK
  <2>4. /\ batch' \in Seq(Log)
        /\ activeBatchVolume' \in Nat
        /\ sealed' \in [Clients -> Seq(Log)]
        /\ pc' \in [Clients -> {"idle", "push", "send", "wait"}]
    <3> DEFINE grown  == Append(batch, req[c])
               volume == activeBatchVolume + EncodedSize(1)
    <3>1. /\ grown \in Seq(Log)
          /\ volume \in Nat
          /\ pc \in [Clients -> {"idle", "push", "send", "wait"}]
          /\ sealed \in [Clients -> Seq(Log)]
      BY <2>1, <2>3 DEF TypeOK
    <3>2. CASE BatchFull(grown, volume)
      <4>1. /\ batch' = <<>>
            /\ activeBatchVolume' = 0
            /\ sealed' = [sealed EXCEPT ![c] = grown]
            /\ pc' = [pc EXCEPT ![c] = "send"]
        BY <1>2, <3>2 DEF push
      <4> HIDE DEF grown, volume
      <4> QED
        BY <3>1, <4>1
    <3>3. CASE ~BatchFull(grown, volume)
      <4>1. /\ batch' = grown
            /\ activeBatchVolume' = volume
            /\ pc' = [pc EXCEPT ![c] = "wait"]
            /\ sealed' = sealed
        BY <1>2, <3>3 DEF push
      <4> HIDE DEF grown, volume
      <4> QED
        BY <3>1, <4>1
    <3> QED
      BY <3>2, <3>3
  <2> QED
    BY <1>2, <2>4 DEF TypeOK, push
<1>3. ASSUME NEW c \in Clients, Send(c)
      PROVE  TypeOK'
  BY <1>3 DEF TypeOK, Send
<1>4. ASSUME NEW c \in Clients, Respond(c)
      PROVE  TypeOK'
  <2>1. [rec |-> req[c], run |-> run, at |-> currentLSN] \in Ack
    BY <1>4 DEF TypeOK, RequestInv, Respond, Ack
  <2> QED
    BY <1>4, <2>1 DEF TypeOK, Respond
<1>5. ASSUME NEW r \in Readers, NEW k \in Keys, Get(r, k)
      PROVE  TypeOK'
  BY <1>5 DEF TypeOK, Get
<1> QED
  BY <1>1, <1>2, <1>3, <1>4, <1>5 DEF Handler, Set, Del

LEMMA TypeFlusher ==
  ASSUME TypeOK, WrittenInv, Flusher
  PROVE  TypeOK'
<1> USE DEF serverVars, fileVars, tableVars, batchVars, clientVars,
            flusherVars, history
<1>1. CASE CheckCtx \/ SelectDone
  BY <1>1 DEF TypeOK, CheckCtx, SelectDone
<1>2. ASSUME NEW from, NEW ret \in {"top", "drain"}, Receive(from, ret)
      PROVE  TypeOK'
  <2>1. Head(batches) \in Seq(Log) /\ Tail(batches) \in Seq(Seq(Log))
    BY <1>2 DEF TypeOK, Receive
  <2> QED
    BY <1>2, <2>1 DEF TypeOK, Receive, flushBatch
<1>3. CASE SelectTick \/ DrainSeal
  <2>1. /\ batch' = <<>> /\ activeBatchVolume' = 0
        /\ fbatch' = batch
        /\ fret' \in {"top", "done"}
        /\ fpc' \in {"top", "done", "write"}
    BY <1>3 DEF SelectTick, DrainSeal, SealBatch, flushBatch
  <2>2. UNCHANGED <<serverVars, disk, fileVars, tableVars, currentLSN, ctxDone,
                    batches, clientVars, history>>
    BY <1>3 DEF SelectTick, DrainSeal
  <2> QED
    BY <2>1, <2>2 DEF TypeOK
<1>4. CASE Rotate \/ RotateFails
  <2>1. /\ nfiles' \in {nfiles, nfiles + 1}
        /\ segmentSize' \in {segmentSize, 0}
        /\ fileOpen' \in BOOLEAN
        /\ fpc' \in {fpc, "nack"}
    BY <1>4 DEF Rotate, RotateFails, CreateFile
  <2>2. UNCHANGED <<serverVars, disk, tableVars, currentLSN, ctxDone, batchVars,
                    clientVars, fret, fbatch, history>>
    BY <1>4 DEF Rotate, RotateFails
  <2> QED
    BY <2>1, <2>2 DEF TypeOK
<1>5. Encoded \in Stream
  BY DEF TypeOK, Encoded, Stream
<1>6. CASE WriteOk
  BY <1>5, <1>6 DEF TypeOK, WriteOk
<1>7. CASE WriteFails
  <2>1. disk' \in Seq(Stream)
    <3>1. CASE disk' = disk
      BY <3>1 DEF TypeOK
    <3>2. ASSUME NEW s \in Torn(Encoded), disk' = Append(disk, s)
          PROVE  disk' \in Seq(Stream)
      BY <1>5, <3>2, TornType DEF TypeOK
    <3> QED
      BY <1>7, <3>1, <3>2 DEF WriteFails
  <2> QED
    BY <1>7, <2>1 DEF TypeOK, WriteFails
<1>8. CASE SyncOk
  <2>1. EncodedSize(Len(fbatch)) \in Nat
    BY EncodedSizeType DEF TypeOK
  <2>2. segmentSize' \in Nat
    BY <1>8, <2>1 DEF TypeOK, SyncOk
  <2> QED
    BY <1>8, <2>2 DEF TypeOK, SyncOk
<1>9. CASE SyncFails
  <2>1. Len(disk) > 0 /\ disk \in Seq(Stream)
    BY <1>9 DEF TypeOK, WrittenInv, SyncFails
  <2>2. Last(disk) \in Stream
    BY <2>1 DEF Last
  <2>3. disk' \in Seq(Stream)
    BY <1>9, <2>1, <2>2, TornType, ReplaceLast DEF SyncFails
  <2> QED
    BY <1>9, <2>3 DEF TypeOK, SyncFails
<1>10. ToSet(fbatch) \subseteq Log
  BY ToSetType DEF TypeOK
<1>11. CASE NotifyOk
  BY <1>10, <1>11 DEF TypeOK, NotifyOk, notification
<1>12. CASE NotifyErr
  BY <1>10, <1>12 DEF TypeOK, NotifyErr, notification
<1>13. CASE ApplyRecord
  <2>1. table' \in [Keys -> Values \cup {Absent}] /\ todo' \subseteq Log
    BY <1>13, ApplyType DEF TypeOK, ApplyRecord
  <2>2. /\ fpc' = fpc \/ fpc' = fret
        /\ fbatch' = fbatch \/ fbatch' = <<>>
    BY <1>13 DEF ApplyRecord
  <2>3. UNCHANGED <<serverVars, disk, fileVars, rfile, currentLSN, ctxDone,
                    batchVars, clientVars, fret, history>>
    BY <1>13 DEF ApplyRecord
  <2>4. /\ fpc' \in {"off", "top", "select", "drain", "write", "sync", "ack",
                    "nack", "apply", "done"}
        /\ fbatch' \in Seq(Log)
    <3>1. fbatch \in Seq(Log) /\ <<>> \in Seq(Log)
      BY DEF TypeOK
    <3> QED
      BY <2>2, <3>1 DEF TypeOK
  <2> QED
    BY <2>1, <2>3, <2>4 DEF TypeOK
<1> QED
  BY <1>1, <1>2, <1>3, <1>4, <1>6, <1>7, <1>8, <1>9, <1>11, <1>12, <1>13
     DEF Flusher, SelectBatch, DrainBatch

-----------------------------------------------------------------------------
(***************************************************************************)
(* The other conjuncts.                                                    *)
(***************************************************************************)

\* A step of a handler, and notification by the flusher, are all that touches
\* requests and promises; notification leaves idle handlers alone because
\* None is not a record.
LEMMA RequestStep ==
  ASSUME TypeOK, RequestInv, Next
  PROVE  RequestInv'
<1> USE DEF serverVars, fileVars, tableVars, batchVars, clientVars,
            flusherVars, history
<1>1. ASSUME UNCHANGED <<pc, req, promise>>
      PROVE  RequestInv'
  BY <1>1 DEF RequestInv
<1>2. ASSUME NEW m, Lose(m)
      PROVE  RequestInv'
  BY <1>2 DEF RequestInv, Lose
<1>3. ASSUME NEW result \in {"ok", "err"}, notification(result), UNCHANGED <<pc, req>>
      PROVE  RequestInv'
  <2>1. None \notin ToSet(fbatch)
    BY ToSetType, WalAssumption DEF TypeOK
  <2> QED
    BY <1>3, <2>1 DEF RequestInv, notification
<1>4. CASE Boot \/ Crash \/ Shutdown \/ Exit
  BY <1>1, <1>2, <1>4 DEF Boot, Crash, Shutdown, Exit
<1>5. CASE Recovery
  BY <1>1, <1>2, <1>5 DEF Recovery, RecoverDecode, RecoverApply, RecoverFinish,
                          RecoverFails
<1>6. CASE Handler
  <2>1. ASSUME NEW c \in Clients, NEW k \in Keys, NEW v \in Values \cup {Absent},
               NEW cmd \in {CommandSetID, CommandDelID}, Issue(c, cmd, k, v)
        PROVE  RequestInv'
    <3>1. [run |-> run, lsn |-> currentLSN + 1, cmd |-> cmd, key |-> k, val |-> v]
            \in Log
      BY DEF TypeOK, Log
    <3> QED
      BY <2>1, <3>1 DEF RequestInv, TypeOK, Issue
  <2>2. ASSUME NEW c \in Clients, push(c)
        PROVE  RequestInv'
    <3>1. \E p \in {"send", "wait"} : pc' = [pc EXCEPT ![c] = p]
      BY <2>2 DEF push
    <3>2. req' = req /\ promise' = promise /\ pc[c] # "idle"
      BY <2>2 DEF push
    <3> QED
      BY <3>1, <3>2 DEF RequestInv, TypeOK
  <2>3. ASSUME NEW c \in Clients, Send(c)
        PROVE  RequestInv'
    BY <2>3 DEF RequestInv, TypeOK, Send
  <2>4. ASSUME NEW c \in Clients, Respond(c)
        PROVE  RequestInv'
    BY <2>4 DEF RequestInv, TypeOK, Respond
  <2>5. ASSUME NEW r \in Readers, NEW k \in Keys, Get(r, k)
        PROVE  RequestInv'
    BY <1>1, <2>5 DEF Get
  <2> QED
    BY <1>6, <2>1, <2>2, <2>3, <2>4, <2>5 DEF Handler, Set, Del
<1>7. CASE Flusher
  BY <1>1, <1>3, <1>7
     DEF Flusher, CheckCtx, SelectDone, SelectBatch, SelectTick, DrainBatch,
         DrainSeal, Receive, Rotate, RotateFails, WriteOk, WriteFails, SyncOk,
         SyncFails, NotifyOk, NotifyErr, ApplyRecord
<1> QED
  BY <1>4, <1>5, <1>6, <1>7 DEF Next

\* Only WriteOk enters the state between Write and Sync, and only the flusher
\* leaves it.
LEMMA WrittenStep ==
  ASSUME TypeOK, WrittenInv, Next
  PROVE  WrittenInv'
<1> USE DEF serverVars, fileVars, tableVars, batchVars, clientVars,
            flusherVars, history
<1>1. ASSUME UNCHANGED <<disk, fpc, fbatch>>
      PROVE  WrittenInv'
  BY <1>1 DEF WrittenInv
<1>2. ASSUME fpc' # "sync"
      PROVE  WrittenInv'
  BY <1>2 DEF WrittenInv
<1>3. ASSUME NEW m, Lose(m)
      PROVE  fpc' # "sync"
  BY <1>3 DEF Lose
<1>4. CASE Boot \/ Crash \/ Shutdown \/ Exit
  BY <1>1, <1>2, <1>3, <1>4 DEF Boot, Crash, Shutdown, Exit
<1>5. CASE Recovery
  BY <1>1, <1>2, <1>3, <1>5
     DEF Recovery, RecoverDecode, RecoverApply, RecoverFinish, RecoverFails
<1>6. CASE Handler
  BY <1>1, <1>6 DEF Handler, Set, Del, Issue, push, Send, Respond, Get
<1>7. CASE WriteOk
  <2>1. Encoded \in Stream /\ disk \in Seq(Stream)
    BY DEF TypeOK, Encoded, Stream
  <2>2. /\ Len(disk') > 0
        /\ disk'[Len(disk')] = Encoded
    BY <1>7, <2>1 DEF WriteOk
  <2> QED
    BY <1>7, <2>2 DEF WriteOk, WrittenInv, Encoded
<1>8. CASE Flusher /\ ~WriteOk
  <2>1. CASE Rotate
    BY <1>1, <2>1 DEF Rotate
  <2>2. CASE ApplyRecord
    BY <1>2, <2>2 DEF ApplyRecord, TypeOK
  <2>3. CASE NotifyErr
    BY <1>2, <2>3 DEF NotifyErr, TypeOK
  <2>4. CASE ~Rotate /\ ~ApplyRecord /\ ~NotifyErr
    <3>1. fpc' # "sync"
      BY <1>8, <2>4
         DEF Flusher, CheckCtx, SelectDone, SelectBatch, SelectTick,
             DrainBatch, DrainSeal, Receive, flushBatch, RotateFails,
             WriteFails, SyncOk, SyncFails, NotifyOk
    <3> QED
      BY <1>2, <3>1
  <2> QED
    BY <2>1, <2>2, <2>3, <2>4
<1> QED
  BY <1>4, <1>5, <1>6, <1>7, <1>8 DEF Next

\* What was synced still is after a step that keeps the disk.
LEMMA SyncedKept ==
  ASSUME DiskKept, NEW r, Synced(r)
  PROVE  Synced(r)'
<1>1. PICK i \in DOMAIN disk : Holds(i, r) /\ (fpc = "sync" => i # Len(disk))
  BY DEF Synced
<1>2. i \in DOMAIN disk' /\ disk'[i] = disk[i] /\ (fpc' = "sync" => i # Len(disk'))
  BY <1>1 DEF DiskKept
<1>3. Holds(i, r)'
  BY <1>1, <1>2 DEF Holds
<1> QED
  BY <1>2, <1>3 DEF Synced

\* Every step keeps the synced streams: streams are appended, and only a
\* stream that is not synced is cut or dropped.
LEMMA DiskStep ==
  ASSUME TypeOK, WrittenInv, Next
  PROVE  DiskKept
<1> USE DEF serverVars, fileVars, tableVars, batchVars, clientVars,
            flusherVars, history
<1>1. ASSUME disk' = disk, fpc' = fpc \/ fpc' # "sync"
      PROVE  DiskKept
  BY <1>1 DEF DiskKept
<1>2. ASSUME NEW m, Lose(m)
      PROVE  fpc' # "sync"
  BY <1>2 DEF Lose
<1>3. ASSUME NEW s \in Stream, disk' = Append(disk, s), fpc # "sync"
      PROVE  DiskKept
  <2>1. disk \in Seq(Stream)
    BY DEF TypeOK
  <2>2. /\ Len(disk') = Len(disk) + 1
        /\ \A i \in 1..Len(disk) : disk'[i] = disk[i]
        /\ DOMAIN disk = 1..Len(disk) /\ DOMAIN disk' = 1..Len(disk')
        /\ Len(disk) \in Nat
    BY <1>3, <2>1
  <2> QED
    BY <2>2 DEF DiskKept
<1>4. ASSUME fpc = "sync", fpc' # "sync",
             \/ disk' = Front(disk)
             \/ \E s \in Torn(Last(disk)) : disk' = Append(Front(disk), s)
      PROVE  DiskKept
  <2>1. Len(disk) > 0 /\ disk \in Seq(Stream) /\ Len(disk) \in Nat
    BY <1>4 DEF TypeOK, WrittenInv
  <2>2. Last(disk) \in Stream
    BY <2>1 DEF Last
  <2>3. CASE disk' = Front(disk)
    <3>1. /\ disk' \in Seq(Stream)
          /\ Len(disk') = Len(disk) - 1
          /\ \A i \in 1..(Len(disk) - 1) : disk'[i] = disk[i]
      BY <2>1, <2>3, DropLast
    <3> QED
      BY <1>4, <2>1, <3>1 DEF DiskKept
  <2>4. ASSUME NEW s \in Torn(Last(disk)), disk' = Append(Front(disk), s)
        PROVE  DiskKept
    <3>1. s \in Stream
      BY <2>2, TornType
    <3>2. /\ disk' \in Seq(Stream)
          /\ Len(disk') = Len(disk)
          /\ \A i \in 1..(Len(disk) - 1) : disk'[i] = disk[i]
      BY <2>1, <2>4, <3>1, ReplaceLast
    <3> QED
      BY <1>4, <2>1, <3>2 DEF DiskKept
  <2> QED
    BY <1>4, <2>3, <2>4
<1>5. Encoded \in Stream
  BY DEF TypeOK, Encoded, Stream
<1>6. CASE Boot \/ Shutdown \/ Exit
  BY <1>1, <1>2, <1>6 DEF Boot, Shutdown, Exit
<1>7. CASE Crash
  BY <1>1, <1>2, <1>4, <1>7 DEF Crash
<1>8. CASE Recovery
  BY <1>1, <1>2, <1>8
     DEF Recovery, RecoverDecode, RecoverApply, RecoverFinish, RecoverFails
<1>9. CASE Handler
  BY <1>1, <1>9 DEF Handler, Set, Del, Issue, push, Send, Respond, Get
<1>10. CASE Flusher
  <2>1. CASE WriteOk
    BY <1>3, <1>5, <2>1 DEF WriteOk
  <2>2. CASE WriteFails
    <3>1. fpc = "write" /\ fpc' = "nack"
      BY <2>2 DEF WriteFails
    <3>2. disk' = disk \/ \E s \in Torn(Encoded) : disk' = Append(disk, s)
      BY <2>2 DEF WriteFails
    <3> QED
      BY <1>1, <1>3, <1>5, <3>1, <3>2, TornType
  <2>3. CASE SyncFails
    BY <1>1, <1>4, <2>3 DEF SyncFails
  <2>4. CASE Rotate \/ RotateFails \/ SyncOk
    BY <1>1, <2>4 DEF Rotate, RotateFails, SyncOk
  <2>5. CASE NotifyOk \/ NotifyErr \/ ApplyRecord
    BY <1>1, <2>5 DEF NotifyOk, NotifyErr, ApplyRecord, TypeOK
  <2>6. CASE CheckCtx \/ SelectDone \/ SelectBatch \/ SelectTick \/ DrainBatch
               \/ DrainSeal
    BY <1>1, <2>6 DEF CheckCtx, SelectDone, SelectBatch, SelectTick, DrainBatch,
                      DrainSeal, Receive, flushBatch
  <2> QED
    BY <1>10, <2>1, <2>2, <2>3, <2>4, <2>5, <2>6 DEF Flusher
<1> QED
  BY <1>6, <1>7, <1>8, <1>9, <1>10 DEF Next

\* What is promised is synced: SyncOk makes the batch synced, NotifyOk turns
\* that into promises, Respond turns promises into answers.
LEMMA DurableStep ==
  ASSUME TypeOK, RequestInv, WrittenInv, DurableInv, Next
  PROVE  DurableInv'
<1> USE DEF serverVars, fileVars, tableVars, batchVars, clientVars,
            flusherVars, history
<1>1. \A r : Synced(r) => Synced(r)'
  BY DiskStep, SyncedKept
<1>2. ASSUME acked' = acked, UNCHANGED <<req, promise>>, fpc' # "ack"
      PROVE  DurableInv'
  BY <1>1, <1>2 DEF DurableInv
<1>3. ASSUME acked' = acked, UNCHANGED <<req, promise, fpc, fbatch>>
      PROVE  DurableInv'
  BY <1>1, <1>3 DEF DurableInv
<1>4. ASSUME NEW m, Lose(m)
      PROVE  DurableInv'
  <2>1. /\ acked' = acked /\ fpc' # "ack"
        /\ \A c \in Clients : promise'[c] # "ok"
    BY <1>4 DEF Lose
  <2> QED
    BY <1>1, <2>1 DEF DurableInv
<1>5. CASE Boot \/ Crash \/ Shutdown \/ Exit
  BY <1>3, <1>4, <1>5 DEF Boot, Crash, Shutdown, Exit
<1>6. CASE Recovery
  BY <1>2, <1>3, <1>4, <1>6
     DEF Recovery, RecoverDecode, RecoverApply, RecoverFinish, RecoverFails
<1>7. CASE Handler
  <2>1. ASSUME NEW c \in Clients, NEW k, NEW v, NEW cmd, Issue(c, cmd, k, v)
        PROVE  DurableInv'
    <3>1. /\ acked' = acked /\ promise' = promise /\ UNCHANGED <<fpc, fbatch>>
          /\ \A d \in Clients : d # c => req'[d] = req[d]
      BY <2>1 DEF Issue, TypeOK
    <3>2. promise[c] = "none"
      BY <2>1 DEF Issue, RequestInv
    <3>3. \A d \in Clients : promise'[d] = "ok" => req'[d] = req[d] /\ Synced(req[d])
      BY <3>1, <3>2 DEF DurableInv
    <3>4. \A d \in Clients : promise'[d] = "ok" => Synced(req[d])'
      BY <1>1, <3>3 DEF Synced, Holds
    <3> QED
      BY <1>1, <3>1, <3>4 DEF DurableInv
  <2>2. ASSUME NEW c \in Clients, push(c) \/ Send(c)
        PROVE  DurableInv'
    BY <1>3, <2>2 DEF push, Send
  <2>3. ASSUME NEW c \in Clients, Respond(c)
        PROVE  DurableInv'
    <3>1. /\ UNCHANGED <<fpc, fbatch>>
          /\ promise'[c] = "none"
          /\ \A d \in Clients : d # c => req'[d] = req[d] /\ promise'[d] = promise[d]
      BY <2>3 DEF Respond, TypeOK
    <3>2. \A d \in Clients : promise'[d] = "ok" => Synced(req[d])'
      <4>1. \A d \in Clients : promise'[d] = "ok" => req'[d] = req[d] /\ Synced(req[d])
        BY <3>1 DEF DurableInv
      <4> QED
        BY <1>1, <4>1 DEF Synced, Holds
    <3>3. ASSUME NEW a \in acked', a \notin acked
          PROVE  Synced(a.rec)
      <4>1. Reply(req[c], promise[c]) \in {"OK", "DELETED"} /\ a.rec = req[c]
        BY <2>3, <3>3 DEF Respond
      <4>2. promise[c] = "ok"
        BY <4>1 DEF Reply, handleSet, handleDel
      <4> QED
        BY <4>1, <4>2 DEF DurableInv
    <3>4. \A a \in acked' : Synced(a.rec)
      BY <3>3 DEF DurableInv
    <3>5. fpc' = "ack" => \A r \in ToSet(fbatch') : Synced(r)
      BY <3>1 DEF DurableInv
    <3> QED
      BY <1>1, <3>2, <3>4, <3>5 DEF DurableInv
  <2>4. ASSUME NEW r \in Readers, NEW k \in Keys, Get(r, k)
        PROVE  DurableInv'
    BY <1>3, <2>4 DEF Get
  <2> QED
    BY <1>7, <2>1, <2>2, <2>3, <2>4 DEF Handler, Set, Del
<1>8. CASE Flusher
  <2>1. CASE CheckCtx \/ SelectDone \/ SelectBatch \/ SelectTick \/ DrainBatch
               \/ DrainSeal
    BY <1>2, <2>1 DEF CheckCtx, SelectDone, SelectBatch, SelectTick, DrainBatch,
                      DrainSeal, Receive, flushBatch
  <2>2. CASE Rotate
    BY <1>3, <2>2 DEF Rotate
  <2>3. CASE RotateFails \/ WriteOk \/ WriteFails \/ SyncFails
    BY <1>2, <2>3 DEF RotateFails, WriteOk, WriteFails, SyncFails
  <2>4. CASE SyncOk
    <3>1. /\ disk' = disk /\ fbatch' = fbatch /\ fpc = "sync" /\ fpc' = "ack"
          /\ acked' = acked /\ UNCHANGED <<req, promise>>
      BY <2>4 DEF SyncOk
    <3>2. Len(disk) \in DOMAIN disk /\ disk[Len(disk)].whole
            /\ disk[Len(disk)].recs = fbatch
      BY <3>1 DEF WrittenInv, TypeOK
    <3>3. \A r \in ToSet(fbatch) : Synced(r)'
      BY <3>1, <3>2 DEF Synced, Holds
    <3> QED
      BY <1>1, <3>1, <3>3 DEF DurableInv
  <2>5. CASE NotifyOk
    <3>1. /\ fpc = "ack" /\ fpc' # "ack" /\ acked' = acked /\ req' = req
          /\ notification("ok")
      BY <2>5 DEF NotifyOk
    <3>2. \A c \in Clients : promise'[c] = "ok" => Synced(req[c])
      BY <3>1 DEF notification, DurableInv
    <3> QED
      BY <1>1, <3>1, <3>2 DEF DurableInv
  <2>6. CASE NotifyErr
    <3>1. /\ fpc' # "ack" /\ acked' = acked /\ req' = req
          /\ notification("err")
      BY <2>6 DEF NotifyErr, TypeOK
    <3>2. \A c \in Clients : promise'[c] = "ok" => Synced(req[c])
      BY <3>1 DEF notification, DurableInv
    <3> QED
      BY <1>1, <3>1, <3>2 DEF DurableInv
  <2>7. CASE ApplyRecord
    <3>1. /\ fpc' # "ack" /\ acked' = acked /\ UNCHANGED <<req, promise>>
      BY <2>7 DEF ApplyRecord, TypeOK
    <3> QED
      BY <1>2, <3>1
  <2> QED
    BY <1>8, <2>1, <2>2, <2>3, <2>4, <2>5, <2>6, <2>7 DEF Flusher
<1> QED
  BY <1>5, <1>6, <1>7, <1>8 DEF Next

-----------------------------------------------------------------------------
(***************************************************************************)
(* The theorems.                                                           *)
(***************************************************************************)

\* The invariant holds in every state of every behaviour.
THEOREM Invariance == Spec => []IInv
<1>1. Init => IInv
  <2> SUFFICES ASSUME Init PROVE IInv
    OBVIOUS
  <2>1. /\ table \in [Keys -> Values \cup {Absent}]
        /\ pc \in [Clients -> {"idle", "push", "send", "wait"}]
        /\ req \in [Clients -> Log \cup {None}]
        /\ sealed \in [Clients -> Seq(Log)]
        /\ promise \in [Clients -> {"none", "ok", "err"}]
        /\ seen \in [Readers -> Values \cup {Absent, None}]
    BY DEF Init, Fresh
  <2>2. /\ disk \in Seq(Stream) /\ batch \in Seq(Log) /\ fbatch \in Seq(Log)
        /\ batches \in Seq(Seq(Log))
    BY DEF Init, Fresh
  <2>3. TypeOK
    BY <2>1, <2>2 DEF Init, Fresh, TypeOK
  <2>4. RequestInv
    BY DEF Init, Fresh, RequestInv
  <2>5. WrittenInv /\ DurableInv
    BY DEF Init, Fresh, WrittenInv, DurableInv
  <2> QED
    BY <2>3, <2>4, <2>5 DEF IInv
<1>2. IInv /\ [Next]_vars => IInv'
  <2> SUFFICES ASSUME IInv, [Next]_vars PROVE IInv'
    OBVIOUS
  <2>1. TypeOK /\ RequestInv /\ WrittenInv /\ DurableInv
    BY DEF IInv
  <2>2. CASE Next
    <3>1. TypeOK'
      BY <2>1, <2>2, TypeServer, TypeRecovery, TypeHandler, TypeFlusher DEF Next
    <3>2. RequestInv' /\ WrittenInv' /\ DurableInv'
      BY <2>1, <2>2, RequestStep, WrittenStep, DurableStep
    <3> QED
      BY <3>1, <3>2 DEF IInv
  <2>3. CASE UNCHANGED vars
    <3> USE DEF vars, serverVars, fileVars, tableVars, batchVars, clientVars,
                flusherVars, history
    <3>1. TypeOK'
      BY <2>1, <2>3 DEF TypeOK
    <3>2. RequestInv' /\ WrittenInv'
      BY <2>1, <2>3 DEF RequestInv, WrittenInv
    <3>3. DurableInv'
      BY <2>1, <2>3 DEF DurableInv, Synced, Holds
    <3> QED
      BY <3>1, <3>2, <3>3 DEF IInv
  <2> QED
    BY <2>2, <2>3
<1> QED
  BY <1>1, <1>2, PTL DEF Spec

\* The variables of the engine always have their types.
THEOREM TypeCorrectness == Spec => []TypeOK
<1>1. IInv => TypeOK
  BY DEF IInv
<1> QED
  BY <1>1, Invariance, PTL

\* A write that a client got OK or DELETED for stays in the segment files,
\* through every crash, power loss, I/O error and restart.
THEOREM AcknowledgedWritesAreDurable == Spec => []Durability
<1>1. IInv => Durability
  BY DEF IInv, DurableInv, Synced, Durability
<1> QED
  BY <1>1, Invariance, PTL

\* The log is append-only behind the last sync.
THEOREM SyncedStreamsAreKept == Spec => SyncedStreamsStay
<1>1. IInv /\ [Next]_vars => [DiskKept]_vars
  BY DiskStep DEF IInv
<1> QED
  BY <1>1, Invariance, PTL DEF Spec, SyncedStreamsStay

-----------------------------------------------------------------------------
(***************************************************************************)
(* The inductive invariant of the log: where each record is.               *)
(***************************************************************************)

\* A process that does not serve has no writes, and one that does not run
\* has no data.
IdleInv ==
  /\ mode # "serving" =>
       /\ fpc = "off" /\ ~ctxDone /\ failed = {} /\ currentLSN = 0
       /\ batch = <<>> /\ batches = <<>>
       /\ \A c \in Clients : pc[c] = "idle" /\ sealed[c] = <<>>
  /\ mode \in {"down", "failed"} =>
       /\ todo = {} /\ rfile = 0
       /\ \A k \in Keys : table[k] = Absent
  /\ mode = "serving" => fpc # "off"
  /\ mode \in {"recovering", "serving"} => run >= 1
  /\ run <= MaxRuns /\ currentLSN <= MaxLSN

\* The record of a write is its handler's alone.
OwnInv ==
  \A c \in Clients :
    /\ pc[c] # "idle" =>
         /\ req[c].run = run
         /\ req[c].lsn \in 1..currentLSN
         /\ \A d \in Clients : req[d] = req[c] => d = c
    /\ pc[c] # "send" => sealed[c] = <<>>
    /\ pc[c] = "push" => promise[c] = "none"

\* The write of c is in a batch, and has no result.
Pending(c) == pc[c] \in {"send", "wait"} /\ promise[c] = "none"

\* Batches in flight hold the pending writes, and nothing else.
OnlyPending ==
  \A b \in InFlight : \A i \in DOMAIN RecordsIn(b) :
    \E c \in Clients : Pending(c) /\ req[c] = RecordsIn(b)[i]

AllPending ==
  \A c \in Clients : Pending(c) =>
    \E b \in InFlight : \E i \in DOMAIN RecordsIn(b) : RecordsIn(b)[i] = req[c]

\* No record is in flight twice.
InFlightOnce ==
  \A a, b \in InFlight :
    \A i \in DOMAIN RecordsIn(a), j \in DOMAIN RecordsIn(b) :
      RecordsIn(a)[i] = RecordsIn(b)[j] => a = b /\ i = j

\* The record was issued by an earlier process, or by this one so far.
Known(r) ==
  /\ r.run <= run
  /\ mode = "recovering" => r.run < run
  /\ mode = "serving" /\ r.run = run => r.lsn <= currentLSN

\* No record is in the log twice, and a write without a result is there only
\* with the batch that is being flushed.
OnceInv ==
  \A i \in DOMAIN disk : \A p \in DOMAIN disk[i].recs :
    /\ Known(disk[i].recs[p])
    /\ \A j \in DOMAIN disk : \A q \in DOMAIN disk[j].recs :
         disk[i].recs[p] = disk[j].recs[q] => i = j /\ p = q
    /\ \A c \in Clients :
         pc[c] # "idle" /\ promise[c] = "none" /\ req[c] = disk[i].recs[p] =>
           /\ fpc \in {"sync", "ack", "nack"}
           /\ req[c] \in ToSet(fbatch)

\* An acknowledged record is nobody's any more, and older than what comes.
AckInv ==
  \A a \in acked :
    /\ a.run = a.rec.run
    /\ a.run <= run
    /\ mode = "recovering" => a.run < run
    /\ mode = "serving" /\ a.run = run => a.at <= currentLSN
    /\ a.rec.lsn <= a.at
    /\ \A c \in Clients : req[c] # a.rec

LogInv ==
  /\ IInv /\ IdleInv /\ OwnInv
  /\ OnlyPending /\ AllPending /\ InFlightOnce
  /\ OnceInv /\ AckInv /\ RealTimeOrder

-----------------------------------------------------------------------------
(***************************************************************************)
(* Writers and their records.                                              *)
(***************************************************************************)

\* Every step keeps processes that do not serve without writes.
LEMMA IdleStep ==
  ASSUME TypeOK, IdleInv, Next
  PROVE  IdleInv'
<1> USE DEF serverVars, fileVars, tableVars, batchVars, clientVars,
            flusherVars, history
<1>1. ASSUME NEW m \in {"down", "failed"}, Lose(m)
      PROVE  IdleInv'
  BY <1>1, WalAssumption DEF IdleInv, Lose
<1>2. ASSUME mode = "serving", mode' = mode, run' = run, fpc' # "off",
             currentLSN' \in {currentLSN, currentLSN + 1},
             currentLSN' # currentLSN => currentLSN < MaxLSN
      PROVE  IdleInv'
  BY <1>2, WalAssumption DEF IdleInv, TypeOK
<1>3. CASE Boot
  BY <1>3, WalAssumption DEF Boot, IdleInv, TypeOK
<1>4. CASE Crash \/ Exit
  BY <1>1, <1>4 DEF Crash, Exit
<1>5. CASE Shutdown
  BY <1>2, <1>5 DEF Shutdown, IdleInv
<1>6. CASE RecoverDecode \/ RecoverFails
  <2>1. CASE Lose("failed")
    BY <1>1, <2>1
  <2>2. CASE ~Lose("failed")
    BY <1>6, <2>2 DEF RecoverDecode, RecoverFails, IdleInv
  <2> QED
    BY <2>1, <2>2
<1>7. CASE RecoverApply
  BY <1>7 DEF RecoverApply, IdleInv
<1>8. CASE RecoverFinish
  BY <1>8, WalAssumption DEF RecoverFinish, IdleInv
<1>9. CASE Handler
  <2>1. mode = "serving"
    BY <1>9 DEF Handler, Set, Del, Issue, push, Send, Respond, Get, IdleInv
  <2>2. /\ mode' = mode /\ run' = run /\ fpc' = fpc
        /\ currentLSN' \in {currentLSN, currentLSN + 1}
        /\ currentLSN' # currentLSN => currentLSN < MaxLSN
    BY <1>9 DEF Handler, Set, Del, Issue, push, Send, Respond, Get
  <2> QED
    BY <1>2, <2>1, <2>2 DEF IdleInv
<1>10. CASE Flusher
  <2>1. fpc # "off" /\ mode' = mode /\ run' = run /\ currentLSN' = currentLSN
    BY <1>10
       DEF Flusher, CheckCtx, SelectDone, SelectBatch, SelectTick, DrainBatch,
           DrainSeal, Receive, Rotate, RotateFails, WriteOk, WriteFails, SyncOk,
           SyncFails, NotifyOk, NotifyErr, ApplyRecord
  <2>2. fpc' # "off"
    BY <1>10, <2>1
       DEF Flusher, CheckCtx, SelectDone, SelectBatch, SelectTick, DrainBatch,
           DrainSeal, Receive, flushBatch, Rotate, RotateFails, WriteOk,
           WriteFails, SyncOk, SyncFails, NotifyOk, NotifyErr, ApplyRecord, TypeOK
  <2> QED
    BY <1>2, <2>1, <2>2 DEF IdleInv
<1> QED
  BY <1>3, <1>4, <1>5, <1>6, <1>7, <1>8, <1>9, <1>10 DEF Next, Recovery

\* The batches in flight, by kind.
LEMMA InFlightKinds ==
  /\ RecordsIn(<<"open", 0>>) = batch
  /\ RecordsIn(<<"flush", 0>>) = IF Flushing THEN fbatch ELSE <<>>
  /\ \A c \in Clients : RecordsIn(<<"sealed", c>>) = sealed[c]
  /\ \A j \in DOMAIN batches : RecordsIn(<<"channel", j>>) = batches[j]
  /\ \A b \in InFlight :
       \/ b = <<"open", 0>>
       \/ b = <<"flush", 0>>
       \/ \E c \in Clients : b = <<"sealed", c>>
       \/ \E j \in DOMAIN batches : b = <<"channel", j>>
  /\ <<"open", 0>> \in InFlight /\ <<"flush", 0>> \in InFlight
  /\ \A c \in Clients : <<"sealed", c>> \in InFlight
  /\ \A j \in DOMAIN batches : <<"channel", j>> \in InFlight
BY DEF RecordsIn, InFlight

\* Record r is in flight, in batch b at place i.
At(b, i, r) ==
  b \in InFlight /\ i \in DOMAIN RecordsIn(b) /\ RecordsIn(b)[i] = r

QueueInv == OnlyPending /\ AllPending /\ InFlightOnce

\* QueueInv in terms of At.
LEMMA QueueAt ==
  QueueInv <=>
    /\ \A b, i, r : At(b, i, r) => \E c \in Clients : Pending(c) /\ req[c] = r
    /\ \A c \in Clients : Pending(c) => \E b, i : At(b, i, req[c])
    /\ \A a, b, i, j, r : At(a, i, r) /\ At(b, j, r) => a = b /\ i = j
BY DEF QueueInv, OnlyPending, AllPending, InFlightOnce, At

\* The same after a step.
LEMMA QueueAtNext ==
  ASSUME \A b, i, r : At(b, i, r)' => \E c \in Clients : Pending(c)' /\ req'[c] = r,
         \A c \in Clients : Pending(c)' => \E b, i : At(b, i, req[c])',
         \A a, b, i, j, r : At(a, i, r)' /\ At(b, j, r)' => a = b /\ i = j
  PROVE  QueueInv'
BY DEF QueueInv, OnlyPending, AllPending, InFlightOnce, At

\* A batch that is in flight before or after a step is of one of the kinds.
LEMMA KindsNext ==
  ASSUME NEW b, b \in InFlight \/ b \in InFlight'
  PROVE  \/ b \in {<<"open", 0>>, <<"flush", 0>>}
         \/ \E c \in Clients : b = <<"sealed", c>>
         \/ \E j : b = <<"channel", j>>
BY DEF InFlight

\* The batch that is being flushed holds writes without a result.
LEMMA FlushPending ==
  ASSUME QueueInv, Flushing, NEW r \in ToSet(fbatch)
  PROVE  \E c \in Clients : Pending(c) /\ req[c] = r
<1>1. PICK i \in DOMAIN fbatch : fbatch[i] = r
  BY DEF ToSet
<1>2. At(<<"flush", 0>>, i, r)
  BY <1>1, InFlightKinds DEF At
<1> QED
  BY <1>2, QueueAt

\* Only a request gives a handler a record, and that has a new LSN.
LEMMA OwnStep ==
  ASSUME TypeOK, RequestInv, IdleInv, OwnInv, QueueInv, Next
  PROVE  OwnInv'
<1> USE DEF serverVars, fileVars, tableVars, batchVars, clientVars,
            flusherVars, history
<1>1. ASSUME UNCHANGED <<pc, req, sealed, run, currentLSN>>, promise' = promise
      PROVE  OwnInv'
  BY <1>1 DEF OwnInv
<1>2. ASSUME NEW m, Lose(m)
      PROVE  OwnInv'
  BY <1>2 DEF OwnInv, Lose
<1>3. ASSUME mode # "serving", UNCHANGED clientVars
      PROVE  OwnInv'
  BY <1>3 DEF OwnInv, IdleInv
<1>4. CASE Boot \/ Crash \/ Shutdown \/ Exit
  BY <1>1, <1>2, <1>3, <1>4 DEF Boot, Crash, Shutdown, Exit
<1>5. CASE Recovery
  BY <1>2, <1>3, <1>5 DEF Recovery, RecoverDecode, RecoverApply, RecoverFinish,
                          RecoverFails
<1>6. CASE Handler
  <2>1. ASSUME NEW c \in Clients, NEW k \in Keys, NEW v \in Values \cup {Absent},
               NEW cmd \in {CommandSetID, CommandDelID}, Issue(c, cmd, k, v)
        PROVE  OwnInv'
    <3> DEFINE new == [run |-> run, lsn |-> currentLSN + 1, cmd |-> cmd,
                       key |-> k, val |-> v]
    <3>1. /\ req' = [req EXCEPT ![c] = new]
          /\ pc' = [pc EXCEPT ![c] = "push"]
          /\ currentLSN' = currentLSN + 1 /\ currentLSN \in Nat
          /\ UNCHANGED <<run, sealed, promise>>
          /\ pc[c] = "idle"
      BY <2>1 DEF Issue, TypeOK
    <3>2. new.run = run /\ new.lsn = currentLSN + 1 /\ new \in Log
      BY DEF TypeOK, Log
    <3> HIDE DEF new
    <3>3. \A d \in Clients : req[d] # new
      <4> SUFFICES ASSUME NEW d \in Clients, req[d] = new PROVE FALSE
        OBVIOUS
      <4>1. CASE pc[d] = "idle"
        BY <3>2, <4>1, WalAssumption DEF RequestInv
      <4>2. CASE pc[d] # "idle"
        BY <3>1, <3>2, <4>2 DEF OwnInv
      <4> QED
        BY <4>1, <4>2
    <3>4. promise[c] = "none"
      BY <3>1 DEF RequestInv
    <3> QED
      BY <3>1, <3>2, <3>3, <3>4 DEF OwnInv, TypeOK
  <2>2. ASSUME NEW c \in Clients, push(c)
        PROVE  OwnInv'
    <3>1. /\ req' = req /\ promise' = promise /\ UNCHANGED <<run, currentLSN>>
          /\ pc[c] = "push"
          /\ \/ pc' = [pc EXCEPT ![c] = "send"] /\ \A d \in Clients : d # c => sealed'[d] = sealed[d]
             \/ pc' = [pc EXCEPT ![c] = "wait"] /\ sealed' = sealed
      BY <2>2 DEF push, TypeOK
    <3> QED
      BY <3>1 DEF OwnInv, TypeOK
  <2>3. ASSUME NEW c \in Clients, Send(c)
        PROVE  OwnInv'
    BY <2>3 DEF Send, OwnInv, TypeOK
  <2>4. ASSUME NEW c \in Clients, Respond(c)
        PROVE  OwnInv'
    <3>1. /\ pc[c] = "wait"
          /\ pc' = [pc EXCEPT ![c] = "idle"]
          /\ req' = [req EXCEPT ![c] = None]
          /\ promise' = [promise EXCEPT ![c] = "none"]
          /\ UNCHANGED <<run, currentLSN, sealed>>
      BY <2>4 DEF Respond
    <3>2. \A d \in Clients : pc[d] # "idle" => req[d] # None
      BY WalAssumption DEF RequestInv
    <3> QED
      BY <3>1, <3>2 DEF OwnInv, TypeOK
  <2>5. ASSUME NEW r \in Readers, NEW k \in Keys, Get(r, k)
        PROVE  OwnInv'
    BY <1>1, <2>5 DEF Get
  <2> QED
    BY <1>6, <2>1, <2>2, <2>3, <2>4, <2>5 DEF Handler, Set, Del
<1>7. CASE Flusher
  <2>1. UNCHANGED <<pc, req, sealed, run, currentLSN>>
    BY <1>7
       DEF Flusher, CheckCtx, SelectDone, SelectBatch, SelectTick, DrainBatch,
           DrainSeal, Receive, Rotate, RotateFails, WriteOk, WriteFails, SyncOk,
           SyncFails, NotifyOk, NotifyErr, ApplyRecord
  <2>2. promise' = promise
          \/ \E result \in {"ok", "err"} : Flushing /\ notification(result)
    BY <1>7
       DEF Flusher, CheckCtx, SelectDone, SelectBatch, SelectTick, DrainBatch,
           DrainSeal, Receive, Rotate, RotateFails, WriteOk, WriteFails, SyncOk,
           SyncFails, NotifyOk, NotifyErr, ApplyRecord, Flushing
  <2>3. \A c \in Clients : pc[c] = "push" /\ Flushing => req[c] \notin ToSet(fbatch)
    BY FlushPending DEF OwnInv, Pending
  <2>4. \A c \in Clients : pc[c] = "push" => promise'[c] = promise[c]
    BY <2>2, <2>3 DEF notification
  <2> QED
    BY <2>1, <2>4 DEF OwnInv
<1> QED
  BY <1>4, <1>5, <1>6, <1>7 DEF Next

-----------------------------------------------------------------------------
(***************************************************************************)
(* The moves of records between batches.                                   *)
(***************************************************************************)

\* A step that leaves records where they are and writes as they are.
LEMMA QueueKept ==
  ASSUME QueueInv, UNCHANGED <<batch, batches, sealed>>,
         Flushing' <=> Flushing, Flushing => fbatch' = fbatch,
         \A c \in Clients : (Pending(c)' <=> Pending(c)) /\ (Pending(c) => req'[c] = req[c])
  PROVE  QueueInv'
<1>1. \A b, i, r : At(b, i, r)' <=> At(b, i, r)
  BY DEF At, InFlight, RecordsIn
<1>2. \A b, i, r : At(b, i, r)' => \E c \in Clients : Pending(c)' /\ req'[c] = r
  BY <1>1, QueueAt
<1>3. \A c \in Clients : Pending(c)' => \E b, i : At(b, i, req[c])'
  <2> SUFFICES ASSUME NEW c \in Clients, Pending(c)'
               PROVE  \E b, i : At(b, i, req[c])'
    OBVIOUS
  <2>1. PICK b, i : At(b, i, req[c])
    BY QueueAt
  <2>2. req'[c] = req[c]
    OBVIOUS
  <2> QED
    BY <1>1, <2>1, <2>2
<1>4. \A a, b, i, j, r : At(a, i, r)' /\ At(b, j, r)' => a = b /\ i = j
  BY <1>1, QueueAt
<1> QED
  BY <1>2, <1>3, <1>4, QueueAtNext

\* A process that has lost its memory has no records in flight.
LEMMA QueueLost ==
  ASSUME NEW m, Lose(m)
  PROVE  QueueInv'
<1>1. \A b \in InFlight' : RecordsIn(b)' = <<>>
  BY DEF Lose, InFlight, RecordsIn, Flushing
<1>2. \A c \in Clients : ~Pending(c)'
  BY DEF Lose, Pending
<1> QED
  BY <1>1, <1>2 DEF QueueInv, OnlyPending, AllPending, InFlightOnce

\* push adds the record to the open batch, and may seal that.
LEMMA QueuePush ==
  ASSUME TypeOK, RequestInv, OwnInv, QueueInv, NEW c \in Clients, push(c)
  PROVE  QueueInv'
<1> USE DEF batchVars, clientVars, flusherVars
<1> DEFINE grown  == Append(batch, req[c])
           volume == activeBatchVolume + EncodedSize(1)
           n == Len(batch) + 1
<1>1. /\ pc[c] = "push" /\ promise[c] = "none" /\ sealed[c] = <<>>
      /\ batch \in Seq(Log) /\ req[c] \in Log
      /\ pc \in [Clients -> {"idle", "push", "send", "wait"}]
      /\ sealed \in [Clients -> Seq(Log)]
  BY DEF push, OwnInv, TypeOK, RequestInv
<1>2. UNCHANGED <<batches, req, promise, fpc, fbatch>>
  BY DEF push
<1>3. /\ DOMAIN grown = 1..n /\ DOMAIN batch = 1..(n - 1)
      /\ grown[n] = req[c] /\ n \in Nat \ {0}
      /\ \A i \in 1..(n - 1) : grown[i] = batch[i]
  BY <1>1
<1>4. \A b, i : ~At(b, i, req[c])
  <2> SUFFICES ASSUME NEW b, NEW i, At(b, i, req[c]) PROVE FALSE
    OBVIOUS
  <2>1. PICK d \in Clients : Pending(d) /\ req[d] = req[c]
    BY QueueAt
  <2> QED
    BY <1>1, <2>1 DEF OwnInv, Pending
<1>5. \A d \in Clients : Pending(d)' <=> Pending(d) \/ d = c
  <2>1. \E p \in {"send", "wait"} : pc' = [pc EXCEPT ![c] = p]
    BY DEF push
  <2> QED
    BY <1>1, <1>2, <2>1 DEF Pending
<1>6. CASE BatchFull(grown, volume)
  <2>1. /\ batch' = <<>>
        /\ sealed' = [sealed EXCEPT ![c] = grown]
    BY <1>6 DEF push
  <2> HIDE DEF grown, n
  <2>2. \A b, i, r : At(b, i, r)' <=>
          \/ b = <<"sealed", c>> /\ i = n /\ r = req[c]
          \/ b = <<"sealed", c>> /\ At(<<"open", 0>>, i, r)
          \/ b # <<"open", 0>> /\ b # <<"sealed", c>> /\ At(b, i, r)
    <3> SUFFICES ASSUME NEW b, NEW i, NEW r
                 PROVE  At(b, i, r)' <=>
                        \/ b = <<"sealed", c>> /\ i = n /\ r = req[c]
                        \/ b = <<"sealed", c>> /\ At(<<"open", 0>>, i, r)
                        \/ b # <<"open", 0>> /\ b # <<"sealed", c>> /\ At(b, i, r)
      OBVIOUS
    <3>1. CASE \E d \in Clients : b = <<"sealed", d>>
      <4>1. PICK d \in Clients : b = <<"sealed", d>>
        BY <3>1
      <4>2. CASE d # c
        BY <1>1, <2>1, <4>1, <4>2 DEF At, InFlight, RecordsIn
      <4>3. CASE d = c
        <5>1. RecordsIn(b)' = grown /\ b \in InFlight' /\ RecordsIn(b) = <<>>
          BY <1>1, <2>1, <4>1, <4>3 DEF InFlight, RecordsIn
        <5>2. At(b, i, r)' <=> i \in 1..n /\ grown[i] = r
          BY <1>3, <5>1 DEF At
        <5>3. At(<<"open", 0>>, i, r) <=> i \in 1..(n - 1) /\ batch[i] = r
          BY <1>3 DEF At, InFlight, RecordsIn
        <5> QED
          BY <1>3, <4>1, <4>3, <5>2, <5>3
      <4> QED
        BY <4>2, <4>3
    <3>2. CASE \E j : b = <<"channel", j>>
      BY <1>2, <2>1, <3>2 DEF At, InFlight, RecordsIn
    <3>3. CASE b = <<"open", 0>>
      BY <1>1, <1>3, <2>1, <3>3 DEF At, InFlight, RecordsIn
    <3>4. CASE b = <<"flush", 0>>
      BY <1>2, <2>1, <3>4 DEF At, InFlight, RecordsIn, Flushing
    <3>5. CASE b \notin InFlight /\ b \notin InFlight'
      BY <3>1, <3>3, <3>5 DEF At
    <3> QED
      BY <3>1, <3>2, <3>3, <3>4, <3>5, KindsNext
  <2>3. \A i, r : ~At(<<"sealed", c>>, i, r)
    BY <1>1, InFlightKinds DEF At
  <2>4. \A i, r : At(<<"open", 0>>, i, r) => i # n
    BY <1>3, InFlightKinds DEF At
  <2>5. \A d \in Clients : Pending(d)' => \E b, i : At(b, i, req[d])'
    <3> SUFFICES ASSUME NEW d \in Clients, Pending(d)'
                 PROVE  \E b, i : At(b, i, req[d])'
      OBVIOUS
    <3>1. CASE d = c
      BY <1>2, <2>2, <3>1
    <3>2. CASE d # c
      <4>1. PICK b, i : At(b, i, req[d])
        BY <1>5, <3>2, QueueAt
      <4>2. CASE b = <<"open", 0>>
        BY <1>2, <2>2, <4>1, <4>2
      <4>3. CASE b # <<"open", 0>>
        BY <1>2, <2>2, <2>3, <4>1, <4>3
      <4> QED
        BY <4>2, <4>3
    <3> QED
      BY <3>1, <3>2
  <2>6. \A b, i, r : At(b, i, r)' => \E d \in Clients : Pending(d)' /\ req'[d] = r
    BY <1>2, <1>5, <2>2, QueueAt
  <2>7. \A a, b, i, j, r : At(a, i, r)' /\ At(b, j, r)' => a = b /\ i = j
    BY <1>4, <2>2, QueueAt
  <2> QED
    BY <2>5, <2>6, <2>7, QueueAtNext
<1>7. CASE ~BatchFull(grown, volume)
  <2>1. batch' = grown /\ sealed' = sealed
    BY <1>7 DEF push
  <2> HIDE DEF grown, n
  <2>2. \A b, i, r : At(b, i, r)' <=>
          \/ b = <<"open", 0>> /\ i = n /\ r = req[c]
          \/ At(b, i, r)
    <3> SUFFICES ASSUME NEW b, NEW i, NEW r
                 PROVE  At(b, i, r)' <=>
                        \/ b = <<"open", 0>> /\ i = n /\ r = req[c]
                        \/ At(b, i, r)
      OBVIOUS
    <3>1. CASE \E d \in Clients : b = <<"sealed", d>>
      BY <1>1, <1>2, <1>3, <2>1, <3>1 DEF At, InFlight, RecordsIn
    <3>2. CASE \E j : b = <<"channel", j>>
      BY <1>2, <2>1, <3>2 DEF At, InFlight, RecordsIn
    <3>3. CASE b = <<"open", 0>>
      <4>1. RecordsIn(b)' = grown /\ b \in InFlight' /\ RecordsIn(b) = batch
              /\ b \in InFlight
        BY <2>1, <3>3 DEF InFlight, RecordsIn
      <4>2. At(b, i, r)' <=> i \in 1..n /\ grown[i] = r
        BY <1>3, <4>1 DEF At
      <4>3. At(b, i, r) <=> i \in 1..(n - 1) /\ batch[i] = r
        BY <1>3, <4>1 DEF At
      <4> QED
        BY <1>3, <3>3, <4>2, <4>3
    <3>4. CASE b = <<"flush", 0>>
      BY <1>2, <2>1, <3>4 DEF At, InFlight, RecordsIn, Flushing
    <3>5. CASE b \notin InFlight /\ b \notin InFlight'
      BY <3>1, <3>3, <3>5 DEF At
    <3> QED
      BY <3>1, <3>2, <3>3, <3>4, <3>5, KindsNext
  <2>5. \A d \in Clients : Pending(d)' => \E b, i : At(b, i, req[d])'
    BY <1>2, <1>5, <2>2, QueueAt
  <2>6. \A b, i, r : At(b, i, r)' => \E d \in Clients : Pending(d)' /\ req'[d] = r
    BY <1>2, <1>5, <2>2, QueueAt
  <2>7. \A a, b, i, j, r : At(a, i, r)' /\ At(b, j, r)' => a = b /\ i = j
    BY <1>4, <2>2, QueueAt
  <2> QED
    BY <2>5, <2>6, <2>7, QueueAtNext
<1> QED
  BY <1>6, <1>7

\* Send moves a sealed batch to the end of the channel.
LEMMA QueueSend ==
  ASSUME TypeOK, QueueInv, NEW c \in Clients, Send(c)
  PROVE  QueueInv'
<1> USE DEF flusherVars
<1> DEFINE n == Len(batches) + 1
<1>1. /\ batches \in Seq(Seq(Log)) /\ sealed \in [Clients -> Seq(Log)]
      /\ pc \in [Clients -> {"idle", "push", "send", "wait"}]
      /\ sealed[c] \in Seq(Log)
  BY DEF TypeOK
<1>2. /\ UNCHANGED <<batch, req, promise, fpc, fbatch>>
      /\ pc[c] = "send" /\ pc' = [pc EXCEPT ![c] = "wait"]
      /\ batches' = Append(batches, sealed[c])
      /\ sealed' = [sealed EXCEPT ![c] = <<>>]
  BY DEF Send
<1>3. \A d \in Clients : Pending(d)' <=> Pending(d)
  BY <1>1, <1>2 DEF Pending
<1>4. /\ DOMAIN batches' = 1..n /\ DOMAIN batches = 1..(n - 1) /\ n \in Nat
      /\ batches'[n] = sealed[c]
      /\ \A i \in 1..(n - 1) : batches'[i] = batches[i]
  BY <1>1, <1>2
<1> HIDE DEF n
<1>5. \A b, i, r : At(b, i, r)' <=>
        \/ b = <<"channel", n>> /\ At(<<"sealed", c>>, i, r)
        \/ b # <<"channel", n>> /\ b # <<"sealed", c>> /\ At(b, i, r)
  <2> SUFFICES ASSUME NEW b, NEW i, NEW r
               PROVE  At(b, i, r)' <=>
                        \/ b = <<"channel", n>> /\ At(<<"sealed", c>>, i, r)
                        \/ b # <<"channel", n>> /\ b # <<"sealed", c>> /\ At(b, i, r)
    OBVIOUS
  <2>1. CASE \E d \in Clients : b = <<"sealed", d>>
    BY <1>1, <1>2, <2>1 DEF At, InFlight, RecordsIn
  <2>2. CASE \E j : b = <<"channel", j>>
    BY <1>1, <1>2, <1>4, <2>2 DEF At, InFlight, RecordsIn
  <2>3. CASE b \in {<<"open", 0>>, <<"flush", 0>>}
    BY <1>2, <2>3 DEF At, InFlight, RecordsIn, Flushing
  <2>4. CASE b \notin InFlight /\ b \notin InFlight'
    BY <2>2, <2>4 DEF At
  <2> QED
    BY <2>1, <2>2, <2>3, <2>4, KindsNext
<1>6. \A i, r : ~At(<<"channel", n>>, i, r)
  BY <1>4 DEF At, InFlight
<1>7. \A d \in Clients : Pending(d)' => \E b, i : At(b, i, req[d])'
  <2> SUFFICES ASSUME NEW d \in Clients, Pending(d)'
               PROVE  \E b, i : At(b, i, req[d])'
    OBVIOUS
  <2>1. PICK b, i : At(b, i, req[d])
    BY <1>3, QueueAt
  <2>2. CASE b = <<"sealed", c>>
    BY <1>2, <1>5, <2>1, <2>2
  <2>3. CASE b # <<"sealed", c>>
    BY <1>2, <1>5, <1>6, <2>1, <2>3
  <2> QED
    BY <2>2, <2>3
<1>8. \A b, i, r : At(b, i, r)' => \E d \in Clients : Pending(d)' /\ req'[d] = r
  BY <1>2, <1>3, <1>5, QueueAt
<1>9. \A a, b, i, j, r : At(a, i, r)' /\ At(b, j, r)' => a = b /\ i = j
  BY <1>5, QueueAt
<1> QED
  BY <1>7, <1>8, <1>9, QueueAtNext

\* flushBatch with the first batch of the channel.
LEMMA QueueReceive ==
  ASSUME TypeOK, QueueInv, NEW from \in {"select", "drain"},
         NEW ret \in {"top", "drain"}, Receive(from, ret)
  PROVE  QueueInv'
<1> USE DEF clientVars
<1>1. batches \in Seq(Seq(Log)) /\ batches # <<>> /\ Head(batches) \in Seq(Log)
  BY DEF TypeOK, Receive
<1>2. /\ UNCHANGED <<batch, pc, req, sealed, promise>>
      /\ batches' = Tail(batches) /\ fbatch' = Head(batches)
      /\ ~Flushing
      /\ ~Flushing' => Head(batches) = <<>>
  BY DEF Receive, flushBatch, Flushing
<1>3. /\ DOMAIN batches = 1..Len(batches) /\ DOMAIN batches' = 1..(Len(batches) - 1)
      /\ Len(batches) \in Nat \ {0}
      /\ \A j \in 1..(Len(batches) - 1) : batches'[j] = batches[j + 1]
      /\ Head(batches) = batches[1]
  BY <1>1, <1>2
<1>4. \A d \in Clients : Pending(d)' <=> Pending(d)
  BY <1>2 DEF Pending
<1> DEFINE Old(b) == IF b = <<"flush", 0>> THEN <<"channel", 1>>
                     ELSE IF b[1] = "channel" THEN <<"channel", b[2] + 1>>
                     ELSE b
<1>5. ASSUME NEW b, NEW i, NEW r, At(b, i, r)'
      PROVE  At(Old(b), i, r)
  <2>1. CASE b = <<"open", 0>> \/ \E d \in Clients : b = <<"sealed", d>>
    BY <1>2, <1>5, <2>1 DEF At, InFlight, RecordsIn
  <2>2. CASE b = <<"flush", 0>>
    <3>1. RecordsIn(b)' = batches[1]
      BY <1>2, <1>3, <2>2 DEF RecordsIn
    <3> QED
      BY <1>3, <1>5, <2>2, <3>1, InFlightKinds DEF At
  <2>3. CASE \E j : b = <<"channel", j>>
    <3>1. PICK j : b = <<"channel", j>>
      BY <2>3
    <3>2. j \in 1..(Len(batches) - 1) /\ RecordsIn(b)' = batches[j + 1]
      BY <1>3, <1>5, <3>1 DEF At, InFlight, RecordsIn
    <3>3. j + 1 \in DOMAIN batches /\ Old(b) = <<"channel", j + 1>>
      BY <1>3, <3>1, <3>2
    <3> QED
      BY <1>5, <3>2, <3>3, InFlightKinds DEF At
  <2> QED
    BY <1>5, <2>1, <2>2, <2>3, KindsNext DEF At
<1>6. ASSUME NEW b, NEW i, NEW r, At(b, i, r)
      PROVE  \E a : At(a, i, r)'
  <2>1. CASE b = <<"open", 0>> \/ \E d \in Clients : b = <<"sealed", d>>
    BY <1>2, <1>6, <2>1 DEF At, InFlight, RecordsIn
  <2>2. b # <<"flush", 0>>
    BY <1>2, <1>6 DEF At, RecordsIn
  <2>3. CASE \E j : b = <<"channel", j>>
    <3>1. PICK j : b = <<"channel", j>>
      BY <2>3
    <3>2. j \in 1..Len(batches) /\ i \in DOMAIN batches[j] /\ batches[j][i] = r
      BY <1>3, <1>6, <3>1 DEF At, InFlight, RecordsIn
    <3>3. CASE j = 1
      <4>1. Flushing'
        BY <1>2, <1>3, <3>2, <3>3
      <4>2. RecordsIn(<<"flush", 0>>)' = batches[1] /\ <<"flush", 0>> \in InFlight'
        BY <1>2, <1>3, <4>1 DEF RecordsIn, InFlight
      <4> QED
        BY <3>2, <3>3, <4>2 DEF At
    <3>4. CASE j # 1
      <4>1. j - 1 \in 1..(Len(batches) - 1) /\ batches'[j - 1] = batches[j]
        BY <1>3, <3>2, <3>4
      <4>2. /\ RecordsIn(<<"channel", j - 1>>)' = batches[j]
            /\ <<"channel", j - 1>> \in InFlight'
        BY <1>3, <4>1 DEF RecordsIn, InFlight
      <4> QED
        BY <3>2, <4>2 DEF At
    <3> QED
      BY <3>3, <3>4
  <2> QED
    BY <1>6, <2>1, <2>2, <2>3, KindsNext DEF At
<1>7. ASSUME NEW a, NEW b, a \in InFlight', b \in InFlight', Old(a) = Old(b)
      PROVE  a = b
  <2>1. \A x \in {a, b} :
          x[1] = "channel" => x = <<"channel", x[2]>> /\ x[2] \in Nat \ {0}
    BY <1>3, <1>7 DEF InFlight
  <2> QED
    BY <1>7, <2>1
<1> HIDE DEF Old
<1>8. \A d \in Clients : Pending(d)' => \E b, i : At(b, i, req[d])'
  <2> SUFFICES ASSUME NEW d \in Clients, Pending(d)'
               PROVE  \E b, i : At(b, i, req[d])'
    OBVIOUS
  <2>1. PICK b, i : At(b, i, req[d])
    BY <1>4, QueueAt
  <2> QED
    BY <1>2, <1>6, <2>1
<1>9. \A b, i, r : At(b, i, r)' => \E d \in Clients : Pending(d)' /\ req'[d] = r
  <2> SUFFICES ASSUME NEW b, NEW i, NEW r, At(b, i, r)'
               PROVE  \E d \in Clients : Pending(d)' /\ req'[d] = r
    OBVIOUS
  <2>1. PICK d \in Clients : Pending(d) /\ req[d] = r
    BY <1>5, QueueAt
  <2> QED
    BY <1>2, <1>4, <2>1
<1>10. \A a, b, i, j, r : At(a, i, r)' /\ At(b, j, r)' => a = b /\ i = j
  <2> SUFFICES ASSUME NEW a, NEW b, NEW i, NEW j, NEW r, At(a, i, r)', At(b, j, r)'
               PROVE  a = b /\ i = j
    OBVIOUS
  <2>1. At(Old(a), i, r) /\ At(Old(b), j, r)
    BY <1>5
  <2>2. Old(a) = Old(b) /\ i = j
    BY <2>1, QueueAt
  <2> QED
    BY <1>7, <2>2 DEF At
<1> QED
  BY <1>8, <1>9, <1>10, QueueAtNext

\* flushBatch with the open batch.
LEMMA QueueSeal ==
  ASSUME TypeOK, QueueInv, SelectTick \/ DrainSeal
  PROVE  QueueInv'
<1> USE DEF clientVars
<1>1. batch \in Seq(Log)
  BY DEF TypeOK
<1>2. /\ UNCHANGED <<batches, pc, req, sealed, promise>>
      /\ batch' = <<>> /\ fbatch' = batch
      /\ ~Flushing
      /\ ~Flushing' => batch = <<>>
  BY DEF SelectTick, DrainSeal, SealBatch, flushBatch, Flushing
<1>3. \A d \in Clients : Pending(d)' <=> Pending(d)
  BY <1>2 DEF Pending
<1>4. \A b, i, r : At(b, i, r)' <=>
        \/ b = <<"flush", 0>> /\ At(<<"open", 0>>, i, r)
        \/ b # <<"flush", 0>> /\ b # <<"open", 0>> /\ At(b, i, r)
  <2> SUFFICES ASSUME NEW b, NEW i, NEW r
               PROVE  At(b, i, r)' <=>
                        \/ b = <<"flush", 0>> /\ At(<<"open", 0>>, i, r)
                        \/ b # <<"flush", 0>> /\ b # <<"open", 0>> /\ At(b, i, r)
    OBVIOUS
  <2>1. CASE \E d \in Clients : b = <<"sealed", d>>
    BY <1>2, <2>1 DEF At, InFlight, RecordsIn
  <2>2. CASE \E j : b = <<"channel", j>>
    BY <1>2, <2>2 DEF At, InFlight, RecordsIn
  <2>3. CASE b \in {<<"open", 0>>, <<"flush", 0>>}
    BY <1>1, <1>2, <2>3 DEF At, InFlight, RecordsIn
  <2>4. CASE b \notin InFlight /\ b \notin InFlight'
    BY <2>3, <2>4 DEF At
  <2> QED
    BY <2>1, <2>2, <2>3, <2>4, KindsNext
<1>5. \A i, r : ~At(<<"flush", 0>>, i, r)
  BY <1>2, InFlightKinds DEF At
<1>6. \A d \in Clients : Pending(d)' => \E b, i : At(b, i, req[d])'
  <2> SUFFICES ASSUME NEW d \in Clients, Pending(d)'
               PROVE  \E b, i : At(b, i, req[d])'
    OBVIOUS
  <2>1. PICK b, i : At(b, i, req[d])
    BY <1>3, QueueAt
  <2>2. CASE b = <<"open", 0>>
    BY <1>2, <1>4, <2>1, <2>2
  <2>3. CASE b # <<"open", 0>>
    BY <1>2, <1>4, <1>5, <2>1, <2>3
  <2> QED
    BY <2>2, <2>3
<1>7. \A b, i, r : At(b, i, r)' => \E d \in Clients : Pending(d)' /\ req'[d] = r
  BY <1>2, <1>3, <1>4, QueueAt
<1>8. \A a, b, i, j, r : At(a, i, r)' /\ At(b, j, r)' => a = b /\ i = j
  BY <1>4, QueueAt
<1> QED
  BY <1>6, <1>7, <1>8, QueueAtNext

\* notification resolves the writes of the batch as the flusher lets go of it.
LEMMA QueueNotify ==
  ASSUME TypeOK, OwnInv, QueueInv, NotifyOk \/ NotifyErr
  PROVE  QueueInv'
<1> USE DEF batchVars
<1>1. PICK result \in {"ok", "err"} : notification(result)
  BY DEF NotifyOk, NotifyErr
<1>2. UNCHANGED <<batch, batches, pc, req, sealed>> /\ Flushing /\ ~Flushing'
  BY DEF NotifyOk, NotifyErr, Flushing, TypeOK
<1>3. \A d \in Clients : Pending(d)' <=> Pending(d) /\ req[d] \notin ToSet(fbatch)
  BY <1>1, <1>2 DEF Pending, notification
<1>4. \A b, i, r : At(b, i, r)' <=> b # <<"flush", 0>> /\ At(b, i, r)
  BY <1>2 DEF At, InFlight, RecordsIn
<1>5. \A r : r \in ToSet(fbatch) <=> \E i : At(<<"flush", 0>>, i, r)
  BY <1>2, InFlightKinds DEF At, ToSet
<1>6. \A d \in Clients : Pending(d)' => \E b, i : At(b, i, req[d])'
  <2> SUFFICES ASSUME NEW d \in Clients, Pending(d)'
               PROVE  \E b, i : At(b, i, req[d])'
    OBVIOUS
  <2>1. PICK b, i : At(b, i, req[d])
    BY <1>3, QueueAt
  <2>2. b # <<"flush", 0>>
    BY <1>3, <1>5, <2>1
  <2> QED
    BY <1>2, <1>4, <2>1, <2>2
<1>7. \A b, i, r : At(b, i, r)' => \E d \in Clients : Pending(d)' /\ req'[d] = r
  <2> SUFFICES ASSUME NEW b, NEW i, NEW r, At(b, i, r)'
               PROVE  \E d \in Clients : Pending(d)' /\ req'[d] = r
    OBVIOUS
  <2>1. PICK d \in Clients : Pending(d) /\ req[d] = r
    BY <1>4, QueueAt
  <2>2. r \notin ToSet(fbatch)
    BY <1>4, <1>5, QueueAt
  <2> QED
    BY <1>2, <1>3, <2>1, <2>2
<1>8. \A a, b, i, j, r : At(a, i, r)' /\ At(b, j, r)' => a = b /\ i = j
  BY <1>4, QueueAt
<1> QED
  BY <1>6, <1>7, <1>8, QueueAtNext

\* Every step keeps the writes without a result in flight, once each.
LEMMA QueueStep ==
  ASSUME TypeOK, RequestInv, IdleInv, OwnInv, QueueInv, Next
  PROVE  QueueInv'
<1> USE DEF serverVars, fileVars, tableVars, batchVars, clientVars,
            flusherVars, history
<1>1. ASSUME UNCHANGED <<batch, batches, sealed, pc, req, promise>>,
             Flushing' <=> Flushing, Flushing => fbatch' = fbatch
      PROVE  QueueInv'
  BY <1>1, QueueKept DEF Pending
<1>2. CASE Boot \/ Crash \/ Shutdown \/ Exit
  BY <1>1, <1>2, QueueLost DEF Boot, Crash, Shutdown, Exit, Flushing
<1>3. CASE Recovery
  <2>1. CASE RecoverFinish
    BY <1>1, <2>1 DEF RecoverFinish, Flushing, IdleInv
  <2>2. CASE ~RecoverFinish
    BY <1>1, <1>3, <2>2, QueueLost
       DEF Recovery, RecoverDecode, RecoverApply, RecoverFails, Flushing
  <2> QED
    BY <2>1, <2>2
<1>4. CASE Handler
  <2>1. ASSUME NEW c \in Clients, NEW k, NEW v, NEW cmd, Issue(c, cmd, k, v)
        PROVE  QueueInv'
    <3>1. /\ UNCHANGED <<batch, batches, sealed, promise, fpc, fbatch>>
          /\ pc[c] = "idle" /\ pc' = [pc EXCEPT ![c] = "push"]
          /\ \A d \in Clients : d # c => req'[d] = req[d]
      BY <2>1 DEF Issue, TypeOK
    <3>2. \A d \in Clients :
            (Pending(d)' <=> Pending(d)) /\ (Pending(d) => req'[d] = req[d])
      BY <3>1 DEF Pending, TypeOK
    <3> QED
      BY <3>1, <3>2, QueueKept DEF Flushing
  <2>2. ASSUME NEW c \in Clients, Respond(c)
        PROVE  QueueInv'
    <3>1. /\ UNCHANGED <<batch, batches, sealed, fpc, fbatch>>
          /\ pc' = [pc EXCEPT ![c] = "idle"] /\ promise[c] # "none"
          /\ \A d \in Clients : d # c => req'[d] = req[d] /\ promise'[d] = promise[d]
      BY <2>2 DEF Respond, TypeOK
    <3>2. \A d \in Clients :
            (Pending(d)' <=> Pending(d)) /\ (Pending(d) => req'[d] = req[d])
      BY <3>1 DEF Pending, TypeOK
    <3> QED
      BY <3>1, <3>2, QueueKept DEF Flushing
  <2>3. ASSUME NEW r \in Readers, NEW k \in Keys, Get(r, k)
        PROVE  QueueInv'
    BY <1>1, <2>3 DEF Get, Flushing
  <2> QED
    BY <1>4, <2>1, <2>2, <2>3, QueuePush, QueueSend DEF Handler, Set, Del
<1>5. CASE Flusher
  <2>1. CASE SelectTick \/ DrainSeal
    BY <2>1, QueueSeal
  <2>2. CASE SelectBatch \/ DrainBatch
    BY <2>2, QueueReceive DEF SelectBatch, DrainBatch
  <2>3. CASE NotifyOk \/ NotifyErr
    BY <2>3, QueueNotify
  <2>4. CASE CheckCtx \/ SelectDone
    BY <1>1, <2>4 DEF CheckCtx, SelectDone, Flushing
  <2>5. CASE Rotate \/ RotateFails \/ WriteOk \/ WriteFails \/ SyncOk \/ SyncFails
    BY <1>1, <2>5 DEF Rotate, RotateFails, WriteOk, WriteFails, SyncOk, SyncFails,
                      Flushing
  <2>6. CASE ApplyRecord
    BY <1>1, <2>6 DEF ApplyRecord, Flushing, TypeOK
  <2> QED
    BY <1>5, <2>1, <2>2, <2>3, <2>4, <2>5, <2>6 DEF Flusher
<1> QED
  BY <1>2, <1>3, <1>4, <1>5 DEF Next

-----------------------------------------------------------------------------
(***************************************************************************)
(* The log.                                                                *)
(***************************************************************************)

\* Stream s is stream t, or what an interrupted write left of it.
CutOf(s, t) ==
  /\ s.file = t.file
  /\ s.whole => t.whole
  /\ \A p \in DOMAIN s.recs : p \in DOMAIN t.recs /\ s.recs[p] = t.recs[p]

\* A torn stream begins like the stream it was.
LEMMA TornCut ==
  ASSUME NEW t \in Stream, NEW s \in Torn(t)
  PROVE  s \in Stream /\ CutOf(s, t)
<1>1. s \in Stream /\ t.recs \in Seq(Log)
  BY TornType DEF Stream
<1>2. ASSUME NEW n \in 0..(Len(t.recs) - 1),
             s = [t EXCEPT !.recs = SubSeq(t.recs, 1, n)]
      PROVE  CutOf(s, t)
  <2>1. s.recs = SubSeq(t.recs, 1, n) /\ s.file = t.file /\ s.whole = t.whole
    BY <1>2 DEF Stream
  <2>2. /\ DOMAIN s.recs = 1..n /\ DOMAIN t.recs = 1..Len(t.recs)
        /\ \A p \in 1..n : s.recs[p] = t.recs[p]
    BY <1>1, <2>1
  <2> QED
    BY <1>1, <2>1, <2>2 DEF CutOf
<1>3. ASSUME s = [t EXCEPT !.whole = FALSE]
      PROVE  CutOf(s, t)
  BY <1>3 DEF CutOf, Stream
<1> QED
  BY <1>1, <1>2, <1>3 DEF Torn

\* The flusher writes its batch, whole or in part.
Written == WriteOk \/ WriteFails

\* Every stream is one that was there, maybe cut, or the flusher has just
\* written it.
LEMMA DiskGrowth ==
  ASSUME TypeOK, WrittenInv, Next, NEW i \in DOMAIN disk'
  PROVE  \/ i \in DOMAIN disk /\ CutOf(disk'[i], disk[i])
         \/ i = Len(disk) + 1 /\ Written /\ CutOf(disk'[i], Encoded)
<1> USE DEF serverVars, fileVars, tableVars, batchVars, clientVars,
            flusherVars, history
<1>1. ASSUME disk' = disk
      PROVE  i \in DOMAIN disk /\ CutOf(disk'[i], disk[i])
  BY <1>1 DEF CutOf
<1>2. ASSUME NEW s \in Stream, disk' = Append(disk, s), CutOf(s, Encoded), Written
      PROVE  \/ i \in DOMAIN disk /\ CutOf(disk'[i], disk[i])
             \/ i = Len(disk) + 1 /\ Written /\ CutOf(disk'[i], Encoded)
  <2>1. /\ DOMAIN disk = 1..Len(disk) /\ DOMAIN disk' = 1..(Len(disk) + 1)
        /\ disk'[Len(disk) + 1] = s
        /\ \A j \in 1..Len(disk) : disk'[j] = disk[j]
        /\ Len(disk) \in Nat
    BY <1>2 DEF TypeOK
  <2>2. CASE i = Len(disk) + 1
    BY <1>2, <2>1, <2>2
  <2>3. CASE i \in 1..Len(disk)
    BY <2>1, <2>3 DEF CutOf
  <2> QED
    BY <2>1, <2>2, <2>3
<1>3. ASSUME fpc = "sync",
             \/ disk' = Front(disk)
             \/ \E s \in Torn(Last(disk)) : disk' = Append(Front(disk), s)
      PROVE  i \in DOMAIN disk /\ CutOf(disk'[i], disk[i])
  <2>1. Len(disk) > 0 /\ disk \in Seq(Stream) /\ Len(disk) \in Nat
    BY <1>3 DEF TypeOK, WrittenInv
  <2>2. Last(disk) \in Stream /\ Last(disk) = disk[Len(disk)]
    BY <2>1 DEF Last
  <2>3. CASE disk' = Front(disk)
    <3>1. /\ disk' \in Seq(Stream)
          /\ Len(disk') = Len(disk) - 1
          /\ \A j \in 1..(Len(disk) - 1) : disk'[j] = disk[j]
      BY <2>1, <2>3, DropLast
    <3>2. i \in 1..(Len(disk) - 1)
      BY <2>1, <3>1
    <3> QED
      BY <2>1, <3>1, <3>2 DEF CutOf
  <2>4. ASSUME NEW s \in Torn(Last(disk)), disk' = Append(Front(disk), s)
        PROVE  i \in DOMAIN disk /\ CutOf(disk'[i], disk[i])
    <3>1. s \in Stream /\ CutOf(s, disk[Len(disk)])
      BY <2>2, TornCut
    <3>2. /\ disk' \in Seq(Stream)
          /\ Len(disk') = Len(disk)
          /\ \A j \in 1..(Len(disk) - 1) : disk'[j] = disk[j]
      BY <2>1, <2>4, <3>1, ReplaceLast
    <3>3. disk'[Len(disk)] = s
      <4>1. Front(disk) \in Seq(Stream) /\ Len(Front(disk)) = Len(disk) - 1
        BY <2>1, DropLast
      <4> HIDE DEF Front
      <4> QED
        BY <2>1, <2>4, <3>1, <4>1
    <3>4. CASE i = Len(disk)
      BY <2>1, <3>1, <3>3, <3>4
    <3>5. CASE i \in 1..(Len(disk) - 1)
      BY <2>1, <3>2, <3>5 DEF CutOf
    <3> QED
      BY <2>1, <3>2, <3>4, <3>5
  <2> QED
    BY <1>3, <2>3, <2>4
<1>4. Encoded \in Stream
  BY DEF TypeOK, Encoded, Stream
<1>5. CASE Boot \/ Shutdown \/ Exit \/ Recovery \/ Handler
  BY <1>1, <1>5 DEF Boot, Shutdown, Exit, Recovery, RecoverDecode, RecoverApply,
                    RecoverFinish, RecoverFails, Handler, Set, Del, Issue, push,
                    Send, Respond, Get
<1>6. CASE Crash \/ SyncFails
  BY <1>1, <1>3, <1>6 DEF Crash, SyncFails
<1>7. CASE WriteOk
  <2>1. disk' = Append(disk, Encoded) /\ CutOf(Encoded, Encoded) /\ Written
    BY <1>7 DEF WriteOk, CutOf, Written
  <2> QED
    BY <1>2, <1>4, <2>1
<1>8. CASE WriteFails
  <2>1. disk' = disk \/ \E s \in Torn(Encoded) : disk' = Append(disk, s)
    BY <1>8 DEF WriteFails
  <2> QED
    BY <1>1, <1>2, <1>4, <1>8, <2>1, TornCut DEF Written
<1>9. CASE CheckCtx \/ SelectDone \/ SelectBatch \/ SelectTick \/ DrainBatch
             \/ DrainSeal \/ Rotate \/ RotateFails \/ SyncOk \/ NotifyOk
             \/ NotifyErr \/ ApplyRecord
  BY <1>1, <1>9 DEF CheckCtx, SelectDone, SelectBatch, SelectTick, DrainBatch,
                    DrainSeal, Receive, Rotate, RotateFails, SyncOk, NotifyOk,
                    NotifyErr, ApplyRecord
<1> QED
  BY <1>5, <1>6, <1>7, <1>8, <1>9 DEF Next, Flusher

\* The process goes through its life, and LSNs grow while it serves.
LEMMA RunStep ==
  ASSUME TypeOK, IdleInv, Next
  PROVE  \/ mode' \in {"down", "failed"} /\ run' = run
         \/ mode' = "recovering" /\ run' = run + 1
         \/ mode = "recovering" /\ mode' = "serving" /\ run' = run
         \/ mode' = mode /\ run' = run /\ currentLSN' \in {currentLSN, currentLSN + 1}
<1> USE DEF serverVars, fileVars, tableVars, batchVars, clientVars,
            flusherVars, history
<1>1. ASSUME UNCHANGED <<mode, run, currentLSN>>
      PROVE  mode' = mode /\ run' = run /\ currentLSN' \in {currentLSN, currentLSN + 1}
  BY <1>1 DEF TypeOK
<1>2. CASE Boot
  BY <1>2 DEF Boot
<1>3. CASE Crash \/ Exit \/ RecoverFails
  BY <1>3 DEF Crash, Exit, RecoverFails, Lose
<1>4. CASE RecoverDecode
  BY <1>1, <1>4 DEF RecoverDecode, Lose
<1>5. CASE RecoverFinish
  BY <1>5 DEF RecoverFinish
<1>6. CASE Shutdown \/ RecoverApply
  BY <1>1, <1>6 DEF Shutdown, RecoverApply
<1>7. CASE Handler
  BY <1>7 DEF Handler, Set, Del, Issue, push, Send, Respond, Get, TypeOK
<1>8. CASE Flusher
  BY <1>1, <1>8
     DEF Flusher, CheckCtx, SelectDone, SelectBatch, SelectTick, DrainBatch,
         DrainSeal, Receive, Rotate, RotateFails, WriteOk, WriteFails, SyncOk,
         SyncFails, NotifyOk, NotifyErr, ApplyRecord
<1> QED
  BY <1>2, <1>3, <1>4, <1>5, <1>6, <1>7, <1>8 DEF Next, Recovery

\* A record that was issued stays issued.
LEMMA KnownKept ==
  ASSUME TypeOK, IdleInv, Next, NEW r \in Log, Known(r)
  PROVE  Known(r)'
<1>1. r.run \in Nat /\ r.lsn \in Nat
  BY DEF Log
<1> QED
  BY <1>1, RunStep DEF Known, TypeOK

\* A handler keeps its record, gives it up, or draws a new LSN for one.
LEMMA ReqStep ==
  ASSUME TypeOK, IdleInv, RequestInv, Next, NEW c \in Clients
  PROVE  \/ req'[c] = req[c] /\ (pc'[c] # "idle" => pc[c] # "idle")
         \/ req'[c] = None /\ pc'[c] = "idle"
         \/ /\ mode = "serving" /\ pc[c] = "idle" /\ pc'[c] = "push"
            /\ \E d \in Clients, k \in Keys, v \in Values \cup {Absent},
                  cmd \in {CommandSetID, CommandDelID} : Issue(d, cmd, k, v)
            /\ req'[c].run = run /\ req'[c].lsn = currentLSN + 1
<1> USE DEF serverVars, fileVars, tableVars, batchVars, clientVars,
            flusherVars, history
<1>1. ASSUME req' = req, pc' = pc
      PROVE  req'[c] = req[c] /\ (pc'[c] # "idle" => pc[c] # "idle")
  BY <1>1
<1>2. ASSUME NEW m, Lose(m)
      PROVE  req'[c] = None /\ pc'[c] = "idle"
  BY <1>2 DEF Lose
<1>3. CASE Boot \/ Crash \/ Shutdown \/ Exit
  BY <1>1, <1>2, <1>3 DEF Boot, Crash, Shutdown, Exit
<1>4. CASE Recovery
  BY <1>1, <1>2, <1>4 DEF Recovery, RecoverDecode, RecoverApply, RecoverFinish,
                          RecoverFails
<1>5. CASE Handler
  <2>1. ASSUME NEW d \in Clients, NEW k \in Keys, NEW v \in Values \cup {Absent},
               NEW cmd \in {CommandSetID, CommandDelID}, Issue(d, cmd, k, v)
        PROVE  \/ req'[c] = req[c] /\ (pc'[c] # "idle" => pc[c] # "idle")
               \/ /\ mode = "serving" /\ pc[c] = "idle" /\ pc'[c] = "push"
                  /\ req'[c].run = run /\ req'[c].lsn = currentLSN + 1
    BY <2>1 DEF Issue, TypeOK
  <2>2. ASSUME NEW d \in Clients, push(d) \/ Send(d)
        PROVE  req'[c] = req[c] /\ (pc'[c] # "idle" => pc[c] # "idle")
    BY <2>2 DEF push, Send, TypeOK
  <2>3. ASSUME NEW d \in Clients, Respond(d)
        PROVE  \/ req'[c] = req[c] /\ (pc'[c] # "idle" => pc[c] # "idle")
               \/ req'[c] = None /\ pc'[c] = "idle"
    BY <2>3 DEF Respond, TypeOK
  <2>4. ASSUME NEW r \in Readers, NEW k \in Keys, Get(r, k)
        PROVE  req' = req /\ pc' = pc
    BY <2>4 DEF Get
  <2> QED
    BY <1>1, <1>5, <2>1, <2>2, <2>3, <2>4 DEF Handler, Set, Del
<1>6. CASE Flusher
  BY <1>1, <1>6
     DEF Flusher, CheckCtx, SelectDone, SelectBatch, SelectTick, DrainBatch,
         DrainSeal, Receive, Rotate, RotateFails, WriteOk, WriteFails, SyncOk,
         SyncFails, NotifyOk, NotifyErr, ApplyRecord
<1> QED
  BY <1>3, <1>4, <1>5, <1>6 DEF Next

\* A write without a result in the batch that is being flushed stays there
\* until it has its result.
LEMMA FlushStep ==
  ASSUME TypeOK, IdleInv, RequestInv, OwnInv, Next, NEW c \in Clients,
         fpc \in {"sync", "ack", "nack"}, req[c] \in ToSet(fbatch),
         pc'[c] # "idle", promise'[c] = "none"
  PROVE  fpc' \in {"sync", "ack", "nack"} /\ fbatch' = fbatch
<1> USE DEF serverVars, fileVars, tableVars, batchVars, clientVars,
            flusherVars, history
<1>1. \A m : ~Lose(m)
  BY DEF Lose
<1>2. mode = "serving"
  BY DEF IdleInv
<1>3. ~NotifyOk /\ ~NotifyErr
  BY DEF NotifyOk, NotifyErr, notification
<1>4. CASE Boot \/ Crash \/ Shutdown \/ Exit \/ Recovery
  BY <1>1, <1>2, <1>4
     DEF Boot, Crash, Shutdown, Exit, Recovery, RecoverDecode, RecoverApply,
         RecoverFinish, RecoverFails
<1>5. CASE Handler
  BY <1>5 DEF Handler, Set, Del, Issue, push, Send, Respond, Get
<1>6. CASE Flusher
  BY <1>3, <1>6
     DEF Flusher, CheckCtx, SelectDone, SelectBatch, SelectTick, DrainBatch,
         DrainSeal, Receive, Rotate, RotateFails, WriteOk, WriteFails, SyncOk,
         SyncFails, ApplyRecord
<1> QED
  BY <1>4, <1>5, <1>6 DEF Next

\* A write that has a result keeps it until its handler is done with it.
LEMMA PromiseStep ==
  ASSUME TypeOK, IdleInv, RequestInv, Next, NEW c \in Clients,
         pc[c] # "idle", pc'[c] # "idle", promise'[c] = "none"
  PROVE  promise[c] = "none"
<1> USE DEF serverVars, fileVars, tableVars, batchVars, clientVars,
            flusherVars, history
<1>1. \A m : ~Lose(m)
  BY DEF Lose
<1>2. CASE Boot \/ Crash \/ Shutdown \/ Exit \/ Recovery
  BY <1>1, <1>2
     DEF Boot, Crash, Shutdown, Exit, Recovery, RecoverDecode, RecoverApply,
         RecoverFinish, RecoverFails
<1>3. CASE Handler
  BY <1>3 DEF Handler, Set, Del, Issue, push, Send, Respond, Get, TypeOK
<1>4. CASE Flusher
  BY <1>4
     DEF Flusher, CheckCtx, SelectDone, SelectBatch, SelectTick, DrainBatch,
         DrainSeal, Receive, Rotate, RotateFails, WriteOk, WriteFails, SyncOk,
         SyncFails, ApplyRecord, NotifyOk, NotifyErr, notification
<1> QED
  BY <1>2, <1>3, <1>4 DEF Next

\* Record r is in the log, in stream i at place p.
InLog(i, p, r) ==
  i \in DOMAIN disk /\ p \in DOMAIN disk[i].recs /\ disk[i].recs[p] = r

\* OnceInv in terms of InLog.
LEMMA OnceAt ==
  OnceInv <=>
    /\ \A i, p, r : InLog(i, p, r) => Known(r)
    /\ \A i, j, p, q, r : InLog(i, p, r) /\ InLog(j, q, r) => i = j /\ p = q
    /\ \A c \in Clients :
         pc[c] # "idle" /\ promise[c] = "none" /\ (\E i, p : InLog(i, p, req[c])) =>
           fpc \in {"sync", "ack", "nack"} /\ req[c] \in ToSet(fbatch)
BY DEF OnceInv, InLog

\* Records in the log are log records.
LEMMA InLogType ==
  ASSUME TypeOK, NEW i, NEW p, NEW r, InLog(i, p, r)
  PROVE  r \in Log
<1>1. disk[i] \in Stream
  BY DEF TypeOK, InLog
<1>2. disk[i].recs \in Seq(Log)
  BY <1>1 DEF Stream
<1> QED
  BY <1>2 DEF InLog

\* A record in the log was there before, or belongs to the batch that the
\* flusher has just written.
LEMMA LogGrowth ==
  ASSUME TypeOK, WrittenInv, Next, NEW i, NEW p, NEW r, InLog(i, p, r)'
  PROVE  \/ InLog(i, p, r)
         \/ /\ i = Len(disk) + 1 /\ Written /\ fpc = "write"
            /\ p \in DOMAIN fbatch /\ fbatch[p] = r
<1>1. i \in DOMAIN disk' /\ p \in DOMAIN disk'[i].recs /\ disk'[i].recs[p] = r
  BY DEF InLog
<1>2. CASE i \in DOMAIN disk /\ CutOf(disk'[i], disk[i])
  BY <1>1, <1>2 DEF CutOf, InLog
<1>3. CASE i = Len(disk) + 1 /\ Written /\ CutOf(disk'[i], Encoded)
  BY <1>1, <1>3 DEF CutOf, Encoded, Written, WriteOk, WriteFails
<1> QED
  BY <1>1, <1>2, <1>3, DiskGrowth

\* What the flusher is about to write is a write without a result, of this
\* process, that is not in the log.
LEMMA WritesPending ==
  ASSUME TypeOK, IdleInv, OwnInv, QueueInv, OnceInv, fpc = "write",
         NEW p \in DOMAIN fbatch
  PROVE  /\ \E c \in Clients : Pending(c) /\ req[c] = fbatch[p]
         /\ Known(fbatch[p]) /\ fbatch[p].run = run
         /\ \A i, q : ~InLog(i, q, fbatch[p])
         /\ \A q \in DOMAIN fbatch : fbatch[q] = fbatch[p] => q = p
<1>1. Flushing
  BY DEF Flushing
<1>2. fbatch[p] \in ToSet(fbatch)
  BY DEF ToSet
<1>3. PICK c \in Clients : Pending(c) /\ req[c] = fbatch[p]
  BY <1>1, <1>2, FlushPending
<1>4. mode = "serving" /\ pc[c] # "idle" /\ promise[c] = "none"
  BY <1>3 DEF IdleInv, Pending
<1>5. req[c].run = run /\ req[c].lsn \in 1..currentLSN
  BY <1>4 DEF OwnInv
<1>6. Known(fbatch[p])
  BY <1>3, <1>4, <1>5 DEF Known, TypeOK
<1>7. \A i, q : ~InLog(i, q, fbatch[p])
  BY <1>1, <1>3, <1>4, OnceAt
<1>8. \A q \in DOMAIN fbatch : fbatch[q] = fbatch[p] => q = p
  <2>1. \A q \in DOMAIN fbatch : At(<<"flush", 0>>, q, fbatch[q])
    BY <1>1, InFlightKinds DEF At
  <2> QED
    BY <2>1, QueueAt
<1> QED
  BY <1>3, <1>5, <1>6, <1>7, <1>8

\* Every step keeps the log free of duplicates.
LEMMA OnceStep ==
  ASSUME TypeOK, RequestInv, WrittenInv, IdleInv, OwnInv, QueueInv, OnceInv, Next
  PROVE  OnceInv'
<1>1. \A i, p, r : InLog(i, p, r)' => Known(r)'
  <2> SUFFICES ASSUME NEW i, NEW p, NEW r, InLog(i, p, r)'
               PROVE  Known(r)'
    OBVIOUS
  <2>1. Known(r) /\ r \in Log
    <3>1. CASE InLog(i, p, r)
      BY <3>1, OnceAt, InLogType
    <3>2. CASE Written /\ fpc = "write" /\ p \in DOMAIN fbatch /\ fbatch[p] = r
      BY <3>2, WritesPending DEF TypeOK
    <3> QED
      BY <3>1, <3>2, LogGrowth
  <2> QED
    BY <2>1, KnownKept
<1>2. \A i, j, p, q, r : InLog(i, p, r)' /\ InLog(j, q, r)' => i = j /\ p = q
  <2> SUFFICES ASSUME NEW i, NEW j, NEW p, NEW q, NEW r,
                      InLog(i, p, r)', InLog(j, q, r)'
               PROVE  i = j /\ p = q
    OBVIOUS
  <2> DEFINE New(x, y) == /\ x = Len(disk) + 1 /\ fpc = "write"
                          /\ y \in DOMAIN fbatch /\ fbatch[y] = r
  <2>1. (InLog(i, p, r) \/ New(i, p)) /\ (InLog(j, q, r) \/ New(j, q))
    BY LogGrowth
  <2>2. CASE InLog(i, p, r) /\ InLog(j, q, r)
    BY <2>2, OnceAt
  <2>3. CASE New(i, p) \/ New(j, q)
    BY <2>1, <2>3, WritesPending
  <2> QED
    BY <2>1, <2>2, <2>3
<1>3. \A c \in Clients :
        pc'[c] # "idle" /\ promise'[c] = "none" /\ (\E i, p : InLog(i, p, req[c])') =>
          fpc' \in {"sync", "ack", "nack"} /\ req'[c] \in ToSet(fbatch')
  <2> SUFFICES ASSUME NEW c \in Clients, pc'[c] # "idle", promise'[c] = "none",
                      NEW i, NEW p, InLog(i, p, req[c])'
               PROVE  fpc' \in {"sync", "ack", "nack"} /\ req'[c] \in ToSet(fbatch')
    OBVIOUS
  <2>1. CASE InLog(i, p, req'[c])
    <3>1. Known(req'[c])
      BY <2>1, OnceAt
    <3>2. req'[c] = req[c] /\ pc[c] # "idle"
      BY <3>1, ReqStep DEF Known, TypeOK
    <3>3. promise[c] = "none"
      BY <3>2, PromiseStep
    <3>4. fpc \in {"sync", "ack", "nack"} /\ req[c] \in ToSet(fbatch)
      BY <2>1, <3>2, <3>3, OnceAt
    <3> QED
      BY <3>2, <3>4, FlushStep
  <2>2. CASE Written /\ fpc = "write" /\ p \in DOMAIN fbatch /\ fbatch[p] = req'[c]
    BY <2>2 DEF Written, WriteOk, WriteFails, ToSet
  <2>3. \/ InLog(i, p, req'[c])
        \/ Written /\ fpc = "write" /\ p \in DOMAIN fbatch /\ fbatch[p] = req'[c]
    <3>1. PICK r : r = req'[c]
      OBVIOUS
    <3>2. InLog(i, p, r)'
      BY <3>1 DEF InLog
    <3> QED
      BY <3>1, <3>2, LogGrowth
  <2> QED
    BY <2>1, <2>2, <2>3
<1> QED
  BY <1>1, <1>2, <1>3 DEF OnceInv, InLog

\* Answers are given by Respond alone, for a write that has a result.
LEMMA AckedStep ==
  ASSUME TypeOK, IdleInv, RequestInv, Next, NEW a \in acked', a \notin acked
  PROVE  \E c \in Clients :
           /\ pc[c] = "wait" /\ mode = "serving" /\ mode' = mode
           /\ a = [rec |-> req[c], run |-> run, at |-> currentLSN]
           /\ req' = [req EXCEPT ![c] = None]
           /\ UNCHANGED <<disk, run, currentLSN, fpc>>
<1> USE DEF serverVars, fileVars, tableVars, batchVars, clientVars,
            flusherVars, history
<1>1. CASE Boot \/ Crash \/ Shutdown \/ Exit \/ Recovery
  BY <1>1
     DEF Boot, Crash, Shutdown, Exit, Recovery, RecoverDecode, RecoverApply,
         RecoverFinish, RecoverFails, Lose
<1>2. CASE Flusher
  BY <1>2
     DEF Flusher, CheckCtx, SelectDone, SelectBatch, SelectTick, DrainBatch,
         DrainSeal, Receive, Rotate, RotateFails, WriteOk, WriteFails, SyncOk,
         SyncFails, ApplyRecord, NotifyOk, NotifyErr
<1>3. CASE Handler
  <2>1. PICK c \in Clients : Respond(c)
    BY <1>3 DEF Handler, Set, Del, Issue, push, Send, Get
  <2>2. mode = "serving"
    BY <2>1 DEF Respond, IdleInv
  <2> QED
    BY <2>1, <2>2 DEF Respond
<1> QED
  BY <1>1, <1>2, <1>3 DEF Next

\* Every step keeps acknowledged records behind the ones that come.
LEMMA AckStep ==
  ASSUME TypeOK, RequestInv, IdleInv, OwnInv, AckInv, Next
  PROVE  AckInv'
<1> SUFFICES ASSUME NEW a \in acked'
             PROVE  /\ a.run = a.rec.run
                    /\ a.run <= run'
                    /\ mode' = "recovering" => a.run < run'
                    /\ mode' = "serving" /\ a.run = run' => a.at <= currentLSN'
                    /\ a.rec.lsn <= a.at
                    /\ \A c \in Clients : req'[c] # a.rec
  BY DEF AckInv
<1>1. CASE a \in acked
  <2>1. /\ a.run \in Nat /\ a.at \in Nat /\ a.rec \in Log
        /\ a.rec.lsn \in Nat
        /\ run \in Nat /\ currentLSN \in Nat
    BY <1>1 DEF TypeOK, Ack, Log
  <2>2. /\ a.run = a.rec.run /\ a.run <= run /\ a.rec.lsn <= a.at
        /\ mode = "recovering" => a.run < run
        /\ mode = "serving" /\ a.run = run => a.at <= currentLSN
        /\ \A c \in Clients : req[c] # a.rec
    BY <1>1 DEF AckInv
  <2>3. /\ a.run <= run'
        /\ mode' = "recovering" => a.run < run'
        /\ mode' = "serving" /\ a.run = run' => a.at <= currentLSN'
    BY <2>1, <2>2, RunStep
  <2>4. ASSUME NEW c \in Clients PROVE req'[c] # a.rec
    <3>1. CASE req'[c] = req[c]
      BY <2>2, <3>1
    <3>2. CASE req'[c] = None
      BY <2>1, <3>2, WalAssumption
    <3>3. CASE mode = "serving" /\ req'[c].run = run /\ req'[c].lsn = currentLSN + 1
      BY <2>1, <2>2, <3>3
    <3> QED
      BY <3>1, <3>2, <3>3, ReqStep
  <2> QED
    BY <2>2, <2>3, <2>4
<1>2. CASE a \notin acked
  <2>1. PICK c \in Clients :
           /\ pc[c] = "wait" /\ mode = "serving" /\ mode' = mode
           /\ a = [rec |-> req[c], run |-> run, at |-> currentLSN]
           /\ req' = [req EXCEPT ![c] = None]
           /\ UNCHANGED <<disk, run, currentLSN, fpc>>
    BY <1>2, AckedStep
  <2>2. req[c] \in Log /\ req[c].run = run /\ req[c].lsn \in 1..currentLSN
    BY <2>1 DEF RequestInv, OwnInv
  <2>3. \A d \in Clients : req'[d] # req[c]
    BY <2>1, <2>2, WalAssumption DEF OwnInv, TypeOK
  <2> QED
    BY <2>1, <2>2, <2>3 DEF TypeOK
<1> QED
  BY <1>1, <1>2

\* The order of the log, in terms of InLog.
LEMMA OrderAt ==
  RealTimeOrder <=>
    \A a \in acked : \A i, j, p, q, b :
      InLog(i, p, a.rec) /\ disk[i].whole /\ InLog(j, q, b) /\ IssuedAfter(b, a) => i < j
BY DEF RealTimeOrder, Holds, InLog, ToSet

\* Every step keeps the real-time order of the log.
LEMMA OrderStep ==
  ASSUME TypeOK, RequestInv, WrittenInv, IdleInv, OwnInv, QueueInv, OnceInv,
         AckInv, RealTimeOrder, Next
  PROVE  RealTimeOrder'
<1> SUFFICES ASSUME NEW a \in acked', NEW i \in DOMAIN disk', NEW j \in DOMAIN disk',
                    Holds(i, a.rec)', NEW b \in ToSet(disk'[j].recs),
                    IssuedAfter(b, a)
             PROVE  i < j
  BY DEF RealTimeOrder, IssuedAfter
<1>1. PICK p, q : InLog(i, p, a.rec)' /\ InLog(j, q, b)' /\ disk'[i].whole
  BY DEF Holds, InLog, ToSet
<1>2. Len(disk) \in Nat /\ DOMAIN disk = 1..Len(disk)
  BY DEF TypeOK
<1>3. CASE a \in acked
  <2>1. InLog(i, p, a.rec)
    <3>1. CASE Written /\ fpc = "write" /\ p \in DOMAIN fbatch /\ fbatch[p] = a.rec
      BY <1>3, <3>1, WritesPending DEF AckInv
    <3> QED
      BY <1>1, <3>1, LogGrowth
  <2>2. disk[i].whole /\ i \in 1..Len(disk)
    <3>1. i \in DOMAIN disk
      BY <2>1 DEF InLog
    <3>2. CutOf(disk'[i], disk[i])
      BY <1>2, <3>1, DiskGrowth
    <3> QED
      BY <1>1, <1>2, <3>1, <3>2 DEF CutOf
  <2>3. CASE InLog(j, q, b)
    BY <1>3, <2>1, <2>2, <2>3, OrderAt
  <2>4. CASE j = Len(disk) + 1
    BY <1>2, <2>2, <2>4
  <2> QED
    BY <1>1, <2>3, <2>4, LogGrowth
<1>4. CASE a \notin acked
  <2>1. /\ mode = "serving" /\ disk' = disk
        /\ a.run = run /\ a.at = currentLSN
    BY <1>4, AckedStep
  <2>2. InLog(j, q, b)
    BY <1>1, <2>1 DEF InLog
  <2>3. Known(b) /\ b \in Log
    BY <2>2, OnceAt, InLogType
  <2> QED
    BY <2>1, <2>3 DEF Known, IssuedAfter, TypeOK, Log
<1> QED
  BY <1>3, <1>4

-----------------------------------------------------------------------------
(***************************************************************************)
(* The theorems.                                                           *)
(***************************************************************************)

\* The invariant holds in every state of every behaviour.
THEOREM LogInvariance == Spec => []LogInv
<1>1. Init => IdleInv /\ OwnInv /\ QueueInv /\ OnceInv /\ AckInv /\ RealTimeOrder
  <2> SUFFICES ASSUME Init
               PROVE  /\ IdleInv /\ OwnInv /\ QueueInv /\ OnceInv /\ AckInv
                      /\ RealTimeOrder
    OBVIOUS
  <2>1. IdleInv /\ OwnInv
    BY WalAssumption DEF Init, Fresh, IdleInv, OwnInv
  <2>2. QueueInv
    <3>1. \A b \in InFlight : RecordsIn(b) = <<>>
      BY DEF Init, Fresh, InFlight, RecordsIn, Flushing
    <3>2. \A c \in Clients : ~Pending(c)
      BY DEF Init, Fresh, Pending
    <3> QED
      BY <3>1, <3>2 DEF QueueInv, OnlyPending, AllPending, InFlightOnce
  <2>3. OnceInv /\ AckInv /\ RealTimeOrder
    BY DEF Init, OnceInv, AckInv, RealTimeOrder
  <2> QED
    BY <2>1, <2>2, <2>3
<1>2. Spec => [](TypeOK /\ RequestInv /\ WrittenInv)
  <2>1. IInv => TypeOK /\ RequestInv /\ WrittenInv
    BY DEF IInv
  <2> QED
    BY <2>1, Invariance, PTL
<1>3. /\ TypeOK /\ RequestInv /\ WrittenInv
      /\ IdleInv /\ OwnInv /\ QueueInv /\ OnceInv /\ AckInv /\ RealTimeOrder
      /\ [Next]_vars
      => (IdleInv /\ OwnInv /\ QueueInv /\ OnceInv /\ AckInv /\ RealTimeOrder)'
  <2> SUFFICES ASSUME TypeOK, RequestInv, WrittenInv, IdleInv, OwnInv, QueueInv,
                      OnceInv, AckInv, RealTimeOrder, [Next]_vars
               PROVE  /\ IdleInv' /\ OwnInv' /\ QueueInv' /\ OnceInv' /\ AckInv'
                      /\ RealTimeOrder'
    OBVIOUS
  <2>1. CASE Next
    BY <2>1, IdleStep, OwnStep, QueueStep, OnceStep, AckStep, OrderStep
  <2>2. CASE UNCHANGED vars
    <3> USE <2>2 DEF vars, serverVars, fileVars, tableVars, batchVars, clientVars,
                     flusherVars, history
    <3>1. IdleInv' /\ OwnInv'
      BY DEF IdleInv, OwnInv
    <3>2. QueueInv'
      BY QueueKept DEF Flushing, Pending
    <3>3. OnceInv' /\ AckInv'
      BY DEF OnceInv, AckInv, Known
    <3>4. RealTimeOrder'
      BY DEF RealTimeOrder, Holds, IssuedAfter
    <3> QED
      BY <3>1, <3>2, <3>3, <3>4
  <2> QED
    BY <2>1, <2>2
<1>4. Spec => [](IdleInv /\ OwnInv /\ QueueInv /\ OnceInv /\ AckInv /\ RealTimeOrder)
  BY <1>1, <1>2, <1>3, PTL DEF Spec
<1>5. IInv /\ IdleInv /\ OwnInv /\ QueueInv /\ OnceInv /\ AckInv /\ RealTimeOrder
        => LogInv
  BY DEF LogInv, QueueInv
<1> QED
  BY <1>4, <1>5, Invariance, PTL

\* The write of a handler is where it should be: in one place while it has no
\* result, in none once it has.
THEOREM NoWriteIsLost == Spec => []NoRequestLost
<1>1. LogInv => NoRequestLost
  <2> SUFFICES ASSUME LogInv, NEW c \in Clients, pc[c] \in {"send", "wait"}
               PROVE  Cardinality(Places(req[c])) =
                        IF promise[c] = "none" THEN 1 ELSE 0
    BY DEF NoRequestLost
  <2>1. QueueInv /\ OwnInv
    BY DEF LogInv, QueueInv
  <2>2. \A b, i : <<b, i>> \in Places(req[c]) <=> At(b, i, req[c])
    BY DEF Places, At
  <2>3. \A x \in Places(req[c]) : \E b, i : x = <<b, i>>
    BY DEF Places
  <2>4. CASE promise[c] = "none"
    <3>1. PICK b, i : At(b, i, req[c])
      BY <2>1, <2>4, QueueAt DEF Pending
    <3>2. Places(req[c]) = {<<b, i>>}
      BY <2>1, <2>2, <2>3, <3>1, QueueAt
    <3> QED
      BY <2>4, <3>2, FS_Singleton
  <2>5. CASE promise[c] # "none"
    <3>1. \A b, i : ~At(b, i, req[c])
      <4> SUFFICES ASSUME NEW b, NEW i, At(b, i, req[c]) PROVE FALSE
        OBVIOUS
      <4>1. PICK d \in Clients : Pending(d) /\ req[d] = req[c]
        BY <2>1, QueueAt
      <4> QED
        BY <2>1, <2>5, <4>1 DEF OwnInv, Pending
    <3>2. Places(req[c]) = {}
      BY <2>2, <2>3, <3>1
    <3> QED
      BY <2>5, <3>2, FS_EmptySet
  <2> QED
    BY <2>4, <2>5
<1> QED
  BY <1>1, LogInvariance, PTL

\* The log keeps the order in which clients saw their writes done.
THEOREM LogKeepsRealTimeOrder == Spec => []RealTimeOrder
<1>1. LogInv => RealTimeOrder
  BY DEF LogInv
<1> QED
  BY <1>1, LogInvariance, PTL

=============================================================================
