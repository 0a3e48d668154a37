--------------------------- MODULE WalTableProofs ---------------------------
(***************************************************************************)
(* Proofs about what Wal makes of the log: the hash table and the values   *)
(* that readers get.                                                       *)
(***************************************************************************)
EXTENDS WalProofs

-----------------------------------------------------------------------------
(***************************************************************************)
(* Reads.                                                                  *)
(***************************************************************************)

\* The value is that of a synced record.
SyncedValue(value) == \E r : Synced(r) /\ Effect(r) = value

\* What is in the hash table, is on the way to it or was read from it is the
\* value of a synced record.
ReadInv ==
  /\ \A r \in todo : Synced(r)
  /\ \A k \in Keys : table[k] \in Values => SyncedValue(table[k])
  /\ \A x \in Readers : seen[x] \in Values => SyncedValue(seen[x])

\* Every step keeps values synced before they are seen.
LEMMA ReadStep ==
  ASSUME TypeOK, WrittenInv, DurableInv, IdleInv, ReadInv, Next
  PROVE  ReadInv'
<1> USE DEF serverVars, fileVars, tableVars, batchVars, clientVars,
            flusherVars, history
<1>1. \A r : Synced(r) => Synced(r)'
  BY DiskStep, SyncedKept
<1>2. \A v : SyncedValue(v) => SyncedValue(v)'
  BY <1>1 DEF SyncedValue
<1>3. ASSUME UNCHANGED <<todo, table, seen>>
      PROVE  ReadInv'
  BY <1>1, <1>2, <1>3 DEF ReadInv
<1>4. ASSUME NEW m, Lose(m)
      PROVE  ReadInv'
  BY <1>2, <1>4, DiskAssumption DEF Lose, ReadInv
<1>5. ASSUME UNCHANGED <<table, seen>>, \A r \in todo' : Synced(r)'
      PROVE  ReadInv'
  BY <1>2, <1>5 DEF ReadInv
<1>6. ASSUME NEW r \in todo, table' = apply(table, r), todo' = todo \ {r},
             seen' = seen
      PROVE  ReadInv'
  <2>1. r.key \in Keys /\ table \in [Keys -> Values \cup {Absent}]
    BY <1>6 DEF TypeOK, Log
  <2>2. \A k \in Keys : table'[k] = table[k] \/ table'[k] = Effect(r)
    BY <1>6, <2>1 DEF apply
  <2>3. SyncedValue(Effect(r))
    BY <1>6 DEF ReadInv, SyncedValue
  <2>4. \A k \in Keys : table'[k] \in Values => SyncedValue(table'[k])
    BY <2>2, <2>3 DEF ReadInv
  <2>5. \A k \in Keys : table'[k] \in Values => SyncedValue(table[k])'
    <3> SUFFICES ASSUME NEW k \in Keys, table'[k] \in Values
                 PROVE  SyncedValue(table[k])'
      OBVIOUS
    <3>1. PICK s : Synced(s) /\ Effect(s) = table'[k]
      BY <2>4 DEF SyncedValue
    <3> QED
      BY <1>1, <3>1 DEF SyncedValue
  <2> QED
    BY <1>1, <1>2, <1>6, <2>5 DEF ReadInv
<1>7. CASE Boot \/ Crash \/ Shutdown \/ Exit
  BY <1>3, <1>4, <1>7 DEF Boot, Crash, Shutdown, Exit
<1>8. CASE RecoverDecode
  <2>1. CASE Decodes(disk, NextFile)
    <3>1. /\ UNCHANGED <<disk, fpc, table, seen>> /\ fpc = "off"
          /\ todo' = FileLogs(disk, NextFile)
      BY <1>8, <2>1 DEF RecoverDecode, IdleInv
    <3>2. \A r \in todo' : Synced(r)'
      BY <2>1, <3>1 DEF Decodes, FileLogs, Synced, Holds
    <3> QED
      BY <1>5, <3>1, <3>2
  <2>2. CASE ~Decodes(disk, NextFile)
    BY <1>4, <1>8, <2>2 DEF RecoverDecode
  <2> QED
    BY <2>1, <2>2
<1>9. CASE RecoverApply
  BY <1>6, <1>9 DEF RecoverApply
<1>10. CASE RecoverFinish \/ RecoverFails
  BY <1>3, <1>4, <1>10 DEF RecoverFinish, RecoverFails
<1>11. CASE Handler
  <2>1. ASSUME NEW x \in Readers, NEW k \in Keys, Get(x, k)
        PROVE  ReadInv'
    <3>1. UNCHANGED <<todo, table>> /\ seen' = [seen EXCEPT ![x] = table[k]]
      BY <2>1 DEF Get
    <3>2. \A y \in Readers : seen'[y] = seen[y] \/ seen'[y] = table[k]
      BY <3>1 DEF TypeOK
    <3>3. \A y \in Readers : seen'[y] \in Values => SyncedValue(seen'[y])
      BY <3>2 DEF ReadInv
    <3>4. \A y \in Readers : seen'[y] \in Values => SyncedValue(seen[y])'
      BY <1>1, <3>3 DEF SyncedValue
    <3> QED
      BY <1>1, <1>2, <3>1, <3>4 DEF ReadInv
  <2>2. CASE \A x \in Readers, k \in Keys : ~Get(x, k)
    BY <1>3, <1>11, <2>2 DEF Handler, Set, Del, Issue, push, Send, Respond
  <2> QED
    BY <2>1, <2>2
<1>12. CASE Flusher
  <2>1. CASE NotifyOk
    BY <1>1, <1>5, <2>1 DEF NotifyOk, DurableInv
  <2>2. CASE ApplyRecord
    BY <1>6, <2>2 DEF ApplyRecord
  <2>3. CASE ~NotifyOk /\ ~ApplyRecord
    BY <1>3, <1>12, <2>3
       DEF Flusher, CheckCtx, SelectDone, SelectBatch, SelectTick, DrainBatch,
           DrainSeal, Receive, Rotate, RotateFails, WriteOk, WriteFails, SyncOk,
           SyncFails, NotifyErr
  <2> QED
    BY <2>1, <2>2, <2>3
<1> QED
  BY <1>7, <1>8, <1>9, <1>10, <1>11, <1>12 DEF Next, Recovery

\* A value that a reader got is in the log for good.
THEOREM ReadsStayDurable == Spec => []ReadsAreDurable
<1>1. Init => ReadInv
  BY DiskAssumption, WalAssumption DEF Init, Fresh, ReadInv
<1>2. LogInv /\ ReadInv /\ [Next]_vars => ReadInv'
  <2> SUFFICES ASSUME LogInv, ReadInv, [Next]_vars PROVE ReadInv'
    OBVIOUS
  <2>1. CASE Next
    BY <2>1, ReadStep DEF LogInv, IInv
  <2>2. CASE UNCHANGED vars
    BY <2>2 DEF ReadInv, SyncedValue, Synced, Holds, vars, serverVars, fileVars,
                tableVars, batchVars, clientVars, flusherVars, history
  <2> QED
    BY <2>1, <2>2
<1>3. ReadInv => ReadsAreDurable
  BY DEF ReadInv, SyncedValue, Synced, Holds, ReadsAreDurable
<1> QED
  BY <1>1, <1>2, <1>3, LogInvariance, PTL DEF Spec

-----------------------------------------------------------------------------
(***************************************************************************)
(* Segment files.                                                          *)
(***************************************************************************)

\* Streams are in the files in the order they were written, and a process
\* that serves has a file to write to.
FileInv ==
  /\ \A i, j \in DOMAIN disk : i <= j => disk[i].file <= disk[j].file
  /\ \A i \in DOMAIN disk : disk[i].file \in 1..nfiles
  /\ mode = "serving" => nfiles >= 1

\* The parts of a stream on disk.
LEMMA StreamFacts ==
  ASSUME TypeOK, NEW i \in DOMAIN disk
  PROVE  /\ disk[i] \in Stream /\ disk[i].file \in Nat
         /\ disk[i].recs \in Seq(Log) /\ Len(disk[i].recs) \in Nat
<1>1. disk[i] \in Stream
  BY DEF TypeOK
<1>2. disk[i].file \in Nat /\ disk[i].recs \in Seq(Log)
  BY <1>1 DEF Stream
<1> QED
  BY <1>1, <1>2

\* Files are created and never removed.
LEMMA FilesGrow ==
  ASSUME TypeOK, Next
  PROVE  /\ nfiles' \in {nfiles, nfiles + 1}
         /\ mode' = "serving" => mode = "serving" \/ nfiles' >= 1
<1> USE DEF serverVars, fileVars, tableVars, batchVars, clientVars,
            flusherVars, history
<1>1. CASE Boot \/ Crash \/ Shutdown \/ Exit
  BY <1>1 DEF Boot, Crash, Shutdown, Exit, Lose
<1>2. CASE Recovery
  BY <1>2 DEF Recovery, RecoverDecode, RecoverApply, RecoverFinish, RecoverFails,
              Lose, TypeOK
<1>3. CASE Handler
  BY <1>3 DEF Handler, Set, Del, Issue, push, Send, Respond, Get
<1>4. CASE Flusher
  BY <1>4
     DEF Flusher, CheckCtx, SelectDone, SelectBatch, SelectTick, DrainBatch,
         DrainSeal, Receive, Rotate, CreateFile, RotateFails, WriteOk, WriteFails,
         SyncOk, SyncFails, NotifyOk, NotifyErr, ApplyRecord
<1> QED
  BY <1>1, <1>2, <1>3, <1>4 DEF Next

\* Every step keeps the files in order.
LEMMA FileStep ==
  ASSUME TypeOK, WrittenInv, IdleInv, FileInv, Next
  PROVE  FileInv'
<1>1. /\ nfiles \in Nat /\ Len(disk) \in Nat /\ DOMAIN disk = 1..Len(disk)
      /\ \A i \in DOMAIN disk : disk[i].file \in Nat
  BY StreamFacts DEF TypeOK
<1>2. Written => fpc = "write" /\ mode = "serving" /\ nfiles' = nfiles
  BY DEF Written, WriteOk, WriteFails, fileVars, IdleInv
<1>3. ASSUME NEW i \in DOMAIN disk'
      PROVE  \/ i \in DOMAIN disk /\ disk'[i].file = disk[i].file
             \/ i = Len(disk) + 1 /\ disk'[i].file = nfiles /\ nfiles >= 1
  BY <1>2, <1>3, DiskGrowth DEF CutOf, Encoded, FileInv
<1>4. \A i \in DOMAIN disk' : disk'[i].file \in 1..nfiles'
  BY <1>1, <1>3, FilesGrow DEF FileInv
<1>5. ASSUME NEW i \in DOMAIN disk', NEW j \in DOMAIN disk', i <= j
      PROVE  disk'[i].file <= disk'[j].file
  <2>1. CASE i \in DOMAIN disk /\ j \in DOMAIN disk
    BY <1>1, <1>3, <1>5, <2>1 DEF FileInv
  <2>2. CASE i \in DOMAIN disk /\ j = Len(disk) + 1
    BY <1>1, <1>3, <2>2 DEF FileInv
  <2>3. CASE i = Len(disk) + 1 /\ j = Len(disk) + 1
    BY <1>1, <1>3, <2>3
  <2> QED
    BY <1>1, <1>3, <1>5, <2>1, <2>2, <2>3
<1>6. mode' = "serving" => nfiles' >= 1
  BY <1>1, FilesGrow DEF FileInv
<1> QED
  BY <1>4, <1>5, <1>6 DEF FileInv

\* Files stay in order.
THEOREM FilesInOrder == Spec => []FileInv
<1>1. Init => FileInv
  BY DEF Init, FileInv
<1>2. LogInv /\ FileInv /\ [Next]_vars => FileInv'
  <2> SUFFICES ASSUME LogInv, FileInv, [Next]_vars PROVE FileInv'
    OBVIOUS
  <2>1. CASE Next
    BY <2>1, FileStep DEF LogInv, IInv
  <2>2. CASE UNCHANGED vars
    BY <2>2 DEF FileInv, vars, serverVars, fileVars
  <2> QED
    BY <2>1, <2>2
<1> QED
  BY <1>1, <1>2, LogInvariance, PTL DEF Spec

-----------------------------------------------------------------------------
(***************************************************************************)
(* Replay and flushing: what is being applied, and in which order.         *)
(***************************************************************************)

\* The records to apply are the rest of stream i, in the order of their LSNs.
AppliesFrom(i) ==
  /\ i \in DOMAIN disk /\ disk[i].whole
  /\ todo \subseteq ToSet(disk[i].recs)
  /\ \A r \in ToSet(disk[i].recs) \ todo, s \in todo : r.lsn <= s.lsn

\* Recovery applies the only stream of the file it is at.
DecodedInv ==
  mode = "recovering" =>
    /\ rfile <= nfiles
    /\ todo # {} =>
         \E i \in DOMAIN disk :
           /\ AppliesFrom(i) /\ disk[i].file = rfile
           /\ \A j \in DOMAIN disk : disk[j].file = rfile => j = i

\* The flusher applies the last stream, which is the batch it has flushed.
FlushedInv ==
  /\ mode = "serving" /\ todo # {} => fpc = "apply"
  /\ fpc = "apply" => AppliesFrom(Len(disk))
  /\ fpc = "ack" => /\ Len(disk) \in DOMAIN disk
                    /\ disk[Len(disk)].whole /\ disk[Len(disk)].recs = fbatch

\* A record whose flush has failed has that result, and is not applied.
FailedInv ==
  \A r \in failed :
    /\ r.run = run /\ r.lsn <= currentLSN /\ r \notin todo
    /\ \A c \in Clients : req[c] = r => promise[c] # "none"

\* Applying the record with the least LSN leaves the rest to apply.
LEMMA AppliesRest ==
  ASSUME NEW i, AppliesFrom(i), NEW r \in todo, IsNext(r, todo),
         disk' = disk, todo' = todo \ {r}
  PROVE  AppliesFrom(i)'
BY DEF AppliesFrom, IsNext

\* Every step keeps the order of replay.
LEMMA DecodedStep ==
  ASSUME TypeOK, IdleInv, DecodedInv, Next
  PROVE  DecodedInv'
<1> USE DEF serverVars, fileVars, tableVars, batchVars, clientVars,
            flusherVars, history
<1>1. CASE Boot
  BY <1>1 DEF Boot, IdleInv, DecodedInv, TypeOK
<1>2. CASE Crash \/ Shutdown \/ Exit \/ RecoverFinish \/ RecoverFails
  BY <1>2 DEF Crash, Shutdown, Exit, RecoverFinish, RecoverFails, Lose, DecodedInv
<1>3. CASE RecoverDecode
  <2>1. CASE Decodes(disk, NextFile)
    <3>1. /\ mode' = mode /\ disk' = disk /\ nfiles' = nfiles
          /\ rfile' = rfile + 1 /\ rfile < nfiles
          /\ todo' = FileLogs(disk, rfile + 1)
      BY <1>3, <2>1 DEF RecoverDecode, NextFile
    <3>2. ASSUME todo' # {}
          PROVE  \E i \in DOMAIN disk :
                   /\ disk[i].file = rfile + 1 /\ disk[i].whole
                   /\ todo' = ToSet(disk[i].recs)
                   /\ \A j \in DOMAIN disk : disk[j].file = rfile + 1 => j = i
      <4>1. PICK i \in DOMAIN disk : disk[i].file = rfile + 1
        BY <3>1, <3>2 DEF FileLogs
      <4>2. disk[i].whole /\ \A j \in DOMAIN disk : disk[j].file = rfile + 1 => j = i
        BY <2>1, <4>1 DEF Decodes, NextFile
      <4>3. todo' = ToSet(disk[i].recs)
        BY <3>1, <4>1, <4>2 DEF FileLogs
      <4> QED
        BY <4>1, <4>2, <4>3
    <3>3. rfile' <= nfiles'
      BY <3>1 DEF TypeOK
    <3> QED
      BY <3>1, <3>2, <3>3 DEF DecodedInv, AppliesFrom
  <2>2. CASE ~Decodes(disk, NextFile)
    BY <1>3, <2>2 DEF RecoverDecode, Lose, DecodedInv
  <2> QED
    BY <2>1, <2>2
<1>4. CASE RecoverApply
  <2>1. PICK r \in todo : IsNext(r, todo) /\ todo' = todo \ {r}
    BY <1>4 DEF RecoverApply
  <2>2. UNCHANGED <<mode, disk, nfiles, rfile>> /\ mode = "recovering"
    BY <1>4 DEF RecoverApply
  <2>3. PICK i \in DOMAIN disk :
           /\ AppliesFrom(i) /\ disk[i].file = rfile
           /\ \A j \in DOMAIN disk : disk[j].file = rfile => j = i
    BY <2>1, <2>2 DEF DecodedInv
  <2>4. AppliesFrom(i)'
    BY <2>1, <2>2, <2>3, AppliesRest
  <2> QED
    BY <2>2, <2>3, <2>4 DEF DecodedInv
<1>5. CASE Handler
  BY <1>5 DEF Handler, Set, Del, Issue, push, Send, Respond, Get, IdleInv, DecodedInv
<1>6. CASE Flusher
  <2>1. mode' = "serving"
    BY <1>6
       DEF Flusher, CheckCtx, SelectDone, SelectBatch, SelectTick, DrainBatch,
           DrainSeal, Receive, Rotate, RotateFails, WriteOk, WriteFails, SyncOk,
           SyncFails, NotifyOk, NotifyErr, ApplyRecord, IdleInv
  <2> QED
    BY <2>1 DEF DecodedInv
<1> QED
  BY <1>1, <1>2, <1>3, <1>4, <1>5, <1>6 DEF Next, Recovery

\* Every step keeps the order of flushing.
LEMMA FlushedStep ==
  ASSUME TypeOK, WrittenInv, IdleInv, FlushedInv, Next
  PROVE  FlushedInv'
<1> USE DEF serverVars, fileVars, tableVars, batchVars, clientVars,
            flusherVars, history
<1>1. ASSUME UNCHANGED <<mode, disk, todo, fpc, fbatch>>
      PROVE  FlushedInv'
  BY <1>1 DEF FlushedInv, AppliesFrom
<1>2. ASSUME todo' = {} \/ mode' # "serving", fpc' \notin {"apply", "ack"}
      PROVE  FlushedInv'
  BY <1>2 DEF FlushedInv
<1>3. CASE Boot \/ Crash \/ Shutdown \/ Exit
  BY <1>1, <1>2, <1>3 DEF Boot, Crash, Shutdown, Exit, Lose, IdleInv
<1>4. CASE Recovery
  BY <1>2, <1>4 DEF Recovery, RecoverDecode, RecoverApply, RecoverFinish,
                    RecoverFails, Lose, IdleInv
<1>5. CASE Handler
  BY <1>1, <1>5 DEF Handler, Set, Del, Issue, push, Send, Respond, Get
<1>6. CASE Flusher
  <2>1. mode = "serving" /\ (fpc # "apply" => todo = {})
    BY <1>6
       DEF Flusher, CheckCtx, SelectDone, SelectBatch, SelectTick, DrainBatch,
           DrainSeal, Receive, Rotate, RotateFails, WriteOk, WriteFails, SyncOk,
           SyncFails, NotifyOk, NotifyErr, ApplyRecord, IdleInv, FlushedInv
  <2>2. CASE SyncOk
    <3>1. /\ fpc = "sync" /\ fpc' = "ack" /\ UNCHANGED <<disk, fbatch, todo, mode>>
      BY <2>2 DEF SyncOk
    <3>2. Len(disk) \in DOMAIN disk
      BY <3>1 DEF WrittenInv, TypeOK
    <3> QED
      BY <2>1, <3>1, <3>2 DEF WrittenInv, FlushedInv
  <2>3. CASE NotifyOk
    <3>1. /\ fpc = "ack" /\ fpc' = "apply" /\ UNCHANGED <<disk, fbatch, mode>>
          /\ todo' = ToSet(fbatch)
      BY <2>3 DEF NotifyOk
    <3> QED
      BY <3>1 DEF FlushedInv, AppliesFrom
  <2>4. CASE ApplyRecord
    <3>1. PICK r \in todo :
            /\ IsNext(r, todo) /\ todo' = todo \ {r}
            /\ IF todo = {r} THEN fpc' = fret ELSE fpc' = fpc
      BY <2>4 DEF ApplyRecord
    <3>2. fpc = "apply" /\ disk' = disk /\ fret \in {"top", "drain", "done"}
      BY <2>4 DEF ApplyRecord, TypeOK
    <3>3. AppliesFrom(Len(disk))'
      BY <3>1, <3>2, AppliesRest DEF FlushedInv
    <3>4. CASE todo = {r}
      BY <1>2, <3>1, <3>2, <3>4
    <3>5. CASE todo # {r}
      <4>1. fpc' = "apply"
        BY <3>1, <3>2, <3>5
      <4> QED
        BY <3>2, <3>3, <4>1 DEF FlushedInv
    <3> QED
      BY <3>4, <3>5
  <2>5. CASE Rotate
    BY <1>1, <2>5 DEF Rotate
  <2>6. CASE RotateFails \/ WriteOk \/ WriteFails \/ SyncFails \/ NotifyErr
    BY <1>2, <2>1, <2>6 DEF RotateFails, WriteOk, WriteFails, SyncFails, NotifyErr,
                            TypeOK
  <2>7. CASE CheckCtx \/ SelectDone \/ SelectBatch \/ SelectTick \/ DrainBatch
               \/ DrainSeal
    BY <1>2, <2>1, <2>7
       DEF CheckCtx, SelectDone, SelectBatch, SelectTick, DrainBatch, DrainSeal,
           Receive, flushBatch
  <2> QED
    BY <1>6, <2>2, <2>3, <2>4, <2>5, <2>6, <2>7 DEF Flusher
<1> QED
  BY <1>3, <1>4, <1>5, <1>6 DEF Next

\* Every step keeps failed writes out of the hash table.
LEMMA FailedStep ==
  ASSUME TypeOK, RequestInv, IdleInv, OwnInv, QueueInv, FlushedInv, FailedInv, Next
  PROVE  FailedInv'
<1> USE DEF serverVars, fileVars, tableVars, batchVars, clientVars,
            flusherVars, history
<1>1. ASSUME failed' = failed, UNCHANGED <<run, currentLSN, req>>, todo' \subseteq todo,
             \A c \in Clients : promise[c] # "none" => promise'[c] # "none"
      PROVE  FailedInv'
  BY <1>1 DEF FailedInv
<1>2. ASSUME failed' = {}
      PROVE  FailedInv'
  BY <1>2 DEF FailedInv
<1>3. CASE Boot \/ Crash \/ Exit
  BY <1>2, <1>3 DEF Boot, Crash, Exit, Lose, IdleInv
<1>4. CASE Recovery
  BY <1>2, <1>4 DEF Recovery, RecoverDecode, RecoverApply, RecoverFinish,
                    RecoverFails, Lose, IdleInv
<1>5. CASE Shutdown
  BY <1>1, <1>5 DEF Shutdown
<1>6. CASE Handler
  <2>1. UNCHANGED <<failed, todo, run, mode>> /\ failed \subseteq Log
    BY <1>6 DEF Handler, Set, Del, Issue, push, Send, Respond, Get, TypeOK
  <2>2. currentLSN' \in {currentLSN, currentLSN + 1} /\ currentLSN \in Nat
    BY <1>6 DEF Handler, Set, Del, Issue, push, Send, Respond, Get, TypeOK
  <2>3. \A r \in failed : r.lsn \in Nat
    BY <2>1 DEF Log
  <2>4. \A r \in failed : r.run = run /\ r.lsn <= currentLSN' /\ r \notin todo
    BY <2>2, <2>3 DEF FailedInv
  <2>5. ASSUME NEW r \in failed, NEW c \in Clients, req'[c] = r
        PROVE  promise'[c] # "none"
    <3>1. r \in Log /\ r # None
      BY <2>1, WalAssumption
    <3>2. req'[c] = req[c]
      BY <2>2, <2>3, <2>5, <3>1, ReqStep DEF FailedInv
    <3>3. promise[c] # "none"
      BY <2>5, <3>2 DEF FailedInv
    <3>4. pc[c] # "idle"
      BY <3>3 DEF RequestInv
    <3>5. pc'[c] # "idle"
      <4>1. \A d \in Clients : Respond(d) => d # c
        BY <2>5, <3>1 DEF Respond, TypeOK
      <4> QED
        BY <1>6, <3>4, <4>1 DEF Handler, Set, Del, Issue, push, Send, Respond, Get, TypeOK
    <3> QED
      BY <3>3, <3>4, <3>5, PromiseStep
  <2> QED
    BY <2>1, <2>4, <2>5 DEF FailedInv
<1>7. CASE Flusher
  <2>1. CASE NotifyErr
    <3>1. /\ fpc = "nack" /\ failed' = failed \cup ToSet(fbatch)
          /\ UNCHANGED <<run, currentLSN, req, todo>>
          /\ notification("err")
      BY <2>1 DEF NotifyErr
    <3>2. todo = {} /\ Flushing
      BY <3>1 DEF IdleInv, FlushedInv, Flushing
    <3>3. ASSUME NEW r \in ToSet(fbatch)
          PROVE  r.run = run /\ r.lsn <= currentLSN
      <4>1. PICK c \in Clients : Pending(c) /\ req[c] = r
        BY <3>2, FlushPending
      <4> QED
        BY <4>1 DEF Pending, OwnInv, TypeOK
    <3>4. \A c \in Clients :
            \/ promise'[c] # "none"
            \/ promise'[c] = promise[c] /\ req[c] \notin ToSet(fbatch)
      BY <3>1 DEF notification
    <3> QED
      BY <3>1, <3>2, <3>3, <3>4 DEF FailedInv
  <2>2. CASE NotifyOk
    <3>1. /\ fpc = "ack" /\ failed' = failed /\ todo' = ToSet(fbatch)
          /\ UNCHANGED <<run, currentLSN, req>>
          /\ notification("ok")
      BY <2>2 DEF NotifyOk
    <3>2. ASSUME NEW r \in ToSet(fbatch)
          PROVE  r \notin failed
      <4>1. PICK c \in Clients : Pending(c) /\ req[c] = r
        BY <3>1, FlushPending DEF Flushing
      <4> QED
        BY <4>1 DEF Pending, FailedInv
    <3>3. \A c \in Clients : promise'[c] # "none" \/ promise'[c] = promise[c]
      BY <3>1 DEF notification
    <3> QED
      BY <3>1, <3>2, <3>3 DEF FailedInv
  <2>3. CASE ~NotifyOk /\ ~NotifyErr
    BY <1>1, <1>7, <2>3
       DEF Flusher, CheckCtx, SelectDone, SelectBatch, SelectTick, DrainBatch,
           DrainSeal, Receive, Rotate, RotateFails, WriteOk, WriteFails, SyncOk,
           SyncFails, ApplyRecord
  <2> QED
    BY <2>1, <2>2, <2>3
<1> QED
  BY <1>3, <1>4, <1>5, <1>6, <1>7 DEF Next

-----------------------------------------------------------------------------
(***************************************************************************)
(* The hash table.                                                         *)
(***************************************************************************)

\* Record r of stream i has been applied.
Entry(i, r) ==
  /\ i \in DOMAIN disk /\ Holds(i, r) /\ r \notin Unapplied
  /\ mode = "recovering" => disk[i].file <= rfile

\* Record s of stream j came before record r of stream i.
Earlier(j, s, i, r) == j < i \/ (j = i /\ s.lsn <= r.lsn)

\* The hash table has what the entries of k say.
TableOf(k) ==
  \/ table[k] = Absent /\ \A i, r : Entry(i, r) => r.key # k
  \/ \E i, r : /\ Entry(i, r) /\ r.key = k /\ table[k] = Effect(r)
               /\ \A j, s : Entry(j, s) /\ s.key = k => Earlier(j, s, i, r)

\* Applied, entry by entry.
LEMMA AppliedEntries ==
  /\ \A i, r : <<i, r>> \in Applied <=> Entry(i, r)
  /\ \A e \in Applied : e = <<e[1], e[2]>>
BY DEF Applied, Entry, Holds

\* TableMatchesLog in terms of entries.
LEMMA TableEntries ==
  TableMatchesLog <=> (mode \in {"recovering", "serving"} => \A k \in Keys : TableOf(k))
<1>1. ASSUME TableMatchesLog, mode \in {"recovering", "serving"}, NEW k \in Keys
      PROVE  TableOf(k)
  <2> DEFINE entries == {e \in Applied : e[2].key = k}
  <2>1. \/ entries = {} /\ table[k] = Absent
        \/ \E e \in entries : /\ \A f \in entries : Before(f, e)
                              /\ table[k] = Effect(e[2])
    BY <1>1 DEF TableMatchesLog
  <2>2. \A i, r : Entry(i, r) /\ r.key = k <=> <<i, r>> \in entries
    BY AppliedEntries
  <2>3. CASE entries = {} /\ table[k] = Absent
    BY <2>2, <2>3 DEF TableOf
  <2>4. ASSUME NEW e \in entries, \A f \in entries : Before(f, e),
               table[k] = Effect(e[2])
        PROVE  TableOf(k)
    <3>1. Entry(e[1], e[2]) /\ e[2].key = k
      BY AppliedEntries
    <3>2. ASSUME NEW j, NEW s, Entry(j, s), s.key = k
          PROVE  Earlier(j, s, e[1], e[2])
      <4>1. Before(<<j, s>>, e)
        BY <2>2, <2>4, <3>2
      <4> QED
        BY <4>1 DEF Before, Earlier
    <3> QED
      BY <2>4, <3>1, <3>2 DEF TableOf
  <2> QED
    BY <2>1, <2>3, <2>4
<1>2. ASSUME mode \in {"recovering", "serving"} => \A k \in Keys : TableOf(k)
      PROVE  TableMatchesLog
  <2> SUFFICES ASSUME NEW k \in Keys, mode \in {"recovering", "serving"}
               PROVE  LET entries == {e \in Applied : e[2].key = k}
                      IN  \/ entries = {} /\ table[k] = Absent
                          \/ \E e \in entries : /\ \A f \in entries : Before(f, e)
                                                /\ table[k] = Effect(e[2])
    BY DEF TableMatchesLog
  <2> DEFINE entries == {e \in Applied : e[2].key = k}
  <2>1. TableOf(k)
    BY <1>2
  <2>2. CASE table[k] = Absent /\ \A i, r : Entry(i, r) => r.key # k
    BY <2>2, AppliedEntries
  <2>3. ASSUME NEW i, NEW r, Entry(i, r), r.key = k, table[k] = Effect(r),
               \A j, s : Entry(j, s) /\ s.key = k => Earlier(j, s, i, r)
        PROVE  \E e \in entries : /\ \A f \in entries : Before(f, e)
                                  /\ table[k] = Effect(e[2])
    <3>1. <<i, r>> \in entries
      BY <2>3, AppliedEntries
    <3>2. \A f \in entries : Before(f, <<i, r>>)
      <4> SUFFICES ASSUME NEW f \in entries PROVE Before(f, <<i, r>>)
        OBVIOUS
      <4>1. Entry(f[1], f[2]) /\ f[2].key = k
        BY AppliedEntries
      <4> QED
        BY <2>3, <4>1 DEF Earlier, Before
    <3> QED
      BY <2>3, <3>1, <3>2
  <2> QED
    BY <2>1, <2>2, <2>3 DEF TableOf
<1> QED
  BY <1>1, <1>2

\* A step that applies nothing.
LEMMA TableKept ==
  ASSUME TableMatchesLog, table' = table, mode \in {"recovering", "serving"},
         \A i, r : Entry(i, r)' <=> Entry(i, r)
  PROVE  TableMatchesLog'
<1>1. \A k \in Keys : TableOf(k)
  BY TableEntries
<1>2. \A k \in Keys : TableOf(k)'
  BY <1>1 DEF TableOf, Earlier
<1>3. (mode \in {"recovering", "serving"} => \A k \in Keys : TableOf(k))'
        => TableMatchesLog'
  BY TableEntries, PTL
<1> QED
  BY <1>2, <1>3

\* A step that applies record r of stream i, which is the last one so far.
LEMMA TableApplied ==
  ASSUME TypeOK, TableMatchesLog, mode \in {"recovering", "serving"},
         NEW i \in Nat, NEW r \in Log, table' = apply(table, r),
         \A j, s : Entry(j, s)' <=> Entry(j, s) \/ (j = i /\ s = r),
         \A j, s : Entry(j, s) => Earlier(j, s, i, r)
  PROVE  TableMatchesLog'
<1>1. \A k \in Keys : TableOf(k)
  BY TableEntries
<1>2. r.key \in Keys /\ r.lsn \in Nat
  BY DEF Log
<1>3. table'[r.key] = Effect(r) /\ \A k \in Keys : k # r.key => table'[k] = table[k]
  BY <1>2 DEF apply, TypeOK
<1>4. TableOf(r.key)'
  <2>1. \A j, s : Entry(j, s)' /\ s.key = r.key => Earlier(j, s, i, r)
    BY <1>2 DEF Earlier
  <2> QED
    BY <1>3, <2>1 DEF TableOf, Earlier
<1>5. ASSUME NEW k \in Keys, k # r.key
      PROVE  TableOf(k)'
  <2>1. \A j, s : s.key = k => (Entry(j, s)' <=> Entry(j, s))
    BY <1>5
  <2> QED
    BY <1>1, <1>3, <1>5, <2>1 DEF TableOf, Earlier
<1>6. \A k \in Keys : TableOf(k)'
  BY <1>4, <1>5
<1>7. (mode \in {"recovering", "serving"} => \A k \in Keys : TableOf(k))'
        => TableMatchesLog'
  BY TableEntries, PTL
<1> QED
  BY <1>6, <1>7

\* A record is in one stream only.
LEMMA HoldsOnce ==
  ASSUME OnceInv, NEW i \in DOMAIN disk, NEW j \in DOMAIN disk, NEW r,
         r \in ToSet(disk[i].recs), r \in ToSet(disk[j].recs)
  PROVE  i = j
<1>1. PICK p, q : InLog(i, p, r) /\ InLog(j, q, r)
  BY DEF InLog, ToSet
<1> QED
  BY <1>1, OnceAt

\* Recovery keeps the hash table to the files it has replayed.
LEMMA TableRecovery ==
  ASSUME TypeOK, IdleInv, OnceInv, FileInv, DecodedInv, TableMatchesLog, Recovery
  PROVE  TableMatchesLog'
<1> USE DEF serverVars, fileVars, tableVars, batchVars, clientVars,
            flusherVars, history
<1>1. /\ mode = "recovering" /\ fpc = "off" /\ failed = {}
      /\ rfile \in Nat /\ nfiles \in Nat
      /\ \A i \in DOMAIN disk : disk[i].file \in Nat
  BY StreamFacts DEF Recovery, RecoverDecode, RecoverApply, RecoverFinish,
                     RecoverFails, IdleInv, TypeOK
<1>2. \A i, r : Entry(i, r) <=> /\ i \in DOMAIN disk /\ Holds(i, r) /\ r \notin todo
                                /\ disk[i].file <= rfile
  BY <1>1 DEF Entry, Unapplied
<1>3. ASSUME NEW m \in {"down", "failed"}, Lose(m)
      PROVE  TableMatchesLog'
  BY <1>3 DEF Lose, TableMatchesLog
<1>4. CASE RecoverDecode
  <2>1. CASE Decodes(disk, NextFile)
    <3>1. /\ UNCHANGED <<mode, disk, table, fpc, failed>>
          /\ todo = {} /\ todo' = FileLogs(disk, rfile + 1) /\ rfile' = rfile + 1
      BY <1>4, <2>1 DEF RecoverDecode, NextFile
    <3>2. \A i, r : Entry(i, r)' <=> /\ i \in DOMAIN disk /\ Holds(i, r)
                                     /\ r \notin FileLogs(disk, rfile + 1)
                                     /\ disk[i].file <= rfile + 1
      BY <1>1, <3>1 DEF Entry, Unapplied, Holds
    <3>3. \A i, r : Entry(i, r)' <=> Entry(i, r)
      <4> SUFFICES ASSUME NEW i \in DOMAIN disk, NEW r, Holds(i, r)
                   PROVE  /\ r \notin FileLogs(disk, rfile + 1)
                          /\ disk[i].file <= rfile + 1
                          <=> disk[i].file <= rfile
        BY <1>2, <3>1, <3>2
      <4>1. r \in FileLogs(disk, rfile + 1) <=> disk[i].file = rfile + 1
        BY HoldsOnce DEF FileLogs, Holds
      <4> QED
        BY <1>1, <4>1
    <3> QED
      BY <1>1, <3>1, <3>3, TableKept
  <2>2. CASE ~Decodes(disk, NextFile)
    BY <1>3, <1>4, <2>2 DEF RecoverDecode
  <2> QED
    BY <2>1, <2>2
<1>5. CASE RecoverApply
  <2>1. PICK r \in todo :
          IsNext(r, todo) /\ table' = apply(table, r) /\ todo' = todo \ {r}
    BY <1>5 DEF RecoverApply
  <2>2. UNCHANGED <<mode, disk, rfile, fpc, failed>>
    BY <1>5 DEF RecoverApply
  <2>3. PICK i \in DOMAIN disk :
           /\ AppliesFrom(i) /\ disk[i].file = rfile
           /\ \A j \in DOMAIN disk : disk[j].file = rfile => j = i
    BY <1>1, <2>1 DEF DecodedInv
  <2>4. r \in Log /\ i \in Nat /\ Holds(i, r)
    BY <2>1, <2>3 DEF TypeOK, AppliesFrom, Holds
  <2>5. \A j, s : Entry(j, s)' <=> /\ j \in DOMAIN disk /\ Holds(j, s)
                                   /\ s \notin todo \ {r} /\ disk[j].file <= rfile
    BY <1>1, <2>1, <2>2 DEF Entry, Unapplied, Holds
  <2>6. \A j \in DOMAIN disk : Holds(j, r) => j = i
    BY <2>4, HoldsOnce DEF Holds
  <2>7. \A j, s : Entry(j, s)' <=> Entry(j, s) \/ (j = i /\ s = r)
    BY <1>1, <1>2, <2>1, <2>3, <2>4, <2>5, <2>6
  <2>8. ASSUME NEW j, NEW s, Entry(j, s)
        PROVE  Earlier(j, s, i, r)
    <3>1. /\ j \in DOMAIN disk /\ s \in ToSet(disk[j].recs) /\ s \notin todo
          /\ disk[j].file <= rfile
      BY <1>2, <2>8 DEF Holds
    <3>2. CASE j = i
      BY <2>1, <2>3, <3>1, <3>2 DEF AppliesFrom, Earlier
    <3>3. CASE j # i
      <4>1. disk[j].file < rfile /\ i \in Nat /\ j \in Nat
        BY <1>1, <2>3, <2>4, <3>1, <3>3 DEF TypeOK
      <4>2. ~(i <= j)
        BY <1>1, <2>3, <3>1, <4>1 DEF FileInv
      <4> QED
        BY <4>1, <4>2 DEF Earlier
    <3> QED
      BY <3>2, <3>3
  <2> QED
    BY <1>1, <2>1, <2>4, <2>7, <2>8, TableApplied
<1>6. CASE RecoverFinish
  <2>1. /\ mode' = "serving" /\ UNCHANGED <<disk, todo, table, failed>>
        /\ fpc' = "top" /\ rfile = nfiles
    BY <1>6 DEF RecoverFinish
  <2>2. \A i \in DOMAIN disk : disk[i].file <= rfile
    BY <1>1, <2>1 DEF FileInv
  <2>3. \A i, r : Entry(i, r)' <=> /\ i \in DOMAIN disk /\ Holds(i, r) /\ r \notin todo
    BY <1>1, <2>1 DEF Entry, Unapplied, Holds
  <2> QED
    BY <1>1, <1>2, <2>1, <2>2, <2>3, TableKept
<1>7. CASE RecoverFails
  BY <1>3, <1>7 DEF RecoverFails
<1> QED
  BY <1>4, <1>5, <1>6, <1>7 DEF Recovery

\* The flusher keeps the hash table to the flushes it has finished.
LEMMA TableFlusher ==
  ASSUME TypeOK, WrittenInv, IdleInv, OwnInv, QueueInv, OnceInv, FlushedInv,
         FailedInv, TableMatchesLog, Flusher
  PROVE  TableMatchesLog'
<1> USE DEF serverVars, fileVars, tableVars, batchVars, clientVars,
            flusherVars, history
<1>1. Next
  BY DEF Next
<1>2. mode = "serving" /\ mode' = "serving"
  BY DEF Flusher, CheckCtx, SelectDone, SelectBatch, SelectTick, DrainBatch,
         DrainSeal, Receive, Rotate, RotateFails, WriteOk, WriteFails, SyncOk,
         SyncFails, NotifyOk, NotifyErr, ApplyRecord, IdleInv
<1>3. /\ \A i, r : Entry(i, r) <=> i \in DOMAIN disk /\ Holds(i, r) /\ r \notin Unapplied
      /\ \A i, r : Entry(i, r)' <=>
                     i \in DOMAIN disk' /\ Holds(i, r)' /\ r \notin Unapplied'
  BY <1>2 DEF Entry
<1>4. /\ Len(disk) \in Nat /\ DOMAIN disk = 1..Len(disk)
      /\ fret \in {"top", "drain", "done"}
  BY DEF TypeOK
<1>5. ASSUME table' = table, disk' = disk, Unapplied' = Unapplied
      PROVE  TableMatchesLog'
  <2>1. \A i, r : Entry(i, r)' <=> Entry(i, r)
    BY <1>3, <1>5 DEF Holds
  <2> QED
    BY <1>2, <1>5, <2>1, TableKept
<1>6. CASE CheckCtx \/ SelectDone \/ SelectBatch \/ SelectTick \/ DrainBatch
             \/ DrainSeal
  <2>1. /\ UNCHANGED <<table, disk, todo, failed>>
        /\ fpc \notin {"sync", "ack", "nack"} /\ fpc' \notin {"sync", "ack", "nack"}
    BY <1>6 DEF CheckCtx, SelectDone, SelectBatch, SelectTick, DrainBatch, DrainSeal,
                Receive, flushBatch
  <2>2. Unapplied' = Unapplied
    BY <2>1 DEF Unapplied
  <2> QED
    BY <1>5, <2>1, <2>2
<1>7. CASE Rotate
  BY <1>5, <1>7 DEF Rotate, Unapplied
<1>8. CASE RotateFails \/ WriteOk \/ WriteFails
  <2>1. /\ fpc = "write" /\ fpc' \in {"sync", "nack"}
        /\ UNCHANGED <<table, fbatch, todo, failed>>
    BY <1>8 DEF RotateFails, WriteOk, WriteFails
  <2>2. Unapplied' = Unapplied \cup ToSet(fbatch)
    BY <2>1 DEF Unapplied
  <2>3. \A r \in ToSet(fbatch) : \A i, p : ~InLog(i, p, r)
    BY <2>1, WritesPending DEF ToSet
  <2>4. \A i \in DOMAIN disk : i \in DOMAIN disk' /\ disk'[i] = disk[i]
    BY <1>1, <2>1, DiskStep DEF DiskKept
  <2>5. ASSUME NEW i, NEW r, Entry(i, r)
        PROVE  Entry(i, r)'
    <3>1. i \in DOMAIN disk /\ Holds(i, r) /\ r \notin Unapplied
      BY <1>3, <2>5
    <3>2. \E p : InLog(i, p, r)
      BY <3>1 DEF Holds, InLog, ToSet
    <3>3. r \notin Unapplied'
      BY <2>2, <2>3, <3>1, <3>2
    <3> QED
      BY <1>3, <2>4, <3>1, <3>3 DEF Holds
  <2>6. ASSUME NEW i, NEW r, Entry(i, r)'
        PROVE  Entry(i, r)
    <3>1. i \in DOMAIN disk' /\ Holds(i, r)' /\ r \notin Unapplied'
      BY <1>3, <2>6
    <3>2. PICK p : InLog(i, p, r)'
      BY <3>1 DEF Holds, InLog, ToSet
    <3>3. InLog(i, p, r)
      BY <1>1, <2>2, <3>1, <3>2, LogGrowth DEF ToSet
    <3> QED
      BY <1>3, <2>2, <2>4, <3>1, <3>3 DEF Holds, InLog
  <2> QED
    BY <1>2, <2>1, <2>5, <2>6, TableKept
<1>9. CASE SyncOk
  <2>1. UNCHANGED <<table, disk>>
    BY <1>9 DEF SyncOk
  <2>2. Unapplied' = Unapplied
    BY <1>9 DEF SyncOk, Unapplied
  <2> QED
    BY <1>5, <2>1, <2>2
<1>10. CASE SyncFails
  <2>1. /\ fpc = "sync" /\ fpc' = "nack"
        /\ UNCHANGED <<table, fbatch, todo, failed>>
    BY <1>10 DEF SyncFails
  <2>2. Unapplied' = Unapplied /\ ToSet(fbatch) \subseteq Unapplied
    BY <2>1 DEF Unapplied
  <2>3. disk[Len(disk)].recs = fbatch /\ Len(disk) \in DOMAIN disk
    BY <1>4, <2>1 DEF WrittenInv
  <2>4. \A i \in DOMAIN disk : i # Len(disk) => i \in DOMAIN disk' /\ disk'[i] = disk[i]
    BY <1>1, DiskStep DEF DiskKept
  <2>5. ASSUME NEW i, NEW r, Entry(i, r)
        PROVE  Entry(i, r)'
    <3>1. i \in DOMAIN disk /\ Holds(i, r) /\ r \notin Unapplied /\ i # Len(disk)
      BY <1>3, <2>2, <2>3, <2>5 DEF Holds
    <3> QED
      BY <1>3, <2>2, <2>4, <3>1 DEF Holds
  <2>6. ASSUME NEW i, NEW r, Entry(i, r)'
        PROVE  Entry(i, r)
    <3>1. i \in DOMAIN disk' /\ Holds(i, r)' /\ r \notin Unapplied
      BY <1>3, <2>2, <2>6
    <3>2. PICK p : InLog(i, p, r)'
      BY <3>1 DEF Holds, InLog, ToSet
    <3>3. InLog(i, p, r)
      BY <1>1, <2>1, <3>2, LogGrowth
    <3>4. i # Len(disk)
      BY <2>2, <2>3, <3>1, <3>3 DEF InLog, ToSet
    <3> QED
      BY <1>3, <2>4, <3>1, <3>3, <3>4 DEF Holds, InLog
  <2> QED
    BY <1>2, <2>1, <2>5, <2>6, TableKept
<1>11. CASE NotifyOk
  <2>1. /\ UNCHANGED <<table, disk, failed, fbatch>> /\ todo' = ToSet(fbatch)
        /\ fpc = "ack" /\ fpc' = "apply"
    BY <1>11 DEF NotifyOk
  <2>2. todo = {}
    BY <1>2, <2>1 DEF FlushedInv
  <2>3. Unapplied' = Unapplied
    BY <2>1, <2>2 DEF Unapplied
  <2> QED
    BY <1>5, <2>1, <2>3
<1>12. CASE NotifyErr
  <2>1. /\ UNCHANGED <<table, disk, todo>> /\ failed' = failed \cup ToSet(fbatch)
        /\ fpc = "nack" /\ fpc' \in {"top", "drain", "done"}
    BY <1>4, <1>12 DEF NotifyErr
  <2>2. Unapplied' = Unapplied
    BY <2>1 DEF Unapplied
  <2> QED
    BY <1>5, <2>1, <2>2
<1>13. CASE ApplyRecord
  <2>1. PICK r \in todo :
          IsNext(r, todo) /\ table' = apply(table, r) /\ todo' = todo \ {r}
    BY <1>13 DEF ApplyRecord
  <2>2. /\ UNCHANGED <<disk, failed>> /\ fpc = "apply"
        /\ fpc' \in {"apply", "top", "drain", "done"}
    BY <1>4, <1>13 DEF ApplyRecord
  <2> DEFINE i == Len(disk)
  <2>3. AppliesFrom(i) /\ i \in DOMAIN disk /\ i \in Nat
    BY <1>4, <2>2 DEF FlushedInv, AppliesFrom
  <2>4. r \in Log /\ Holds(i, r) /\ r \notin failed
    BY <2>1, <2>3 DEF TypeOK, AppliesFrom, Holds, FailedInv
  <2>5. Unapplied = todo \cup failed /\ Unapplied' = (todo \ {r}) \cup failed
    BY <2>1, <2>2 DEF Unapplied
  <2>6. \A j \in DOMAIN disk : Holds(j, r) => j = i
    BY <2>3, <2>4, HoldsOnce DEF Holds
  <2> HIDE DEF i
  <2>7. \A j, s : Entry(j, s)' <=> Entry(j, s) \/ (j = i /\ s = r)
    <3>1. \A j, s : Entry(j, s)' <=> /\ j \in DOMAIN disk /\ Holds(j, s)
                                     /\ s \notin (todo \ {r}) \cup failed
      BY <1>3, <2>2, <2>5 DEF Holds
    <3>2. \A j, s : Entry(j, s) <=> /\ j \in DOMAIN disk /\ Holds(j, s)
                                    /\ s \notin todo \cup failed
      BY <1>3, <2>5
    <3> QED
      BY <2>1, <2>3, <2>4, <2>6, <3>1, <3>2
  <2>8. ASSUME NEW j, NEW s, Entry(j, s)
        PROVE  Earlier(j, s, i, r)
    <3>1. j \in DOMAIN disk /\ s \in ToSet(disk[j].recs) /\ s \notin todo
      BY <1>3, <2>5, <2>8 DEF Holds
    <3>2. CASE j = i
      BY <2>1, <2>3, <3>1, <3>2 DEF AppliesFrom, Earlier
    <3>3. CASE j # i
      BY <1>4, <3>1, <3>3 DEF Earlier, i
    <3> QED
      BY <3>2, <3>3
  <2> QED
    BY <1>2, <2>1, <2>3, <2>4, <2>7, <2>8, TableApplied
<1> QED
  BY <1>6, <1>7, <1>8, <1>9, <1>10, <1>11, <1>12, <1>13 DEF Flusher

\* Every step keeps the hash table what the log says.
LEMMA TableStep ==
  ASSUME TypeOK, WrittenInv, IdleInv, OwnInv, QueueInv, OnceInv, FileInv,
         DecodedInv, FlushedInv, FailedInv, TableMatchesLog, Next
  PROVE  TableMatchesLog'
<1> USE DEF serverVars, fileVars, tableVars, batchVars, clientVars,
            flusherVars, history
<1>1. CASE Boot
  <2>1. /\ mode' = "recovering" /\ rfile' = 0 /\ disk' = disk
        /\ \A k \in Keys : table'[k] = Absent
    BY <1>1 DEF Boot, IdleInv
  <2>2. \A i \in DOMAIN disk' : ~(disk'[i].file <= rfile')
    BY <2>1, StreamFacts DEF FileInv, TypeOK
  <2>3. Applied' = {}
    BY <2>1, <2>2 DEF Applied
  <2> QED
    BY <2>1, <2>3 DEF TableMatchesLog
<1>2. CASE Crash \/ Exit
  BY <1>2 DEF Crash, Exit, Lose, TableMatchesLog
<1>3. CASE Shutdown \/ Handler
  <2>1. UNCHANGED <<mode, disk, table, rfile, todo, failed, fpc, fbatch>>
    BY <1>3 DEF Shutdown, Handler, Set, Del, Issue, push, Send, Respond, Get
  <2>2. mode = "serving"
    BY <1>3 DEF Shutdown, Handler, Set, Del, Issue, push, Send, Respond, Get, IdleInv
  <2>3. \A i, r : Entry(i, r)' <=> Entry(i, r)
    BY <2>1 DEF Entry, Holds, Unapplied
  <2> QED
    BY <2>1, <2>2, <2>3, TableKept
<1> QED
  BY <1>1, <1>2, <1>3, TableRecovery, TableFlusher DEF Next

\* The hash table is what the log says, at every step of replay and flushing.
THEOREM TableIsTheLog == Spec => []TableMatchesLog
<1> DEFINE TInv == DecodedInv /\ FlushedInv /\ FailedInv /\ TableMatchesLog
<1>1. Init => TInv
  BY DEF Init, Fresh, DecodedInv, FlushedInv, FailedInv, TableMatchesLog
<1>2. LogInv /\ FileInv /\ TInv /\ [Next]_vars => TInv'
  <2> SUFFICES ASSUME LogInv, FileInv, TInv, [Next]_vars PROVE TInv'
    OBVIOUS
  <2>1. CASE Next
    <3>1. /\ TypeOK /\ RequestInv /\ WrittenInv /\ IdleInv /\ OwnInv /\ QueueInv
          /\ OnceInv
      BY DEF LogInv, IInv, QueueInv
    <3> QED
      BY <2>1, <3>1, DecodedStep, FlushedStep, FailedStep, TableStep
  <2>2. CASE UNCHANGED vars
    <3> USE <2>2 DEF vars, serverVars, fileVars, tableVars, batchVars, clientVars,
                     flusherVars, history
    <3>1. DecodedInv' /\ FlushedInv' /\ FailedInv'
      BY DEF DecodedInv, FlushedInv, FailedInv, AppliesFrom
    <3>2. TableMatchesLog'
      BY DEF TableMatchesLog, Applied, Unapplied, Holds, Before
    <3> QED
      BY <3>1, <3>2
  <2> QED
    BY <2>1, <2>2
<1>3. TInv => TableMatchesLog
  OBVIOUS
<1> QED
  BY <1>1, <1>2, <1>3, FilesInOrder, LogInvariance, PTL DEF Spec

=============================================================================
