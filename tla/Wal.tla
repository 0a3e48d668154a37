-------------------------------- MODULE Wal --------------------------------
(***************************************************************************)
(* The storage engine of the server: Engine, Wal, WalWriter, Segment and   *)
(* HashTable, with the connection handlers that call them, the flusher     *)
(* goroutine that serves them, recovery at start-up, and the crashes,      *)
(* shutdowns and I/O errors they meet.                                     *)
(*                                                                         *)
(* A write goes through: LSN generation (Engine.Set, Engine.Del), append   *)
(* to the shared batch under the mutex (Wal.push), possibly a send of the  *)
(* sealed batch on a bounded channel, and a wait on the promise.  The      *)
(* flusher takes sealed batches from the channel, or seals the open batch  *)
(* itself on a tick, writes and syncs them, resolves the promises and      *)
(* applies the records to the hash table.  Reads go to the hash table.     *)
(***************************************************************************)
EXTENDS WalDisk, FiniteSets

CONSTANTS
  Clients,              \* connection handlers that write
  Readers,              \* connection handlers that read
  None,                 \* no request, no reply
  FlushingBatchCount,   \* flushing_batch_count
  FlushingBatchVolume,  \* flushing_batch_volume, in records
  ChanCap,              \* capacity of the batches channel (5 in NewWal)
  MaxLSN,               \* bound: writes per server process
  MaxRuns,              \* bound: server processes
  Faults                \* which of the failures below may happen

\* crash    the process is killed; what it wrote stays
\* torn     with crash: unsynced bytes are lost, wholly or in part
\* write    file.Write fails, after writing nothing or a part
\* sync     file.Sync fails
\* create   the file of a rotation cannot be created
\* read     an I/O step of recovery fails
\* shutdown SIGINT or SIGTERM cancels the context
\* slowexit main exits after its five seconds before the drain has finished
AllFaults == {"crash", "torn", "write", "sync", "create", "read", "shutdown",
              "slowexit"}

ASSUME WalAssumption ==
  /\ None \notin Log
  /\ None \notin Values \cup {Absent}
  /\ FlushingBatchCount \in Nat \ {0}
  /\ FlushingBatchVolume \in Nat \ {0}
  /\ ChanCap \in Nat \ {0}
  /\ MaxLSN \in Nat
  /\ MaxRuns \in Nat
  /\ Faults \subseteq AllFaults

VARIABLES
  mode,         \* the server process: down, recovering, serving or failed
  run,          \* number of the current process; history only
  disk,         \* streams in the order they were written
  nfiles,       \* segment files created so far
  table,        \* HashTable.data
  rfile,        \* recovery: the last file decoded
  todo,         \* decoded or flushed records not yet applied
  segmentSize,  \* Segment.segmentSize
  fileOpen,     \* FALSE: Segment.file is a closed handle
  currentLSN,   \* Engine.currentLSN
  ctxDone,      \* the context is cancelled
  batch,        \* Wal.batch
  activeBatchVolume,  \* Wal.activeBatchVolume
  batches,      \* Wal.batches, the channel
  pc,           \* where each writing handler is
  req,          \* the record of its write
  sealed,       \* the batch it sealed and has to send
  promise,      \* the promise of its write: none, ok or err
  fpc,          \* where the flusher is
  fret,         \* where the flusher goes after this flush
  fbatch,       \* the batch it flushes
  failed,       \* history: records of this run answered with an error
  acked,        \* history: writes a client got OK or DELETED for
  seen          \* history: the last value each reader got

serverVars == <<mode, run>>
fileVars == <<nfiles, segmentSize, fileOpen>>
tableVars == <<table, todo, rfile>>
batchVars == <<batch, activeBatchVolume, batches>>
clientVars == <<pc, req, sealed, promise>>
flusherVars == <<fpc, fret, fbatch>>
history == <<failed, acked, seen>>

vars == <<serverVars, disk, fileVars, tableVars, currentLSN, ctxDone,
          batchVars, clientVars, flusherVars, history>>

\* An acknowledged write, with the process that acknowledged it and the
\* last LSN issued by then: writes issued later have a larger LSN or run.
Ack == [rec : Log, run : Nat, at : Nat]

TypeOK ==
  /\ mode \in {"down", "recovering", "serving", "failed"}
  /\ run \in Nat
  /\ disk \in Seq(Stream)
  /\ nfiles \in Nat
  /\ table \in [Keys -> Values \cup {Absent}]
  /\ rfile \in Nat
  /\ todo \subseteq Log
  /\ segmentSize \in Nat
  /\ fileOpen \in BOOLEAN
  /\ currentLSN \in Nat
  /\ ctxDone \in BOOLEAN
  /\ batch \in Seq(Log)
  /\ activeBatchVolume \in Nat
  /\ batches \in Seq(Seq(Log))
  /\ pc \in [Clients -> {"idle", "push", "send", "wait"}]
  /\ req \in [Clients -> Log \cup {None}]
  /\ sealed \in [Clients -> Seq(Log)]
  /\ promise \in [Clients -> {"none", "ok", "err"}]
  /\ fpc \in {"off", "top", "select", "drain", "write", "sync", "ack", "nack",
              "apply", "done"}
  /\ fret \in {"top", "drain", "done"}
  /\ fbatch \in Seq(Log)
  /\ failed \subseteq Log
  /\ acked \subseteq Ack
  /\ seen \in [Readers -> Values \cup {Absent, None}]

-----------------------------------------------------------------------------
(***************************************************************************)
(* Start and stop of the process.                                          *)
(***************************************************************************)

\* A process that has just been started holds nothing in memory.
Fresh ==
  /\ table = [k \in Keys |-> Absent]
  /\ rfile = 0
  /\ todo = {}
  /\ segmentSize = 0
  /\ fileOpen = FALSE
  /\ currentLSN = 0
  /\ ctxDone = FALSE
  /\ batch = <<>>
  /\ activeBatchVolume = 0
  /\ batches = <<>>
  /\ pc = [c \in Clients |-> "idle"]
  /\ req = [c \in Clients |-> None]
  /\ sealed = [c \in Clients |-> <<>>]
  /\ promise = [c \in Clients |-> "none"]
  /\ fpc = "off"
  /\ fret = "top"
  /\ fbatch = <<>>
  /\ failed = {}

Init ==
  /\ mode = "down"
  /\ run = 0
  /\ disk = <<>>
  /\ nfiles = 0
  /\ acked = {}
  /\ seen = [r \in Readers |-> None]
  /\ Fresh

\* Everything in memory is gone.
Lose(newMode) ==
  /\ mode' = newMode
  /\ table' = [k \in Keys |-> Absent]
  /\ rfile' = 0
  /\ todo' = {}
  /\ segmentSize' = 0
  /\ fileOpen' = FALSE
  /\ currentLSN' = 0
  /\ ctxDone' = FALSE
  /\ batch' = <<>>
  /\ activeBatchVolume' = 0
  /\ batches' = <<>>
  /\ pc' = [c \in Clients |-> "idle"]
  /\ req' = [c \in Clients |-> None]
  /\ sealed' = [c \in Clients |-> <<>>]
  /\ promise' = [c \in Clients |-> "none"]
  /\ fpc' = "off"
  /\ fret' = "top"
  /\ fbatch' = <<>>
  /\ failed' = {}
  /\ UNCHANGED <<run, nfiles, acked, seen>>

\* main starts; CreateWal makes the hash table and the Wal.
Boot ==
  /\ mode \in {"down", "failed"}
  /\ run < MaxRuns
  /\ mode' = "recovering"
  /\ run' = run + 1
  /\ UNCHANGED <<disk, fileVars, tableVars, currentLSN, ctxDone, batchVars,
                 clientVars, flusherVars, history>>

\* The process is killed, at any point.  Bytes written and not yet synced
\* may be lost with the machine.
Crash ==
  /\ "crash" \in Faults
  /\ mode \in {"recovering", "serving"}
  /\ Lose("down")
  /\ \/ disk' = disk
     \/ /\ "torn" \in Faults
        /\ fpc = "sync"
        /\ \/ disk' = Front(disk)
           \/ \E s \in Torn(Last(disk)) : disk' = Append(Front(disk), s)

\* SIGINT or SIGTERM.
Shutdown ==
  /\ "shutdown" \in Faults
  /\ mode = "serving"
  /\ ~ctxDone
  /\ ctxDone' = TRUE
  /\ UNCHANGED <<serverVars, disk, fileVars, tableVars, currentLSN, batchVars,
                 clientVars, flusherVars, history>>

\* waitForShutdown returns five seconds after the signal, whatever the
\* flusher and the connection handlers are doing.
Exit ==
  /\ ctxDone
  /\ fpc = "done" \/ "slowexit" \in Faults
  /\ Lose("down")
  /\ UNCHANGED disk

-----------------------------------------------------------------------------
(***************************************************************************)
(* Wal.apply and Wal.Recovery.                                             *)
(***************************************************************************)

\* Mutant: the sort is forgotten.
IsNextUnsorted(r, records) == r \in records

\* The record the loop over the LSN-sorted records applies next.
IsNext(r, records) == r \in records /\ \A s \in records : r.lsn <= s.lsn

\* HashTable.Set or HashTable.Del.
apply(tab, record) == [tab EXCEPT ![record.key] = Effect(record)]

\* The file that follows in the sorted list of GetFileList.
NextFile == rfile + 1

\* Read and decode the next file; a decoding error ends the process.
RecoverDecode ==
  /\ mode = "recovering"
  /\ todo = {}
  /\ rfile < nfiles
  /\ IF Decodes(disk, NextFile)
     THEN /\ rfile' = NextFile
          /\ todo' = FileLogs(disk, NextFile)
          /\ UNCHANGED <<serverVars, disk, fileVars, table, currentLSN,
                         ctxDone, batchVars, clientVars, flusherVars, history>>
     ELSE Lose("failed") /\ UNCHANGED disk

RecoverApply ==
  /\ mode = "recovering"
  /\ \E r \in todo :
       /\ IsNext(r, todo)
       /\ table' = apply(table, r)
       /\ todo' = todo \ {r}
  /\ UNCHANGED <<serverVars, disk, fileVars, rfile, currentLSN, ctxDone,
                 batchVars, clientVars, flusherVars, history>>

\* Mutant: SetFile does not ask for the size of the file it adopts.
RecoverFinishSizeZero ==
  /\ mode = "recovering"
  /\ todo = {}
  /\ rfile = nfiles
  /\ nfiles' = IF nfiles = 0 THEN 1 ELSE nfiles
  /\ segmentSize' = 0
  /\ fileOpen' = TRUE
  /\ mode' = "serving"
  /\ fpc' = "top"
  /\ UNCHANGED <<run, disk, tableVars, currentLSN, ctxDone, batchVars,
                 clientVars, fret, fbatch, history>>

\* After the last file: open it for append, or create the first one, adopt
\* it with SetFile (whose Stat may fail), and start the flusher.
RecoverFinish ==
  /\ mode = "recovering"
  /\ todo = {}
  /\ rfile = nfiles
  /\ nfiles' = IF nfiles = 0 THEN 1 ELSE nfiles
  /\ \/ segmentSize' = NewestFileSize(disk, nfiles)
     \/ "read" \in Faults /\ segmentSize' = 0
  /\ fileOpen' = TRUE
  /\ mode' = "serving"
  /\ fpc' = "top"
  /\ UNCHANGED <<run, disk, tableVars, currentLSN, ctxDone, batchVars,
                 clientVars, fret, fbatch, history>>

\* Listing, reading, opening or creating a file fails.
RecoverFails ==
  /\ "read" \in Faults
  /\ mode = "recovering"
  /\ Lose("failed")
  /\ UNCHANGED disk

-----------------------------------------------------------------------------
(***************************************************************************)
(* Connection handlers: DatabaseHandler down to Wal.push.  They stay open  *)
(* when the context is cancelled.                                          *)
(***************************************************************************)

\* Engine.Set and Engine.Del draw an LSN; the handler then calls Wal.push.
Issue(c, cmd, k, v) ==
  /\ mode = "serving"
  /\ pc[c] = "idle"
  /\ currentLSN < MaxLSN
  /\ currentLSN' = currentLSN + 1
  /\ req' = [req EXCEPT ![c] = [run |-> run, lsn |-> currentLSN + 1,
                                cmd |-> cmd, key |-> k, val |-> v]]
  /\ pc' = [pc EXCEPT ![c] = "push"]
  /\ UNCHANGED <<serverVars, disk, fileVars, tableVars, ctxDone, batchVars,
                 sealed, promise, flusherVars, history>>

Set(c, k, v) == Issue(c, CommandSetID, k, v)

Del(c, k) == Issue(c, CommandDelID, k, Absent)

\* push seals the batch when it has grown to a limit.
BatchFull(b, volume) ==
  \/ Len(b) >= FlushingBatchCount
  \/ volume >= FlushingBatchVolume

\* The critical section of push.  The size added to the volume is that of a
\* stream of its own.  A sealed batch leaves the critical section unsent.
push(c) ==
  /\ pc[c] = "push"
  /\ LET grown  == Append(batch, req[c])
         volume == activeBatchVolume + EncodedSize(1)
     IN  IF BatchFull(grown, volume)
         THEN /\ batch' = <<>>
              /\ activeBatchVolume' = 0
              /\ sealed' = [sealed EXCEPT ![c] = grown]
              /\ pc' = [pc EXCEPT ![c] = "send"]
         ELSE /\ batch' = grown
              /\ activeBatchVolume' = volume
              /\ pc' = [pc EXCEPT ![c] = "wait"]
              /\ UNCHANGED sealed
  /\ UNCHANGED <<serverVars, disk, fileVars, tableVars, currentLSN, ctxDone,
                 batches, req, promise, flusherVars, history>>

\* wal.batches <- sealedBatch, which blocks while the channel is full.
Send(c) ==
  /\ pc[c] = "send"
  /\ Len(batches) < ChanCap
  /\ batches' = Append(batches, sealed[c])
  /\ sealed' = [sealed EXCEPT ![c] = <<>>]
  /\ pc' = [pc EXCEPT ![c] = "wait"]
  /\ UNCHANGED <<serverVars, disk, fileVars, tableVars, currentLSN, ctxDone,
                 batch, activeBatchVolume, req, promise, flusherVars, history>>

\* handleSet and handleDel turn the result of the write into the reply.
handleSet(result) == IF result = "ok" THEN "OK" ELSE "failed SET"
handleDel(result) == IF result = "ok" THEN "DELETED" ELSE "failed DEL"

Reply(record, result) ==
  IF record.cmd = CommandSetID THEN handleSet(result) ELSE handleDel(result)

\* future.Get returns and the reply is written to the connection.
Respond(c) ==
  /\ pc[c] = "wait"
  /\ promise[c] # "none"
  /\ pc' = [pc EXCEPT ![c] = "idle"]
  /\ req' = [req EXCEPT ![c] = None]
  /\ promise' = [promise EXCEPT ![c] = "none"]
  /\ acked' = IF Reply(req[c], promise[c]) \in {"OK", "DELETED"}
              THEN acked \cup {[rec |-> req[c], run |-> run, at |-> currentLSN]}
              ELSE acked
  /\ UNCHANGED <<serverVars, disk, fileVars, tableVars, currentLSN, ctxDone,
                 batchVars, sealed, flusherVars, failed, seen>>

\* Engine.Get reads the hash table and nothing else.
Get(r, k) ==
  /\ mode = "serving"
  /\ seen' = [seen EXCEPT ![r] = table[k]]
  /\ UNCHANGED <<serverVars, disk, fileVars, tableVars, currentLSN, ctxDone,
                 batchVars, clientVars, flusherVars, failed, acked>>

-----------------------------------------------------------------------------
(***************************************************************************)
(* The flusher: the loop of Wal.Start.                                     *)
(***************************************************************************)

\* flushBatch(b), then continue at ret: an empty batch is not written.
flushBatch(b, ret) ==
  /\ fret' = ret
  /\ fbatch' = b
  /\ fpc' = IF b = <<>> THEN ret ELSE "write"

\* Mutants: the size of the sealed batch is subtracted; the batch is kept.
SealBatchSubtract ==
  /\ batch' = <<>>
  /\ activeBatchVolume' = activeBatchVolume - EncodedSize(Len(batch))

SealBatchKeep ==
  /\ batch' = batch
  /\ activeBatchVolume' = 0

\* SealBatch: take the open batch and reset it.
SealBatch ==
  /\ batch' = <<>>
  /\ activeBatchVolume' = 0

\* The non-blocking look at the context at the top of the loop.
CheckCtx ==
  /\ fpc = "top"
  /\ fpc' = IF ctxDone THEN "drain" ELSE "select"
  /\ UNCHANGED <<serverVars, disk, fileVars, tableVars, currentLSN, ctxDone,
                 batchVars, clientVars, fret, fbatch, history>>

SelectDone ==
  /\ fpc = "select"
  /\ ctxDone
  /\ fpc' = "drain"
  /\ UNCHANGED <<serverVars, disk, fileVars, tableVars, currentLSN, ctxDone,
                 batchVars, clientVars, fret, fbatch, history>>

\* A batch from the channel.
Receive(from, ret) ==
  /\ fpc = from
  /\ batches # <<>>
  /\ batches' = Tail(batches)
  /\ flushBatch(Head(batches), ret)
  /\ UNCHANGED <<serverVars, disk, fileVars, tableVars, currentLSN, ctxDone,
                 batch, activeBatchVolume, clientVars, history>>

SelectBatch == Receive("select", "top")

\* The ticker fires: at any time, its period is not modelled.
SelectTick ==
  /\ fpc = "select"
  /\ SealBatch
  /\ flushBatch(batch, "top")
  /\ UNCHANGED <<serverVars, disk, fileVars, tableVars, currentLSN, ctxDone,
                 batches, clientVars, history>>

\* The drain after cancellation: the channel first, once it is empty the open
\* batch, then the goroutine returns.
DrainBatch == Receive("drain", "drain")

\* Mutant: the drain stops at the channel and drops the open batch.
DrainSealDrop ==
  /\ fpc = "drain"
  /\ batches = <<>>
  /\ SealBatch
  /\ flushBatch(<<>>, "done")
  /\ UNCHANGED <<serverVars, disk, fileVars, tableVars, currentLSN, ctxDone,
                 batches, clientVars, history>>

DrainSeal ==
  /\ fpc = "drain"
  /\ batches = <<>>
  /\ SealBatch
  /\ flushBatch(batch, "done")
  /\ UNCHANGED <<serverVars, disk, fileVars, tableVars, currentLSN, ctxDone,
                 batches, clientVars, history>>

-----------------------------------------------------------------------------
(***************************************************************************)
(* WalWriter.Write, Segment.Write and WriteFile for the batch fbatch.      *)
(***************************************************************************)

\* An empty file with a later name becomes the active one.
CreateFile ==
  /\ nfiles' = nfiles + 1
  /\ segmentSize' = 0
  /\ fileOpen' = TRUE

\* getNextSegment: close the file, create the next one.
Rotate ==
  /\ fpc = "write"
  /\ NeedsRotation(segmentSize, Len(fbatch))
  /\ CreateFile
  /\ UNCHANGED <<serverVars, disk, tableVars, currentLSN, ctxDone, batchVars,
                 clientVars, flusherVars, history>>

\* The old file is closed and stays the active one when that fails.
RotateFails ==
  /\ "create" \in Faults
  /\ fpc = "write"
  /\ NeedsRotation(segmentSize, Len(fbatch))
  /\ fileOpen' = FALSE
  /\ fpc' = "nack"
  /\ UNCHANGED <<serverVars, disk, nfiles, segmentSize, tableVars, currentLSN,
                 ctxDone, batchVars, clientVars, fret, fbatch, history>>

\* The stream file.Write appends to the active file.
Encoded == [file |-> nfiles, recs |-> fbatch, whole |-> TRUE]

\* notification: resolve the promises of the batch.  The loop over them is
\* one step: a promise that is resolved early only lets its handler wait.
notification(result) ==
  promise' = [c \in Clients |->
                IF req[c] \in ToSet(fbatch) THEN result ELSE promise[c]]

\* Mutants: promises are resolved, or a record is applied, before the sync.
WriteOkAck ==
  /\ fpc = "write"
  /\ ~NeedsRotation(segmentSize, Len(fbatch))
  /\ fileOpen
  /\ disk' = Append(disk, Encoded)
  /\ notification("ok")
  /\ fpc' = "sync"
  /\ UNCHANGED <<serverVars, fileVars, tableVars, currentLSN, ctxDone,
                 batchVars, pc, req, sealed, fret, fbatch, history>>

WriteOkApply ==
  /\ fpc = "write"
  /\ ~NeedsRotation(segmentSize, Len(fbatch))
  /\ fileOpen
  /\ disk' = Append(disk, Encoded)
  /\ table' = apply(table, Head(fbatch))
  /\ fpc' = "sync"
  /\ UNCHANGED <<serverVars, fileVars, rfile, todo, currentLSN, ctxDone,
                 batchVars, clientVars, fret, fbatch, history>>

WriteOk ==
  /\ fpc = "write"
  /\ ~NeedsRotation(segmentSize, Len(fbatch))
  /\ fileOpen
  /\ disk' = Append(disk, Encoded)
  /\ fpc' = "sync"
  /\ UNCHANGED <<serverVars, fileVars, tableVars, currentLSN, ctxDone,
                 batchVars, clientVars, fret, fbatch, history>>

\* Mutant: a failed write is undone by cutting the log back too far.
WriteFailsTruncate ==
  /\ fpc = "write"
  /\ ~NeedsRotation(segmentSize, Len(fbatch))
  /\ fileOpen
  /\ "write" \in Faults
  /\ disk' = IF disk = <<>> THEN disk ELSE Front(disk)
  /\ fpc' = "nack"
  /\ UNCHANGED <<serverVars, fileVars, tableVars, currentLSN, ctxDone,
                 batchVars, clientVars, fret, fbatch, history>>

\* file.Write fails: on a closed handle, or for lack of space.
WriteFails ==
  /\ fpc = "write"
  /\ ~NeedsRotation(segmentSize, Len(fbatch))
  /\ \/ ~fileOpen /\ UNCHANGED disk
     \/ /\ fileOpen
        /\ "write" \in Faults
        /\ \/ UNCHANGED disk
           \/ \E s \in Torn(Encoded) : disk' = Append(disk, s)
  /\ fpc' = "nack"
  /\ UNCHANGED <<serverVars, fileVars, tableVars, currentLSN, ctxDone,
                 batchVars, clientVars, fret, fbatch, history>>

SyncOk ==
  /\ fpc = "sync"
  /\ segmentSize' = segmentSize + EncodedSize(Len(fbatch))
  /\ fpc' = "ack"
  /\ UNCHANGED <<serverVars, disk, nfiles, fileOpen, tableVars, currentLSN,
                 ctxDone, batchVars, clientVars, fret, fbatch, history>>

\* Mutant: the error of file.Sync is ignored.
SyncFailsIgnored ==
  /\ "sync" \in Faults
  /\ fpc = "sync"
  /\ \/ UNCHANGED disk
     \/ \E s \in Torn(Last(disk)) : disk' = Append(Front(disk), s)
  /\ fpc' = "ack"
  /\ UNCHANGED <<serverVars, fileVars, tableVars, currentLSN, ctxDone,
                 batchVars, clientVars, fret, fbatch, history>>

\* file.Sync fails: all, none or some of the bytes are kept, and the segment
\* counts none of them.
SyncFails ==
  /\ "sync" \in Faults
  /\ fpc = "sync"
  /\ \/ UNCHANGED disk
     \/ disk' = Front(disk)
     \/ \E s \in Torn(Last(disk)) : disk' = Append(Front(disk), s)
  /\ fpc' = "nack"
  /\ UNCHANGED <<serverVars, fileVars, tableVars, currentLSN, ctxDone,
                 batchVars, clientVars, fret, fbatch, history>>

\* A written batch: the promises first, then the records.
NotifyOk ==
  /\ fpc = "ack"
  /\ notification("ok")
  /\ todo' = ToSet(fbatch)
  /\ fpc' = "apply"
  /\ UNCHANGED <<serverVars, disk, fileVars, table, rfile, currentLSN, ctxDone,
                 batchVars, pc, req, sealed, fret, fbatch, history>>

\* Mutant: Write returns the error without resolving the promises.
NotifyErrSilent ==
  /\ fpc = "nack"
  /\ fpc' = fret
  /\ fbatch' = <<>>
  /\ UNCHANGED <<serverVars, disk, fileVars, tableVars, currentLSN, ctxDone,
                 batchVars, clientVars, fret, history>>

\* A batch that could not be written: flushBatch returns without applying.
NotifyErr ==
  /\ fpc = "nack"
  /\ notification("err")
  /\ failed' = failed \cup ToSet(fbatch)
  /\ fpc' = fret
  /\ fbatch' = <<>>
  /\ UNCHANGED <<serverVars, disk, fileVars, tableVars, currentLSN, ctxDone,
                 batchVars, pc, req, sealed, fret, acked, seen>>

\* One round of the loop that applies the LSN-sorted batch.
ApplyRecord ==
  /\ fpc = "apply"
  /\ \E r \in todo :
       /\ IsNext(r, todo)
       /\ table' = apply(table, r)
       /\ todo' = todo \ {r}
       /\ IF todo = {r}
          THEN fpc' = fret /\ fbatch' = <<>>
          ELSE UNCHANGED <<fpc, fbatch>>
  /\ UNCHANGED <<serverVars, disk, fileVars, rfile, currentLSN, ctxDone,
                 batchVars, clientVars, fret, history>>

-----------------------------------------------------------------------------
Recovery == RecoverDecode \/ RecoverApply \/ RecoverFinish \/ RecoverFails

Handler ==
  \/ \E c \in Clients :
       \/ \E k \in Keys, v \in Values : Set(c, k, v)
       \/ \E k \in Keys : Del(c, k)
       \/ push(c)
       \/ Send(c)
       \/ Respond(c)
  \/ \E r \in Readers, k \in Keys : Get(r, k)

Flusher ==
  \/ CheckCtx \/ SelectDone \/ SelectBatch \/ SelectTick
  \/ DrainBatch \/ DrainSeal
  \/ Rotate \/ RotateFails \/ WriteOk \/ WriteFails \/ SyncOk \/ SyncFails
  \/ NotifyOk \/ NotifyErr \/ ApplyRecord

Next == Boot \/ Crash \/ Shutdown \/ Exit \/ Recovery \/ Handler \/ Flusher

Spec == Init /\ [][Next]_vars

(***************************************************************************)
(* Fairness.  Goroutines that can run do run.  A sender blocked on a full  *)
(* channel is woken in turn, and select chooses at random between ready    *)
(* cases, so that neither is passed over for ever.  Of the ticker only     *)
(* that it fires when nothing else wakes the flusher: every batch received *)
(* resets it.                                                              *)
(***************************************************************************)
Fairness ==
  /\ \A c \in Clients : WF_vars(push(c)) /\ SF_vars(Send(c)) /\ WF_vars(Respond(c))
  /\ WF_vars(Boot) /\ WF_vars(Recovery)
  /\ WF_vars(CheckCtx) /\ WF_vars(SelectTick)
  /\ SF_vars(SelectBatch)
  /\ WF_vars(SelectDone) /\ WF_vars(DrainBatch) /\ WF_vars(DrainSeal)
  /\ WF_vars(Rotate \/ RotateFails) /\ WF_vars(WriteOk \/ WriteFails)
  /\ WF_vars(SyncOk \/ SyncFails)
  /\ WF_vars(NotifyOk) /\ WF_vars(NotifyErr) /\ WF_vars(ApplyRecord)

FairSpec == Spec /\ Fairness

-----------------------------------------------------------------------------
(***************************************************************************)
(* Properties.                                                             *)
(***************************************************************************)

\* The record is in stream i, and recovery can decode it from there as far
\* as the stream itself goes.
Holds(i, record) == disk[i].whole /\ record \in ToSet(disk[i].recs)

\* A write answered with OK or DELETED is in the segment files, after any
\* crash, power loss, failed write or restart: WriteFile syncs before
\* WalWriter.Write resolves the promises.
Durability ==
  \A a \in acked : \E i \in DOMAIN disk : Holds(i, a.rec)

\* A step keeps every stream where it is, except that the last one may change
\* until it is synced.
DiskKept ==
  \A i \in DOMAIN disk :
    (fpc = "sync" => i # Len(disk)) =>
      i \in DOMAIN disk' /\ disk'[i] = disk[i] /\ (fpc' = "sync" => i # Len(disk'))

\* The log is append-only behind the last sync: no flush, failed flush,
\* rotation, crash or recovery changes or removes a stream once it is synced
\* or its flush has failed.
SyncedStreamsStay == [][DiskKept]_vars

\* b was issued after the client of a had its answer.
IssuedAfter(b, a) == a.run < b.run \/ (a.run = b.run /\ a.at < b.lsn)

\* The log keeps the real-time order: a write issued after another one was
\* acknowledged is never in the same stream or an earlier one, so replay
\* cannot let the older write win.  LSNs alone do not give this: they restart
\* with every process, and batches are not sealed in LSN order.
RealTimeOrder ==
  \A a \in acked : \A i, j \in DOMAIN disk :
    Holds(i, a.rec) =>
      \A b \in ToSet(disk[j].recs) : IssuedAfter(b, a) => i < j

\* Records on disk that the process has not applied to the hash table: those
\* it is about to apply, those of the flush in progress, and those whose
\* flush failed.
Unapplied ==
  todo \cup failed
    \cup (IF fpc \in {"sync", "ack", "nack"} THEN ToSet(fbatch) ELSE {})

\* The records applied, each with the stream it came from.
Applied ==
  {e \in (DOMAIN disk) \X UNION {ToSet(disk[j].recs) : j \in DOMAIN disk} :
     /\ Holds(e[1], e[2])
     /\ e[2] \notin Unapplied
     /\ mode = "recovering" => disk[e[1]].file <= rfile}

\* Entry e was applied before entry f: streams in order, LSNs within one.
Before(e, f) == e[1] < f[1] \/ (e[1] = f[1] /\ e[2].lsn <= f[2].lsn)

\* The hash table is what the log says, at every step of replay and of
\* flushing: each key has the effect of the last record of the log for it,
\* failed and unfinished flushes left out, and is absent without one.  What
\* flushing builds is therefore what Recovery rebuilds.
TableMatchesLog ==
  \A k \in Keys :
    LET entries == {e \in Applied : e[2].key = k}
    IN  mode \in {"recovering", "serving"} =>
          \/ entries = {} /\ table[k] = Absent
          \/ \E e \in entries : /\ \A f \in entries : Before(f, e)
                                /\ table[k] = Effect(e[2])

\* No read is undone: a value that GET returned is in the log, even when the
\* process dies right after: the hash table is changed only by synced records.
ReadsAreDurable ==
  \A r \in Readers :
    seen[r] \in Values =>
      \E i \in DOMAIN disk : \E b \in ToSet(disk[i].recs) :
        disk[i].whole /\ Effect(b) = seen[r]

\* The batches between push and notification: the open one, those sealed and
\* not yet sent, those on the channel, and the one the flusher has.
InFlight ==
  {<<"open", 0>>, <<"flush", 0>>} \cup ({"sealed"} \X Clients)
    \cup ({"channel"} \X DOMAIN batches)

Flushing == fpc \in {"write", "sync", "ack", "nack"}

RecordsIn(b) ==
  CASE b[1] = "open"    -> batch
    [] b[1] = "flush"   -> IF Flushing THEN fbatch ELSE <<>>
    [] b[1] = "sealed"  -> sealed[b[2]]
    [] b[1] = "channel" -> batches[b[2]]

\* Where a record is waiting to be flushed.
Places(record) ==
  UNION {{b} \X {i \in DOMAIN RecordsIn(b) : RecordsIn(b)[i] = record} : b \in InFlight}

\* No write is lost or flushed twice between push, the channel, SealBatch and
\* the flusher: an unresolved one is in exactly one place, a resolved one in
\* none, through every race of handlers, ticks and the drain.
NoRequestLost ==
  \A c \in Clients :
    pc[c] \in {"send", "wait"} =>
      Cardinality(Places(req[c])) = IF promise[c] = "none" THEN 1 ELSE 0

\* A server can be started again: Recovery gives up on a file only where a
\* power loss or a failed write has cut a stream inside a message.
RecoverySucceeds == mode = "failed" => \E i \in DOMAIN disk : ~disk[i].whole

\* Every write is answered: no handler blocks for ever on the full channel or
\* on a promise nobody resolves, even when writes, syncs or rotations fail.
WritersUnblock == \A c \in Clients : pc[c] = "push" ~> pc[c] = "idle"

\* A flush applies the operations to the hash table and only then unblocks
\* the caller: no acknowledged record is still to be applied.
AppliedBeforeUnblocked ==
  mode = "serving" => \A a \in acked : a.rec \notin todo

\* The flusher drains everything in flight when the context is cancelled: a
\* batch sealed before that has its promises resolved.
DrainsInFlight ==
  \A c \in Clients : (pc[c] = "send" /\ ~ctxDone) ~> (promise[c] # "none")

=============================================================================
