# in_memory_base: TLA+ models and proofs

This directory specifies and verifies the core of `in_memory_base`, a
single-node in-memory key/value server with a write-ahead log. Paths below are
relative to the repository root (`src/`); `in_memory/` stands for
`internal/database/storage/engine/in_memory/`.

## The system

| Component | State | Operations | Interacts with |
| --- | --- | --- | --- |
| TCP server (`internal/network/tcp_server.go`) | listener, one goroutine per connection | accept, read a request, call the handler, write the reply, close on timeout | semaphore; calls the database handler |
| Semaphore, promise, future, lock helper (`internal/concurrency`) | counter and condition; one-shot channel | Acquire, Release; Set, Get; WithLock | TCP server; WAL |
| Parser (`internal/database/compute`) | none | ParseAndValidate | database handler |
| Database handler, storage facade (`internal/database`) | none | handleSet, handleGet, handleDel | parser, engine |
| Engine, LSN generator, hash table (`in_memory/`) | LSN counter; map | Set, Del (through the WAL), Get (hash table only); Generate | WAL, hash table |
| WAL (`in_memory/wal`) | open batch and its volume, channel of sealed batches | push, SealBatch, the flusher loop, flushBatch, Recovery | segment files, hash table, promises |
| Segment files (`in_memory/filesystem`) | active file handle, its size, the directory | CreateFile, Write (rotates), SetFile, GetList, Read | WAL |
| Start and shutdown (`cmd/server`, `internal/initialization`) | the context | recovery, start of the flusher, signal, exit after five seconds | all |
| TCP client, CLI (`internal/network/tcp_client.go`, `internal/application_cli`) | one connection | SendAndReceive, the prompt loop | TCP server |
| Configuration, logging | constants | load, validate | all |

How a write travels. A connection handler draws an LSN from the engine's atomic
counter, then, under the WAL's mutex, appends its record to the open batch. If
the batch has reached its count or its volume the handler takes it, leaves the
critical section, and sends it on a channel of five batches. It then waits on
the promise of its record. One flusher goroutine takes batches from the channel
or, on a tick, seals the open batch itself; it encodes a batch as one gob stream,
appends it to the active segment file (rotating first if it would outgrow its
limit), syncs, resolves all promises, and applies the records to the hash table
in LSN order. A failed write or sync resolves the promises with the error and
applies nothing. Reads take the hash table's lock and nothing else. When the
process starts, every segment file is decoded, sorted by LSN and applied, in the
order of the file names, and the newest file becomes the active one.

What is hard here: the order of promise, hash table and disk; handlers, tick and
drain that all seal the batch; a send outside the critical section racing with
the drain; crashes and power losses between write and sync; failed syncs, short
writes and failed rotations that leave state behind; LSNs drawn before the lock
and restarting with every process; one decoder for files that hold one stream per
flush; file names that come from the wall clock; queries and replies that the network
cuts and merges; a shutdown that waits for handlers nobody answers any more; settings that pass several layers of defaults. The list, with lines, is under `hazards` in `PROJECT.json`.

What makes the components correct:

* WAL and segment files: what was acknowledged is in the log for good; the log
  keeps real-time order; the hash table is what the log says and recovery
  rebuilds the same; every write is flushed once and answered; a server that ran
  can be started again; files respect their limit; names never cost a file, and
  replay follows the order of the flushes.
* Hash table and engine: a read never returns what a crash can undo.
* LSN generator: identifiers are distinct under concurrency, around the wrap too.
* Semaphore: no more holders than the limit, no wake-up is lost.
* TCP server: no more handlers than the limit, every connection is served,
  shutdown ends (unless a handler is never answered).
* TCP client: a reply belongs to the request it is returned for (as long as every
  message comes in one part).
* Parser and dispatcher: nothing is written that no client asked for, however the
  network merges whole lines, and an answer is true.
* Configuration: no setting gets through that the server cannot work with.

## Modules

| Module | Models |
| --- | --- |
| `WalDisk` | log records, gob streams, segment files, what decodes, sizes, the rotation guard |
| `Wal` | engine, WAL, segment, hash table, the handlers that call them, the flusher, recovery, process start and stop, failures; the properties |
| `WalProofs` | TLAPS proofs about `Wal`: types, durability, synced streams; where each record is, and the order of the log |
| `WalTableProofs` | TLAPS proofs about `Wal`, on top of these: the hash table and reads |
| `DurableLog` | what the engine promises for writes: an abstract log without batches, files or flusher |
| `WalRefines` | the refinement mapping under which `Wal` implements `DurableLog` |
| `WalRefinesProofs` | the TLAPS proof of that refinement |
| `MCWal` | `Wal` and the mapping for TLC, with its symmetry |
| `Config` | the configuration: presets, file, env-defaults, validation, the options of the TCP server |
| `Segments`, `MCSegments` | the directory of segment files through several processes: start, names from clock and mask, rotation, adoption; uses `Config` |
| `SegmentsProofs` | TLAPS proofs about `Segments` and `Config` |
| `Compute` | the command language: parser and dispatch as operators on texts |
| `Server`, `MCServer` | the whole service: `TcpServer`, `Compute` as its callback, and `DurableLog` in the place of the engine |
| `ServerProofs` | TLAPS proofs about `Server`, from those about `TcpServer` |
| `Semaphore`, `MCSemaphore` | the counting semaphore with its condition variable; its instance for TLC |
| `SemaphoreProofs` | TLAPS proofs about `Semaphore` |
| `TcpServer`, `MCTcpServer` | accept loop, connection handlers and shutdown of the TCP server, composed with `Semaphore` and with the clients of the command line tool; its instance for TLC |
| `TcpServerProofs` | TLAPS proofs about `TcpServer`, from those about `Semaphore` |
| `IDGenerator`, `MCIDGenerator` | the LSN generator, and its instance for TLC |
| `IDGeneratorProofs` | TLAPS proofs about `IDGenerator` |

A definition whose comment starts with "Mutant" is a wrong version of the
definition that follows it. No specification uses it; `PROJECT.json` names the
property that TLC finds violated when it takes the place of the right one.

### State and actions of `Wal`

The **disk** is the sequence of the streams in the order in which they were
written; a stream has the number of its file, its records, and `whole = FALSE`
when its bytes end inside a message. `nfiles` counts files; a file is known by the
order of its creation, which is the order of names while the clock does not step
back. A stream costs one type definition and one unit per record. `run` is the
number of the process; it is in every record as history only, since LSNs restart.

| Variable | Code |
| --- | --- |
| `table` | `HashTable.data` |
| `segmentSize`, `fileOpen` | `Segment.segmentSize`; whether `Segment.file` is an open handle |
| `currentLSN` | `Engine.currentLSN` |
| `batch`, `activeBatchVolume`, `batches` | the fields of `Wal` |
| `pc`, `req`, `sealed`, `promise` | per writing handler: its place in `push`, its `WriteRequest`, the local `sealedBatch`, the promise |
| `fpc`, `fret`, `fbatch`, `todo` | the flusher's place in `Start` and `flushBatch`, its batch, and the records left in the loop that applies them (also recovery's) |
| `rfile` | recovery's place in the list of files |
| `failed`, `acked`, `seen` | history: records answered with an error in this run, acknowledged writes, last values read |

One action per step that another goroutine can see. `push` is the critical
section; `Send` the channel send after it; `Respond` the return of the future and
the reply of `handleSet` or `handleDel`. The flusher goes `CheckCtx` (the
non-blocking look at the context), `SelectDone`, `SelectBatch` or `SelectTick`,
then `Rotate`, `WriteOk`, `SyncOk`, `NotifyOk`, `ApplyRecord` for each record, or
the failures `RotateFails`, `WriteFails`, `SyncFails`, `NotifyErr`; after
cancellation `DrainBatch` and `DrainSeal`. The loop over the promises in
`notification` is one step: resolving a promise earlier only lets its handler wait
longer before it goes on, so every order the code allows is still there.

Failures are switched on by the constant `Faults`: kill (`crash`), power loss
(`torn`), failing `Write`, `Sync`, `CreateFile` and recovery I/O, signals, and an
exit while the drain is still running. A power loss drops or cuts only what has
not been synced. A short write and a failed sync leave nothing, a prefix that ends
after a record, or bytes that do not decode; a failed sync may also leave
everything. Recovery stops the process when it cannot decode a
file.

### `DurableLog` and the refinement

`DurableLog` is a log that only grows, by groups of records, and per client a write
(`pend`), its verdict and, as history, what was acknowledged. Writes in doubt may enter
the log, each once, some of them together (`Commit`); a write gets a verdict (`Resolve`; `ok` only for what is in the log), and is
answered. When the process ends, every write in doubt is in the log or not, and the
rest is forgotten. `WalRefines` maps it to `Wal`: the log has a group for
each stream that is synced, that is, for all but a last one that is written and not yet
synced (an empty group where the bytes do not decode); `pend` is `req`, the verdict is the promise. Batching, the channel, the drain,
rotation, applying and recovery are stuttering steps; `SyncOk` commits a batch, a failed
sync or a torn write may commit a part of one, `NotifyOk` resolves. What the error
verdict means is visible in the specification: nothing, the record may be in the log.

### `Segments` and `Config`

`Segments` leaves out what is in a batch and keeps what `Wal` leaves out: the names. `dir`
is the list of files in the order of their creation, each with mask, time stamp and
size, and as history the flushes that left bytes in it. `Boot` reads the
settings (a function from the settings a YAML file gives) and goes on only if they
validate; `RecoverFirst` or `Adopt` is the end of `Recovery`; `Listen` creates the TCP
server; `End` is the end of the process at any point, the error returns of the start
included. `Write`, `getNextSegment`, `RotationFails`, `WriteFile` and `WriteFileFails`
are `Segment.Write`. The clock ticks, stands still or is set back.

`Config` gives `ReadConfig` (file over presets, and perhaps the env-default where the
result is zero), `Validate`, the `WithServer...` options, `CreateTCPNetwork` and the refusals of
`NewTCPServer`. `NetworkConfig` and `WalConfig` are behind pointers, and no test of the
repository says whether `cleanenv` follows them to the env-default tags. The constant
`EnvDefaultsApply` leaves it open: the proofs hold for both values, the run takes the one
in which a zero in a file does not end the process at once.

### `Compute` and `Server`

A text is a sequence of tokens, a token a sequence of pieces, each of one kind of
character: enough for upper-casing, validation and for gluing the last token of one
line to the first of the next, which is what happens to lines that are trimmed and
sent without a line end when one `Read` returns them together. The same gluing puts
the parts of a cut line together again, so a line may be cut inside a token, where its
parts do the most harm: the first part of a SET cut in its value is a SET.

`Server` runs the components side by side. A handler of `TcpServer` that has read its
query takes, in the place of the abstract callback, `Refuse`, `Get`, or `BeginWrite` and,
after a verdict of the store, `EndWrite`. `Engine` is what `DurableLog` allows the
engine to do. `Die` is a kill or the end of `main`. The callback does not panic here.

### `IDGenerator`

`IDGenerator` has the two atomic steps of `Generate` and a counter up to
`MaxInt`, which stands for `math.MaxInt64`, that wraps around as Go's does.

### State and actions of `Semaphore` and `TcpServer`

`Semaphore` has the counter, the list of threads in `condition.Wait()` and, per
thread, whether it is outside, waiting, woken (signalled, but not yet holding the
mutex again) or inside. `Wait` joins the list before it unlocks the mutex, so a
critical section is one action: `Acquire`, `Wake` (the loop goes round) and
`Release`. Go's list is first in, first out.

`TcpServer` takes those actions with connections for threads: the accept loop
acquires a slot for a connection, and the connection's handler releases it. `mpc` and
`apc` are the places of `HandleClientQueries` and of the accept loop, `conn` where a
connection is: in the backlog, in the hands of the loop, in the loop of
`HandleConnections` (`read`, `handle`, `write`), in its deferred function (`closing`),
in the deferred `Release`. A connection carries bytes, of which the model keeps where a
`Read` can divide them: a *part* is what no `Read` divides. A request or a reply is one
part, or several, when the network has split it or it is longer than the buffer that
reads it. `inbox` holds the parts of requests that the server has not read, `outbox` the
parts of replies that the client has not read, and one `Read` on either side returns any
number of parts from the front, up to its buffer: part of a message, a message, or what
several messages have left. A part of a request is its number on the connection, a query
the parts that one `Read` has taken, a part of a reply the query it answers. The history
variables `late` and `long` hold the clients that have given up on a reply, and those
that have had a request or a reply of several parts. The client is `SendAndReceive`
called from the prompt loop, which keeps its connection after an error or a timeout.

## Runs

Bounds: `MaxLSN` limits the writes of a process, `MaxRuns` the processes. One key
is enough, as records of different keys do not interact, and a SET and a DEL are
already two different effects on it; runs about scheduling only use DELs
(`Values = {}`). The channel holds one batch so that it fills up. Clients are
symmetric, and symmetry is used where only safety is checked. Deadlock checking is
off where processes stop for good; in `wal_live` and `sem_live` it is on.

| Run | Checks | Shows |
| --- | --- | --- |
| `wal_io` | `TypeOK`, `Durability`, `RealTimeOrder`, `TableMatchesLog`, `ReadsAreDurable`, `SyncedStreamsStay`, `ImplementsDurableLog` | two writers and a reader, two processes of two writes, kills and power losses anywhere, every I/O failure, files that hold one flush or several |
| `wal_restart` | `RecoverySucceeds`, `NoRequestLost`, `ImplementsDurableLog` | three processes, killed, hit by a power loss or shut down anywhere, also before the drain has finished; segments too small for two flushes, batches sealed by volume or tick |
| `wal_live` | `WritersUnblock` | three writers, batches of two and a channel of one: a batch can be full or wait for the tick with one record, be flushed while the next is on the channel; writes, syncs and rotations fail, also with a handle left closed |
| `sem_live` | `TypeOK`, `HoldersBounded`, `NoLostWakeup`, `WaitersSignalled` | five threads and two slots: enough for two releases in a row with two waiters, and for new threads that overtake a signalled one |
| `tcp_serve` | `TypeOK`, `HandlersBounded`, `DialledIsServed`, `ServerStopsIfAnswered` | two connections for one slot, so that the accept loop holds the second, also when the signal comes; one request per client, as what is read does not matter for slots and shutdown |
| `seg_names` | `TypeOK`, `FlushesKept`, `ReplayIsChronological`, `SegmentBound`, `SettingsInForce` | three processes and three flushes: enough for a file to be created, adopted under other settings, and outgrown, and for a rotation to fail and be tried again; three readings of the clock; limits of 3 and 4 bytes for flushes of 2 and 3, so that two flushes do or do not fit; each setting zero or negative in turn; both default masks |
| `server_whole` | `TypeOK`, `OnlyRequestedWrites`, `WritesAreFresh`, `RepliesMatch`, `AnswersAreTrue` | one client with three parts of requests, so that the server can merge three lines, or a line and the rest of the one before, and a reply can come late twice; every command, one that lacks its value, one that is refused, and a SET cut in its value; replies are in one part, and up to two of them are read together. Connections do not share anything but the log and the slots, and slots are the subject of `tcp_serve` |

Runs that are expected to be violated, each a disagreement of the code with what
the repository says (quoted in `PROJECT.json`, `findings`):

| Run | Property | What TLC finds |
| --- | --- | --- |
| `wal_unblock` | `AppliedBeforeUnblocked` | the client has its OK while its record is still to be applied: a GET may return the old value |
| `wal_drain` | `DrainsInFlight` | a batch is sealed, the signal comes, the flusher finds channel and batch empty and returns, and nobody ever takes the batch |
| `wal_reopen` | `RecoverySucceeds` | two flushes in one file: the server cannot be started any more |
| `id_negative` | `IdsNonNegative` | two callers pass the `CompareAndSwap` just below the largest id, and the second `Add` returns the smallest integer (the ids are distinct nevertheless: `IdsAreDistinct`) |
| `server_cut` | `LogsWholeLines` | the first part of a SET cut in its value is logged, as a SET of the beginning of the value |

Disagreements that have no run of their own:

* `tcp_server.go:83-84` says that `HandleClientQueries` returns when the context is
  cancelled and the listener closed. Not so if the accept loop is waiting for the slot of
  a handler whose write the engine no longer answers (`wal_drain`): the formula is
  `ServerStops` in `TcpServer`, and TLC refutes it under `FairSpec` with the constants of
  `tcp_serve`. `ServerStopsIfAnswered` is what remains true.
* `tcp_server.go:21-23` says that the server handles framing, `tcp_client.go:13-15` that a
  call returns the reply. A message that is cut, on either side, is taken for two, and the
  next call returns what belongs to the request before; `tcp_client_test.go:131-144`
  expects the cut and stops there. `server_cut` shows the server's side of it.
* `wal.go:116-117` and the repository's README say that recovery replays in LSN order. It
  sorts within one file only; LSNs are drawn before the batch is locked and restart
  with every process, so a larger LSN can be replayed before a smaller one. This is
  harmless, see below.
* `segment_utils.go:57-60` and `ARCHITECTURE.md:99-101` say that the order of names is
  chronological. It is while neither the clock nor `mask_name` goes back, which is the
  premise of `ReplayIsChronological`; without it TLC finds the order lost.
* The env-default tags of `config.go:29-53` and the presets of `NewConfig` differ:
  `flushing_batch_count` is 100 and 2, `mask_name` is `wal_` and `segment_`. If `cleanenv`
  follows the pointers, a zero in the file gives the former and an absent setting the
  latter; if it does not, a zero is refused. No test tells.
* `ARCHITECTURE.md:176-178` says `HandleClientQueries` waits for handlers in flight. Its
  `WaitGroup` counts the accept loop only (`tcp_server.go:90`).
* `compute/errors.go` speaks of letters of ASCII; `strings.ToUpper` also maps a few
  other letters to them before the command is validated.
* `network_option.go:54-56` says the semaphore blocks `Accept` at the limit. One more
  connection is accepted first, and waits for its slot without a deadline.
* After a client's timeout the request it gave up on and its next one may be read as
  one query, and the next call returns the late reply. `RepliesMatch` and `AnswersAreTrue`
  are therefore limited to clients that have not given up on a reply, besides those
  whose messages came in one part (see above).
* A failed rotation leaves a closed handle (`segment.go:112`). Batches that would still fit
  into the old file fail on it until one that does not makes `Segment.Write` try the next
  file; no document says when it recovers.
* Merged queries are refused because the counts of arguments no longer match. This
  holds for well-formed ones, which is the premise of `OnlyRequestedWrites`: a SET that
  lacks its value and the line after it can together be a SET.

Replay in file order is what `TableMatchesLog` needs: the hash table of the running
process was built in flush order. Were the decoder mended to read several streams
of a file, the sort by LSN within the file would bring the two apart: batches are
not in LSN order, and a file that survives a restart holds the LSNs of two
processes. The mutant `DecodesMany` is that change, and TLC finds `TableMatchesLog`
violated.

### Fairness

`WritersUnblock` and `DrainsInFlight` assume `Fairness`: goroutines that can run do
(weak fairness of handler and flusher steps, and that recovery proceeds); a sender
blocked on a channel is woken in turn (strong fairness of `Send`: Go queues blocked
senders); `select` picks at random among ready cases, so a waiting batch is not
passed over for ever (strong fairness of `SelectBatch`). Of the ticker only weak
fairness is assumed: it fires if nothing else wakes the flusher. More would not be
justified, since each batch received resets it. Nothing is assumed of clients,
failures, signals or the exit.

`WaitersSignalled` assumes that a woken thread gets the mutex and that holders
release; not that a waiter gets a slot, for others may overtake it each time.
`DialledIsServed` and `ServerStopsIfAnswered` assume that the accept loop,
`HandleClientQueries` and each handler goroutine run, and that a read deadline expires:
`CreateTCPNetwork` never leaves the timeout at 0, and the mutant without a deadline shows
that shutdown needs it. That the callback returns is assumed only until the context is
cancelled, where `WritersUnblock` is the engine's promise. Afterwards the flusher is gone
and `push` waits without the context (`wal_drain`), so a handler may stay in the callback
for ever; this is why `ServerStops` fails. `ServerStopsIfAnswered` has as its premise
that every handler leaves the callback in the end, and shows that nothing else keeps
`HandleClientQueries`. In fact `main` exits five seconds after the signal.

Of clients one thing is assumed, by the bound `MaxParts`: none sends for ever. One that
sent a request within every idle timeout would keep its slot, and a connection waiting
for it would not be served; `DialledIsServed` says nothing of that case. What
they send, when they stop and whether they leave is open.

## Proofs

`WalProofs` proves, for all values of the constants that satisfy `DiskAssumption`
and `WalAssumption` (sentinels are not values or records, limits are positive),
hence for any number of clients, keys, batches, files, processes and any set of
failures:

* `TypeCorrectness`: `Spec => []TypeOK`
* `AcknowledgedWritesAreDurable`: `Spec => []Durability`
* `SyncedStreamsAreKept`: `Spec => SyncedStreamsStay`

`Durability` is not inductive: a step that acknowledges must know that the record
is on disk, and a crash must not be able to take it back. `IInv` adds what links
the two. `WrittenInv`: between write and sync the last stream is the flusher's
batch. `DurableInv`: what is acknowledged, what a promise says `ok` for, and,
after the sync, what the flusher is about to resolve, are all in streams other
than an unsynced last one (`Synced`). `RequestInv`: an idle handler has neither
record nor promise, so a new write does not inherit an old `ok`. The steps are
`DiskStep` (every action keeps the streams that are synced), from which
`SyncedKept`, then `DurableStep`: `SyncOk` makes the batch synced, `NotifyOk` turns
that into promises, `Respond` into answers; and one type lemma per group of
actions.

And, about the log:

* `NoWriteIsLost`: `Spec => []NoRequestLost`
* `LogKeepsRealTimeOrder`: `Spec => []RealTimeOrder`

Both are about the identity of a record, so the invariant `LogInv` first says where each
one is. `OwnInv`: the records of two handlers differ, because a record carries its process
and an LSN not above `currentLSN`. `IdleInv`: what is empty while a process does
not run, or does not serve yet.
`OnlyPending`: what is in a batch under way is the record of a handler that waits for it and has
no verdict. `AllPending` is the converse, and `InFlightOnce` says that no record is in
two places, which is `NoRequestLost` once the places are counted. `OnceInv`: a record
under way is not on disk yet, but for the flusher's own batch between write and
verdict, and no record is on disk twice. `AckInv`: an acknowledged record is no handler's any more, and
was drawn before its answer. Then `RealTimeOrder` is inductive: a new stream
consists of records that are under way, a record acknowledged is in none of them, and
streams only come at the end.

`WalTableProofs`, under the same assumptions:

* `ReadsStayDurable`: `Spec => []ReadsAreDurable`
* `FilesInOrder`: `Spec => []FileInv`
* `TableIsTheLog`: `Spec => []TableMatchesLog`

`ReadInv` extends `ReadsAreDurable` to what the table holds and to what is on its way there,
and from streams on disk to synced ones, which is what crashes cannot take back.
`FileInv` is that the streams are in the order of their files. For `TableIsTheLog`,
`DecodedInv` says what recovery has decoded of the file it is at, `FlushedInv` that what a
serving flusher is applying is in the last stream, and `FailedInv` that a failed record is never
applied later; the proof then follows the single record that `ApplyRecord` takes (the
least LSN left), or that recovery takes, and shows that it is the last entry of its key.

`WalRefinesProofs`: `EngineIsADurableLog`, `Spec => ImplementsDurableLog`. Initial states map
to initial states; each step of `Wal` is mapped, action by action, to a step or a stutter
of `DurableLog`. A request (`Set`, `Del`) is `Begin`, and needs `OwnInv` and `OnceInv` for "a
record of its own"; `SyncOk`, `WriteFails` and `SyncFails` are `Commit` (or a
stutter, if nothing of the stream is left), where the new group is an arrangement of
writes in doubt without repetition because of `OnlyPending` and `InFlightOnce`; `NotifyOk`
and `NotifyErr` are `Resolve`, `Respond` is `Answer`, and the end of a process is `End`, with or
without the stream that was not synced. `Server` is composed with `DurableLog`, so this
theorem is what entitles it to leave the engine out.

`IDGeneratorProofs`, for any number of callers, any width and any seeds that are not
negative (`IDAssumption`, a hypothesis of the theorem):

* `IdsAreDistinct`: `Spec => [](Len(issued) <= MaxInt => IdsDistinct)`

The invariant gives the identifiers in closed form: from the seed up to `MaxInt`, then on
from 1 if a `CompareAndSwap` met `MaxInt`, or from the smallest integer if an `Add` was there first.
`MaxInt` identifiers is as far as it goes: the next one may repeat the first.

`SemaphoreProofs`, for any set of threads and any positive limit:

* `SemaphoreBound`: `Spec => []HoldersBounded`
* `WakeupsAreKept`: `Spec => []NoLostWakeup`
* `TypeCorrect`: `Spec => []TypeOK`

The invariant adds that the counter is the number of holders (`CountInv`) and that
the list of waiters holds waiting threads only, each once (`WaitersInv`): a signal
therefore always wakes a thread that sleeps, so `Release` makes up for the slot it
frees with a thread on its way.

`TcpServerProofs`, for any number of connections and of parts of requests and replies:

* `ImplementsSemaphore`: `Spec => Sem!Spec`
* `HandlersAreBounded`: `Spec => []HandlersBounded`
* `TypeCorrect`: `Spec => []TypeOK`
* `RepliesAreMatched`: `Spec => []RepliesMatch`

Every step of the server is a step of the semaphore or leaves it alone (`SemStep`),
so the semaphore's invariant carries over; `PlaceInv` says that a connection is somewhere
once it has been dialled, `SlotInv` that it is served exactly while it holds its slot. It needs `WaitersInv`: a signal must not disturb a
connection that is being served. For the replies, `ChannelInv` says that a client that has
always waited, and has had messages of one part only (neither `late` nor `long`), has at
most one of them under way, which is on the wire, with the handler,
or answered (`OnItsWay`), and that a closed connection can only have its reply left; a
`Read` on either side then has nothing to merge.

`SegmentsProofs`, for any settings files with integer settings, any masks, lengths of
flushes, readings of the clock and number of processes (`SegmentsAssumption`):

* `SegmentsTypes`: `Spec => []TypeOK`
* `FlushesAreKept`: `Spec => []FlushesKept`
* `SegmentsAreBounded`: `Spec => []SegmentBound`
* `SettingsAreInForce`: `Spec => []SettingsInForce`
* `ReplayIsInOrder`: `Spec => []ReplayIsChronological`

The lemmas `Created`, `Written` and `Failed` say what the three ways to change the
directory do, `DirStep` that there is no other. Around them `IInv` collects what the
properties rest on. `NameInv`: the list of names always has a last file, so that the one
a process adopts is well defined. `ActiveInv`: after recovery there is an active file. `FlushInv`: flushes are numbered in
turn and the one under way is in no file yet, which is why a flush is stored once.
`SizeInv`: `segmentSize` counts every flush of the active file that succeeded, also
across a failed rotation and in an adopted file; without it the guard of `Write` says nothing
about the file. `SteadyInv` is for the order of replay: while neither clock nor mask
goes back, names are in the order of creation, a new name comes last, and the process
writes to the newest file. `SettingRead` shows that a setting that was validated is the
file's or a positive default.

`ServerProofs`, for any finite set of connections, any lines made of tokens, whole or in
parts, and any number of requests (`ServerAssumption`, `NoneAssumption`); `LogsOnlyRequests`
and the last two, by their statements, for clients whose messages are in one part each:

* `TypeCorrect`: `Spec => []TypeOK`
* `LogsOnlyRequests`: `Spec => []OnlyRequestedWrites`
* `WritesStayFresh`: `Spec => []WritesAreFresh`
* `RepliesStayMatched`: `Spec => []RepliesMatch`
* `AnswersAreKept`: `Spec => []AnswersAreTrue`

Three parts are put together. *Texts*: `GlueAll` is a recursive function, and
`GlueAllFacts` says what it computes for any number of lines: the text of one line is the
line; the text of several lines of two tokens or more begins with the first token of the
first and is longer than it. A command has a fixed number of tokens (`HandlerFacts`), hence
`GluedIsRefused`. The induction is on natural numbers in a set (`Induction`, from the
library's `WFMin`), which the provers can instantiate. *Network*: until the process dies,
each step of the service is a step of `TcpServer` (`NetStep`), so that its invariants hold
here; the end of the process takes away the link between slots and connections
(`SlotInv`), and keeps the others (`DieNet`). *Store*: `StoreInv` follows a line to the log.
`LineInv`: requests arrive in the order they were sent, and a handler works on some that
precede all that are still on the wire. `PendInv`: a write in doubt is that of the query its
handler is at, and what those lines ask for (`Requested`), and a verdict `ok` means it is in the
log. `LoggedInv`: what is logged was read before all that its connection has still to read
or to log. This is what makes `OrderInv`, the order of the log, inductive, and what shows
that a write is fresh. `ToldInv`: OK and DELETED are said of logged writes. With
`ChannelInv` of the network, which says whose reply a client has read, `AnswersAreTrue` follows.
`StepKinds`, `PendKinds` and `LogKinds` list what a step can do to a connection, to its
write and to the log, so that each invariant is proved against a few cases instead of against every
action.

Proved only: `IdsDistinct`. Model-checked only: `RecoverySucceeds` (for segments without room for a second flush; it
does not hold in general, see `wal_reopen`); and `WritersUnblock`, `WaitersSignalled`,
`DialledIsServed` and `ServerStopsIfAnswered`, as liveness and fairness are out of the
prover's reach.

## Assumptions and what is left out

* In `Wal` files are in the order of their creation, which is the order of names while
  neither clock nor mask goes back; `Segments` is about the rest. Time stamps have the
  same number of digits, and no mask is the beginning of another.
* A synced file keeps its name, although the directory is not synced (listed as a
  hazard).
* `Sync` failures and power losses change only the last stream. `Stat` on the file that
  was just opened does not fail.
* Encoding and applying a record never fail: records are built by `Set` and `Del`
  with the right arguments. The LSN goes through the context as a decimal string
  and back, which is the identity on int64.
* `Segment.Write` without a file cannot happen after `Recovery`.
* A promise is resolved once, by the flusher; that a second `Set` is ignored is not used.
* Errors of `Accept` other than a closed listener only repeat the loop. A write to a
  client that does not read never blocks, so the write deadline does not fire.
* In `Server` a line is cut inside a token: a cut between two tokens only makes parts
  with fewer arguments than the command needs, or commands that are refused.
* Nil checks of the constructors, path resolution, flags, client options and printing are
  not modelled: they fail before there is any state, or have none.
* Logging and the generated mocks have no effect on the state. The request context
  carries a number as text and back.

## Plan

1. Done: `WalDisk`, `Wal`, `IDGenerator`, `Semaphore`, `TcpServer`, their runs, and
   the first theorems.
2. Done: `DurableLog` with the refinement of `Wal`, `Segments` with `Config`, `Compute`, and
   the composition `Server`; the proofs about `Segments`.
3. Done: the proofs of the refinement, and of all safety properties of `Wal`,
   `IDGenerator`, `Semaphore`, `TcpServer` and `Server`.
4. Left: liveness is checked by TLC only.
