------------------------------ MODULE Segments ------------------------------
(***************************************************************************)
(* The directory of segment files through the life of several server       *)
(* processes: the start (settings, directory, recovery, listener), the     *)
(* names that Segment gives its files, rotation, and the choice of the     *)
(* file that the next process goes on with.                                *)
(*                                                                         *)
(* A file is named after mask_name and the wall clock, which may stand     *)
(* still between two files or be set back; mask_name and the other         *)
(* settings may change from one process to the next.  What is in a batch   *)
(* does not matter here: a flush is a number and a length in bytes.        *)
(***************************************************************************)
EXTENDS Config, Sequences, FiniteSets

CONSTANTS
  Files,        \* the YAML files a process may be started with
  Masks,        \* the values of mask_name, in alphabetical order
  Lengths,      \* lengths of an encoded batch
  MaxRuns,      \* bound: processes
  MaxFlushes,   \* bound: flushes
  MaxClock      \* bound: readings of the clock

ASSUME SegmentsAssumption ==
  /\ Masks \in Seq(STRING)
  /\ \A g \in Files : \A f \in DOMAIN g \ {"MaskName"} : g[f] \in Int
  /\ \A g \in Files : \E i \in DOMAIN Masks : ReadMaskName(g) = Masks[i]
  /\ Lengths \subseteq Nat \ {0}
  /\ MaxRuns \in Nat /\ MaxFlushes \in Nat /\ MaxClock \in Nat

VARIABLES
  phase,        \* the process: down, recovery, listen, serving
  runs,         \* processes so far
  given,        \* its YAML file
  clock,        \* what time.Now() reads
  dir,          \* the files, in the order they were created
  file,         \* Segment.file, as its place in dir
  open,         \* the handle is open
  segmentSize,  \* Segment.segmentSize
  data,         \* length of the batch that is being written, or 0
  nflush,       \* flushes so far
  stored,       \* history: the flushes that succeeded
  steady        \* history: neither clock nor mask_name has gone back

processVars == <<phase, runs, given>>
segmentVars == <<file, open, segmentSize>>
flushVars == <<data, nflush, stored>>
vars == <<processVars, clock, dir, segmentVars, flushVars, steady>>

\* Where a mask comes in the alphabet.  Timestamps have the same number of
\* digits, so names compare by mask, then by time.
Rank(mask) == CHOOSE i \in DOMAIN Masks : Masks[i] = mask

MaskNames == {Masks[i] : i \in DOMAIN Masks}
\* Besides its name and its size, a file has as history: the flushes that
\* left bytes in it, in order; the max_segment_size of the last that
\* succeeded; and the number of bytes left by those that failed.
File == [mask : MaskNames, stamp : 0..MaxClock, size : Nat,
         flushes : Seq(1..MaxFlushes), limit : Nat, stray : Nat]

cfg == ReadConfig(given)
maskName == ReadMaskName(given)

TypeOK ==
  /\ phase \in {"down", "recovery", "listen", "serving"}
  /\ runs \in 0..MaxRuns
  /\ given \in Files
  /\ clock \in 0..MaxClock
  /\ dir \in Seq(File)
  /\ file \in 0..Len(dir)
  /\ open \in BOOLEAN
  /\ segmentSize \in Nat
  /\ data \in Lengths \cup {0}
  /\ nflush \in 0..MaxFlushes
  /\ stored \subseteq 1..MaxFlushes
  /\ steady \in BOOLEAN

Init ==
  /\ phase = "down"
  /\ runs = 0
  /\ given \in Files
  /\ clock = 0
  /\ dir = <<>>
  /\ file = 0
  /\ open = FALSE
  /\ segmentSize = 0
  /\ data = 0
  /\ nflush = 0
  /\ stored = {}
  /\ steady = TRUE

-----------------------------------------------------------------------------
(***************************************************************************)
(* The directory.                                                          *)
(***************************************************************************)

\* The order of sort.Strings in GetFileList.
ListedBefore(i, j) ==
  \/ Rank(dir[i].mask) < Rank(dir[j].mask)
  \/ dir[i].mask = dir[j].mask /\ dir[i].stamp < dir[j].stamp

\* Mutant: the list is taken to start with the newest file.
LastListedFirst ==
  CHOOSE i \in DOMAIN dir : \A j \in DOMAIN dir \ {i} : ListedBefore(i, j)

\* filesList[len(filesList)-1]
LastListed ==
  CHOOSE i \in DOMAIN dir : \A j \in DOMAIN dir \ {i} : ListedBefore(j, i)

\* The name that CreateFile makes is in use: O_EXCL refuses it.
NameTaken ==
  \E i \in DOMAIN dir : dir[i].mask = maskName /\ dir[i].stamp = clock

\* Mutant: O_TRUNC in the place of O_EXCL.
CreateFileTruncates ==
  /\ IF NameTaken
     THEN \E i \in DOMAIN dir :
            /\ dir[i].mask = maskName /\ dir[i].stamp = clock
            /\ dir' = [dir EXCEPT ![i].size = 0, ![i].flushes = <<>>]
            /\ file' = i
     ELSE /\ dir' = Append(dir, [mask |-> maskName, stamp |-> clock, size |-> 0,
                                 flushes |-> <<>>, limit |-> 0, stray |-> 0])
          /\ file' = Len(dir) + 1
  /\ open' = TRUE
  /\ segmentSize' = 0

\* CreateFile, as called by Recovery and by getNextSegment.
CreateFile ==
  /\ ~NameTaken
  /\ dir' = Append(dir, [mask |-> maskName, stamp |-> clock, size |-> 0,
                         flushes |-> <<>>, limit |-> 0, stray |-> 0])
  /\ file' = Len(dir) + 1
  /\ open' = TRUE
  /\ segmentSize' = 0

-----------------------------------------------------------------------------
(***************************************************************************)
(* The start of a process, and its end.                                    *)
(***************************************************************************)

\* main: NewConfig, then MakeDirectory.  A file that does not validate ends
\* the process before it has touched anything.
Boot(g) ==
  /\ phase = "down"
  /\ runs < MaxRuns
  /\ Validate(g)
  /\ phase' = "recovery"
  /\ runs' = runs + 1
  /\ given' = g
  /\ steady' = (steady /\ \A i \in DOMAIN dir :
                  Rank(dir[i].mask) <= Rank(ReadMaskName(g)))
  /\ UNCHANGED <<clock, dir, segmentVars, flushVars>>

\* The decoder reads one stream per file (see WalDisk!Decodes); of a part of
\* a stream it may read what there is.
Decodable == \A i \in DOMAIN dir : Len(dir[i].flushes) <= 1

\* Recovery in an empty directory.
RecoverFirst ==
  /\ phase = "recovery"
  /\ dir = <<>>
  /\ CreateFile
  /\ phase' = "listen"
  /\ UNCHANGED <<runs, given, clock, flushVars, steady>>

\* Mutant: the index is that of the length of the list.
AdoptOffByOne ==
  /\ phase = "recovery"
  /\ dir # <<>>
  /\ Decodable
  /\ file' = LastListed + 1
  /\ open' = TRUE
  /\ segmentSize' = dir[LastListed].size
  /\ phase' = "listen"
  /\ UNCHANGED <<runs, given, clock, dir, flushVars, steady>>

\* Mutant: SetFile leaves the size at zero.
AdoptSizeZero ==
  /\ phase = "recovery"
  /\ dir # <<>>
  /\ Decodable
  /\ file' = LastListed
  /\ open' = TRUE
  /\ segmentSize' = 0
  /\ phase' = "listen"
  /\ UNCHANGED <<runs, given, clock, dir, flushVars, steady>>

\* Recovery after at least one file: SetFile adopts the last one.
Adopt ==
  /\ phase = "recovery"
  /\ dir # <<>>
  /\ Decodable
  /\ file' = LastListed
  /\ open' = TRUE
  /\ segmentSize' = dir[LastListed].size
  /\ phase' = "listen"
  /\ UNCHANGED <<runs, given, clock, dir, flushVars, steady>>

\* CreateTCPNetwork, after which StartDatabase serves.
Listen ==
  /\ phase = "listen"
  /\ ~NewTCPServerRefuses(CreateTCPNetwork(cfg))
  /\ phase' = "serving"
  /\ UNCHANGED <<runs, given, clock, dir, segmentVars, flushVars, steady>>

\* The process ends: Recovery or the listener fails, a signal, a kill.  All
\* but the directory is lost, a file that was created in vain stays.
End ==
  /\ phase # "down"
  /\ phase' = "down"
  /\ file' = 0
  /\ open' = FALSE
  /\ segmentSize' = 0
  /\ data' = 0
  /\ UNCHANGED <<runs, given, clock, dir, nflush, stored, steady>>

-----------------------------------------------------------------------------
(***************************************************************************)
(* Segment.Write.  After Recovery there always is a file.                  *)
(***************************************************************************)

\* The flusher calls Write with an encoded batch.
Write(length) ==
  /\ phase = "serving"
  /\ data = 0
  /\ nflush < MaxFlushes
  /\ data' = length
  /\ nflush' = nflush + 1
  /\ UNCHANGED <<processVars, clock, dir, segmentVars, stored, steady>>

NeedsRotation(length) ==
  /\ cfg.MaxSegmentSize > 0
  /\ segmentSize > 0
  /\ segmentSize + length > cfg.MaxSegmentSize

\* getNextSegment: the old file is closed, a new one created.
getNextSegment ==
  /\ data # 0
  /\ NeedsRotation(data)
  /\ CreateFile
  /\ UNCHANGED <<processVars, clock, flushVars, steady>>

\* CreateFile fails, as it must when the name is taken: the closed file stays
\* the active one, Write fails.
RotationFails ==
  /\ data # 0
  /\ NeedsRotation(data)
  /\ open' = FALSE
  /\ data' = 0
  /\ UNCHANGED <<processVars, clock, dir, file, segmentSize, nflush, stored,
                 steady>>

\* WriteFile on the active file.
WriteFile ==
  /\ data # 0
  /\ ~NeedsRotation(data)
  /\ open
  /\ dir' = [dir EXCEPT ![file].size = @ + data,
                        ![file].flushes = Append(@, nflush),
                        ![file].limit = cfg.MaxSegmentSize]
  /\ segmentSize' = segmentSize + data
  /\ stored' = stored \cup {nflush}
  /\ data' = 0
  /\ UNCHANGED <<processVars, clock, file, open, nflush, steady>>

\* A short write or a failed Sync leaves bytes that segmentSize does not
\* count; a handle that a failed rotation has closed takes none.
WriteFileFails ==
  /\ data # 0
  /\ ~NeedsRotation(data)
  /\ \E left \in 0..data :
       /\ ~open => left = 0
       /\ dir' = IF left = 0 THEN dir
                 ELSE [dir EXCEPT ![file].size = @ + left,
                                  ![file].flushes = Append(@, nflush),
                                  ![file].stray = @ + left]
  /\ data' = 0
  /\ UNCHANGED <<processVars, clock, segmentVars, nflush, stored, steady>>

-----------------------------------------------------------------------------
(***************************************************************************)
(* The clock of the machine.                                               *)
(***************************************************************************)
Tick ==
  /\ clock < MaxClock
  /\ clock' = clock + 1
  /\ UNCHANGED <<processVars, dir, segmentVars, flushVars, steady>>

StepBack ==
  /\ clock > 0
  /\ clock' = clock - 1
  /\ steady' = FALSE
  /\ UNCHANGED <<processVars, dir, segmentVars, flushVars>>

-----------------------------------------------------------------------------
Next ==
  \/ \E g \in Files : Boot(g)
  \/ RecoverFirst \/ Adopt \/ Listen \/ End
  \/ \E length \in Lengths : Write(length)
  \/ getNextSegment \/ RotationFails \/ WriteFile \/ WriteFileFails
  \/ Tick \/ StepBack

Spec == Init /\ [][Next]_vars

-----------------------------------------------------------------------------
(***************************************************************************)
(* Properties.                                                             *)
(***************************************************************************)

\* A flush that succeeded stays in exactly one file, whatever names later
\* files are given: a name that a clock which stands still or is set back
\* makes again is refused, and costs the flush, not the old file.
FlushesKept ==
  \A n \in stored :
    Cardinality({i \in DOMAIN dir : \E p \in DOMAIN dir[i].flushes :
                                     dir[i].flushes[p] = n}) = 1

\* Recovery replays the flushes of all processes in the order they were
\* made: files in the order of GetFileList, each from the front, as long as
\* neither the clock nor mask_name goes back.  A process goes on with the
\* right file, and a clock that stands still does no harm.
ReplayIsChronological ==
  steady =>
    \A i, j \in DOMAIN dir :
      \A p \in DOMAIN dir[i].flushes, q \in DOMAIN dir[j].flushes :
        ListedBefore(i, j) \/ (i = j /\ p < q) =>
          dir[i].flushes[p] < dir[j].flushes[q]

\* No file grows past max_segment_size, as it was at the last write, unless
\* one flush alone does, but for the bytes that failed writes left: across
\* rotations that succeed or fail, and when a process with another limit
\* goes on with the file, segmentSize counts all that succeeded.
SegmentBound ==
  \A i \in DOMAIN dir :
    Cardinality({p \in DOMAIN dir[i].flushes : dir[i].flushes[p] \in stored}) > 1
      => dir[i].size <= dir[i].limit + dir[i].stray

\* A server that serves has the settings its file gives, zeros apart, and
\* none that the WAL, the semaphore or the read loop cannot work with: the
\* limits are positive, and every read has a deadline.
SettingsInForce ==
  phase = "serving" =>
    LET server == CreateTCPNetwork(cfg)
    IN  /\ \A f \in DOMAIN server :
             /\ server[f] > 0
             /\ f \in DOMAIN given /\ given[f] # 0 => server[f] = given[f]
        /\ \A f \in WalFields :
             /\ cfg[f] > 0
             /\ f \in DOMAIN given /\ given[f] # 0 => cfg[f] = given[f]

=============================================================================
