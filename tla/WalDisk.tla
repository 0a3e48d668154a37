------------------------------ MODULE WalDisk ------------------------------
(***************************************************************************)
(* The segment files of the write-ahead log and what their bytes decode to *)
(* (package filesystem, wal_log.go, and the gob decoding in Wal.Recovery). *)
(*                                                                         *)
(* One flush writes one gob stream: WalWriter.Write makes a fresh          *)
(* gob.Encoder, so every stream starts with the type definition of Log.    *)
(* The disk is the sequence of the streams in the order they were written, *)
(* each tagged with the number of the segment file that holds it.  Files   *)
(* are numbered in the order of their creation, which is the order of      *)
(* their nanosecond names as long as the clock does not step back.         *)
(***************************************************************************)
EXTENDS Integers, Sequences, SequencesExt

CONSTANTS
  Keys,            \* the keys clients use
  Values,          \* the values clients store
  Absent,          \* what the hash table holds for a key it does not have
  TypeDefSize,     \* encoded length of the type definition, in records
  MaxSegmentSize   \* max_segment_size, in records

ASSUME DiskAssumption ==
  /\ Absent \notin Values
  /\ TypeDefSize \in Nat \ {0}
  /\ MaxSegmentSize \in Nat

(***************************************************************************)
(* Log records.  run is history only (it is not on disk): the number of    *)
(* the server process that issued the record.  LSNs restart from 1 in      *)
(* every process, so run and lsn together identify a record.               *)
(***************************************************************************)
CommandSetID == 1
CommandDelID == 2

Log == [run : Nat, lsn : Nat, cmd : {CommandSetID, CommandDelID},
        key : Keys, val : Values \cup {Absent}]

\* What Wal.apply leaves in the hash table under the record's key.
Effect(record) == IF record.cmd = CommandSetID THEN record.val ELSE Absent

-----------------------------------------------------------------------------
(***************************************************************************)
(* Gob streams.  whole is FALSE for bytes that end inside a message: the   *)
(* decoder then reports io.ErrUnexpectedEOF, which is not io.EOF.          *)
(***************************************************************************)
Stream == [file : Nat, recs : Seq(Log), whole : BOOLEAN]

\* Length of n records written by one encoder: the type definition once,
\* then the records.  A record is the unit of length.
EncodedSize(n) == TypeDefSize + n

\* What an interrupted write can leave of stream s: a cut after one of its
\* records is a shorter stream that decodes, any other cut is not (after the
\* type definition alone the decoder still wants a record).
Torn(s) ==
  {[s EXCEPT !.recs = SubSeq(s.recs, 1, n)] : n \in 1..(Len(s.recs) - 1)}
    \cup {[s EXCEPT !.whole = FALSE]}

\* Mutant: a decoder per stream, which reads files of several streams but
\* leaves the sort by LSN, within the file, as it is.
DecodesMany(disk, file) ==
  \A i \in DOMAIN disk : disk[i].file = file => disk[i].whole

\* Recovery reads a file with one gob.Decoder up to io.EOF.  The decoder
\* refuses the type definition that opens a second stream (duplicate type),
\* so a file decodes only when it holds at most one stream, and that whole.
Decodes(disk, file) ==
  \A i, j \in DOMAIN disk :
    disk[i].file = file /\ disk[j].file = file => i = j /\ disk[i].whole

\* The records Recovery decodes from a file that Decodes.
FileLogs(disk, file) ==
  UNION {ToSet(disk[i].recs) : i \in {j \in DOMAIN disk : disk[j].file = file}}

\* file.Stat().Size() of the newest file, once it has been decoded.
NewestFileSize(disk, file) ==
  IF disk # <<>> /\ Last(disk).file = file
  THEN EncodedSize(Len(Last(disk).recs))
  ELSE 0

\* Segment.Write closes the active file and opens a new one first when the
\* data would take a non-empty segment past the limit.
NeedsRotation(segmentSize, n) ==
  /\ MaxSegmentSize > 0
  /\ segmentSize > 0
  /\ segmentSize + EncodedSize(n) > MaxSegmentSize

=============================================================================
