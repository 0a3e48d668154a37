--------------------------- MODULE SegmentsProofs ---------------------------
(***************************************************************************)
(* Proofs about Segments, for any settings, masks, batch lengths and any   *)
(* number of processes, flushes and readings of the clock.                 *)
(***************************************************************************)
EXTENDS Segments, FiniteSetTheorems, TLAPS

-----------------------------------------------------------------------------
(***************************************************************************)
(* The inductive invariant.                                                *)
(***************************************************************************)

\* Segment.file is set: after Recovery and before the end of the process.
Active == phase \in {"listen", "serving"}

\* The positions of the flushes of file i that succeeded.
StoredIn(i) == {p \in DOMAIN dir[i].flushes : dir[i].flushes[p] \in stored}

\* The files that hold flush n.
Holders(n) ==
  {i \in DOMAIN dir : \E p \in DOMAIN dir[i].flushes : dir[i].flushes[p] = n}

\* A process only runs with settings that validate.
ValidInv == phase # "down" => Validate(given)

\* The list of files has a last one.
NameInv ==
  dir # <<>> => \E i \in DOMAIN dir : \A j \in DOMAIN dir \ {i} : ListedBefore(j, i)

\* A process that has opened a segment has an active file, and data only
\* while it serves.
ActiveInv ==
  /\ Active => file \in DOMAIN dir
  /\ data # 0 => phase = "serving"

\* Flushes are numbered in turn, and the one under way is nowhere yet.
FlushInv ==
  /\ \A i \in DOMAIN dir : \A p \in DOMAIN dir[i].flushes :
       dir[i].flushes[p] \in 1..nflush
  /\ stored \subseteq 1..nflush
  /\ data # 0 => /\ nflush \notin stored
                 /\ \A i \in DOMAIN dir : \A p \in DOMAIN dir[i].flushes :
                      dir[i].flushes[p] # nflush
                 /\ nflush \in 1..MaxFlushes

\* segmentSize counts every flush of the active file that succeeded.
SizeInv ==
  /\ \A i \in DOMAIN dir : dir[i].size = 0 => dir[i].flushes = <<>>
  /\ Active => /\ dir[file].size <= segmentSize + dir[file].stray
               /\ segmentSize = 0 => StoredIn(file) = {}

\* While neither clock nor mask has gone back, the order of names is that of
\* creation, new names come last, and the process writes to the newest file.
NamesSteady ==
  /\ \A i, j \in DOMAIN dir : i < j => ListedBefore(i, j)
  /\ \A i \in DOMAIN dir : dir[i].stamp <= clock
  /\ phase # "down" => \A i \in DOMAIN dir : Rank(dir[i].mask) <= Rank(maskName)
  /\ Active => file = Len(dir)

\* Flushes are in the order of files and of places in a file.
FlushesSteady ==
  \A i, j \in DOMAIN dir :
    \A p \in DOMAIN dir[i].flushes, q \in DOMAIN dir[j].flushes :
      i < j \/ (i = j /\ p < q) => dir[i].flushes[p] < dir[j].flushes[q]

SteadyInv == steady => NamesSteady /\ FlushesSteady

IInv ==
  /\ TypeOK /\ ValidInv /\ NameInv /\ ActiveInv /\ FlushInv /\ SizeInv
  /\ FlushesKept /\ SegmentBound

-----------------------------------------------------------------------------
(***************************************************************************)
(* Settings and names.                                                     *)
(***************************************************************************)

\* A setting of a process that starts is a positive number, and the one in
\* its file unless that is zero.
LEMMA SettingRead ==
  ASSUME NEW g \in Files, Validate(g), NEW f \in DOMAIN Preset
  PROVE  /\ ReadConfig(g)[f] \in Nat \ {0}
         /\ f \in DOMAIN g /\ g[f] # 0 => ReadConfig(g)[f] = g[f]
<1>1. f # "MaskName" /\ Preset[f] \in Int
  <2>1. f \in {"MaxConnections", "MaxMessageSize", "IdleTimeout", "BufferSize"}
        \/ f \in {"FlushingBatchTimeout", "FlushingBatchCount",
                  "FlushingBatchVolume", "MaxSegmentSize"}
    BY DEF Preset, NetworkFields, WalFields, NetworkPreset, WalPreset
  <2> QED
    BY <2>1 DEF Preset, NetworkFields, WalFields, NetworkPreset, WalPreset
<1>2. EnvDefault[f] \in Int
  BY <1>1 DEF EnvDefault
<1>3. f \in DOMAIN g => g[f] \in Int
  BY <1>1, SegmentsAssumption
<1>4. ReadConfig(g)[f] \in Int
  BY <1>1, <1>2, <1>3 DEF ReadConfig
<1>5. ReadConfig(g)[f] > 0
  BY DEF Validate
<1>6. f \in DOMAIN g /\ g[f] # 0 => ReadConfig(g)[f] = g[f]
  BY DEF ReadConfig
<1> QED
  BY <1>4, <1>5, <1>6

\* A process that starts has a positive max_segment_size.
LEMMA LimitPositive ==
  ASSUME NEW g \in Files, Validate(g)
  PROVE  ReadConfig(g).MaxSegmentSize \in Nat \ {0}
<1>1. "MaxSegmentSize" \in DOMAIN Preset
  BY DEF Preset, NetworkFields, WalFields, WalPreset, NetworkPreset
<1> QED
  BY <1>1, SettingRead

\* The mask of a process is one of the masks.
LEMMA MaskKnown ==
  ASSUME NEW g \in Files
  PROVE  ReadMaskName(g) \in MaskNames
BY SegmentsAssumption DEF MaskNames

\* Different masks have different ranks.
LEMMA RankOfMask ==
  ASSUME NEW a \in MaskNames
  PROVE  Rank(a) \in Int /\ Masks[Rank(a)] = a
<1>1. \E i \in DOMAIN Masks : Masks[i] = a
  BY DEF MaskNames
<1>2. Rank(a) \in DOMAIN Masks /\ Masks[Rank(a)] = a
  BY <1>1 DEF Rank
<1> QED
  BY <1>2, SegmentsAssumption

-----------------------------------------------------------------------------
(***************************************************************************)
(* What the actions do to the directory.                                   *)
(***************************************************************************)

\* CreateFile adds an empty file under a new name and makes it active.
LEMMA Created ==
  ASSUME TypeOK, CreateFile
  PROVE  /\ dir' \in Seq(File)
         /\ Len(dir') = Len(dir) + 1
         /\ DOMAIN dir' = DOMAIN dir \cup {Len(dir) + 1}
         /\ DOMAIN dir = 1..Len(dir)
         /\ \A i \in DOMAIN dir : dir'[i] = dir[i]
         /\ dir'[Len(dir) + 1] = [mask |-> maskName, stamp |-> clock, size |-> 0,
                                   flushes |-> <<>>, limit |-> 0, stray |-> 0]
         /\ file' = Len(dir) + 1
         /\ file' \in 0..Len(dir')
         /\ open' = TRUE
         /\ segmentSize' = 0
         /\ dir' # <<>>
<1> DEFINE f == [mask |-> maskName, stamp |-> clock, size |-> 0,
                 flushes |-> <<>>, limit |-> 0, stray |-> 0]
<1>1. f \in File
  <2>1. maskName \in MaskNames
    BY MaskKnown DEF TypeOK, maskName
  <2>2. <<>> \in Seq(1..MaxFlushes)
    OBVIOUS
  <2> QED
    BY <2>1, <2>2 DEF File, TypeOK
<1>2. dir \in Seq(File) /\ dir' = Append(dir, f)
  BY DEF TypeOK, CreateFile
<1>3. /\ dir' \in Seq(File)
      /\ Len(dir') = Len(dir) + 1
      /\ \A i \in 1..Len(dir) : dir'[i] = dir[i]
      /\ dir'[Len(dir) + 1] = f
      /\ DOMAIN dir = 1..Len(dir)
      /\ DOMAIN dir' = 1..(Len(dir) + 1)
      /\ Len(dir) \in Nat
  <2> HIDE DEF f
  <2> QED
    BY <1>1, <1>2
<1>4. 1..(Len(dir) + 1) = 1..Len(dir) \cup {Len(dir) + 1}
  BY <1>3
<1>5. /\ file' = Len(dir) + 1
      /\ open' = TRUE
      /\ segmentSize' = 0
  BY DEF CreateFile
<1> HIDE DEF f
<1>6. file' \in 0..Len(dir')
  BY <1>3, <1>5
<1>7. dir' # <<>>
  BY <1>3
<1> QED
  BY <1>3, <1>4, <1>5, <1>6, <1>7 DEF f

\* The name of the new file is not in use.
LEMMA CreatedName ==
  ASSUME TypeOK, CreateFile, NEW i \in DOMAIN dir
  PROVE  dir[i].mask # maskName \/ dir[i].stamp # clock
BY DEF CreateFile, NameTaken

\* Records of files stay records of files.
LEMMA FileWritten ==
  ASSUME NEW f \in File, NEW s \in Nat, NEW q \in Seq(1..MaxFlushes), NEW n \in Nat
  PROVE  /\ [f EXCEPT !.size = s, !.flushes = q, !.limit = n] \in File
         /\ [f EXCEPT !.size = s, !.flushes = q, !.stray = n] \in File
BY DEF File

\* WriteFile adds the flush to the active file.
LEMMA Written ==
  ASSUME TypeOK, ActiveInv, FlushInv, ValidInv, WriteFile
  PROVE  /\ dir' \in Seq(File)
         /\ DOMAIN dir' = DOMAIN dir
         /\ Len(dir') = Len(dir)
         /\ file \in DOMAIN dir
         /\ \A i \in DOMAIN dir \ {file} : dir'[i] = dir[i]
         /\ dir'[file].mask = dir[file].mask
         /\ dir'[file].stamp = dir[file].stamp
         /\ dir'[file].size = dir[file].size + data
         /\ dir'[file].flushes = Append(dir[file].flushes, nflush)
         /\ dir'[file].limit = cfg.MaxSegmentSize
         /\ dir'[file].stray = dir[file].stray
<1>1. /\ phase = "serving"
      /\ file \in DOMAIN dir
      /\ data \in Nat \ {0}
      /\ nflush \in 1..MaxFlushes
  BY SegmentsAssumption DEF WriteFile, ActiveInv, Active, TypeOK, FlushInv
<1>2. cfg.MaxSegmentSize \in Nat
  BY <1>1, LimitPositive DEF ValidInv, TypeOK, cfg
<1>3. PICK m : m = cfg.MaxSegmentSize
  OBVIOUS
<1>4. dir \in Seq(File) /\ dir[file] \in File
  BY <1>1 DEF TypeOK
<1> DEFINE g == [dir[file] EXCEPT !.size = @ + data,
                                  !.flushes = Append(@, nflush),
                                  !.limit = m]
<1>5. dir' = [dir EXCEPT ![file] = g]
  BY <1>1, <1>3, <1>4 DEF WriteFile, File
<1>6. /\ g.mask = dir[file].mask
      /\ g.stamp = dir[file].stamp
      /\ g.size = dir[file].size + data
      /\ g.flushes = Append(dir[file].flushes, nflush)
      /\ g.limit = m
      /\ g.stray = dir[file].stray
  BY <1>4 DEF File
<1>7. g \in File
  <2>1. /\ dir[file].mask \in MaskNames
        /\ dir[file].stamp \in 0..MaxClock
        /\ dir[file].size \in Nat
        /\ dir[file].flushes \in Seq(1..MaxFlushes)
        /\ dir[file].stray \in Nat
    BY <1>4 DEF File
  <2>2. Append(dir[file].flushes, nflush) \in Seq(1..MaxFlushes)
    BY <1>1, <2>1
  <2>3. dir[file].size + data \in Nat /\ m \in Nat
    BY <1>1, <1>2, <1>3, <2>1
  <2> QED
    BY <1>4, <2>2, <2>3, FileWritten
<1> HIDE DEF g
<1>8. /\ dir' \in Seq(File)
      /\ DOMAIN dir' = DOMAIN dir
      /\ Len(dir') = Len(dir)
      /\ dir'[file] = g
      /\ \A i \in DOMAIN dir \ {file} : dir'[i] = dir[i]
  BY <1>1, <1>4, <1>5, <1>7
<1> QED
  BY <1>1, <1>3, <1>6, <1>8

\* A failed WriteFile leaves the directory alone, or bytes of the flush in
\* the active file.
LEMMA Failed ==
  ASSUME TypeOK, ActiveInv, FlushInv, WriteFileFails, dir' # dir
  PROVE  /\ dir' \in Seq(File)
         /\ DOMAIN dir' = DOMAIN dir
         /\ Len(dir') = Len(dir)
         /\ file \in DOMAIN dir
         /\ \A i \in DOMAIN dir \ {file} : dir'[i] = dir[i]
         /\ dir'[file].mask = dir[file].mask
         /\ dir'[file].stamp = dir[file].stamp
         /\ dir'[file].flushes = Append(dir[file].flushes, nflush)
         /\ dir'[file].limit = dir[file].limit
         /\ \E left \in Nat \ {0} :
              /\ dir'[file].size = dir[file].size + left
              /\ dir'[file].stray = dir[file].stray + left
<1>1. /\ phase = "serving"
      /\ file \in DOMAIN dir
      /\ data \in Nat \ {0}
      /\ nflush \in 1..MaxFlushes
  BY SegmentsAssumption DEF WriteFileFails, ActiveInv, Active, TypeOK, FlushInv
<1>2. PICK left \in 0..data :
        dir' = IF left = 0 THEN dir
               ELSE [dir EXCEPT ![file].size = @ + left,
                                ![file].flushes = Append(@, nflush),
                                ![file].stray = @ + left]
  BY Zenon DEF WriteFileFails
<1>3. left \in Nat \ {0}
  BY <1>1, <1>2
<1>4. dir \in Seq(File) /\ dir[file] \in File
  BY <1>1 DEF TypeOK
<1> DEFINE g == [dir[file] EXCEPT !.size = @ + left,
                                  !.flushes = Append(@, nflush),
                                  !.stray = @ + left]
<1>5. dir' = [dir EXCEPT ![file] = g]
  BY <1>1, <1>2, <1>3, <1>4 DEF File
<1>6. /\ g.mask = dir[file].mask
      /\ g.stamp = dir[file].stamp
      /\ g.size = dir[file].size + left
      /\ g.flushes = Append(dir[file].flushes, nflush)
      /\ g.limit = dir[file].limit
      /\ g.stray = dir[file].stray + left
  BY <1>4 DEF File
<1>7. g \in File
  <2>1. /\ dir[file].size \in Nat
        /\ dir[file].flushes \in Seq(1..MaxFlushes)
        /\ dir[file].stray \in Nat
    BY <1>4 DEF File
  <2>2. Append(dir[file].flushes, nflush) \in Seq(1..MaxFlushes)
    BY <1>1, <2>1
  <2>3. dir[file].size + left \in Nat /\ dir[file].stray + left \in Nat
    BY <1>3, <2>1
  <2> QED
    BY <1>4, <2>2, <2>3, FileWritten
<1> HIDE DEF g
<1>8. /\ dir' \in Seq(File)
      /\ DOMAIN dir' = DOMAIN dir
      /\ Len(dir') = Len(dir)
      /\ dir'[file] = g
      /\ \A i \in DOMAIN dir \ {file} : dir'[i] = dir[i]
  BY <1>1, <1>4, <1>5, <1>7
<1> QED
  BY <1>1, <1>3, <1>6, <1>8

\* There is no other way to change the directory or the flushes.
LEMMA DirStep ==
  ASSUME Next
  PROVE  \/ dir' = dir /\ nflush' = nflush /\ stored' = stored /\ data' \in {0, data}
         \/ \E length \in Lengths : Write(length)
         \/ CreateFile /\ nflush' = nflush /\ stored' = stored /\ data' = data
         \/ WriteFile
         \/ WriteFileFails /\ dir' # dir
BY DEF Next, Boot, RecoverFirst, Adopt, Listen, End, getNextSegment,
       RotationFails, WriteFileFails, Tick, StepBack, flushVars, segmentVars,
       processVars

-----------------------------------------------------------------------------
(***************************************************************************)
(* The order of names.                                                     *)
(***************************************************************************)

\* The last file of the list is a file.
LEMMA LastIsFile ==
  ASSUME NameInv, dir # <<>>
  PROVE  LastListed \in DOMAIN dir
BY DEF NameInv, LastListed

\* A step that leaves the names alone leaves their order alone.
LEMMA NamesKept ==
  ASSUME NameInv, dir # <<>>,
         DOMAIN dir' = DOMAIN dir,
         \A i \in DOMAIN dir : dir'[i].mask = dir[i].mask /\ dir'[i].stamp = dir[i].stamp
  PROVE  NameInv'
<1>1. PICK i \in DOMAIN dir : \A j \in DOMAIN dir \ {i} : ListedBefore(j, i)
  BY DEF NameInv
<1>2. \A j \in DOMAIN dir' \ {i} : ListedBefore(j, i)'
  BY <1>1 DEF ListedBefore
<1> QED
  BY <1>1, <1>2 DEF NameInv

\* A new file comes after the last one or does not disturb it.
LEMMA NameCreated ==
  ASSUME TypeOK, NameInv, CreateFile
  PROVE  NameInv'
<1>0. PICK n : n = Len(dir) + 1
  OBVIOUS
<1>1. /\ DOMAIN dir' = DOMAIN dir \cup {n}
      /\ DOMAIN dir = 1..Len(dir)
      /\ \A i \in DOMAIN dir : dir'[i] = dir[i]
      /\ dir'[n].mask = maskName
      /\ dir'[n].stamp = clock
  BY <1>0, Created
<1>2. n \notin DOMAIN dir
  BY <1>0, <1>1 DEF TypeOK
<1>3. CASE dir = <<>>
  <2>1. DOMAIN dir' = {n}
    BY <1>1, <1>3
  <2> QED
    BY <2>1 DEF NameInv
<1>4. CASE dir # <<>>
  <2>1. PICK m \in DOMAIN dir : \A j \in DOMAIN dir \ {m} : ListedBefore(j, m)
    BY <1>4 DEF NameInv
  <2>2. \A i \in DOMAIN dir : /\ dir[i].mask \in MaskNames
                              /\ dir[i].stamp \in Int
                              /\ Rank(dir[i].mask) \in Int
    <3> TAKE i \in DOMAIN dir
    <3>1. dir[i] \in File
      BY DEF TypeOK
    <3>2. dir[i].mask \in MaskNames /\ dir[i].stamp \in Int
      BY <3>1 DEF File
    <3> QED
      BY <3>2, RankOfMask
  <2>3. maskName \in MaskNames /\ clock \in Int /\ Rank(maskName) \in Int
    BY MaskKnown, RankOfMask DEF TypeOK, maskName
  <2>4. CASE \/ Rank(dir[m].mask) < Rank(maskName)
             \/ dir[m].mask = maskName /\ dir[m].stamp < clock
    <3>1. \A j \in DOMAIN dir' \ {n} : ListedBefore(j, n)'
      <4> TAKE j \in DOMAIN dir' \ {n}
      <4>1. j \in DOMAIN dir /\ dir'[j] = dir[j]
        BY <1>1
      <4>2. j = m \/ ListedBefore(j, m)
        BY <2>1, <4>1
      <4>3. \/ Rank(dir[j].mask) < Rank(maskName)
            \/ dir[j].mask = maskName /\ dir[j].stamp < clock
        BY <2>2, <2>3, <2>4, <4>1, <4>2 DEF ListedBefore
      <4> QED
        BY <1>1, <4>1, <4>3 DEF ListedBefore, Rank
    <3> QED
      BY <1>1, <3>1 DEF NameInv
  <2>5. CASE ~(\/ Rank(dir[m].mask) < Rank(maskName)
               \/ dir[m].mask = maskName /\ dir[m].stamp < clock)
    <3>1. \/ Rank(maskName) < Rank(dir[m].mask)
          \/ maskName = dir[m].mask /\ clock < dir[m].stamp
      <4>1. Rank(maskName) < Rank(dir[m].mask) \/ Rank(maskName) = Rank(dir[m].mask)
        BY <2>2, <2>3, <2>5
      <4>2. Rank(maskName) = Rank(dir[m].mask) => maskName = dir[m].mask
        BY <2>2, <2>3, RankOfMask
      <4>3. maskName = dir[m].mask => clock # dir[m].stamp
        BY CreatedName
      <4> QED
        BY <2>2, <2>3, <2>5, <4>1, <4>2, <4>3
    <3>2. \A j \in DOMAIN dir' \ {m} : ListedBefore(j, m)'
      <4> TAKE j \in DOMAIN dir' \ {m}
      <4>1. CASE j = n
        BY <1>1, <3>1, <4>1 DEF ListedBefore, Rank
      <4>2. CASE j # n
        BY <1>1, <2>1, <4>2 DEF ListedBefore, Rank
      <4> QED
        BY <4>1, <4>2
    <3> QED
      BY <1>1, <3>2 DEF NameInv
  <2> QED
    BY <2>4, <2>5
<1> QED
  BY <1>3, <1>4

\* Every step keeps a last file.
LEMMA NameStep ==
  ASSUME IInv, Next
  PROVE  NameInv'
<1>1. CASE dir' = dir
  BY <1>1 DEF IInv, NameInv, ListedBefore
<1>2. CASE CreateFile
  BY <1>2, NameCreated DEF IInv
<1>3. CASE WriteFile
  BY <1>3, Written, NamesKept DEF IInv
<1>4. CASE WriteFileFails /\ dir' # dir
  BY <1>4, Failed, NamesKept DEF IInv
<1>5. ASSUME NEW length \in Lengths, Write(length) PROVE NameInv'
  BY <1>1, <1>5 DEF Write
<1> QED
  BY <1>1, <1>2, <1>3, <1>4, <1>5, DirStep

-----------------------------------------------------------------------------
(***************************************************************************)
(* Each part of the invariant is kept by every step.                       *)
(***************************************************************************)

\* Every step keeps the types.
LEMMA TypeStep ==
  ASSUME IInv, Next
  PROVE  TypeOK'
<1> USE DEF processVars, segmentVars, flushVars
<1>0. TypeOK /\ NameInv /\ ActiveInv /\ FlushInv /\ ValidInv
  BY DEF IInv
<1>1. ASSUME NEW g \in Files, Boot(g) PROVE TypeOK'
  BY <1>0, <1>1, SegmentsAssumption DEF Boot, TypeOK
<1>2. CASE RecoverFirst
  <2>1. CreateFile
    BY <1>2 DEF RecoverFirst
  <2>2. dir' \in Seq(File) /\ file' \in 0..Len(dir') /\ segmentSize' \in Nat
    BY <1>0, <2>1, Created
  <2>3. open' \in BOOLEAN
    BY <2>1, Zenon DEF CreateFile
  <2> QED
    BY <1>0, <1>2, <2>2, <2>3 DEF RecoverFirst, TypeOK
<1>3. CASE Adopt
  <2>1. LastListed \in DOMAIN dir
    BY <1>0, <1>3, LastIsFile DEF Adopt
  <2>2. LastListed \in 0..Len(dir) /\ dir[LastListed] \in File
    BY <1>0, <2>1 DEF TypeOK
  <2>3. dir[LastListed].size \in Nat
    BY <2>2 DEF File
  <2>4. open' \in BOOLEAN
    BY <1>3, Zenon DEF Adopt
  <2> QED
    BY <1>0, <1>3, <2>2, <2>3, <2>4 DEF Adopt, TypeOK
<1>4. CASE Listen
  BY <1>0, <1>4 DEF Listen, TypeOK
<1>5. CASE End
  <2>1. open' \in BOOLEAN
    BY <1>5, Zenon DEF End
  <2>2. file' \in 0..Len(dir)
    BY <1>0, <1>5 DEF End, TypeOK
  <2> QED
    BY <1>0, <1>5, <2>1, <2>2 DEF End, TypeOK
<1>6. ASSUME NEW length \in Lengths, Write(length) PROVE TypeOK'
  BY <1>0, <1>6, SegmentsAssumption DEF Write, TypeOK
<1>7. CASE getNextSegment
  <2>1. CreateFile
    BY <1>7 DEF getNextSegment
  <2>2. dir' \in Seq(File) /\ file' \in 0..Len(dir') /\ segmentSize' \in Nat
    BY <1>0, <2>1, Created
  <2>3. open' \in BOOLEAN
    BY <2>1, Zenon DEF CreateFile
  <2> QED
    BY <1>0, <1>7, <2>2, <2>3 DEF getNextSegment, TypeOK
<1>8. CASE RotationFails
  BY <1>0, <1>8 DEF RotationFails, TypeOK
<1>9. CASE WriteFile
  <2>1. dir' \in Seq(File) /\ Len(dir') = Len(dir)
    BY <1>0, <1>9, Written
  <2>2. segmentSize' \in Nat
    BY <1>0, <1>9, SegmentsAssumption DEF WriteFile, TypeOK
  <2>3. stored' \subseteq 1..MaxFlushes
    BY <1>0, <1>9 DEF WriteFile, TypeOK, FlushInv
  <2> QED
    BY <1>0, <1>9, <2>1, <2>2, <2>3 DEF WriteFile, TypeOK
<1>10. CASE WriteFileFails
  <2>1. dir' \in Seq(File) /\ Len(dir') = Len(dir)
    BY <1>0, <1>10, Failed DEF TypeOK
  <2> QED
    BY <1>0, <1>10, <2>1 DEF WriteFileFails, TypeOK
<1>11. CASE Tick
  BY <1>0, <1>11, SegmentsAssumption DEF Tick, TypeOK
<1>12. CASE StepBack
  <2>1. steady' \in BOOLEAN
    BY <1>12, Zenon DEF StepBack
  <2>2. clock' \in 0..MaxClock
    BY <1>0, <1>12, SegmentsAssumption DEF StepBack, TypeOK
  <2> QED
    BY <1>0, <1>12, <2>1, <2>2 DEF StepBack, TypeOK
<1> QED
  BY <1>1, <1>2, <1>3, <1>4, <1>5, <1>6, <1>7, <1>8, <1>9, <1>10, <1>11, <1>12
  DEF Next

\* A process that runs has settings that were validated.
LEMMA ValidStep ==
  ASSUME IInv, Next
  PROVE  ValidInv'
BY DEF IInv, ValidInv, Next, Boot, RecoverFirst, Adopt, Listen, End, Write,
       getNextSegment, RotationFails, WriteFile, WriteFileFails, Tick, StepBack,
       processVars, Validate, ReadConfig, ReadMaskName

\* Every step keeps the active file among the files of the directory.
LEMMA ActiveStep ==
  ASSUME IInv, Next
  PROVE  ActiveInv'
<1> USE DEF processVars, segmentVars, flushVars, Active
<1>0. TypeOK /\ NameInv /\ ActiveInv /\ FlushInv /\ ValidInv
  BY DEF IInv
<1>1. ASSUME NEW g \in Files, Boot(g) PROVE ActiveInv'
  BY <1>0, <1>1 DEF Boot, ActiveInv
<1>2. CASE RecoverFirst
  BY <1>0, <1>2, Created DEF RecoverFirst, ActiveInv
<1>3. CASE Adopt
  BY <1>0, <1>3, LastIsFile DEF Adopt, ActiveInv
<1>4. CASE Listen
  BY <1>0, <1>4 DEF Listen, ActiveInv
<1>5. CASE End
  BY <1>0, <1>5 DEF End, ActiveInv
<1>6. ASSUME NEW length \in Lengths, Write(length) PROVE ActiveInv'
  BY <1>0, <1>6 DEF Write, ActiveInv
<1>7. CASE getNextSegment
  BY <1>0, <1>7, Created DEF getNextSegment, ActiveInv
<1>8. CASE RotationFails
  BY <1>0, <1>8 DEF RotationFails, ActiveInv
<1>9. CASE WriteFile
  BY <1>0, <1>9, Written DEF WriteFile, ActiveInv
<1>10. CASE WriteFileFails
  <2>1. DOMAIN dir' = DOMAIN dir
    BY <1>0, <1>10, Failed
  <2> QED
    BY <1>0, <1>10, <2>1 DEF WriteFileFails, ActiveInv
<1>11. CASE Tick
  BY <1>0, <1>11 DEF Tick, ActiveInv
<1>12. CASE StepBack
  BY <1>0, <1>12 DEF StepBack, ActiveInv
<1> QED
  BY <1>1, <1>2, <1>3, <1>4, <1>5, <1>6, <1>7, <1>8, <1>9, <1>10, <1>11, <1>12
  DEF Next

\* Every step keeps what is known of the flush under way.
LEMMA FlushStep ==
  ASSUME IInv, Next
  PROVE  FlushInv'
<1> USE DEF processVars, segmentVars, flushVars
<1>0. TypeOK /\ ActiveInv /\ FlushInv /\ ValidInv
  BY DEF IInv
<1>1. CASE dir' = dir /\ nflush' = nflush /\ stored' = stored /\ data' \in {0, data}
  BY <1>0, <1>1 DEF FlushInv
<1>2. ASSUME NEW length \in Lengths, Write(length) PROVE FlushInv'
  <2>1. nflush \in Nat /\ nflush' = nflush + 1 /\ nflush' \in 1..MaxFlushes
    BY <1>0, <1>2, SegmentsAssumption DEF Write, TypeOK
  <2>2. 1..nflush \subseteq 1..nflush' /\ nflush' \notin 1..nflush
    BY <2>1
  <2>3. dir' = dir /\ stored' = stored
    BY <1>2 DEF Write
  <2> QED
    BY <1>0, <2>1, <2>2, <2>3 DEF FlushInv
<1>3. CASE CreateFile /\ nflush' = nflush /\ stored' = stored /\ data' = data
  <2>1. /\ DOMAIN dir' = DOMAIN dir \cup {Len(dir) + 1}
        /\ \A i \in DOMAIN dir : dir'[i] = dir[i]
        /\ dir'[Len(dir) + 1].flushes = <<>>
    BY <1>0, <1>3, Created
  <2> QED
    BY <1>0, <1>3, <2>1 DEF FlushInv
<1>4. CASE WriteFile \/ (WriteFileFails /\ dir' # dir)
  <2>1. /\ DOMAIN dir' = DOMAIN dir
        /\ file \in DOMAIN dir
        /\ \A i \in DOMAIN dir \ {file} : dir'[i] = dir[i]
        /\ dir'[file].flushes = Append(dir[file].flushes, nflush)
    BY <1>0, <1>4, Written, Failed
  <2>2. /\ nflush' = nflush /\ data' = 0
        /\ stored' \subseteq stored \cup {nflush}
        /\ nflush \in 1..nflush
    <3>1. data # 0 /\ nflush' = nflush /\ data' = 0
      BY <1>4 DEF WriteFile, WriteFileFails
    <3>2. stored' = stored \/ stored' = stored \cup {nflush}
      BY <1>4 DEF WriteFile, WriteFileFails
    <3>3. nflush \in 1..MaxFlushes
      BY <1>0, <3>1 DEF FlushInv
    <3> QED
      BY <3>1, <3>2, <3>3
  <2>3. dir[file].flushes \in Seq(1..MaxFlushes)
    <3>1. dir[file] \in File
      BY <1>0, <2>1 DEF TypeOK
    <3> QED
      BY <3>1 DEF File
  <2>4. \A p \in DOMAIN dir'[file].flushes : dir'[file].flushes[p] \in 1..nflush
    <3>1. \A p \in DOMAIN dir[file].flushes : dir[file].flushes[p] \in 1..nflush
      BY <1>0, <2>1 DEF FlushInv
    <3> QED
      BY <2>1, <2>2, <2>3, <3>1
  <2>5. \A i \in DOMAIN dir' : \A p \in DOMAIN dir'[i].flushes :
          dir'[i].flushes[p] \in 1..nflush
    BY <1>0, <2>1, <2>4 DEF FlushInv
  <2> QED
    BY <1>0, <2>2, <2>5 DEF FlushInv
<1> QED
  BY <1>1, <1>2, <1>3, <1>4, DirStep

\* The files that hold a flush are finitely many, so FlushesKept says that
\* there is one.
LEMMA KeptIsOne ==
  ASSUME dir \in Seq(File)
  PROVE  FlushesKept <=> \A n \in stored : \E i : Holders(n) = {i}
<1>1. \A n : IsFiniteSet(Holders(n))
  <2> TAKE n
  <2>1. Holders(n) \in SUBSET (1..Len(dir))
    BY DEF Holders
  <2>2. IsFiniteSet(1..Len(dir))
    BY FS_Interval
  <2> QED
    BY <2>1, <2>2, FS_Subset
<1>2. \A n : Cardinality(Holders(n)) = 1 <=> \E i : Holders(n) = {i}
  BY <1>1, FS_Singleton
<1>3. FlushesKept <=> \A n \in stored : Cardinality(Holders(n)) = 1
  BY DEF FlushesKept, Holders
<1> QED
  BY <1>2, <1>3

\* A file that is created or filled does not take a flush from another, and
\* the flush that succeeds goes to one file.
LEMMA KeptStep ==
  ASSUME IInv, Next
  PROVE  FlushesKept'
<1>0. TypeOK /\ ActiveInv /\ FlushInv /\ ValidInv /\ FlushesKept
  BY DEF IInv
<1>1. \A n \in stored : \E i : Holders(n) = {i}
  BY <1>0, KeptIsOne DEF TypeOK
<1>2. TypeOK'
  BY TypeStep
<1>3. SUFFICES \A n \in stored' : \E i : Holders(n)' = {i}
  <2>1. dir' \in Seq(File)
    BY <1>2 DEF TypeOK
  <2>2. FlushesKept' <=> \A n \in stored' : \E i : Holders(n)' = {i}
    <3>1. \A n : IsFiniteSet(Holders(n)')
      <4> TAKE n
      <4>1. Holders(n)' \in SUBSET (1..Len(dir'))
        BY <2>1 DEF Holders
      <4>2. IsFiniteSet(1..Len(dir'))
        BY <2>1, FS_Interval
      <4> QED
        BY <4>1, <4>2, FS_Subset
    <3>2. \A n : Cardinality(Holders(n)') = 1 <=> \E i : Holders(n)' = {i}
      BY <3>1, FS_Singleton
    <3>3. FlushesKept' <=> \A n \in stored' : Cardinality(Holders(n)') = 1
      BY DEF FlushesKept, Holders
    <3> QED
      BY <3>2, <3>3
  <2> QED
    BY <2>2
<1>4. CASE dir' = dir /\ stored' = stored
  <2>1. \A n : Holders(n)' = Holders(n)
    BY <1>4 DEF Holders
  <2> QED
    BY <1>1, <1>4, <2>1
<1>5. CASE CreateFile /\ stored' = stored
  <2>1. /\ DOMAIN dir' = DOMAIN dir \cup {Len(dir) + 1}
        /\ \A i \in DOMAIN dir : dir'[i] = dir[i]
        /\ dir'[Len(dir) + 1].flushes = <<>>
    BY <1>0, <1>5, Created
  <2>2. \A n : Holders(n)' = Holders(n)
    BY <2>1 DEF Holders
  <2> QED
    BY <1>1, <1>5, <2>2
<1>6. CASE WriteFile \/ (WriteFileFails /\ dir' # dir)
  <2>1. /\ DOMAIN dir' = DOMAIN dir
        /\ file \in DOMAIN dir
        /\ \A i \in DOMAIN dir \ {file} : dir'[i] = dir[i]
        /\ dir'[file].flushes = Append(dir[file].flushes, nflush)
    BY <1>0, <1>6, Written, Failed
  <2>2. /\ data # 0
        /\ stored' = stored \/ stored' = stored \cup {nflush}
    BY <1>6 DEF WriteFile, WriteFileFails
  <2>3. /\ nflush \notin stored
        /\ \A i \in DOMAIN dir : \A p \in DOMAIN dir[i].flushes :
             dir[i].flushes[p] # nflush
    BY <1>0, <2>2 DEF FlushInv
  <2>4. dir[file].flushes \in Seq(1..MaxFlushes)
    <3>1. dir[file] \in File
      BY <1>0, <2>1 DEF TypeOK
    <3> QED
      BY <3>1 DEF File
  <2>5. \A n : (\E p \in DOMAIN dir'[file].flushes : dir'[file].flushes[p] = n)
                <=> (\E p \in DOMAIN dir[file].flushes : dir[file].flushes[p] = n)
                      \/ n = nflush
    <3> DEFINE q == dir[file].flushes
    <3>1. /\ DOMAIN Append(q, nflush) = 1..(Len(q) + 1)
          /\ DOMAIN q = 1..Len(q)
          /\ \A p \in 1..Len(q) : Append(q, nflush)[p] = q[p]
          /\ Append(q, nflush)[Len(q) + 1] = nflush
          /\ Len(q) \in Nat
      BY <2>4
    <3>2. \A p : p \in 1..(Len(q) + 1) <=> p \in 1..Len(q) \/ p = Len(q) + 1
      BY <3>1
    <3> QED
      BY <2>1, <3>1, <3>2
  <2>6. \A n \in stored : Holders(n)' = Holders(n)
    <3> TAKE n \in stored
    <3>1. n # nflush
      BY <2>3
    <3>2. \A i \in DOMAIN dir :
            (\E p \in DOMAIN dir'[i].flushes : dir'[i].flushes[p] = n)
              <=> (\E p \in DOMAIN dir[i].flushes : dir[i].flushes[p] = n)
      BY <2>1, <2>5, <3>1
    <3> QED
      BY <2>1, <3>2 DEF Holders
  <2>7. PICK k : k = nflush
    OBVIOUS
  <2>8. Holders(k)' = {file}
    <3>1. \A i \in DOMAIN dir :
            (\E p \in DOMAIN dir'[i].flushes : dir'[i].flushes[p] = k) <=> i = file
      BY <2>1, <2>3, <2>5, <2>7
    <3> QED
      BY <2>1, <3>1 DEF Holders
  <2> QED
    BY <1>1, <2>2, <2>6, <2>7, <2>8
<1>7. ASSUME NEW length \in Lengths, Write(length)
      PROVE  \A n \in stored' : \E i : Holders(n)' = {i}
  BY <1>4, <1>7 DEF Write
<1> QED
  BY <1>4, <1>5, <1>6, <1>7, DirStep

\* Which positions of a list with one more element hold members of a set.
LEMMA Appended ==
  ASSUME NEW T, NEW q \in Seq(T), NEW k \in T, NEW S
  PROVE  /\ k \notin S => {p \in DOMAIN Append(q, k) : Append(q, k)[p] \in S}
                            = {p \in DOMAIN q : q[p] \in S}
         /\ (\A p \in DOMAIN q : q[p] # k) /\ {p \in DOMAIN q : q[p] \in S} = {}
              => {p \in DOMAIN Append(q, k) : Append(q, k)[p] \in S \cup {k}}
                   \subseteq {Len(q) + 1}
<1>1. /\ DOMAIN Append(q, k) = 1..(Len(q) + 1)
      /\ DOMAIN q = 1..Len(q)
      /\ \A p \in 1..Len(q) : Append(q, k)[p] = q[p]
      /\ Append(q, k)[Len(q) + 1] = k
      /\ Len(q) \in Nat
  OBVIOUS
<1>2. \A p : p \in 1..(Len(q) + 1) <=> p \in 1..Len(q) \/ p = Len(q) + 1
  BY <1>1
<1> QED
  BY <1>1, <1>2

\* What WriteFile and its failure have in common, with the active file.
LEMMA ActiveFile ==
  ASSUME TypeOK, ActiveInv, FlushInv, WriteFile \/ WriteFileFails
  PROVE  /\ phase = "serving"
         /\ file \in DOMAIN dir
         /\ data \in Nat \ {0}
         /\ segmentSize \in Nat
         /\ dir[file].size \in Nat
         /\ dir[file].stray \in Nat
         /\ dir[file].limit \in Nat
         /\ dir[file].flushes \in Seq(1..MaxFlushes)
         /\ nflush \in 1..MaxFlushes
         /\ nflush \notin stored
         /\ \A i \in DOMAIN dir : \A p \in DOMAIN dir[i].flushes :
              dir[i].flushes[p] # nflush
<1>1. data # 0
  BY DEF WriteFile, WriteFileFails
<1>2. /\ phase = "serving"
      /\ file \in DOMAIN dir
      /\ data \in Nat \ {0}
      /\ segmentSize \in Nat
  BY <1>1, SegmentsAssumption DEF TypeOK, ActiveInv, Active
<1>3. dir[file] \in File
  BY <1>2 DEF TypeOK
<1>4. /\ dir[file].size \in Nat
      /\ dir[file].stray \in Nat
      /\ dir[file].limit \in Nat
      /\ dir[file].flushes \in Seq(1..MaxFlushes)
  BY <1>3 DEF File
<1> QED
  BY <1>1, <1>2, <1>4 DEF FlushInv

\* Every step keeps segmentSize up to date with the active file.
LEMMA SizeStep ==
  ASSUME IInv, Next
  PROVE  SizeInv'
<1>0. TypeOK /\ NameInv /\ ActiveInv /\ FlushInv /\ ValidInv /\ SizeInv
  BY DEF IInv
<1>1. CASE /\ dir' = dir /\ stored' = stored
           /\ \/ ~Active'
              \/ Active /\ file' = file /\ segmentSize' = segmentSize
  BY <1>0, <1>1 DEF SizeInv, StoredIn
<1>2. CASE CreateFile
  <2>1. /\ DOMAIN dir' = DOMAIN dir \cup {Len(dir) + 1}
        /\ \A i \in DOMAIN dir : dir'[i] = dir[i]
        /\ dir'[Len(dir) + 1].flushes = <<>>
        /\ dir'[Len(dir) + 1].size = 0
        /\ dir'[Len(dir) + 1].stray = 0
        /\ file' = Len(dir) + 1
        /\ segmentSize' = 0
    BY <1>0, <1>2, Created
  <2>2. StoredIn(file)' = {}
    BY <2>1 DEF StoredIn
  <2> QED
    BY <1>0, <2>1, <2>2 DEF SizeInv
<1>3. CASE Adopt
  <2>1. /\ file' = LastListed /\ LastListed \in DOMAIN dir
        /\ segmentSize' = dir[LastListed].size
        /\ dir' = dir /\ stored' = stored
    BY <1>0, <1>3, LastIsFile DEF Adopt, flushVars
  <2>2. dir[LastListed] \in File
    BY <1>0, <2>1 DEF TypeOK
  <2>3. dir[LastListed].size \in Nat /\ dir[LastListed].stray \in Nat
    BY <2>2 DEF File
  <2>4. dir[LastListed].size = 0 => dir[LastListed].flushes = <<>>
    BY <1>0, <2>1 DEF SizeInv
  <2>5. segmentSize' = 0 => StoredIn(file)' = {}
    BY <2>1, <2>4 DEF StoredIn
  <2> QED
    BY <1>0, <2>1, <2>3, <2>5 DEF SizeInv
<1>4. CASE WriteFile
  <2>1. /\ dir[file].size \in Nat /\ dir[file].stray \in Nat
        /\ segmentSize \in Nat /\ data \in Nat \ {0} /\ phase = "serving"
    BY <1>0, <1>4, ActiveFile
  <2>2. /\ DOMAIN dir' = DOMAIN dir
        /\ \A i \in DOMAIN dir \ {file} : dir'[i] = dir[i]
        /\ dir'[file].size = dir[file].size + data
        /\ dir'[file].stray = dir[file].stray
    BY <1>0, <1>4, Written
  <2>3. segmentSize' = segmentSize + data /\ file' = file
    BY <1>4 DEF WriteFile
  <2>4. dir[file].size <= segmentSize + dir[file].stray
    BY <1>0, <2>1 DEF SizeInv, Active
  <2>5. /\ dir'[file'].size <= segmentSize' + dir'[file'].stray
        /\ segmentSize' # 0
        /\ dir'[file].size # 0
    BY <2>1, <2>2, <2>3, <2>4
  <2> QED
    BY <1>0, <2>2, <2>5 DEF SizeInv
<1>5. CASE WriteFileFails /\ dir' # dir
  <2>1. /\ dir[file].size \in Nat /\ dir[file].stray \in Nat
        /\ segmentSize \in Nat /\ phase = "serving" /\ nflush \notin stored
        /\ nflush \in 1..MaxFlushes /\ dir[file].flushes \in Seq(1..MaxFlushes)
    BY <1>0, <1>5, ActiveFile
  <2>2. /\ DOMAIN dir' = DOMAIN dir
        /\ \A i \in DOMAIN dir \ {file} : dir'[i] = dir[i]
        /\ dir'[file].flushes = Append(dir[file].flushes, nflush)
    BY <1>0, <1>5, Failed
  <2>3. PICK left \in Nat \ {0} : /\ dir'[file].size = dir[file].size + left
                                 /\ dir'[file].stray = dir[file].stray + left
    BY <1>0, <1>5, Failed
  <2>4. segmentSize' = segmentSize /\ file' = file /\ stored' = stored
    BY <1>5 DEF WriteFileFails, segmentVars
  <2>5. /\ dir[file].size <= segmentSize + dir[file].stray
        /\ segmentSize = 0 => StoredIn(file) = {}
    BY <1>0, <2>1 DEF SizeInv, Active
  <2>6. StoredIn(file)' = StoredIn(file)
    <3> DEFINE q == dir[file].flushes
    <3>1. {p \in DOMAIN Append(q, nflush) : Append(q, nflush)[p] \in stored}
            = {p \in DOMAIN q : q[p] \in stored}
      BY <2>1, Appended
    <3>2. StoredIn(file)' = {p \in DOMAIN Append(q, nflush) :
                               Append(q, nflush)[p] \in stored}
      BY <2>2, <2>4, Zenon DEF StoredIn
    <3> QED
      BY <3>1, <3>2 DEF StoredIn
  <2>7. /\ dir'[file'].size <= segmentSize' + dir'[file'].stray
        /\ dir'[file].size # 0
    BY <2>1, <2>3, <2>4, <2>5
  <2> QED
    BY <1>0, <2>2, <2>4, <2>5, <2>6, <2>7 DEF SizeInv
<1>6. \/ /\ dir' = dir /\ stored' = stored
         /\ \/ ~Active'
            \/ Active /\ file' = file /\ segmentSize' = segmentSize
      \/ CreateFile
      \/ Adopt
      \/ WriteFile
      \/ WriteFileFails /\ dir' # dir
  BY <1>0 DEF Next, Boot, RecoverFirst, Listen, End, Write, getNextSegment,
     RotationFails, WriteFileFails, Tick, StepBack, Active, ActiveInv,
     flushVars, segmentVars, processVars
<1> QED
  BY <1>1, <1>2, <1>3, <1>4, <1>5, <1>6

\* A file with a flush that succeeded has its size in segmentSize, so that
\* the next flush is checked against the limit.
LEMMA BoundStep ==
  ASSUME IInv, Next
  PROVE  SegmentBound'
<1>0. TypeOK /\ ActiveInv /\ FlushInv /\ ValidInv /\ SizeInv
  BY DEF IInv
<1>1. \A i \in DOMAIN dir : Cardinality(StoredIn(i)) > 1
        => dir[i].size <= dir[i].limit + dir[i].stray
  BY DEF IInv, SegmentBound, StoredIn
<1>2. SUFFICES ASSUME NEW i \in DOMAIN dir', Cardinality(StoredIn(i)') > 1
               PROVE  dir'[i].size <= dir'[i].limit + dir'[i].stray
  BY DEF SegmentBound, StoredIn
<1>3. CASE dir' = dir /\ stored' = stored
  <2>1. StoredIn(i)' = StoredIn(i)
    BY <1>3 DEF StoredIn
  <2> QED
    BY <1>1, <1>2, <1>3, <2>1
<1>4. CASE CreateFile /\ stored' = stored
  <2>1. /\ DOMAIN dir' = DOMAIN dir \cup {Len(dir) + 1}
        /\ \A j \in DOMAIN dir : dir'[j] = dir[j]
        /\ dir'[Len(dir) + 1].flushes = <<>>
    BY <1>0, <1>4, Created
  <2>2. CASE i \in DOMAIN dir
    <3>1. StoredIn(i)' = StoredIn(i)
      BY <1>4, <2>1, <2>2 DEF StoredIn
    <3> QED
      BY <1>1, <1>2, <2>1, <2>2, <3>1
  <2>3. CASE i = Len(dir) + 1
    <3>1. StoredIn(i)' = {}
      BY <2>1, <2>3 DEF StoredIn
    <3> QED
      BY <1>2, <3>1, FS_EmptySet
  <2> QED
    BY <2>1, <2>2, <2>3
<1>5. CASE WriteFile
  <2>1. /\ phase = "serving"
        /\ file \in DOMAIN dir
        /\ data \in Nat \ {0}
        /\ segmentSize \in Nat
        /\ dir[file].size \in Nat
        /\ dir[file].stray \in Nat
        /\ dir[file].flushes \in Seq(1..MaxFlushes)
        /\ nflush \in 1..MaxFlushes
        /\ \A j \in DOMAIN dir : \A p \in DOMAIN dir[j].flushes :
             dir[j].flushes[p] # nflush
    BY <1>0, <1>5, ActiveFile
  <2>2. /\ DOMAIN dir' = DOMAIN dir
        /\ \A j \in DOMAIN dir \ {file} : dir'[j] = dir[j]
        /\ dir'[file].size = dir[file].size + data
        /\ dir'[file].flushes = Append(dir[file].flushes, nflush)
        /\ dir'[file].limit = cfg.MaxSegmentSize
        /\ dir'[file].stray = dir[file].stray
    BY <1>0, <1>5, Written
  <2>3. stored' = stored \cup {nflush} /\ ~NeedsRotation(data)
    BY <1>5 DEF WriteFile
  <2>4. CASE i # file
    <3>1. StoredIn(i)' = StoredIn(i)
      BY <2>1, <2>2, <2>3, <2>4 DEF StoredIn
    <3> QED
      BY <1>1, <1>2, <2>2, <2>4, <3>1
  <2>5. CASE i = file /\ segmentSize = 0
    <3> DEFINE q == dir[file].flushes
    <3>1. {p \in DOMAIN q : q[p] \in stored} = {}
      BY <1>0, <2>1, <2>5 DEF SizeInv, StoredIn, Active
    <3>2. {p \in DOMAIN Append(q, nflush) : Append(q, nflush)[p] \in stored \cup {nflush}}
            \subseteq {Len(q) + 1}
      BY <2>1, <3>1, Appended
    <3>3. StoredIn(i)' \subseteq {Len(q) + 1}
      BY <2>2, <2>3, <2>5, <3>2 DEF StoredIn
    <3> HIDE DEF q
    <3>4. IsFiniteSet({Len(q) + 1}) /\ Cardinality({Len(q) + 1}) = 1
      BY FS_Singleton
    <3>5. /\ IsFiniteSet(StoredIn(i)')
          /\ Cardinality(StoredIn(i)') <= Cardinality({Len(q) + 1})
      BY <3>3, <3>4, FS_Subset
    <3>6. Cardinality(StoredIn(i)') \in Nat
      BY <3>5, FS_CardinalityType
    <3> QED
      BY <1>2, <3>4, <3>5, <3>6
  <2>6. CASE i = file /\ segmentSize # 0
    <3>1. dir[file].size <= segmentSize + dir[file].stray
      BY <1>0, <2>1 DEF SizeInv, Active
    <3>2. cfg.MaxSegmentSize \in Nat \ {0}
      BY <1>0, <2>1, LimitPositive DEF ValidInv, TypeOK, cfg
    <3>3. segmentSize + data <= cfg.MaxSegmentSize
      BY <2>1, <2>3, <2>6, <3>2 DEF NeedsRotation
    <3> QED
      BY <2>1, <2>2, <2>6, <3>1, <3>2, <3>3
  <2> QED
    BY <2>4, <2>5, <2>6
<1>6. CASE WriteFileFails /\ dir' # dir
  <2>1. /\ file \in DOMAIN dir
        /\ dir[file].size \in Nat
        /\ dir[file].stray \in Nat
        /\ dir[file].limit \in Nat
        /\ dir[file].flushes \in Seq(1..MaxFlushes)
        /\ nflush \in 1..MaxFlushes
        /\ nflush \notin stored
    BY <1>0, <1>6, ActiveFile
  <2>2. /\ DOMAIN dir' = DOMAIN dir
        /\ \A j \in DOMAIN dir \ {file} : dir'[j] = dir[j]
        /\ dir'[file].flushes = Append(dir[file].flushes, nflush)
        /\ dir'[file].limit = dir[file].limit
    BY <1>0, <1>6, Failed
  <2>3. PICK left \in Nat \ {0} : /\ dir'[file].size = dir[file].size + left
                                 /\ dir'[file].stray = dir[file].stray + left
    BY <1>0, <1>6, Failed
  <2>4. stored' = stored
    BY <1>6 DEF WriteFileFails
  <2>5. StoredIn(i)' = StoredIn(i)
    <3>1. CASE i # file
      BY <2>2, <2>4, <3>1 DEF StoredIn
    <3>2. CASE i = file
      <4> DEFINE q == dir[file].flushes
      <4>1. {p \in DOMAIN Append(q, nflush) : Append(q, nflush)[p] \in stored}
              = {p \in DOMAIN q : q[p] \in stored}
        BY <2>1, Appended
      <4>2. StoredIn(i)' = {p \in DOMAIN Append(q, nflush) :
                              Append(q, nflush)[p] \in stored}
        BY <2>2, <2>4, <3>2, Zenon DEF StoredIn
      <4> QED
        BY <3>2, <4>1, <4>2 DEF StoredIn
    <3> QED
      BY <3>1, <3>2
  <2>6. dir[i].size <= dir[i].limit + dir[i].stray
    BY <1>1, <1>2, <2>2, <2>5
  <2> QED
    BY <2>1, <2>2, <2>3, <2>6
<1>7. ASSUME NEW length \in Lengths, Write(length)
      PROVE  dir'[i].size <= dir'[i].limit + dir'[i].stray
  BY <1>3, <1>7 DEF Write
<1> QED
  BY <1>3, <1>4, <1>5, <1>6, <1>7, DirStep

-----------------------------------------------------------------------------
(***************************************************************************)
(* The theorems.                                                           *)
(***************************************************************************)

\* The invariant holds at first.
LEMMA InitInv ==
  ASSUME Init
  PROVE  IInv
<1>1. TypeOK
  <2>1. open \in BOOLEAN /\ steady \in BOOLEAN
    BY Zenon DEF Init
  <2>2. dir \in Seq(File) /\ file \in 0..Len(dir)
    BY DEF Init
  <2> QED
    BY <2>1, <2>2, SegmentsAssumption DEF Init, TypeOK
<1>2. ValidInv /\ NameInv /\ ActiveInv /\ FlushInv /\ SizeInv
  BY DEF Init, ValidInv, NameInv, ActiveInv, FlushInv, SizeInv, Active
<1>3. FlushesKept /\ SegmentBound
  BY DEF Init, FlushesKept, SegmentBound
<1> QED
  BY <1>1, <1>2, <1>3 DEF IInv

\* Every step keeps the invariant.
LEMMA StepInv ==
  ASSUME IInv, [Next]_vars
  PROVE  IInv'
<1>1. CASE Next
  BY <1>1, TypeStep, ValidStep, NameStep, ActiveStep, FlushStep, SizeStep,
     KeptStep, BoundStep DEF IInv
<1>2. CASE UNCHANGED vars
  BY <1>2 DEF vars, processVars, segmentVars, flushVars, IInv, TypeOK, ValidInv,
     NameInv, ActiveInv, FlushInv, SizeInv, FlushesKept, SegmentBound, Active,
     StoredIn, ListedBefore
<1> QED
  BY <1>1, <1>2

\* The invariant holds in every reachable state.
THEOREM Invariance == Spec => []IInv
BY InitInv, StepInv, PTL DEF Spec

\* Every variable keeps its type; in particular the process always goes on
\* with a file that exists.
THEOREM SegmentsTypes == Spec => []TypeOK
<1>1. IInv => TypeOK
  BY DEF IInv
<1> QED
  BY <1>1, Invariance, PTL

\* A flush that succeeded stays in exactly one file, for any clock, masks
\* and settings: CreateFile never takes a name that is in use.
THEOREM FlushesAreKept == Spec => []FlushesKept
<1>1. IInv => FlushesKept
  BY DEF IInv
<1> QED
  BY <1>1, Invariance, PTL

\* No segment file outgrows max_segment_size by more than failed writes left
\* in it, whatever the lengths of batches and the limits of processes.
THEOREM SegmentsAreBounded == Spec => []SegmentBound
<1>1. IInv => SegmentBound
  BY DEF IInv
<1> QED
  BY <1>1, Invariance, PTL

\* A server that serves works with positive limits and deadlines, which are
\* those of its file unless that says zero, for any file: the fallbacks of
\* CreateTCPNetwork and of the options never apply to validated settings.
THEOREM SettingsAreInForce == Spec => []SettingsInForce
<1>1. IInv => SettingsInForce
  <2> SUFFICES ASSUME IInv, phase = "serving"
               PROVE  SettingsInForce
    BY DEF SettingsInForce
  <2>1. given \in Files /\ Validate(given)
    BY DEF IInv, TypeOK, ValidInv
  <2>2. \A f \in DOMAIN Preset :
          /\ cfg[f] \in Nat \ {0}
          /\ f \in DOMAIN given /\ given[f] # 0 => cfg[f] = given[f]
    BY <2>1, SettingRead DEF cfg
  <2>3. /\ {"IdleTimeout", "MaxConnections", "BufferSize"} \subseteq DOMAIN Preset
        /\ WalFields \subseteq DOMAIN Preset
    BY DEF Preset, NetworkFields, WalFields, NetworkPreset, WalPreset
  <2> DEFINE server == CreateTCPNetwork(cfg)
  <2>4. /\ DOMAIN server = {"IdleTimeout", "MaxConnections", "BufferSize"}
        /\ server["IdleTimeout"] = cfg["IdleTimeout"]
        /\ server["MaxConnections"] = cfg["MaxConnections"]
        /\ server["BufferSize"] = cfg["BufferSize"]
    <3>1. /\ cfg["IdleTimeout"] \in Nat \ {0}
          /\ cfg["MaxConnections"] \in Nat \ {0}
          /\ cfg["BufferSize"] \in Nat \ {0}
      BY <2>2, <2>3
    <3> QED
      BY <3>1 DEF CreateTCPNetwork, WithServerTCPIdleTimeout,
         WithServerTCPMaxConnectionNumber, WithServerTCPBufferSize
  <2> HIDE DEF server
  <2>5. \A f \in DOMAIN server :
          /\ server[f] > 0
          /\ f \in DOMAIN given /\ given[f] # 0 => server[f] = given[f]
    BY <2>2, <2>3, <2>4
  <2>6. \A f \in WalFields :
          /\ cfg[f] > 0
          /\ f \in DOMAIN given /\ given[f] # 0 => cfg[f] = given[f]
    BY <2>2, <2>3
  <2> QED
    BY <2>5, <2>6 DEF SettingsInForce, server
<1> QED
  BY <1>1, Invariance, PTL

-----------------------------------------------------------------------------
(***************************************************************************)
(* The order of replay.                                                    *)
(***************************************************************************)

\* Names of files can be compared.
LEMMA NamesCompare ==
  ASSUME TypeOK, NEW i \in DOMAIN dir
  PROVE  /\ dir[i].mask \in MaskNames
         /\ dir[i].stamp \in Int
         /\ Rank(dir[i].mask) \in Int
<1>1. dir[i] \in File
  BY DEF TypeOK
<1>2. dir[i].mask \in MaskNames /\ dir[i].stamp \in Int
  BY <1>1 DEF File
<1> QED
  BY <1>2, RankOfMask

\* The list never has two files both ways round.
LEMMA ListedOneWay ==
  ASSUME TypeOK, NEW i \in DOMAIN dir, NEW j \in DOMAIN dir, ListedBefore(i, j)
  PROVE  ~ListedBefore(j, i)
<1>1. /\ dir[i].stamp \in Int /\ Rank(dir[i].mask) \in Int
      /\ dir[j].stamp \in Int /\ Rank(dir[j].mask) \in Int
  BY NamesCompare
<1> QED
  BY <1>1 DEF ListedBefore

\* Recovery adopts the newest file.
LEMMA NewestAdopted ==
  ASSUME TypeOK, NameInv, SteadyInv, steady, dir # <<>>
  PROVE  LastListed = Len(dir)
<1>1. /\ LastListed \in DOMAIN dir
      /\ \A j \in DOMAIN dir \ {LastListed} : ListedBefore(j, LastListed)
  BY DEF NameInv, LastListed
<1>2. dir \in Seq(File)
  BY DEF TypeOK
<1>3. Len(dir) \in DOMAIN dir /\ LastListed \in 1..Len(dir)
  BY <1>1, <1>2
<1>4. SUFFICES ASSUME LastListed # Len(dir) PROVE FALSE
  OBVIOUS
<1>5. LastListed < Len(dir)
  BY <1>2, <1>3, <1>4
<1>6. ListedBefore(LastListed, Len(dir)) /\ ListedBefore(Len(dir), LastListed)
  BY <1>1, <1>3, <1>4, <1>5 DEF SteadyInv, NamesSteady
<1> QED
  BY <1>1, <1>3, <1>6, ListedOneWay

\* A step that leaves names, clock and process alone.
LEMMA NamesSteadyKept ==
  ASSUME NamesSteady,
         DOMAIN dir' = DOMAIN dir, Len(dir') = Len(dir),
         \A i \in DOMAIN dir : dir'[i].mask = dir[i].mask /\ dir'[i].stamp = dir[i].stamp,
         UNCHANGED <<phase, given, clock, file>>
  PROVE  NamesSteady'
BY DEF NamesSteady, ListedBefore, Rank, maskName, Active

\* A new file has the last name.
LEMMA NamesSteadyCreated ==
  ASSUME TypeOK, NamesSteady, phase # "down", CreateFile, UNCHANGED <<given, clock>>
  PROVE  NamesSteady'
<1>0. PICK n : n = Len(dir) + 1
  OBVIOUS
<1>1. /\ DOMAIN dir' = DOMAIN dir \cup {n}
      /\ DOMAIN dir = 1..Len(dir)
      /\ Len(dir') = n
      /\ file' = n
      /\ \A i \in DOMAIN dir : dir'[i] = dir[i]
      /\ dir'[n].mask = maskName
      /\ dir'[n].stamp = clock
  BY <1>0, Created
<1>2. Len(dir) \in Nat
  BY DEF TypeOK
<1>3. clock \in Int /\ maskName \in MaskNames /\ Rank(maskName) \in Int
  BY MaskKnown, RankOfMask DEF TypeOK, maskName
<1>4. \A i, j \in DOMAIN dir' : i < j => ListedBefore(i, j)'
  <2> SUFFICES ASSUME NEW i \in DOMAIN dir', NEW j \in DOMAIN dir', i < j
               PROVE  ListedBefore(i, j)'
    OBVIOUS
  <2>1. i \in DOMAIN dir
    BY <1>0, <1>1, <1>2
  <2>2. CASE j \in DOMAIN dir
    BY <1>1, <2>1, <2>2 DEF NamesSteady, ListedBefore, Rank
  <2>3. CASE j = n
    <3>1. /\ dir[i].mask \in MaskNames
          /\ dir[i].stamp \in Int
          /\ Rank(dir[i].mask) \in Int
      BY <2>1, NamesCompare
    <3>2. dir[i].stamp <= clock /\ Rank(dir[i].mask) <= Rank(maskName)
      BY <2>1 DEF NamesSteady
    <3>3. Rank(dir[i].mask) = Rank(maskName) => dir[i].mask = maskName
      BY <1>3, <3>1, RankOfMask
    <3>4. dir[i].mask = maskName => dir[i].stamp # clock
      BY <2>1, CreatedName
    <3>5. \/ Rank(dir[i].mask) < Rank(maskName)
          \/ dir[i].mask = maskName /\ dir[i].stamp < clock
      BY <1>3, <3>1, <3>2, <3>3, <3>4
    <3> QED
      BY <1>1, <2>1, <2>3, <3>5 DEF ListedBefore, Rank
  <2> QED
    BY <1>1, <2>2, <2>3
<1>5. \A i \in DOMAIN dir' : dir'[i].stamp <= clock'
  BY <1>1, <1>3 DEF NamesSteady
<1>6. \A i \in DOMAIN dir' : Rank(dir'[i].mask) <= Rank(maskName)
  BY <1>1, <1>3 DEF NamesSteady
<1>7. maskName' = maskName
  BY DEF maskName
<1>8. \A i \in DOMAIN dir' : Rank(dir'[i].mask) <= Rank(maskName')
  BY <1>6, <1>7
<1> QED
  BY <1>1, <1>4, <1>5, <1>8 DEF NamesSteady, Rank

\* The flush under way is larger than all others, and goes to the newest file.
LEMMA FlushesSteadyAppended ==
  ASSUME TypeOK, ActiveInv, FlushInv, ValidInv, NamesSteady, FlushesSteady,
         WriteFile \/ (WriteFileFails /\ dir' # dir)
  PROVE  FlushesSteady'
<1>1. /\ DOMAIN dir' = DOMAIN dir
      /\ \A i \in DOMAIN dir \ {file} : dir'[i] = dir[i]
      /\ dir'[file].flushes = Append(dir[file].flushes, nflush)
  BY Written, Failed
<1>2. /\ phase = "serving"
      /\ file \in DOMAIN dir
      /\ dir[file].flushes \in Seq(1..MaxFlushes)
      /\ nflush \in 1..MaxFlushes
      /\ \A i \in DOMAIN dir : \A p \in DOMAIN dir[i].flushes :
           dir[i].flushes[p] # nflush
  BY ActiveFile
<1>3. file = Len(dir) /\ DOMAIN dir = 1..Len(dir) /\ Len(dir) \in Nat
  BY <1>2 DEF NamesSteady, Active, TypeOK
<1>4. \A i \in DOMAIN dir : \A p \in DOMAIN dir[i].flushes :
        /\ dir[i].flushes[p] \in Int
        /\ dir[i].flushes[p] < nflush
  BY <1>2 DEF FlushInv
<1>5. PICK f : f = dir[file].flushes
  OBVIOUS
<1>6. PICK k : k = nflush
  OBVIOUS
<1>7. /\ DOMAIN Append(f, k) = 1..(Len(f) + 1)
      /\ DOMAIN f = 1..Len(f)
      /\ \A p \in 1..Len(f) : Append(f, k)[p] = f[p]
      /\ Append(f, k)[Len(f) + 1] = k
      /\ Len(f) \in Nat
  BY <1>2, <1>5, <1>6
<1>8. SUFFICES ASSUME NEW i \in DOMAIN dir', NEW j \in DOMAIN dir',
                      NEW p \in DOMAIN dir'[i].flushes,
                      NEW q \in DOMAIN dir'[j].flushes,
                      i < j \/ (i = j /\ p < q)
               PROVE  dir'[i].flushes[p] < dir'[j].flushes[q]
  BY DEF FlushesSteady
<1>9. CASE j # file
  <2>1. i # file
    BY <1>1, <1>3, <1>8, <1>9
  <2> QED
    BY <1>1, <1>8, <1>9, <2>1 DEF FlushesSteady
<1>10. CASE j = file /\ i # file
  <2>1. p \in DOMAIN dir[i].flushes /\ dir'[i].flushes[p] = dir[i].flushes[p]
    BY <1>1, <1>10
  <2>2. CASE q = Len(f) + 1
    BY <1>1, <1>4, <1>5, <1>6, <1>7, <1>10, <2>1, <2>2
  <2>3. CASE q \in DOMAIN f
    <3>1. dir'[j].flushes[q] = dir[j].flushes[q] /\ q \in DOMAIN dir[j].flushes
      BY <1>1, <1>5, <1>6, <1>7, <1>10, <2>3
    <3> QED
      BY <1>1, <1>8, <1>10, <2>1, <3>1 DEF FlushesSteady
  <2> QED
    BY <1>1, <1>5, <1>6, <1>7, <1>10, <2>2, <2>3
<1>11. CASE j = file /\ i = file
  <2>1. p \in 1..(Len(f) + 1) /\ q \in 1..(Len(f) + 1) /\ p < q
    BY <1>1, <1>3, <1>5, <1>6, <1>7, <1>8, <1>11
  <2>2. p \in 1..Len(f) /\ dir'[i].flushes[p] = f[p]
    BY <1>1, <1>5, <1>6, <1>7, <1>11, <2>1
  <2>3. CASE q = Len(f) + 1
    <3>1. dir'[j].flushes[q] = k
      BY <1>1, <1>5, <1>6, <1>7, <1>11, <2>3
    <3>2. f[p] < k
      BY <1>2, <1>4, <1>5, <1>6, <1>7, <2>2
    <3> QED
      BY <2>2, <3>1, <3>2
  <2>4. CASE q \in 1..Len(f)
    <3>1. dir'[j].flushes[q] = f[q]
      BY <1>1, <1>5, <1>6, <1>7, <1>11, <2>4
    <3>2. f[p] < f[q]
      BY <1>2, <1>5, <1>7, <2>1, <2>2, <2>4 DEF FlushesSteady
    <3> QED
      BY <2>2, <3>1, <3>2
  <2> QED
    BY <1>7, <2>1, <2>3, <2>4
<1> QED
  BY <1>9, <1>10, <1>11

\* Every step keeps the order of names and of flushes.
LEMMA SteadyStep ==
  ASSUME IInv, SteadyInv, Next
  PROVE  SteadyInv'
<1>0. TypeOK /\ NameInv /\ ActiveInv /\ FlushInv /\ ValidInv
  BY DEF IInv
<1>1. SUFFICES ASSUME steady' PROVE NamesSteady' /\ FlushesSteady'
  BY DEF SteadyInv
<1>2. steady /\ NamesSteady /\ FlushesSteady
  <2>1. steady' => steady
    BY Zenon DEF Next, Boot, RecoverFirst, Adopt, Listen, End, Write, getNextSegment,
       RotationFails, WriteFile, WriteFileFails, Tick, StepBack
  <2> QED
    BY <1>1, <2>1 DEF SteadyInv
<1>3. FlushesSteady'
  <2>1. CASE dir' = dir
    BY <1>2, <2>1 DEF FlushesSteady
  <2>2. CASE CreateFile
    <3>1. /\ DOMAIN dir' = DOMAIN dir \cup {Len(dir) + 1}
          /\ \A i \in DOMAIN dir : dir'[i] = dir[i]
          /\ dir'[Len(dir) + 1].flushes = <<>>
      BY <1>0, <2>2, Created
    <3> QED
      BY <1>2, <3>1 DEF FlushesSteady
  <2>3. CASE WriteFile \/ (WriteFileFails /\ dir' # dir)
    BY <1>0, <1>2, <2>3, FlushesSteadyAppended
  <2>4. ASSUME NEW length \in Lengths, Write(length) PROVE FlushesSteady'
    BY <2>1, <2>4 DEF Write
  <2> QED
    BY <2>1, <2>2, <2>3, <2>4, DirStep
<1>4. NamesSteady'
  <2> USE DEF processVars, segmentVars, flushVars
  <2>1. ASSUME NEW g \in Files, Boot(g) PROVE NamesSteady'
    <3>1. /\ dir' = dir /\ clock' = clock /\ phase' = "recovery" /\ given' = g
          /\ \A i \in DOMAIN dir : Rank(dir[i].mask) <= Rank(ReadMaskName(g))
      BY <1>1, <2>1, Zenon DEF Boot
    <3>2. maskName' = ReadMaskName(g)
      BY <3>1 DEF maskName
    <3> QED
      BY <1>2, <3>1, <3>2 DEF NamesSteady, ListedBefore, Rank, Active
  <2>2. CASE RecoverFirst
    BY <1>0, <1>2, <2>2, NamesSteadyCreated DEF RecoverFirst
  <2>3. CASE Adopt
    <3>1. file' = Len(dir) /\ UNCHANGED <<dir, clock, given>> /\ phase # "down"
      BY <1>0, <1>2, <2>3, NewestAdopted DEF Adopt, SteadyInv
    <3> QED
      BY <1>2, <3>1 DEF NamesSteady, ListedBefore, Rank, maskName
  <2>4. CASE Listen
    BY <1>2, <2>4 DEF Listen, NamesSteady, ListedBefore, Rank, maskName, Active
  <2>5. CASE End
    BY <1>2, <2>5 DEF End, NamesSteady, ListedBefore, Rank, Active
  <2>6. ASSUME NEW length \in Lengths, Write(length) PROVE NamesSteady'
    BY <1>2, <2>6, NamesSteadyKept DEF Write
  <2>7. CASE getNextSegment
    <3>1. phase # "down"
      BY <1>0, <2>7 DEF getNextSegment, ActiveInv
    <3> QED
      BY <1>0, <1>2, <2>7, <3>1, NamesSteadyCreated DEF getNextSegment
  <2>8. CASE RotationFails
    BY <1>2, <2>8, NamesSteadyKept DEF RotationFails
  <2>9. CASE WriteFile
    <3>1. UNCHANGED <<phase, given, clock, file>>
      BY <2>9 DEF WriteFile
    <3> QED
      BY <1>0, <1>2, <2>9, <3>1, Written, NamesSteadyKept
  <2>10. CASE WriteFileFails
    <3>1. UNCHANGED <<phase, given, clock, file>>
      BY <2>10 DEF WriteFileFails
    <3> QED
      BY <1>0, <1>2, <2>10, <3>1, Failed, NamesSteadyKept
  <2>11. CASE Tick
    <3>1. /\ UNCHANGED <<dir, phase, given, file>>
          /\ clock \in Int /\ clock' = clock + 1
      BY <1>0, <2>11 DEF Tick, TypeOK
    <3>2. \A i \in DOMAIN dir : dir[i].stamp \in Int
      BY <1>0, NamesCompare
    <3>3. \A i \in DOMAIN dir' : dir'[i].stamp <= clock'
      BY <1>2, <3>1, <3>2 DEF NamesSteady
    <3> QED
      BY <1>2, <3>1, <3>3 DEF NamesSteady, ListedBefore, Rank, maskName, Active
  <2>12. CASE StepBack
    BY <1>1, <2>12, Zenon DEF StepBack
  <2> QED
    BY <2>1, <2>2, <2>3, <2>4, <2>5, <2>6, <2>7, <2>8, <2>9, <2>10, <2>11, <2>12
    DEF Next
<1> QED
  BY <1>3, <1>4

\* Recovery replays the flushes in the order they were made, for any clock
\* and masks that do not go back, through any number of processes.
THEOREM ReplayIsInOrder == Spec => []ReplayIsChronological
<1>1. Init => SteadyInv
  BY DEF Init, SteadyInv, NamesSteady, FlushesSteady, Active
<1>2. IInv /\ SteadyInv /\ [Next]_vars => SteadyInv'
  <2>1. ASSUME IInv, SteadyInv, UNCHANGED vars PROVE SteadyInv'
    BY <2>1 DEF vars, processVars, segmentVars, flushVars, SteadyInv, NamesSteady,
       FlushesSteady, Active, ListedBefore, Rank, maskName
  <2> QED
    BY <2>1, SteadyStep
<1>3. IInv /\ SteadyInv => ReplayIsChronological
  <2> SUFFICES ASSUME IInv, SteadyInv, steady,
                      NEW i \in DOMAIN dir, NEW j \in DOMAIN dir,
                      NEW p \in DOMAIN dir[i].flushes,
                      NEW q \in DOMAIN dir[j].flushes,
                      ListedBefore(i, j) \/ (i = j /\ p < q)
               PROVE  dir[i].flushes[p] < dir[j].flushes[q]
    BY DEF ReplayIsChronological
  <2>1. TypeOK /\ NamesSteady /\ FlushesSteady
    BY DEF IInv, SteadyInv
  <2>2. i \in Int /\ j \in Int
    BY <2>1 DEF TypeOK
  <2>3. ListedBefore(i, j) => i < j
    <3> SUFFICES ASSUME ListedBefore(i, j), ~(i < j) PROVE FALSE
      OBVIOUS
    <3>1. ~ListedBefore(j, i)
      BY <2>1, ListedOneWay
    <3>2. i = j \/ j < i
      BY <2>2
    <3> QED
      BY <2>1, <3>1, <3>2 DEF NamesSteady
  <2> QED
    BY <2>1, <2>3 DEF FlushesSteady
<1> QED
  BY <1>1, <1>2, <1>3, Invariance, PTL DEF Spec

=============================================================================
