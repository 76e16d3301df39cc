------------------------------ MODULE PageProof ------------------------------
(***************************************************************************)
(* Theorems about what the web page shows: the waveforms, from Snapshot,   *)
(* for any number of inodes, chunks and snapshots and any number of        *)
(* crashes and power failures; and the acquisition rates, from             *)
(* TriggerRates, below.                                                    *)
(***************************************************************************)
EXTENDS Snapshot, TriggerRates, TLAPS

Directory == [live : Inodes \cup {NoFile}, tmp : Inodes \cup {NoFile}]

File == [ver : 0 .. MaxSnap, len : 0 .. Chunks, synced : 0 .. Chunks,
         fsync : {"ok", "failed", "lost"}]
USE DEF File

(* The directories a power failure may leave, as a set.                     *)
Logged == {dirLog[k] : k \in 1 .. Len(dirLog)}

(* The newest directory is the one processes see; in none of them are the   *)
(* live path and the .tmp path the same file.                               *)
LogOK ==
    /\ dirLog \in Seq(Directory) /\ Len(dirLog) >= 1 /\ dirLog[Len(dirLog)] = dir
    /\ \A d \in Logged : d.tmp # NoFile => d.live # d.tmp

(* The file that do_snapshot() writes is neither live in any of them nor    *)
(* being read.                                                              *)
TmpApart ==
    dir.tmp # NoFile => /\ rd.file # dir.tmp
                        /\ \A d \in Logged : d.live # dir.tmp

(* All of a file is there, and on stable storage if its fsync() succeeded.  *)
Whole(f) == /\ inode[f].fsync = "ok" => inode[f].synced = Chunks
            /\ inode[f].fsync # "lost" => inode[f].len = Chunks

Writing ==
    /\ pc \in {"write", "rename"} => dir.tmp # NoFile /\ inode[dir.tmp].ver = ver
    /\ pc \in {"write", "rename"} => inode[dir.tmp].fsync # "lost"
    /\ pc = "rename" => Whole(dir.tmp)

(* What may be live is whole, and older than a snapshot that is being       *)
(* written.                                                                 *)
Older(f) == /\ inode[f].ver <= ver
            /\ pc \in {"open", "write", "rename"} => inode[f].ver < ver

LiveWhole ==
    \A d \in Logged : d.live # NoFile => Whole(d.live) /\ Older(d.live)

SyncedWritten == \A f \in Inodes : inode[f].synced <= inode[f].len

IInv == /\ TypeOK /\ LogOK /\ TmpApart /\ Writing /\ LiveWhole /\ SyncedWritten
        /\ ReadsWholeSnapshot

-----------------------------------------------------------------------------
(* The log as a set.                                                        *)
LEMMA LoggedNow ==
    ASSUME IInv
    PROVE  /\ dir \in Logged /\ dir \in Directory /\ Logged \subseteq Directory
           /\ \A d \in Logged : d.live \in Inodes \cup {NoFile}
<1>1. /\ dirLog \in Seq(Directory) /\ Len(dirLog) \in Nat /\ Len(dirLog) >= 1
      /\ dirLog[Len(dirLog)] = dir
  BY DEF IInv, LogOK
<1>2. dir \in Logged
  BY <1>1 DEF Logged
<1>3. \A k \in 1 .. Len(dirLog) : dirLog[k] \in Directory
  BY <1>1
<1>4. Logged \subseteq Directory
  BY <1>3 DEF Logged
<1> QED
  BY <1>2, <1>4 DEF Directory

LEMMA LoggedAppend ==
    ASSUME IInv, NEW d \in Directory, SetDir(d)
    PROVE  /\ Logged' = Logged \cup {d} /\ dir' = d
           /\ dirLog' \in Seq(Directory) /\ Len(dirLog') >= 1 /\ dirLog'[Len(dirLog')] = d
<1>1. dirLog \in Seq(Directory) /\ dirLog' = Append(dirLog, d) /\ dir' = d
  BY DEF IInv, LogOK, SetDir
<1>2. /\ Len(dirLog') = Len(dirLog) + 1 /\ Len(dirLog) \in Nat
      /\ dirLog' \in Seq(Directory) /\ dirLog'[Len(dirLog')] = d
  BY <1>1
<1>3. \A k \in 1 .. Len(dirLog) : dirLog'[k] = dirLog[k]
  BY <1>1
<1>4. 1 .. Len(dirLog') = 1 .. Len(dirLog) \cup {Len(dirLog')}
  BY <1>2
<1>5. Logged' = Logged \cup {d}
  BY <1>2, <1>3, <1>4 DEF Logged
<1> QED
  BY <1>1, <1>2, <1>5

LEMMA LoggedTail ==
    ASSUME IInv, DirectoryReachesDisk
    PROVE  /\ Logged' \subseteq Logged
           /\ dirLog' \in Seq(Directory) /\ Len(dirLog') >= 1 /\ dirLog'[Len(dirLog')] = dir
<1>1. /\ dirLog \in Seq(Directory) /\ dirLog' = Tail(dirLog) /\ Len(dirLog) > 1
      /\ dirLog[Len(dirLog)] = dir
  BY DEF IInv, LogOK, DirectoryReachesDisk
<1>2. /\ Len(dirLog) \in Nat /\ dirLog' \in Seq(Directory) /\ Len(dirLog') = Len(dirLog) - 1
      /\ \A k \in 1 .. Len(dirLog') : dirLog'[k] = dirLog[k + 1]
  BY <1>1
<1>3. \A k \in 1 .. Len(dirLog') : k + 1 \in 1 .. Len(dirLog)
  BY <1>2
<1>4. Logged' \subseteq Logged
  BY <1>2, <1>3 DEF Logged
<1> QED
  BY <1>1, <1>2, <1>4

LEMMA LoggedOne ==
    ASSUME IInv, PowerFailure
    PROVE  /\ dir' \in Logged /\ Logged' = {dir'}
           /\ dirLog' \in Seq(Directory) /\ Len(dirLog') >= 1 /\ dirLog'[Len(dirLog')] = dir'
<1>1. PICK k \in 1 .. Len(dirLog) : dir' = dirLog[k] /\ dirLog' = <<dirLog[k]>>
  BY DEF PowerFailure
<1>2. dir' \in Logged
  BY <1>1 DEF Logged
<1>3. dir' \in Directory
  BY <1>2, LoggedNow
<1>4. Len(dirLog') = 1 /\ dirLog'[1] = dir' /\ dirLog' \in Seq(Directory)
  BY <1>1, <1>3
<1>5. 1 .. 1 = {1}
  OBVIOUS
<1> QED
  BY <1>2, <1>4, <1>5 DEF Logged

(* The last conjunct of TypeOK about the log, from the set.                 *)
LEMMA LogTypes ==
    ASSUME dirLog' \in Seq(Directory)
    PROVE  \A k \in 1 .. Len(dirLog') : dirLog'[k] \in Directory
  OBVIOUS

-----------------------------------------------------------------------------
LEMMA IInvInit == Init => IInv
<1> SUFFICES ASSUME Init PROVE IInv
  OBVIOUS
<1>1. dir \in Directory /\ dir.live = NoFile /\ dir.tmp = NoFile /\ dirLog = <<dir>>
  BY DEF Init, Directory
<1>2. /\ dirLog \in Seq(Directory) /\ Len(dirLog) = 1 /\ dirLog[1] = dir
  BY <1>1
<1>3. Logged = {dir}
  <2>1. 1 .. 1 = {1}
    OBVIOUS
  <2> QED
    BY <1>2, <2>1 DEF Logged
<1>4. TypeOK
  <2>1. 0 \in 0 .. MaxSnap /\ 0 \in 0 .. Chunks /\ 0 \in 0 .. MaxCrash
    BY SnapshotAssumption
  <2>2. inode \in [Inodes -> File]
    BY <2>1 DEF Init
  <2>3. rd \in [file : Inodes \cup {NoFile}, ver : 0 .. MaxSnap,
               size : 0 .. Chunks, got : 0 .. Chunks]
    BY <2>1 DEF Init, NoRead
  <2>4. \A k \in 1 .. Len(dirLog) : dirLog[k] \in Directory
    BY <1>2
  <2> QED
    BY <1>1, <2>1, <2>2, <2>3, <2>4 DEF Init, TypeOK, Directory
<1>5. LogOK /\ TmpApart /\ LiveWhole
  BY <1>1, <1>2, <1>3 DEF LogOK, TmpApart, LiveWhole
<1>6. Writing /\ SyncedWritten /\ ReadsWholeSnapshot
  BY DEF Init, Writing, SyncedWritten, ReadsWholeSnapshot, NoRead
<1> QED
  BY <1>4, <1>5, <1>6 DEF IInv

(* Steps that leave the disk alone.                                         *)
LEMMA DiskUnchanged ==
    ASSUME IInv,
           \/ Capture \/ OpenFails \/ Flags \/ Request \/ Fetch \/ FetchChunk \/ FetchDone
           \/ Crash \/ UNCHANGED vars
    PROVE  IInv'
<1>1. inode' = inode /\ dir' = dir /\ dirLog' = dirLog /\ Logged' = Logged
  BY DEF Capture, OpenFails, Flags, Request, Fetch, FetchChunk, FetchDone, Crash, vars,
         disk, Logged
<1>2. LogOK' /\ SyncedWritten'
  BY <1>1 DEF IInv, LogOK, SyncedWritten
<1>3. /\ ver' \in 0 .. MaxSnap /\ ver <= ver' /\ ver \in 0 .. MaxSnap
      /\ pc' \in {"open", "write", "rename"} => ver < ver' \/ (pc' = pc /\ ver' = ver)
      /\ pc' \in {"write", "rename"} => pc' = pc /\ ver' = ver
      /\ pc' \in {"idle", "open", "write", "rename", "unlink", "flags"}
      /\ ok' \in BOOLEAN /\ wanted' \in BOOLEAN
      /\ odb' \in [waveform : BOOLEAN, ready : BOOLEAN] /\ crashes' \in 0 .. MaxCrash
  <2>0. /\ ver \in 0 .. MaxSnap /\ MaxSnap \in Nat /\ MaxCrash \in Nat
        /\ crashes \in 0 .. MaxCrash /\ ok \in BOOLEAN /\ wanted \in BOOLEAN
        /\ odb \in [waveform : BOOLEAN, ready : BOOLEAN]
        /\ pc \in {"idle", "open", "write", "rename", "unlink", "flags"}
    BY SnapshotAssumption DEF IInv, TypeOK
  <2>1. CASE Capture
    BY <2>0, <2>1 DEF Capture
  <2>2. CASE OpenFails
    BY <2>0, <2>2 DEF OpenFails
  <2>3. CASE Flags
    BY <2>0, <2>3 DEF Flags
  <2>4. CASE Request
    <3>1. odb' \in [waveform : BOOLEAN, ready : BOOLEAN]
      <4>1. odb' = [odb EXCEPT !.waveform = TRUE]
        BY <2>4 DEF Request
      <4> QED
        BY ONLY <2>0, <4>1, Zenon
    <3>2. ver' = ver /\ pc' = pc /\ ok' = ok /\ wanted' = TRUE /\ crashes' = crashes
      BY <2>4 DEF Request
    <3> QED
      BY ONLY <2>0, <3>1, <3>2
  <2>5. CASE Fetch \/ FetchChunk \/ FetchDone \/ UNCHANGED vars
    <3>1. UNCHANGED <<ver, pc, ok, wanted, odb, crashes>>
      BY <2>5 DEF Fetch, FetchChunk, FetchDone, vars
    <3> QED
      BY ONLY <2>0, <3>1
  <2>6. CASE Crash
    <3>1. ver' = ver /\ pc' = "idle" /\ crashes < MaxCrash /\ crashes' = crashes + 1
      BY <2>6 DEF Crash, Restarted
    <3>2. ok' = FALSE /\ wanted' = FALSE /\ odb' = [waveform |-> FALSE, ready |-> FALSE]
      BY <2>6 DEF Crash, Restarted
    <3>3. crashes' \in 0 .. MaxCrash
      BY ONLY <2>0, <3>1
    <3>4. odb' \in [waveform : BOOLEAN, ready : BOOLEAN]
      BY ONLY <3>2, Zenon
    <3>5. ver' \in 0 .. MaxSnap /\ ver <= ver' /\ ver \in 0 .. MaxSnap
      BY ONLY <2>0, <3>1
    <3>6. pc' = "idle" => pc' \notin {"open", "write", "rename"} /\ pc' \notin {"write", "rename"}
      OBVIOUS
    <3>7. ok' \in BOOLEAN /\ wanted' \in BOOLEAN
      BY <3>2
    <3> QED
      BY <3>1, <3>3, <3>4, <3>5, <3>6, <3>7, Zenon
  <2> QED
    BY <2>1, <2>2, <2>3, <2>4, <2>5, <2>6
<1>4. Writing'
  BY <1>1, <1>3 DEF IInv, Writing, Whole
<1>5. \A f \in Inodes : inode[f] \in File
  BY DEF IInv, TypeOK
<1>6. ASSUME NEW f \in Inodes, Older(f) PROVE Older(f)'
  <2>1. inode[f].ver \in Nat /\ ver \in Nat /\ ver' \in Nat
    BY <1>3, <1>5, SnapshotAssumption
  <2> QED
    BY <1>1, <1>3, <1>6, <2>1 DEF Older
<1>7. LiveWhole'
  <2> SUFFICES ASSUME NEW d \in Logged, d.live # NoFile
               PROVE  Whole(d.live) /\ Older(d.live)'
    BY <1>1 DEF LiveWhole, Whole
  <2>1. d.live \in Inodes
    BY LoggedNow
  <2> QED
    BY <1>1, <1>6, <2>1 DEF IInv, LiveWhole, Whole
<1>8. /\ rd' \in [file : Inodes \cup {NoFile}, ver : 0 .. MaxSnap,
                  size : 0 .. Chunks, got : 0 .. Chunks]
      /\ rd'.file # NoFile => /\ inode[rd'.file].ver = rd'.ver /\ inode[rd'.file].len = rd'.size
                              /\ inode[rd'.file].fsync # "lost" => rd'.size = Chunks
      /\ dir.tmp # NoFile => rd'.file # dir.tmp
  <2>1. CASE Fetch
    <3>1. /\ rd'.file = dir.live /\ rd'.ver = inode[dir.live].ver
          /\ rd'.size = inode[dir.live].len /\ rd'.got = 0 /\ dir.live # NoFile
      BY <2>1 DEF Fetch
    <3>2. dir.live \in Inodes /\ Whole(dir.live)
      BY <3>1, LoggedNow DEF IInv, LiveWhole
    <3>3. inode[dir.live].fsync # "lost" => inode[dir.live].len = Chunks
      BY <3>2 DEF Whole
    <3>4. dir.tmp # NoFile => dir.live # dir.tmp
      BY LoggedNow DEF IInv, TmpApart
    <3>5. rd' \in [file : Inodes \cup {NoFile}, ver : 0 .. MaxSnap,
                  size : 0 .. Chunks, got : 0 .. Chunks]
      BY <1>5, <2>1, <3>2, SnapshotAssumption DEF Fetch
    <3> QED
      BY <3>1, <3>2, <3>3, <3>4, <3>5
  <2>2. CASE FetchChunk
    <3>1. rd' = [rd EXCEPT !.got = rd.got + 1] /\ rd.got < rd.size
      BY <2>2 DEF FetchChunk
    <3>2. rd \in [file : Inodes \cup {NoFile}, ver : 0 .. MaxSnap,
                  size : 0 .. Chunks, got : 0 .. Chunks]
      BY DEF IInv, TypeOK
    <3>3. rd.got + 1 \in 0 .. Chunks
      BY <3>1, <3>2, SnapshotAssumption
    <3>4. rd' \in [file : Inodes \cup {NoFile}, ver : 0 .. MaxSnap,
                  size : 0 .. Chunks, got : 0 .. Chunks]
      BY <3>1, <3>2, <3>3
    <3>5. rd'.file = rd.file /\ rd'.ver = rd.ver /\ rd'.size = rd.size
      BY <3>1, <3>2
    <3> QED
      BY <3>4, <3>5 DEF IInv, ReadsWholeSnapshot, TmpApart
  <2>3. CASE FetchDone
    <3>1. rd' = NoRead
      BY <2>3 DEF FetchDone
    <3>2. dir.tmp # NoFile => NoFile # dir.tmp
      OBVIOUS
    <3> QED
      BY <3>1, <3>2, SnapshotAssumption DEF NoRead
  <2>4. CASE rd' = rd
    BY <2>4 DEF IInv, TypeOK, ReadsWholeSnapshot, TmpApart
  <2>5. rd' = rd \/ Fetch \/ FetchChunk \/ FetchDone
    BY DEF Capture, OpenFails, Flags, Request, Crash, vars
  <2> QED
    BY <2>1, <2>2, <2>3, <2>4, <2>5
<1>9. ReadsWholeSnapshot' /\ TmpApart'
  BY <1>1, <1>8 DEF ReadsWholeSnapshot, TmpApart, IInv
<1>10. TypeOK'
  BY <1>1, <1>3, <1>8 DEF IInv, TypeOK
<1> QED
  BY <1>2, <1>4, <1>7, <1>9, <1>10 DEF IInv

(* Steps of do_snapshot() that change one file, the one under the .tmp path *)
(* after the step, which is not live and not read.                          *)
LEMMA TmpWritten ==
    ASSUME IInv, NEW f \in Inodes, NEW r,
           inode' = [inode EXCEPT ![f] = r],
           r \in File,
           r.synced <= r.len,
           rd' = rd, rd.file # f, \A d \in Logged : d.live # f,
           \A d \in Logged' : d \in Logged \/ (d.live = dir.live),
           ver' = ver, pc' \in {"open", "write", "rename"} => pc \in {"open", "write", "rename"}
    PROVE  /\ inode' \in [Inodes -> File]
           /\ SyncedWritten' /\ LiveWhole' /\ ReadsWholeSnapshot'
           /\ inode'[f] = r
<1>1. inode \in [Inodes -> File]
  BY DEF IInv, TypeOK
<1>2. inode' \in [Inodes -> File]
  BY <1>1
<1>3. inode'[f] = r /\ \A g \in Inodes : g # f => inode'[g] = inode[g]
  BY <1>1
<1>4. SyncedWritten'
  BY <1>3 DEF IInv, SyncedWritten
<1>5. LiveWhole'
  <2> SUFFICES ASSUME NEW d \in Logged', d.live # NoFile
               PROVE  Whole(d.live)' /\ Older(d.live)'
    BY DEF LiveWhole
  <2>1. PICK e \in Logged : e.live = d.live
    BY LoggedNow
  <2>2. e.live \in Inodes /\ e.live # f
    BY <2>1, LoggedNow
  <2>3. inode'[d.live] = inode[d.live]
    BY <1>3, <2>1, <2>2
  <2>4. Whole(d.live) /\ Older(d.live)
    BY <2>1 DEF IInv, LiveWhole
  <2> QED
    BY <2>3, <2>4 DEF Older, Whole
<1>6. ReadsWholeSnapshot'
  <2>1. rd.file # NoFile => rd.file \in Inodes
    BY DEF IInv, TypeOK
  <2> QED
    BY <1>3, <2>1 DEF IInv, ReadsWholeSnapshot
<1> QED
  BY <1>2, <1>3, <1>4, <1>5, <1>6

(* The conjuncts of TypeOK that no step of this kind disturbs.              *)
LEMMA StillTyped ==
    ASSUME IInv,
           inode' \in [Inodes -> File],
           dir' \in Directory, dirLog' \in Seq(Directory), rd' = rd \/ rd' = NoRead,
           pc' \in {"idle", "open", "write", "rename", "unlink", "flags"},
           ver' = ver, ok' \in BOOLEAN, wanted' \in BOOLEAN,
           odb' \in [waveform : BOOLEAN, ready : BOOLEAN], crashes' \in 0 .. MaxCrash
    PROVE  TypeOK'
<1>1. rd' \in [file : Inodes \cup {NoFile}, ver : 0 .. MaxSnap,
               size : 0 .. Chunks, got : 0 .. Chunks]
  BY SnapshotAssumption DEF IInv, TypeOK, NoRead
<1>2. \A k \in 1 .. Len(dirLog') : dirLog'[k] \in Directory
  BY LogTypes
<1> QED
  BY <1>1, <1>2 DEF IInv, TypeOK, Directory

LEMMA OpenStep == ASSUME IInv, Open PROVE IInv'
<1>1. PICK f \in Inodes :
          /\ IF dir.tmp = NoFile THEN ~InUse(f) /\ SetDir([dir EXCEPT !.tmp = f])
                                 ELSE f = dir.tmp /\ UNCHANGED <<dir, dirLog>>
          /\ inode' = [inode EXCEPT ![f] = [ver |-> ver, len |-> 0, synced |-> 0,
                                                fsync |-> "ok"]]
  BY DEF Open
<1>2. /\ pc = "open" /\ pc' = "write" /\ ok' = TRUE
      /\ UNCHANGED <<ver, odb, wanted, rd, crashes>>
  BY DEF Open
<1>3. f # NoFile
  BY SnapshotAssumption
<1>4. /\ rd.file # f /\ \A d \in Logged : d.live # f
      /\ dir'.tmp = f /\ dir' \in Directory /\ dirLog' \in Seq(Directory)
      /\ Len(dirLog') >= 1 /\ dirLog'[Len(dirLog')] = dir'
      /\ \A d \in Logged' : d \in Logged \/ (d.live = dir.live /\ d.tmp = f)
  <2>1. CASE dir.tmp = NoFile
    <3> DEFINE e == [live |-> dir.live, tmp |-> f]
    <3>1. e = [dir EXCEPT !.tmp = f] /\ e \in Directory /\ e.live = dir.live /\ e.tmp = f
      BY LoggedNow DEF Directory
    <3>2. ~InUse(f) /\ SetDir(e)
      BY <1>1, <2>1, <3>1
    <3>3. rd.file # f /\ \A d \in Logged : d.live # f
      BY <3>2 DEF InUse, Logged
    <3>4. /\ Logged' = Logged \cup {e} /\ dir' = e
          /\ dirLog' \in Seq(Directory) /\ Len(dirLog') >= 1 /\ dirLog'[Len(dirLog')] = e
      BY <3>1, <3>2, LoggedAppend
    <3> QED
      BY ONLY <3>1, <3>3, <3>4
  <2>2. CASE dir.tmp # NoFile
    <3>1. f = dir.tmp /\ dir' = dir /\ dirLog' = dirLog
      BY <1>1, <2>2
    <3>2. Logged' = Logged
      BY <3>1 DEF Logged
    <3> QED
      BY <2>2, <3>1, <3>2, LoggedNow DEF IInv, TmpApart, LogOK
  <2> QED
    BY <2>1, <2>2
<1>5. /\ inode' \in [Inodes -> File]
      /\ SyncedWritten' /\ LiveWhole' /\ ReadsWholeSnapshot'
      /\ inode'[f] = [ver |-> ver, len |-> 0, synced |-> 0, fsync |-> "ok"]
  <2> DEFINE r == [ver |-> ver, len |-> 0, synced |-> 0, fsync |-> "ok"]
  <2>1. r \in File
    BY SnapshotAssumption DEF IInv, TypeOK
  <2>2. r.synced <= r.len /\ inode' = [inode EXCEPT ![f] = r]
    BY <1>1
  <2>3. \A d \in Logged' : d \in Logged \/ d.live = dir.live
    BY <1>4
  <2> HIDE DEF r
  <2>4. /\ inode' \in [Inodes -> File]
        /\ SyncedWritten' /\ LiveWhole' /\ ReadsWholeSnapshot'
        /\ inode'[f] = r
    BY <1>2, <1>4, <2>1, <2>2, <2>3, TmpWritten
  <2> QED
    BY <2>4 DEF r
<1>6. Writing'
  BY <1>2, <1>3, <1>4, <1>5 DEF Writing
<1>7. LogOK'
  <2>1. \A d \in Logged' : d.tmp # NoFile => d.live # d.tmp
    BY <1>4, LoggedNow DEF IInv, LogOK
  <2> QED
    BY <1>4, <2>1 DEF LogOK
<1>8. TmpApart'
  <2>1. \A d \in Logged' : d.live # f
    BY <1>4, LoggedNow
  <2> QED
    BY <1>2, <1>4, <2>1 DEF TmpApart
<1>9. TypeOK'
  <2>1. wanted' \in BOOLEAN /\ odb' \in [waveform : BOOLEAN, ready : BOOLEAN]
        /\ crashes' \in 0 .. MaxCrash /\ ok' \in BOOLEAN
    BY <1>2 DEF IInv, TypeOK
  <2> QED
    BY <1>2, <1>4, <1>5, <2>1, StillTyped
<1> QED
  BY <1>5, <1>6, <1>7, <1>8, <1>9 DEF IInv

LEMMA WriteStep == ASSUME IInv, Write \/ Sync PROVE IInv'
<1>1. pc = "write" /\ dir.tmp # NoFile /\ dir.tmp \in Inodes /\ inode[dir.tmp].ver = ver
  BY LoggedNow DEF IInv, Writing, Write, Sync, Directory
<1>2. /\ dir' = dir /\ dirLog' = dirLog /\ Logged' = Logged /\ rd' = rd /\ ver' = ver
      /\ UNCHANGED <<odb, wanted, crashes>> /\ pc' \in {"write", "rename", "unlink"}
  BY DEF Write, Sync, Logged
<1>3. rd.file # dir.tmp /\ \A d \in Logged : d.live # dir.tmp
  BY <1>1 DEF IInv, TmpApart
<1>4. inode[dir.tmp] \in File
  BY <1>1 DEF IInv, TypeOK
<1>5. inode[dir.tmp].synced <= inode[dir.tmp].len /\ inode[dir.tmp].fsync # "lost"
  BY <1>1 DEF IInv, SyncedWritten, Writing
<1>6. PICK r \in File :
          /\ inode' = [inode EXCEPT ![dir.tmp] = r] /\ r.ver = ver /\ r.synced <= r.len
          /\ r.fsync # "lost"
          /\ pc' = "rename" => /\ r.len = Chunks
                               /\ r.fsync = "ok" => r.synced = Chunks
  <2>1. CASE inode' = inode /\ pc' # "rename"
    <3>1. inode' = [inode EXCEPT ![dir.tmp] = inode[dir.tmp]]
      BY <1>1, <2>1 DEF IInv, TypeOK
    <3> QED
      BY <1>1, <1>4, <1>5, <2>1, <3>1
  <2>2. CASE /\ inode[dir.tmp].len < Chunks /\ pc' # "rename"
             /\ inode' = [inode EXCEPT ![dir.tmp].len = @ + 1]
    <3> DEFINE r == [ver |-> inode[dir.tmp].ver, len |-> inode[dir.tmp].len + 1,
                     synced |-> inode[dir.tmp].synced, fsync |-> inode[dir.tmp].fsync]
    <3>1. inode[dir.tmp].len + 1 \in 0 .. Chunks
      BY <1>4, <2>2, SnapshotAssumption
    <3>2. r \in File
      BY <1>4, <3>1
    <3>3. r.ver = ver /\ r.synced <= r.len /\ r.fsync # "lost"
      BY <1>1, <1>4, <1>5
    <3>4. inode' = [inode EXCEPT ![dir.tmp] = r]
      <4>1. [inode[dir.tmp] EXCEPT !.len = inode[dir.tmp].len + 1] = r
        BY <1>4
      <4>2. inode' = [inode EXCEPT ![dir.tmp] = [inode[dir.tmp] EXCEPT !.len = inode[dir.tmp].len + 1]]
        BY <2>2, Zenon
      <4> HIDE DEF r
      <4> QED
        BY ONLY <4>1, <4>2
    <3> QED
      BY ONLY <2>2, <3>2, <3>3, <3>4
  <2>3. CASE inode' = [inode EXCEPT ![dir.tmp].synced = Chunks] /\ inode[dir.tmp].len = Chunks
    <3> DEFINE r == [ver |-> inode[dir.tmp].ver, len |-> Chunks, synced |-> Chunks,
                     fsync |-> inode[dir.tmp].fsync]
    <3>1. r \in File
      BY <1>4, SnapshotAssumption
    <3>2. /\ r.ver = ver /\ r.synced <= r.len /\ r.synced = Chunks /\ r.len = Chunks
          /\ r.fsync # "lost"
      BY <1>1, <1>5, SnapshotAssumption
    <3>3. inode' = [inode EXCEPT ![dir.tmp] = r]
      <4>1. [inode[dir.tmp] EXCEPT !.synced = Chunks] = r
        BY <1>4, <2>3
      <4>2. inode' = [inode EXCEPT ![dir.tmp] = [inode[dir.tmp] EXCEPT !.synced = Chunks]]
        BY <2>3, Zenon
      <4> HIDE DEF r
      <4> QED
        BY ONLY <4>1, <4>2
    <3> QED
      BY ONLY <3>1, <3>2, <3>3
  <2>4. CASE inode' = [inode EXCEPT ![dir.tmp].fsync = "failed"] /\ inode[dir.tmp].len = Chunks
    <3> DEFINE r == [ver |-> inode[dir.tmp].ver, len |-> Chunks,
                     synced |-> inode[dir.tmp].synced, fsync |-> "failed"]
    <3>1. r \in File
      BY <1>4, <2>4
    <3>2. /\ r.ver = ver /\ r.synced <= r.len /\ r.len = Chunks /\ r.fsync = "failed"
      BY <1>1, <1>5, <2>4
    <3>3. inode' = [inode EXCEPT ![dir.tmp] = r]
      <4>1. [inode[dir.tmp] EXCEPT !.fsync = "failed"] = r
        BY <1>4, <2>4
      <4>2. inode' = [inode EXCEPT ![dir.tmp] = [inode[dir.tmp] EXCEPT !.fsync = "failed"]]
        BY <2>4, Zenon
      <4> HIDE DEF r
      <4> QED
        BY ONLY <4>1, <4>2
    <3> QED
      BY ONLY <3>1, <3>2, <3>3
  <2> QED
    BY <2>1, <2>2, <2>3, <2>4 DEF Write, Sync
<1>7. /\ inode' \in [Inodes -> File]
      /\ SyncedWritten' /\ LiveWhole' /\ ReadsWholeSnapshot' /\ inode'[dir.tmp] = r
  <2>1. \A d \in Logged' : d \in Logged \/ d.live = dir.live
    BY <1>2
  <2>2. pc' \in {"open", "write", "rename"} => pc \in {"open", "write", "rename"}
    BY <1>1
  <2> QED
    BY <1>1, <1>2, <1>3, <1>6, <2>1, <2>2, TmpWritten
<1>8. Writing' /\ LogOK' /\ TmpApart'
  BY <1>1, <1>2, <1>3, <1>6, <1>7 DEF IInv, Writing, Whole, LogOK, TmpApart
<1>9. TypeOK'
  <2>1. wanted' \in BOOLEAN /\ odb' \in [waveform : BOOLEAN, ready : BOOLEAN]
        /\ crashes' \in 0 .. MaxCrash
    BY <1>2 DEF IInv, TypeOK
  <2>2. ok' \in BOOLEAN
    BY DEF Write, Sync, IInv, TypeOK
  <2>3. dir' \in Directory /\ dirLog' \in Seq(Directory)
    BY <1>2, LoggedNow DEF IInv, LogOK
  <2> QED
    BY <1>2, <1>7, <2>1, <2>2, <2>3, StillTyped
<1> QED
  BY <1>7, <1>8, <1>9 DEF IInv

(* The directory changes: rename() and unlink() of the .tmp path.           *)
LEMMA DirStep == ASSUME IInv, Rename \/ Unlink PROVE IInv'
<1>1. /\ inode' = inode /\ ver' = ver /\ rd' = rd /\ UNCHANGED <<ok, odb, wanted, crashes>>
      /\ pc \in {"rename", "unlink"} /\ pc' \in {"unlink", "flags"}
  BY DEF Rename, Unlink
<1>2. /\ dir' \in Directory /\ dirLog' \in Seq(Directory) /\ Len(dirLog') >= 1
      /\ dirLog'[Len(dirLog')] = dir'
      /\ dir'.tmp # NoFile => dir' = dir /\ Logged' = Logged
      /\ \A d \in Logged' :
            \/ d \in Logged
            \/ d.tmp = NoFile /\ d.live = dir.live
            \/ d.tmp = NoFile /\ d.live = dir.tmp /\ pc = "rename"
  <2>1. CASE SetDir([live |-> dir.tmp, tmp |-> NoFile]) /\ pc = "rename"
    <3> DEFINE e == [live |-> dir.tmp, tmp |-> NoFile]
    <3>1. e \in Directory /\ e.tmp = NoFile /\ e.live = dir.tmp
      BY LoggedNow DEF Directory
    <3>2. /\ Logged' = Logged \cup {e} /\ dir' = e
          /\ dirLog' \in Seq(Directory) /\ Len(dirLog') >= 1 /\ dirLog'[Len(dirLog')] = e
      BY <2>1, <3>1, LoggedAppend
    <3> QED
      BY ONLY <2>1, <3>1, <3>2
  <2>2. CASE SetDir([dir EXCEPT !.tmp = NoFile])
    <3> DEFINE e == [live |-> dir.live, tmp |-> NoFile]
    <3>1. e = [dir EXCEPT !.tmp = NoFile] /\ e \in Directory /\ e.tmp = NoFile /\ e.live = dir.live
      BY LoggedNow DEF Directory
    <3>2. /\ Logged' = Logged \cup {e} /\ dir' = e
          /\ dirLog' \in Seq(Directory) /\ Len(dirLog') >= 1 /\ dirLog'[Len(dirLog')] = e
      BY <2>2, <3>1, LoggedAppend
    <3> QED
      BY ONLY <3>1, <3>2
  <2>3. CASE UNCHANGED <<dir, dirLog>>
    BY <2>3, LoggedNow DEF IInv, LogOK, Logged
  <2> QED
    BY <2>1, <2>2, <2>3 DEF Rename, Unlink
<1>3. LogOK'
  BY <1>2 DEF IInv, LogOK
<1>4. TmpApart'
  BY <1>1, <1>2 DEF IInv, TmpApart
<1>5. LiveWhole'
  <2> SUFFICES ASSUME NEW d \in Logged', d.live # NoFile
               PROVE  Whole(d.live)' /\ Older(d.live)'
    BY DEF LiveWhole
  <2>1. CASE d \in Logged \/ d.live = dir.live
    <3>1. Whole(d.live) /\ Older(d.live)
      BY <2>1, LoggedNow DEF IInv, LiveWhole
    <3> QED
      BY <1>1, <3>1 DEF Older, Whole
  <2>2. CASE d.live = dir.tmp /\ pc = "rename"
    <3>1. Whole(dir.tmp) /\ inode[dir.tmp].ver = ver /\ ver \in 0 .. MaxSnap
      BY <2>2 DEF IInv, Writing, TypeOK
    <3> QED
      BY <1>1, <2>2, <3>1, SnapshotAssumption DEF Older, Whole
  <2> QED
    BY <1>2, <2>1, <2>2
<1>6. Writing' /\ SyncedWritten' /\ ReadsWholeSnapshot'
  BY <1>1 DEF IInv, Writing, SyncedWritten, ReadsWholeSnapshot
<1>7. TypeOK'
  <2>1. /\ wanted' \in BOOLEAN /\ odb' \in [waveform : BOOLEAN, ready : BOOLEAN]
        /\ crashes' \in 0 .. MaxCrash /\ ok' \in BOOLEAN
        /\ inode' \in [Inodes -> File]
    BY <1>1 DEF IInv, TypeOK
  <2> QED
    BY <1>1, <1>2, <2>1, StillTyped
<1> QED
  BY <1>3, <1>4, <1>5, <1>6, <1>7 DEF IInv

(* The directory reaches the disk.                                          *)
LEMMA LogStep == ASSUME IInv, DirectoryReachesDisk PROVE IInv'
<1>1. /\ UNCHANGED <<inode, dir, pc, ver, ok, odb, wanted, rd, crashes>>
      /\ Logged' \subseteq Logged /\ dirLog' \in Seq(Directory) /\ Len(dirLog') >= 1
      /\ dirLog'[Len(dirLog')] = dir
  BY LoggedTail DEF DirectoryReachesDisk
<1>2. LogOK' /\ TmpApart'
  BY <1>1 DEF IInv, LogOK, TmpApart
<1>3. LiveWhole'
  BY <1>1 DEF IInv, LiveWhole, Older, Whole
<1>4. Writing' /\ SyncedWritten' /\ ReadsWholeSnapshot'
  BY <1>1 DEF IInv, Writing, Whole, SyncedWritten, ReadsWholeSnapshot
<1>5. \A k \in 1 .. Len(dirLog') : dirLog'[k] \in Directory
  BY <1>1, LogTypes
<1>6. TypeOK'
  BY <1>1, <1>5 DEF IInv, TypeOK, Directory
<1> QED
  BY <1>2, <1>3, <1>4, <1>6 DEF IInv

(* After a power failure one directory is left, and no file has lost what   *)
(* was synced.                                                              *)
LEMMA PowerStep == ASSUME IInv, PowerFailure PROVE IInv'
<1>1. PICK keep \in [Inodes -> 0 .. Chunks] :
          /\ \A f \in Inodes : keep[f] \in inode[f].synced .. inode[f].len
          /\ inode' = [f \in Inodes |-> [ver |-> inode[f].ver, len |-> keep[f],
                                         synced |-> keep[f],
                                         fsync |-> IF inode[f].fsync = "ok"
                                                   THEN "ok" ELSE "lost"]]
  BY DEF PowerFailure
<1>2. /\ pc' = "idle" /\ ver' = ver /\ rd' = NoRead /\ ok' = FALSE /\ wanted' = FALSE
      /\ odb' = [waveform |-> FALSE, ready |-> FALSE]
      /\ crashes < MaxCrash /\ crashes' = crashes + 1
  BY DEF PowerFailure, Restarted
<1>3. /\ dir' \in Logged /\ Logged' = {dir'} /\ dirLog' \in Seq(Directory)
      /\ Len(dirLog') >= 1 /\ dirLog'[Len(dirLog')] = dir' /\ dir' \in Directory
  BY LoggedOne, LoggedNow
<1>4. \A f \in Inodes : inode[f] \in File
  BY DEF IInv, TypeOK
<1>5. \A f \in Inodes : /\ inode'[f].ver = inode[f].ver /\ inode'[f].len = keep[f]
                        /\ inode'[f].synced = keep[f]
                        /\ inode'[f].fsync = IF inode[f].fsync = "ok" THEN "ok" ELSE "lost"
  BY <1>1
<1>6. inode' \in [Inodes -> File]
  BY <1>1, <1>4
<1>7. ASSUME NEW f \in Inodes, Whole(f) PROVE Whole(f)'
  <2> SUFFICES ASSUME inode[f].fsync = "ok" PROVE inode'[f].synced = Chunks
    BY <1>5 DEF Whole
  <2>1. keep[f] \in Chunks .. inode[f].len /\ keep[f] \in 0 .. Chunks
    BY <1>1, <1>7 DEF Whole
  <2>2. keep[f] = Chunks
    BY <1>4, <2>1, SnapshotAssumption
  <2> QED
    BY <1>5, <2>2
<1>8. SyncedWritten'
  <2>1. \A f \in Inodes : inode'[f].synced \in Nat /\ inode'[f].len = inode'[f].synced
    BY <1>1, <1>5, SnapshotAssumption
  <2> QED
    BY <2>1 DEF SyncedWritten
<1>9. LiveWhole'
  <2> SUFFICES ASSUME NEW d \in Logged', d.live # NoFile
               PROVE  Whole(d.live)' /\ Older(d.live)'
    BY DEF LiveWhole
  <2>1. d.live \in Inodes /\ Whole(d.live) /\ Older(d.live)
    BY <1>3, LoggedNow DEF IInv, LiveWhole
  <2> QED
    BY <1>2, <1>5, <1>7, <2>1 DEF Older
<1>10. LogOK' /\ TmpApart'
  <2>1. dir'.tmp # NoFile => dir'.live # dir'.tmp
    BY <1>3 DEF IInv, LogOK
  <2> QED
    BY <1>2, <1>3, <2>1 DEF LogOK, TmpApart, NoRead
<1>11. Writing' /\ ReadsWholeSnapshot'
  BY <1>2 DEF Writing, ReadsWholeSnapshot, NoRead
<1>12. TypeOK'
  <2>1. crashes' \in 0 .. MaxCrash
    BY <1>2, SnapshotAssumption DEF IInv, TypeOK
  <2>2. odb' \in [waveform : BOOLEAN, ready : BOOLEAN]
    BY <1>2, Zenon
  <2>3. ok' \in BOOLEAN /\ wanted' \in BOOLEAN
    BY <1>2
  <2>4. pc' \in {"idle", "open", "write", "rename", "unlink", "flags"}
    BY <1>2
  <2> QED
    BY <1>2, <1>3, <1>6, <2>1, <2>2, <2>3, <2>4, StillTyped
<1> QED
  BY <1>8, <1>9, <1>10, <1>11, <1>12 DEF IInv

LEMMA IInvStep == IInv /\ [Next]_vars => IInv'
  BY DiskUnchanged, OpenStep, WriteStep, DirStep, LogStep, PowerStep DEF Next, DoSnapshot

LEMMA IInvariant == Spec => []IInv
  BY IInvInit, IInvStep, PTL DEF Spec

-----------------------------------------------------------------------------
(* The files, the directory and the reader have their types.                *)
THEOREM TypeCorrect == Spec => []TypeOK
<1>1. IInv => TypeOK
  BY DEF IInv
<1> QED
  BY <1>1, IInvariant, PTL

(* A page that has begun to read gets all of one snapshot, whatever         *)
(* do_snapshot() does meanwhile and however often the front end crashed;    *)
(* also where fsync() failed, as long as the power did not fail after it.   *)
THEOREM ReadsAreWhole == Spec => []ReadsWholeSnapshot
<1>1. IInv => ReadsWholeSnapshot
  BY DEF IInv
<1> QED
  BY <1>1, IInvariant, PTL

(* Whatever directory a power failure leaves, its live file is complete on  *)
(* stable storage if its fsync() succeeded, which comes before rename().    *)
THEOREM LiveIsDurable == Spec => []LiveSurvivesPowerFailure
<1>1. IInv => LiveSurvivesPowerFailure
  BY DEF IInv, LiveWhole, Whole, LiveSurvivesPowerFailure, Logged
<1> QED
  BY <1>1, IInvariant, PTL

(* Only a power failure takes the live file back to an older snapshot.      *)
THEOREM LiveAdvances == Spec => LiveMovesForward
<1> DEFINE Forward == dir.live # NoFile /\ dir'.live # dir.live /\ ~PowerFailure =>
                          dir'.live # NoFile /\ inode'[dir'.live].ver > inode[dir.live].ver
<1>1. IInv /\ [Next]_vars => [Forward]_vars
  <2> SUFFICES ASSUME IInv, Next, dir.live # NoFile, dir'.live # dir.live, ~PowerFailure
               PROVE  dir'.live # NoFile /\ inode'[dir'.live].ver > inode[dir.live].ver
    OBVIOUS
  <2>1. dir.live \in Inodes /\ Older(dir.live) /\ dir \in Directory
    BY LoggedNow DEF IInv, LiveWhole
  <2>2. CASE Rename
    <3>1. /\ pc = "rename" /\ inode' = inode
          /\ dir' = [live |-> dir.tmp, tmp |-> NoFile] \/ dir' = dir
      BY <2>2 DEF Rename, SetDir
    <3>2. dir'.live = dir.tmp
      BY <3>1
    <3>3. dir.tmp # NoFile /\ inode[dir.tmp].ver = ver
      BY <3>1 DEF IInv, Writing
    <3>4. inode[dir.live].ver < ver /\ ver \in Nat /\ inode[dir.live].ver \in Nat
      BY <2>1, <3>1, SnapshotAssumption DEF Older, IInv, TypeOK
    <3> QED
      BY <3>1, <3>2, <3>3, <3>4
  <2>3. CASE ~Rename
    <3>1. dir'.live = dir.live
      <4>1. CASE Open
        BY <2>1, <4>1 DEF Open, SetDir, Directory
      <4>2. CASE Unlink
        BY <2>1, <4>2 DEF Unlink, SetDir, Directory
      <4>3. CASE dir' = dir
        BY <4>3
      <4> QED
        BY <2>3, <4>1, <4>2, <4>3 DEF Next, DoSnapshot, Capture, OpenFails, Write, Sync, Flags,
             Request, Fetch, FetchChunk, FetchDone, Crash, DirectoryReachesDisk, disk
    <3> QED
      BY <3>1
  <2> QED
    BY <2>2, <2>3
<1> QED
  BY <1>1, IInvariant, PTL DEF Spec, LiveMovesForward

-----------------------------------------------------------------------------
(* The acquisition rate beside the waveforms: TriggerRates, for any number  *)
(* of boards and runs and any length of a second.                           *)

(* The update is between m_prev_time and the reading of the clock it made;  *)
(* a count taken for a rate is not ahead of the counter.                    *)
InOrder ==
    /\ prevTime <= now /\ nowS <= now /\ now >= Epoch
    /\ step \in {"window", "tick"} => prevTime <= nowS
    /\ step = "store" => cur <= cnt[i]

Counts == RateTypeOK /\ InOrder /\ PrevNotAhead

LEMMA CountsInit == RateInit => Counts
<1> SUFFICES ASSUME RateInit PROVE Counts
  OBVIOUS
<1>1. Epoch \in Nat /\ MaxTime \in Nat /\ MaxEvents \in Nat /\ MaxRun \in Nat /\ 0 \in Board
  BY RateAssumption DEF Board
<1>2. RateTypeOK
  BY <1>1 DEF RateInit, RateTypeOK, Clock, NoRate
<1>3. InOrder /\ PrevNotAhead
  BY <1>1 DEF RateInit, InOrder, PrevNotAhead
<1> QED
  BY <1>2, <1>3 DEF Counts

(* What the steps need of the types.                                        *)
LEMMA Numbers ==
    ASSUME Counts
    PROVE  /\ NBoards \in Nat \ {0} /\ MaxEvents \in Nat /\ Epoch \in Nat /\ Second \in Nat
           /\ i \in Board /\ mi \in Board /\ 0 \in Board
           /\ \A b \in Board : b \in Int
           /\ 0 \in Clock /\ \A t \in Clock : t \in Nat
           /\ \A x, y \in Clock : x <= y => y - x \in Clock
           /\ now \in Nat /\ nowS \in Nat /\ prevTime \in Nat /\ dt \in Nat /\ cur \in Nat
           /\ \A b \in Board : /\ cnt[b] \in 0 .. MaxEvents /\ prevCnt[b] \in 0 .. MaxEvents
                               /\ shown[b].dt \in Nat /\ shown[b].delta \in Nat
<1>1. /\ \A t \in Clock : t \in Nat
      /\ \A x, y \in Clock : x <= y => y - x \in Clock
  BY RateAssumption DEF Clock
<1>2. \A b \in Board : shown[b] \in [delta : Nat, dt : Nat]
  BY DEF Counts, RateTypeOK
<1> QED
  BY <1>1, <1>2, RateAssumption DEF Counts, RateTypeOK, Board, Clock

(* The worker.                                                              *)
LEMMA UpdateCounts ==
    ASSUME Counts, UpdateTriggerRates \/ CountEvent PROVE Counts'
<1> USE Numbers DEF Counts
<1>1. CASE CountEvent
  <2>1. PICK b \in Board : cnt[b] < MaxEvents /\ cnt' = [cnt EXCEPT ![b] = cnt[b] + 1]
    BY <1>1 DEF CountEvent
  <2>2. cnt \in [Board -> 0 .. MaxEvents]
    BY DEF RateTypeOK
  <2>3. cnt[b] + 1 \in 0 .. MaxEvents
    BY <2>1
  <2>4. cnt' \in [Board -> 0 .. MaxEvents]
    BY <2>1, <2>2, <2>3
  <2>5. \A c \in Board : cnt[c] <= cnt'[c]
    BY <2>1, <2>2
  <2>6. RateTypeOK'
    BY <1>1, <2>4 DEF CountEvent, workerVars, mainVars, RateTypeOK
  <2>7. InOrder'
    BY <1>1, <2>5 DEF CountEvent, workerVars, mainVars, InOrder
  <2>8. PrevNotAhead'
    <3> SUFFICES ASSUME NEW c \in Board PROVE prevCnt'[c] <= cnt'[c]
      BY DEF PrevNotAhead
    <3>1. prevCnt[c] <= cnt[c] /\ cnt[c] <= cnt'[c] /\ prevCnt' = prevCnt
      BY <1>1, <2>5 DEF CountEvent, PrevNotAhead
    <3>2. prevCnt[c] \in Int /\ cnt[c] \in Int /\ cnt'[c] \in Int
      BY <2>4
    <3> QED
      BY ONLY <3>1, <3>2
  <2> QED
    BY <2>6, <2>7, <2>8
<1>2. CASE ReadClock
  <2>1. RateTypeOK'
    BY <1>2 DEF ReadClock, mainVars, RateTypeOK
  <2>2. InOrder' /\ PrevNotAhead'
    BY <1>2 DEF ReadClock, mainVars, InOrder, PrevNotAhead
  <2> QED
    BY <2>1, <2>2
<1>3. CASE Window
  <2>1. dt' \in Clock
    BY <1>3 DEF Window, RateTypeOK, InOrder
  <2>2. RateTypeOK'
    BY <1>3, <2>1 DEF Window, mainVars, RateTypeOK
  <2>3. InOrder' /\ PrevNotAhead'
    BY <1>3 DEF Window, mainVars, InOrder, PrevNotAhead
  <2> QED
    BY <2>2, <2>3
<1>4. CASE Tick
  <2>1. RateTypeOK'
    BY <1>4 DEF Tick, mainVars, RateTypeOK
  <2>2. InOrder' /\ PrevNotAhead'
    BY <1>4 DEF Tick, mainVars, InOrder, PrevNotAhead
  <2> QED
    BY <2>1, <2>2
<1>5. CASE PublishRate
  <2> DEFINE delta == IF prevCnt[i] <= cnt[i] THEN cnt[i] - prevCnt[i] ELSE 0
  <2>1. delta \in 0 .. MaxEvents
    <3>1. cnt[i] \in 0 .. MaxEvents /\ prevCnt[i] \in 0 .. MaxEvents /\ MaxEvents \in Nat
      OBVIOUS
    <3> QED
      BY ONLY <3>1
  <2>2. rate' = [rate EXCEPT ![i] = [delta |-> delta, dt |-> dt]]
    BY <1>5 DEF PublishRate
  <2>3. shown' = [shown EXCEPT ![i] =
                         [delta |-> shown[i].delta + delta, dt |-> shown[i].dt + dt]]
    BY <1>5 DEF PublishRate
  <2> HIDE DEF delta
  <2>4. rate' \in [Board -> [delta : 0 .. MaxEvents, dt : Clock]]
    BY <2>1, <2>2 DEF RateTypeOK
  <2>5. shown' \in [Board -> [delta : Nat, dt : Nat]]
    <3>1. shown[i].delta \in Nat /\ shown[i].dt \in Nat /\ delta \in Nat /\ dt \in Nat
      BY <2>1
    <3>2. shown[i].delta + delta \in Nat /\ shown[i].dt + dt \in Nat
      BY ONLY <3>1
    <3> QED
      BY <2>3, <3>2 DEF RateTypeOK
  <2>6. RateTypeOK'
    BY <1>5, <2>4, <2>5 DEF PublishRate, mainVars, RateTypeOK
  <2>7. InOrder' /\ PrevNotAhead'
    BY <1>5 DEF PublishRate, mainVars, InOrder, PrevNotAhead
  <2> QED
    BY <2>6, <2>7
<1>6. CASE StorePrev
  <2>1. i' \in Board
    BY <1>6, RateAssumption DEF StorePrev, Board
  <2>2. RateTypeOK'
    BY <1>6, <2>1 DEF StorePrev, mainVars, RateTypeOK
  <2>3. InOrder'
    BY <1>6 DEF StorePrev, mainVars, InOrder
  <2>4. PrevNotAhead'
    BY <1>6 DEF StorePrev, InOrder, PrevNotAhead, RateTypeOK
  <2> QED
    BY <2>2, <2>3, <2>4
<1> QED
  BY <1>1, <1>2, <1>3, <1>4, <1>5, <1>6 DEF UpdateTriggerRates

(* The main thread and the clock.                                           *)
LEMMA MainCounts ==
    ASSUME Counts,
           \/ BeginOfRun \/ ResetPrevCnt \/ ResetPrevTime
           \/ Join \/ ClockTick
           \/ UNCHANGED rateVars
    PROVE  Counts'
<1> USE Numbers DEF Counts
<1>1. CASE BeginOfRun
  <2>1. RateTypeOK'
    BY <1>1, RateAssumption DEF BeginOfRun, workerVars, RateTypeOK
  <2>2. InOrder' /\ PrevNotAhead'
    BY <1>1 DEF BeginOfRun, workerVars, InOrder, PrevNotAhead
  <2> QED
    BY <2>1, <2>2
<1>2. CASE ResetPrevCnt
  <2>1. mi' \in Board
    BY <1>2, RateAssumption DEF ResetPrevCnt, Board
  <2>2. prevCnt' \in [Board -> 0 .. MaxEvents]
    BY <1>2 DEF ResetPrevCnt, RateTypeOK
  <2>3. RateTypeOK'
    BY <1>2, <2>1, <2>2 DEF ResetPrevCnt, workerVars, RateTypeOK
  <2>4. InOrder'
    BY <1>2 DEF ResetPrevCnt, workerVars, InOrder
  <2>5. PrevNotAhead'
    BY <1>2 DEF ResetPrevCnt, PrevNotAhead, RateTypeOK
  <2> QED
    BY <2>3, <2>4, <2>5
<1>3. CASE ResetPrevTime
  <2>1. RateTypeOK'
    BY <1>3 DEF ResetPrevTime, workerVars, RateTypeOK
  <2>2. InOrder' /\ PrevNotAhead'
    BY <1>3 DEF ResetPrevTime, workerVars, InOrder, PrevNotAhead
  <2> QED
    BY <2>1, <2>2
<1>4. CASE Join
  BY <1>4 DEF Join, workerVars, RateTypeOK, InOrder, PrevNotAhead
<1>5. CASE ClockTick
  <2>1. now' \in Clock
    BY <1>5, RateAssumption DEF ClockTick, Clock, RateTypeOK
  <2>2. RateTypeOK'
    BY <1>5, <2>1 DEF ClockTick, workerVars, mainVars, RateTypeOK
  <2>3. InOrder' /\ PrevNotAhead'
    BY <1>5 DEF ClockTick, workerVars, mainVars, InOrder, PrevNotAhead
  <2> QED
    BY <2>2, <2>3
<1>6. CASE UNCHANGED rateVars
  BY <1>6 DEF rateVars, workerVars, mainVars, RateTypeOK, InOrder,
                   PrevNotAhead
<1> QED
  BY <1>1, <1>2, <1>3, <1>4, <1>5, <1>6

LEMMA CountsStep ==
     Counts /\ [RateNext]_rateVars => Counts'
  BY UpdateCounts, MainCounts DEF RateNext

LEMMA CountsInvariant == RateSpec => []Counts
  BY CountsInit, CountsStep, PTL DEF RateSpec

(* Type correctness: above all dt is never negative, although begin_of_run()*)
(* sets m_prev_time in the middle of an update.                             *)
THEOREM RatesTypeCorrect == RateSpec => []RateTypeOK
<1>1. Counts => RateTypeOK
  BY DEF Counts
<1> QED
  BY <1>1, CountsInvariant, PTL

(* The last count of a board never passes its counter.                      *)
THEOREM NeverAhead == RateSpec => []PrevNotAhead
<1>1. Counts => PrevNotAhead
  BY DEF Counts
<1> QED
  BY <1>1, CountsInvariant, PTL

-----------------------------------------------------------------------------
(* The windows, up to the first run: what was shown of a board, together    *)
(* with the window that is still to be published for it, lies between the   *)
(* start of the front end and m_prev_time.                                  *)
Pending(b) == IF (step = "rate" /\ b >= i) \/ (step = "store" /\ b > i) THEN dt ELSE 0

Published(b) == shown[b].delta = (IF step = "store" /\ i = b THEN cur ELSE prevCnt[b])

Windows ==
    runs = 0 =>
        /\ mpc = "idle"
        /\ step \in {"tick", "rate", "store"} => dt >= Second
        /\ step = "tick" => dt = nowS - prevTime
        /\ IF prevTime = 0
             THEN step = "loop" /\ \A b \in Board : shown[b].dt = 0
             ELSE prevTime >= Epoch /\ \A b \in Board :
                      shown[b].dt + Pending(b) <= prevTime - Epoch
        /\ \A b \in Board : rate[b] # NoRate => rate[b].dt >= Second
        /\ \A b \in Board : Published(b)

LEMMA WindowsInit ==
    RateInit => Windows
  BY RateAssumption DEF RateInit, Windows, Pending, Published, NoRate, Board

LEMMA SmallRemainder ==
    ASSUME NEW m \in Nat \ {0}, NEW k \in 0 .. m - 1 PROVE k % m = k
  OBVIOUS

LEMMA WindowsStep ==
    Counts /\ Windows /\ [RateNext]_rateVars => Windows'
<1> SUFFICES ASSUME Counts, Windows, [RateNext]_rateVars, runs' = 0 PROVE Windows'
  BY DEF Windows
<1> USE Numbers DEF InOrder, PrevNotAhead
<1>1. CASE CountEvent
  BY <1>1 DEF CountEvent, workerVars, mainVars, Windows, Pending, Published
<1>2. CASE ReadClock
  <2>1. /\ runs = 0 /\ step = "loop" /\ step' = "window" /\ prevCnt' = prevCnt
        /\ UNCHANGED <<runs, mpc, i, dt, cur, shown, rate, cnt>>
    BY <1>2 DEF ReadClock, mainVars
  <2>2. prevTime' = IF prevTime = 0 THEN now ELSE prevTime
    BY <1>2 DEF ReadClock
  <2>3. \A b \in Board : Published(b)' /\ Pending(b)' = 0 /\ Pending(b) = 0
    BY <2>1 DEF Windows, Published, Pending
  <2>4. prevTime' # 0 /\ prevTime' >= Epoch
    <3>1. Epoch > 0 /\ now >= Epoch
      BY RateAssumption DEF Counts
    <3>2. prevTime # 0 => prevTime >= Epoch
      BY <2>1 DEF Windows
    <3> QED
      BY <2>2, <3>1, <3>2
  <2>5. ASSUME NEW b \in Board PROVE shown[b].dt <= prevTime' - Epoch
    <3>1. CASE prevTime = 0
      <4>1. shown[b].dt = 0 /\ prevTime' = now /\ now >= Epoch
        BY <2>1, <2>2, <3>1 DEF Windows, Counts
      <4> QED
        BY <4>1
    <3>2. CASE prevTime # 0
      <4>1. shown[b].dt + Pending(b) <= prevTime - Epoch
        BY <2>1, <3>2 DEF Windows
      <4> QED
        BY <2>2, <2>3, <3>2, <4>1
    <3> QED
      BY <3>1, <3>2
  <2>6. \A b \in Board : (shown[b].dt + Pending(b))' <= prevTime' - Epoch
    BY <2>1, <2>3, <2>5
  <2>7. \A b \in Board : rate'[b] # NoRate => rate'[b].dt >= Second
    BY <2>1 DEF Windows
  <2> QED
    BY <2>1, <2>3, <2>4, <2>6, <2>7 DEF Windows
<1>3. CASE Window
  <2>1. step' \in {"tick", "loop"} /\ (step' = "tick" => dt' >= Second) /\ dt' = nowS - prevTime
    BY <1>3 DEF Window
  <2> QED
    BY <1>3, <2>1 DEF Window, mainVars, Windows, Pending, Published
<1>4. CASE Tick
  BY <1>4 DEF Tick, mainVars, Windows, Pending, Published
<1>5. CASE PublishRate
  <2> DEFINE delta == IF prevCnt[i] <= cnt[i] THEN cnt[i] - prevCnt[i] ELSE 0
  <2>1. /\ runs = 0 /\ step = "rate" /\ step' = "store" /\ cur' = cnt[i]
        /\ UNCHANGED <<cnt, prevCnt, prevTime, i, nowS, dt, mpc, runs>>
    BY <1>5 DEF PublishRate, mainVars
  <2>2. /\ rate' = [rate EXCEPT ![i] = [delta |-> delta, dt |-> dt]]
        /\ shown' = [shown EXCEPT ![i] =
                         [delta |-> shown[i].delta + delta, dt |-> shown[i].dt + dt]]
    BY <1>5 DEF PublishRate
  <2>3. delta = cnt[i] - prevCnt[i] /\ cnt[i] \in Nat /\ prevCnt[i] \in Nat
    <3>1. cnt[i] \in 0 .. MaxEvents /\ prevCnt[i] \in 0 .. MaxEvents /\ prevCnt[i] <= cnt[i]
      BY DEF Counts, PrevNotAhead
    <3> QED
      BY ONLY <3>1
  <2>11. /\ rate \in [Board -> [delta : 0 .. MaxEvents, dt : Clock]]
         /\ shown \in [Board -> [delta : Nat, dt : Nat]]
    BY DEF Counts, RateTypeOK
  <2> HIDE DEF delta
  <2>4. \A b \in Board : b # i => rate'[b] = rate[b] /\ shown'[b] = shown[b]
    BY <2>2, <2>11
  <2>5. rate'[i].dt = dt /\ shown'[i].dt = shown[i].dt + dt
    BY <2>2, <2>11
  <2>6. shown'[i].delta = cnt[i]
    <3>1. shown'[i].delta = shown[i].delta + delta
      BY <2>2, <2>11
    <3>2. Published(i)
      BY <2>1 DEF Windows, Published
    <3> QED
      BY <2>1, <2>3, <3>1, <3>2 DEF Published
  <2>7. dt >= Second /\ prevTime # 0
    BY <2>1 DEF Windows
  <2>8. \A b \in Board : Published(b)'
    <3> SUFFICES ASSUME NEW b \in Board PROVE Published(b)'
      OBVIOUS
    <3>1. Published(b)
      BY <2>1 DEF Windows, Published
    <3> QED
      BY <2>1, <2>4, <2>6, <3>1 DEF Published
  <2>9. \A b \in Board : rate'[b] # NoRate => rate'[b].dt >= Second
    BY <2>1, <2>4, <2>5, <2>7 DEF Windows
  <2>10. \A b \in Board : (shown[b].dt + Pending(b))' <= prevTime - Epoch
    <3> SUFFICES ASSUME NEW b \in Board PROVE (shown[b].dt + Pending(b))' <= prevTime - Epoch
      OBVIOUS
    <3>1. shown[b].dt + Pending(b) <= prevTime - Epoch
      BY <2>1, <2>7 DEF Windows
    <3>2. CASE b = i
      <4>1. Pending(b) = dt /\ Pending(b)' = 0
        BY <2>1, <3>2 DEF Pending
      <4> QED
        BY <2>5, <3>1, <3>2, <4>1
    <3>3. CASE b # i
      <4>1. Pending(b) = Pending(b)'
        BY <2>1, <3>3 DEF Pending
      <4> QED
        BY <2>4, <3>1, <3>3, <4>1
    <3> QED
      BY <3>2, <3>3
  <2> QED
    BY <2>1, <2>7, <2>8, <2>9, <2>10 DEF Windows
<1>6. CASE StorePrev
  <2>1. /\ runs = 0 /\ step = "store" /\ step' = (IF i + 1 = NBoards THEN "loop" ELSE "rate")
        /\ i' = (i + 1) % NBoards /\ prevCnt' = [prevCnt EXCEPT ![i] = cur]
        /\ UNCHANGED <<prevTime, nowS, dt, cur, rate, shown, mpc, runs>>
    BY <1>6 DEF StorePrev, mainVars
  <2>2. \A b \in Board : Published(b)'
    <3> SUFFICES ASSUME NEW b \in Board PROVE Published(b)'
      OBVIOUS
    <3>1. Published(b)
      BY <2>1 DEF Windows, Published
    <3>2. prevCnt'[b] = IF b = i THEN cur ELSE prevCnt[b]
      BY <2>1 DEF Counts, RateTypeOK
    <3> QED
      BY <2>1, <3>1, <3>2 DEF Published
  <2>3. i + 1 # NBoards => i' = i + 1
    <3>1. ASSUME i + 1 # NBoards PROVE i + 1 \in 0 .. NBoards - 1 /\ NBoards \in Nat \ {0}
      BY <3>1 DEF Board
    <3>2. ASSUME i + 1 # NBoards PROVE (i + 1) % NBoards = i + 1
      BY ONLY <3>1, <3>2, SmallRemainder
    <3> QED
      BY <2>1, <3>2
  <2>4. \A b \in Board : Pending(b)' = Pending(b)
    <3> SUFFICES ASSUME NEW b \in Board PROVE Pending(b)' = Pending(b)
      OBVIOUS
    <3>0. b \in 0 .. NBoards - 1 /\ i \in 0 .. NBoards - 1 /\ NBoards \in Nat
      BY DEF Board
    <3>1. i + 1 = NBoards => ~(b > i)
      BY ONLY <3>0
    <3>2. i + 1 # NBoards => (b > i <=> b >= i')
      BY ONLY <3>0, <2>3
    <3> QED
      BY <2>1, <3>1, <3>2 DEF Pending
  <2> QED
    <3>1. \A b \in Board : (shown[b].dt + Pending(b))' = shown[b].dt + Pending(b)
      BY <2>1, <2>4
    <3>2. dt >= Second /\ prevTime # 0
      BY <2>1 DEF Windows
    <3>3. \A b \in Board : (shown[b].dt + Pending(b))' <= prevTime' - Epoch
      BY <2>1, <3>1, <3>2 DEF Windows
    <3> QED
      <4>1. mpc' = "idle" /\ prevTime' # 0 /\ prevTime' >= Epoch
        BY <2>1, <3>2 DEF Windows
      <4>2. \A b \in Board : rate'[b] # NoRate => rate'[b].dt >= Second
        BY <2>1 DEF Windows
      <4>3. step' # "tick" /\ dt' >= Second
        BY <2>1, <3>2
      <4> QED
        BY ONLY <2>2, <3>3, <4>1, <4>2, <4>3 DEF Windows
<1>7. CASE BeginOfRun
  BY <1>7 DEF BeginOfRun, Counts, RateTypeOK
<1>8. CASE ResetPrevCnt \/ ResetPrevTime \/ Join
  BY <1>8 DEF ResetPrevCnt, ResetPrevTime, Join, Windows
<1>9. CASE ClockTick
  BY <1>9 DEF ClockTick, workerVars, mainVars, Windows, Pending, Published
<1>10. CASE UNCHANGED rateVars
  BY <1>10 DEF rateVars, workerVars, mainVars, Windows, Pending, Published
<1> QED
  BY <1>1, <1>2, <1>3, <1>4, <1>5, <1>6, <1>7, <1>8, <1>9, <1>10
     DEF RateNext, UpdateTriggerRates

(* The rates the status panel has shown add up to the events captured, over *)
(* windows that do not overlap: update_trigger_rates() on its own, for any  *)
(* number of boards and any times.                                          *)
THEOREM RatesAreExact == RateSpec => []RatesAddUp
<1>1. Counts /\ Windows => RatesAddUp
  <2> SUFFICES ASSUME Counts, Windows, runs = 0, NEW b \in Board
               PROVE  /\ Published(b) /\ (rate[b] # NoRate => rate[b].dt >= Second)
                      /\ shown[b].dt <= now - Epoch
    BY DEF RatesAddUp, Published
  <2>1. shown[b].dt \in Nat /\ dt \in Nat /\ Epoch \in Nat /\ prevTime \in Nat /\ now \in Nat
    BY RateAssumption DEF Counts, RateTypeOK, Clock
  <2>2. Pending(b) >= 0 /\ Pending(b) \in Nat
    BY <2>1 DEF Pending
  <2>3. shown[b].dt <= now - Epoch
    <3>1. prevTime <= now /\ now >= Epoch
      BY DEF Counts, InOrder
    <3>2. CASE prevTime = 0
      BY <2>1, <3>1, <3>2 DEF Windows
    <3>3. CASE prevTime # 0
      <4>1. shown[b].dt + Pending(b) <= prevTime - Epoch
        BY <3>3 DEF Windows
      <4> QED
        BY <2>1, <2>2, <3>1, <4>1
    <3> QED
      BY <3>2, <3>3
  <2> QED
    BY <2>3 DEF Windows, Published
<1> QED
  BY <1>1, CountsInvariant, WindowsInit, WindowsStep, PTL DEF RateSpec
=============================================================================
