------------------------------ MODULE Snapshot ------------------------------
(***************************************************************************)
(* The waveform snapshot for the web page: do_snapshot() on the worker     *)
(* thread, the HTTP server that delivers drs4_snapshot.json to the page's  *)
(* loadSnapshot(), the operator's SnapshotWaveform request, and what a     *)
(* crash of the front end or a power failure leaves on the disk.           *)
(*                                                                         *)
(* A file is an inode: which snapshot was written to it, how many chunks   *)
(* of it, how many of them are known to be on stable storage, and what     *)
(* became of its fsync(): it failed, or it failed and the power failed     *)
(* afterwards.  While there is power what was written stays in the cache.  *)
(* The directory maps the live path and the .tmp path to inodes; its       *)
(* changes reach stable storage in order, some time after they were made.  *)
(***************************************************************************)
EXTENDS Naturals, Sequences

CONSTANTS
    Inodes,      \* inode numbers
    NoFile,      \* a path without a file
    Chunks,      \* write() calls one snapshot takes
    MaxSnap,     \* bound: snapshots taken
    MaxCrash     \* bound: crashes and power failures

ASSUME SnapshotAssumption ==
    /\ NoFile \notin Inodes
    /\ Chunks \in Nat \ {0} /\ MaxSnap \in Nat /\ MaxCrash \in Nat

VARIABLES
    inode,       \* [Inodes -> [ver, len, synced, fsync]]
    dir,         \* [live, tmp -> inode]: the directory as processes see it
    dirLog,      \* the directory states that may be on stable storage, oldest first
    pc,          \* do_snapshot(): where it is
    ver,         \* the snapshot in m_snapshot_wave[], m_snapshot_time[]
    ok,          \* write_ok
    odb,         \* m_settings: SnapshotWaveform, SnapshotReady
    wanted,      \* m_snapshot_wanted
    rd,          \* the HTTP server's read: file, size at open, chunks read
    crashes

vars == <<inode, dir, dirLog, pc, ver, ok, odb, wanted, rd, crashes>>
disk == <<inode, dir, dirLog>>

NoRead == [file |-> NoFile, ver |-> 0, size |-> 0, got |-> 0]

InUse(f) == \/ rd.file = f
            \/ \E k \in 1 .. Len(dirLog) : f \in {dirLog[k].live, dirLog[k].tmp}

SetDir(d) == dir' = d /\ dirLog' = Append(dirLog, d)

-----------------------------------------------------------------------------
(* do_snapshot(), with the capture that precedes it under m_snapshot_mutex. *)

Capture ==
    /\ pc = "idle" /\ ver < MaxSnap
    /\ ver' = ver + 1 /\ pc' = "open"
    /\ UNCHANGED <<disk, ok, odb, wanted, rd, crashes>>

(* open(tmp, O_WRONLY | O_CREAT | O_TRUNC): a .tmp file a crash left behind *)
(* is truncated and used again.                                             *)
Open ==
    /\ pc = "open"
    /\ \E f \in Inodes :
          /\ IF dir.tmp = NoFile THEN ~InUse(f) /\ SetDir([dir EXCEPT !.tmp = f])
                                 ELSE f = dir.tmp /\ UNCHANGED <<dir, dirLog>>
          /\ inode' = [inode EXCEPT ![f] = [ver |-> ver, len |-> 0, synced |-> 0,
                                                fsync |-> "ok"]]
    /\ pc' = "write" /\ ok' = TRUE
    /\ UNCHANGED <<ver, odb, wanted, rd, crashes>>

(* `return;`: neither flag in the ODB is touched.                           *)
OpenFails ==
    /\ pc = "open" /\ pc' = "idle"
    /\ UNCHANGED <<disk, ver, ok, odb, wanted, rd, crashes>>

Write ==
    /\ pc = "write" /\ ok
    /\ inode[dir.tmp].len < Chunks
    /\ \/ inode' = [inode EXCEPT ![dir.tmp].len = @ + 1] /\ UNCHANGED ok
       \/ ok' = FALSE /\ UNCHANGED inode
    /\ UNCHANGED <<dir, dirLog, pc, ver, odb, wanted, rd, crashes>>

(* Mutated form: write_ok is not looked at.                                 *)
SyncIgnoresError ==
    /\ pc = "write" /\ (ok => inode[dir.tmp].len = Chunks)
    /\ inode' = [inode EXCEPT ![dir.tmp].synced = inode[dir.tmp].len]
    /\ pc' = "rename"
    /\ UNCHANGED <<dir, dirLog, ver, ok, odb, wanted, rd, crashes>>

(* Mutated form: no fsync() before the rename.                              *)
SyncForgotten ==
    /\ pc = "write" /\ (ok => inode[dir.tmp].len = Chunks)
    /\ pc' = IF ok THEN "rename" ELSE "unlink"
    /\ UNCHANGED <<disk, ver, ok, odb, wanted, rd, crashes>>

(* fsync(fd) if everything was written, then close(fd).  Nobody looks at    *)
(* what fsync() returns.                                                    *)
Sync ==
    /\ pc = "write"
    /\ \/ /\ ok /\ inode[dir.tmp].len = Chunks
          /\ \/ inode' = [inode EXCEPT ![dir.tmp].synced = Chunks]
             \/ inode' = [inode EXCEPT ![dir.tmp].fsync = "failed"]
          /\ pc' = "rename"
       \/ /\ ~ok
          /\ UNCHANGED inode
          /\ pc' = "unlink"
    /\ UNCHANGED <<dir, dirLog, ver, ok, odb, wanted, rd, crashes>>

Rename ==
    /\ pc = "rename"
    /\ \/ /\ SetDir([live |-> dir.tmp, tmp |-> NoFile]) /\ pc' = "flags"
       \/ /\ pc' = "unlink" /\ UNCHANGED <<dir, dirLog>>
    /\ UNCHANGED <<inode, ver, ok, odb, wanted, rd, crashes>>

(* Mutated form: the live path is removed instead of the .tmp path.         *)
UnlinkLive ==
    /\ pc = "unlink" /\ pc' = "flags"
    /\ SetDir([dir EXCEPT !.live = NoFile])
    /\ UNCHANGED <<inode, ver, ok, odb, wanted, rd, crashes>>

Unlink ==
    /\ pc = "unlink" /\ pc' = "flags"
    /\ SetDir([dir EXCEPT !.tmp = NoFile])
    /\ UNCHANGED <<inode, ver, ok, odb, wanted, rd, crashes>>

(* m_settings["SnapshotWaveform"] = false, m_settings["SnapshotReady"] =    *)
(* true, whether the file was written or not.                               *)
Flags ==
    /\ pc = "flags" /\ pc' = "idle"
    /\ odb' = [waveform |-> FALSE, ready |-> TRUE]
    /\ UNCHANGED <<disk, ver, ok, wanted, rd, crashes>>

DoSnapshot == Open \/ OpenFails \/ Write \/ Sync \/ Rename \/ Unlink \/ Flags

-----------------------------------------------------------------------------
(* The operator's request: the watch only sets m_snapshot_wanted, which no  *)
(* loop reads.                                                              *)
Request ==
    /\ ~odb.waveform
    /\ odb' = [odb EXCEPT !.waveform = TRUE]
    /\ wanted' = TRUE
    /\ UNCHANGED <<disk, pc, ver, ok, rd, crashes>>

(* The HTTP server (external): it opens the live path, takes its size and   *)
(* reads that many bytes.                                                   *)
Fetch ==
    /\ rd.file = NoFile /\ dir.live # NoFile
    /\ rd' = [file |-> dir.live, ver |-> inode[dir.live].ver,
              size |-> inode[dir.live].len, got |-> 0]
    /\ UNCHANGED <<disk, pc, ver, ok, odb, wanted, crashes>>

FetchChunk ==
    /\ rd.file # NoFile
    /\ rd.got < rd.size /\ rd.got < inode[rd.file].len /\ rd.ver = inode[rd.file].ver
    /\ rd' = [rd EXCEPT !.got = @ + 1]
    /\ UNCHANGED <<disk, pc, ver, ok, odb, wanted, crashes>>

FetchDone ==
    /\ rd.file # NoFile /\ rd.got = rd.size
    /\ rd' = NoRead
    /\ UNCHANGED <<disk, pc, ver, ok, odb, wanted, crashes>>

-----------------------------------------------------------------------------
(* The front end dies and is started again: init() runs                     *)
(* create_snapshot_odb(), the files stay as they are.                       *)
Restarted == /\ pc' = "idle" /\ ok' = FALSE /\ wanted' = FALSE
             /\ odb' = [waveform |-> FALSE, ready |-> FALSE]
             /\ crashes' = crashes + 1

Crash ==
    /\ crashes < MaxCrash
    /\ Restarted
    /\ UNCHANGED <<disk, ver, rd>>

(* Power failure: the directory is one of the states since the last one     *)
(* known to be stable, a file keeps at least its synced chunks.             *)
PowerFailure ==
    /\ crashes < MaxCrash
    /\ Restarted
    /\ \E k \in 1 .. Len(dirLog) : dir' = dirLog[k] /\ dirLog' = <<dirLog[k]>>
    /\ \E keep \in [Inodes -> 0 .. Chunks] :
          /\ \A f \in Inodes : keep[f] \in inode[f].synced .. inode[f].len
          /\ inode' = [f \in Inodes |-> [ver |-> inode[f].ver, len |-> keep[f],
                                         synced |-> keep[f],
                                         fsync |-> IF inode[f].fsync = "ok"
                                                   THEN "ok" ELSE "lost"]]
    /\ rd' = NoRead
    /\ UNCHANGED ver

(* The file system writes the directory out at a time of its own choosing.  *)
DirectoryReachesDisk ==
    /\ Len(dirLog) > 1
    /\ dirLog' = Tail(dirLog)
    /\ UNCHANGED <<inode, dir, pc, ver, ok, odb, wanted, rd, crashes>>

-----------------------------------------------------------------------------
Init ==
    /\ inode = [f \in Inodes |-> [ver |-> 0, len |-> 0, synced |-> 0, fsync |-> "ok"]]
    /\ dir = [live |-> NoFile, tmp |-> NoFile] /\ dirLog = <<dir>>
    /\ pc = "idle" /\ ver = 0 /\ ok = FALSE
    /\ odb = [waveform |-> FALSE, ready |-> FALSE] /\ wanted = FALSE
    /\ rd = NoRead /\ crashes = 0

Next == \/ Capture \/ DoSnapshot \/ Request
        \/ Fetch \/ FetchChunk \/ FetchDone
        \/ Crash \/ PowerFailure \/ DirectoryReachesDisk

Spec == Init /\ [][Next]_vars

-----------------------------------------------------------------------------
TypeOK ==
    /\ inode \in [Inodes -> [ver : 0 .. MaxSnap, len : 0 .. Chunks, synced : 0 .. Chunks,
                             fsync : {"ok", "failed", "lost"}]]
    /\ dir \in [live : Inodes \cup {NoFile}, tmp : Inodes \cup {NoFile}]
    /\ \A k \in 1 .. Len(dirLog) : dirLog[k] \in [live : Inodes \cup {NoFile},
                                                  tmp : Inodes \cup {NoFile}]
    /\ pc \in {"idle", "open", "write", "rename", "unlink", "flags"}
    /\ ver \in 0 .. MaxSnap /\ ok \in BOOLEAN /\ wanted \in BOOLEAN
    /\ odb \in [waveform : BOOLEAN, ready : BOOLEAN] /\ crashes \in 0 .. MaxCrash
    /\ rd \in [file : Inodes \cup {NoFile}, ver : 0 .. MaxSnap,
               size : 0 .. Chunks, got : 0 .. Chunks]

(* A read that was begun concerns one snapshot and can be finished, and it  *)
(* gets all of it, whatever do_snapshot() does meanwhile and whatever a     *)
(* crash left behind; only a file that fsync() failed for may be cut, once  *)
(* the power failed.                                                        *)
ReadsWholeSnapshot ==
    rd.file # NoFile =>
        /\ inode[rd.file].ver = rd.ver /\ inode[rd.file].len = rd.size
        /\ inode[rd.file].fsync # "lost" => rd.size = Chunks

(* The live file is complete on stable storage before it is live, so also   *)
(* after a power failure at any moment, unless its fsync() failed.          *)
LiveSurvivesPowerFailure ==
    \A k \in 1 .. Len(dirLog) :
        dirLog[k].live # NoFile /\ inode[dirLog[k].live].fsync = "ok" =>
            inode[dirLog[k].live].synced = Chunks

(* Without a power failure the page never goes back to an older snapshot.   *)
LiveMovesForward ==
    [][dir.live # NoFile /\ dir'.live # dir.live /\ ~PowerFailure =>
          dir'.live # NoFile /\ inode'[dir'.live].ver > inode[dir.live].ver]_vars

(* "mhttpd always reads either the previous complete snapshot or the new    *)
(* one, never a half-written file."  do_snapshot() renames a file whose     *)
(* fsync() failed, which breaks it after a power failure.                   *)
NeverHalfWritten == rd.file # NoFile => rd.size = Chunks

(* "fsync the file's data and the directory so the rename is durable": the  *)
(* snapshot that SnapshotReady announces is still the live one after a      *)
(* power failure.  do_snapshot() does not fsync() the directory.            *)
RenameIsDurable ==
    [][odb.ready /\ pc = "idle" /\ PowerFailure => dir'.live = dir.live]_vars
=============================================================================
