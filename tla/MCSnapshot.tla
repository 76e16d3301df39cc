----------------------------- MODULE MCSnapshot -----------------------------
(* TLC instances of Snapshot.  A stale .tmp file, the live file and a file  *)
(* still being read are three inodes; the fourth is there so that open() of *)
(* a new .tmp always finds one.  Inode numbers are interchangeable and all  *)
(* properties are invariants or action properties, so symmetry is sound.    *)
EXTENDS Snapshot, TLC

InodeSymmetry == Permutations(Inodes)
=============================================================================
