-------------------------------- MODULE MCUsb -------------------------------
(* Instances of Usb for TLC: the main thread and the worker, two boards.    *)
EXTENDS Usb, TLC

Symmetric == Permutations(Thread) \cup Permutations(Board)
=============================================================================
