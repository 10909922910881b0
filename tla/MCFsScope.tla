------------------------------ MODULE MCFsScope ------------------------------
(* FsScope for TLC: files are only compared with each other.                  *)
EXTENDS FsScope, TLC

Symmetry == Permutations(File)
=============================================================================
