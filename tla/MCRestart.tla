----------------------------- MODULE MCRestart -----------------------------
(***************************************************************************)
(* Instances of LsmliteRestart for TLC.                                    *)
(***************************************************************************)
EXTENDS LsmliteRestart

\* Keys are interchangeable.
Symmetry == Permutations(Key)
============================================================================
