----------------------------- MODULE MCLsmlite -----------------------------
(***************************************************************************)
(* Instances of Lsmlite for TLC.                                           *)
(***************************************************************************)
EXTENDS LsmliteStore

\* Keys and tasks are interchangeable: safety runs may identify them.
Symmetry == Permutations(Key) \cup Permutations(Writers \ Readers)
============================================================================
