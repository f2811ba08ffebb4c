---------------------------- MODULE MCCompaction ----------------------------
(***************************************************************************)
(* Instances of Compaction for TLC.                                        *)
(***************************************************************************)
EXTENDS Compaction

Keys2 == 1..2
Keys3 == 1..3
=============================================================================
