------------------------------- MODULE MCTree -------------------------------
(***************************************************************************)
(* Instance of Tree for TLC.  Eight keys are the fewest with which a       *)
(* recolouring leads to a rotation further up.  One key is deleted and     *)
(* written again too.                                                      *)
(***************************************************************************)
EXTENDS Tree

Keys9 == 1..9

Written == {[key |-> k, datum |-> 1] : k \in Keys9}

Deleted == {[key |-> 4, datum |-> Tombstone]}

Entries9 == Written \cup Deleted
=============================================================================
