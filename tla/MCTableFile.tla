---------------------------- MODULE MCTableFile ----------------------------
(***************************************************************************)
(* Instance of TableFile for TLC: bytes of three values, keys that are     *)
(* prefixes of each other, a node that can have all three children.        *)
(***************************************************************************)
EXTENDS TableFile

Keys8 == {<< >>, << 0 >>, << 1 >>, << 2 >>, << 0, 0 >>, << 0, 1 >>, << 0, 2 >>,
          << 1, 2 >>}

Code(k) == FoldLeft(LAMBDA n, c : 4 * n + c + 1, 0, k)

\* All keys alike; keys apart; keys that differ in their step only.
Hashes3 ==
    { << [k \in Keys8 |-> 3], [k \in Keys8 |-> 0] >>,
      << [k \in Keys8 |-> Code(k) % 16], [k \in Keys8 |-> (5 * Code(k) + 1) % 16] >>,
      << [k \in Keys8 |-> 0], [k \in Keys8 |-> (3 * Code(k)) % 16] >> }
=============================================================================
