------------------------------- MODULE Codec -------------------------------
(***************************************************************************)
(* Records as bytes: lengths as varints (src/util/mod.rs), the two record  *)
(* formats (src/disk/encode.rs) and how they are read back                 *)
(* (src/disk/decode.rs).                                                   *)
(*                                                                         *)
(* A varint byte carries 7 bits and a continuation bit; here it carries a  *)
(* digit of base Base, 128 in the code, so that every length of a varint   *)
(* occurs with short values.  Bytes of keys and values are opaque numbers. *)
(***************************************************************************)
EXTENDS Integers, SequencesExt

CONSTANTS
    Base,         \* digits of a varint byte
    None          \* Option::None

ASSUME CodecAssumption == Base \in Nat \ {0, 1}

DATA_LOG_HEADER == 0
TOMBSTONE_LOG_HEADER == 1

----------------------------------------------------------------------------
(* Varints and buffers.  Offsets count from 0, as in the code.             *)

encode_varint[v \in Nat] ==
    IF v < Base THEN << v >>
    ELSE << Base + (v % Base) >> \o encode_varint[v \div Base]

\* What s bytes do not hold any more; a shift by 7 in the code.
upper_bound[s \in Nat] == IF s = 0 THEN 1 ELSE Base * upper_bound[s - 1]

varint_size_from_len(len) ==
    CHOOSE s \in 1..10 :
        len < upper_bound[s] /\ (s = 1 \/ len >= upper_bound[s - 1])

\* decode_varint: the number and how many bytes it takes.
decode_varint(b, off) ==
    LET n == CHOOSE i \in 1..(Len(b) - off) :
                /\ b[off + i] < Base
                /\ \A j \in 1..(i - 1) : b[off + j] >= Base
        varint[i \in 0..n] ==
            IF i = 0 THEN 0
            ELSE varint[i - 1] + (b[off + i] % Base) * upper_bound[i - 1]
    IN  [val |-> varint[n], len |-> n]

InRange(b, view) == view[1] + view[2] <= Len(b)

Slice(b, view) == SubSeq(b, view[1] + 1, view[1] + view[2])

\* Vec::resize with 0.
resize(b, n) == [i \in 1..n |-> IF i <= Len(b) THEN b[i] ELSE 0]

\* b[off..off + s.len()].copy_from_slice(s)
Put(b, off, s) ==
    [i \in DOMAIN b |-> IF i > off /\ i <= off + Len(s) THEN s[i - off] ELSE b[i]]

----------------------------------------------------------------------------
(* Encoding and decoding.                                                  *)

\* encode_data_record
encode_data_record(k, v) ==
    LET body == encode_varint[Len(k)] \o k \o encode_varint[Len(v)] \o v
    IN  << DATA_LOG_HEADER >> \o encode_varint[Len(body)] \o body

\* encode_tombstone_record
encode_tombstone_record(k) ==
    LET body == encode_varint[Len(k)] \o k
    IN  << TOMBSTONE_LOG_HEADER >> \o encode_varint[Len(body)] \o body

\* Mutant: the value's bytes are not skipped.
decode_disk_record_short(b, off) ==
    LET log  == decode_varint(b, off + 1)
        klen == decode_varint(b, off + 1 + log.len)
        koff == off + 1 + log.len + klen.len
        vlen == decode_varint(b, koff + klen.val)
        voff == koff + klen.val + vlen.len
    IN  CASE b[off + 1] = DATA_LOG_HEADER ->
                [key |-> Slice(b, << koff, klen.val >>),
                 value |-> Slice(b, << voff, vlen.val >>), end |-> voff]
          [] b[off + 1] = TOMBSTONE_LOG_HEADER ->
                [key |-> Slice(b, << koff, klen.val >>),
                 value |-> None, end |-> koff + klen.val]
          [] OTHER -> None

\* decode_disk_record: the key, the value and what follows them; None where
\* the header is of neither kind.
decode_disk_record(b, off) ==
    LET log  == decode_varint(b, off + 1)
        klen == decode_varint(b, off + 1 + log.len)
        koff == off + 1 + log.len + klen.len
        vlen == decode_varint(b, koff + klen.val)
        voff == koff + klen.val + vlen.len
    IN  CASE b[off + 1] = DATA_LOG_HEADER ->
                [key |-> Slice(b, << koff, klen.val >>),
                 value |-> Slice(b, << voff, vlen.val >>), end |-> voff + vlen.val]
          [] b[off + 1] = TOMBSTONE_LOG_HEADER ->
                [key |-> Slice(b, << koff, klen.val >>),
                 value |-> None, end |-> koff + klen.val]
          [] OTHER -> None
=============================================================================
