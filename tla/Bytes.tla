------------------------------- MODULE Bytes -------------------------------
(***************************************************************************)
(* Bytes, big-endian words and bit fields, as the encoders and decoders of *)
(* the protocol use them.  A byte string is a sequence of numbers.         *)
(***************************************************************************)
EXTENDS Integers, Sequences

CONSTANTS
    None,    \* an Option that is absent
    Err,     \* a Result that is an error
    Panic    \* a slice outside its data

Byte == 0 .. 255

(* to_be_bytes and from_be_bytes of a u16, and its wrap-around. *)
Be16(n) == <<(n \div 256) % 256, n % 256>>
Word(hi, lo) == hi * 256 + lo
WordAt(data, i) == Word(data[i], data[i + 1])

(* b & (2^k - 1); (b >> k) & (2^n - 1); b & 2^k # 0; and a flag as a bit. *)
Low(b, k) == b % 2 ^ k
Field(b, k, n) == (b \div 2 ^ k) % 2 ^ n
Set(b, k) == Field(b, k, 1) = 1
Bit(flag, k) == IF flag THEN 2 ^ k ELSE 0

(* data[from..] of a slice, counted from zero. *)
From(data, n) == SubSeq(data, n + 1, Len(data))
=============================================================================
