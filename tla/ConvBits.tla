------------------------------ MODULE ConvBits ------------------------------
(***************************************************************************)
(* BitString: src/conversions/bitstring/plruby_bitstring.c.  A string is a *)
(* sequence of 0 and 1; the code keeps it in bytes, the last one filled    *)
(* with 0.                                                                 *)
(***************************************************************************)
EXTENDS Integers, Sequences, SequencesExt

CONSTANTS
  Byte,    \* BITS_PER_BYTE
  Nil

ASSUME BitsAssumption == Byte \in Nat \ {0}

Zeros(n) == [i \in 1..n |-> 0]

Bytes(bits) == (Len(bits) + Byte - 1) \div Byte

Padded(bits) == bits \o Zeros(Bytes(bits) * Byte - Len(bits))

(* The n-th byte, from 0, of the string.                                   *)
ByteAt(bits, n) == SubSeq(Padded(bits), n * Byte + 1, (n + 1) * Byte)

ShiftLeft(byte, n) == SubSeq(byte, n + 1, Len(byte)) \o Zeros(n)

(* Where an index from the end, or out of the string, leads.               *)
Place(bits, idx) ==
  LET place == IF idx < 0 THEN Len(bits) + idx ELSE idx IN
  IF place < 0 \/ place >= Len(bits) THEN Nil ELSE place

(* pl_bit_aref answers the highest bit of the byte, once it is shifted;    *)
(* but x = *sp <<= n shifts the byte in the string, not a copy of it.      *)
AfterBit(bits, place) ==
  LET byte == place \div Byte
      shifted == ShiftLeft(ByteAt(bits, byte), place % Byte)
  IN  [i \in DOMAIN bits |->
        IF (i - 1) \div Byte = byte THEN shifted[((i - 1) % Byte) + 1]
        ELSE bits[i]]

(* pl_bit_aset: String#[]= answers the value that is assigned, and that    *)
(* becomes the string.                                                     *)
Assigned(bits, idx, other) == other

(* pl_bit_substr                                                           *)
Substr(bits, beg, len) ==
  LET first == IF beg < 0 THEN beg + Len(bits) ELSE beg
      count == IF first + len > Len(bits) THEN Len(bits) - first ELSE len
  IN  IF len < 0 \/ beg > Len(bits) \/ first < 0 THEN Nil
      ELSE SubSeq(bits, first + 1, first + count)

EachHas_padded(i, bits) == i < Bytes(bits) * Byte

(* pl_bit_each: all bytes but the last one, then what is left.             *)
EachHas(i, bits) == i < Len(bits)

(* x, the rest of the byte that bit i is in.                               *)
EachByte(i, x, bits) ==
  IF i % Byte = 0 THEN ByteAt(bits, i \div Byte) ELSE x

(* The backend's bit(bits, length, true), an explicit cast: it cuts or     *)
(* fills to the length of a column; 0 or less is no length.                *)
Cast(bits, length) ==
  IF length <= 0 THEN bits
  ELSE IF Len(bits) >= length THEN SubSeq(bits, 1, length)
  ELSE bits \o Zeros(length - Len(bits))

=============================================================================
