--------------------------- MODULE PlValuesProofs ---------------------------
(***************************************************************************)
(* What PlValues promises holds for every type and every value of the      *)
(* constants, as long as the kinds of data and operations that lose a      *)
(* value are counted as odd: GivenKinds for the datum that comes back,     *)
(* WalkKinds for each, TouchKinds for the reads.                           *)
(*                                                                         *)
(* The first half is about the operators.  A fold, a recursive function    *)
(* and a CHOOSE of one say nothing by themselves: Folds and Iterates are   *)
(* the functions they choose, FoldExists and IterExists that there is one, *)
(* by induction over a set of numbers (SetInduction).  With these,         *)
(* create_array nests the items of every array of one or of two dimensions *)
(* (CreateArrayIs), plruby_return_array finds the dimensions and the items *)
(* again (ReturnArrayIs), and each reads of a string of any length the     *)
(* bits of its bytes (EachStep).                                           *)
(*                                                                         *)
(* The second half is the inductive invariant: as long as no odd kind was  *)
(* met, the object and what it stands for are bound to each other by       *)
(* BitsInv, ArrayInv and ValueInv, one relation for each type.             *)
(***************************************************************************)
EXTENDS PlValues, SequenceTheorems, WellFoundedInduction, TLAPS

-----------------------------------------------------------------------------
(* Division                                                                *)

LEMMA DivMod ==
  ASSUME NEW n \in Int, NEW b \in Nat \ {0}
  PROVE  /\ n \div b \in Int /\ n % b \in 0..(b - 1)
         /\ n = (n \div b) * b + (n % b)
         /\ n >= 0 => n \div b \in Nat
OBVIOUS

LEMMA NatDivMod ==
  ASSUME NEW n \in Nat, NEW b \in Nat \ {0}
  PROVE  n \div b \in Nat /\ n % b \in 0..(b - 1) /\ n = (n \div b) * b + (n % b)
<1>1. n \in Int /\ n >= 0
  OBVIOUS
<1> QED
  BY <1>1, DivMod

LEMMA DivUnique ==
  ASSUME NEW b \in Nat \ {0}, NEW q \in Int, NEW r \in 0..(b - 1)
  PROVE  (q * b + r) \div b = q /\ (q * b + r) % b = r
OBVIOUS

LEMMA ModNext ==
  ASSUME NEW n \in Nat, NEW b \in Nat \ {0}
  PROVE  \/ (n + 1) % b = 0
         \/ (n % b) + 1 < b /\ (n + 1) % b = (n % b) + 1
<1> DEFINE q == n \div b
           r == n % b
<1>1. q \in Nat /\ r \in 0..(b - 1) /\ n = q * b + r
  BY NatDivMod
<1> HIDE DEF q, r
<1>2. CASE r + 1 < b
  <2>1. r + 1 \in 0..(b - 1) /\ n + 1 = q * b + (r + 1)
    BY <1>1, <1>2
  <2>2. (q * b + (r + 1)) % b = r + 1
    BY <1>1, <2>1, DivUnique
  <2> QED
    BY <1>2, <2>1, <2>2 DEF r
<1>3. CASE r + 1 = b
  <2>1. n + 1 = (q + 1) * b + 0 /\ q + 1 \in Int /\ 0 \in 0..(b - 1)
    BY <1>1, <1>3
  <2>2. ((q + 1) * b + 0) % b = 0
    BY <2>1, DivUnique
  <2> QED
    BY <2>1, <2>2
<1> QED
  BY <1>1, <1>2, <1>3

-----------------------------------------------------------------------------
(* Bit strings                                                             *)

Bits == Seq({0, 1})

LEMMA ZerosAre ==
  ASSUME NEW n \in Nat
  PROVE  Zeros(n) \in Bits /\ Len(Zeros(n)) = n
BY DEF Zeros, Bits

(* The bytes of a string hold it, and the rest of the last one is 0.       *)
LEMMA PaddedIs ==
  ASSUME NEW bits \in Bits, Byte \in Nat \ {0}
  PROVE  /\ Padded(bits) \in Bits /\ Bytes(bits) \in Nat
         /\ Len(Padded(bits)) = Bytes(bits) * Byte
         /\ Len(bits) <= Bytes(bits) * Byte
         /\ \A i \in 1..Len(bits) : Padded(bits)[i] = bits[i]
<1> DEFINE n == Len(bits)
           q == Bytes(bits)
           z == Zeros(q * Byte - n)
<1>1. n \in Nat
  BY DEF Bits
<1>2. q \in Nat /\ q * Byte \in Nat /\ n <= q * Byte
  <2> DEFINE m == n + Byte - 1
  <2>1. m \in Nat /\ q = m \div Byte
    BY <1>1 DEF Bytes
  <2>2. q \in Nat /\ m % Byte \in 0..(Byte - 1) /\ m = q * Byte + (m % Byte)
    BY <2>1, NatDivMod
  <2>3. q * Byte \in Nat
    BY <2>2
  <2> DEFINE x == q * Byte
             r == m % Byte
  <2>4. m = n + Byte - 1
    OBVIOUS
  <2> HIDE DEF m, q, x, r
  <2>5. x \in Nat /\ r \in 0..(Byte - 1) /\ m = x + r
    BY <2>2, <2>3 DEF x, r
  <2>6. n <= x
    BY <1>1, <2>4, <2>5
  <2> QED
    BY <2>2, <2>3, <2>6 DEF x
<1> DEFINE k == q * Byte - n
<1>3. k \in Nat /\ n + k = q * Byte
  BY <1>1, <1>2
<1>4. z \in Bits /\ Len(z) = k
  BY <1>3, ZerosAre
<1>5. Padded(bits) = bits \o z
  BY DEF Padded
<1> HIDE DEF z, q, k
<1>6. /\ bits \o z \in Bits /\ Len(bits \o z) = n + k
      /\ \A i \in 1..n : (bits \o z)[i] = bits[i]
  BY <1>1, <1>3, <1>4 DEF Bits
<1> QED
  BY <1>2, <1>3, <1>5, <1>6 DEF q

(* The n-th byte.                                                          *)
LEMMA ByteIs ==
  ASSUME NEW bits \in Bits, Byte \in Nat \ {0}, NEW n \in Nat,
         n * Byte < Len(bits)
  PROVE  /\ ByteAt(bits, n) \in Bits /\ Len(ByteAt(bits, n)) = Byte
         /\ \A k \in 1..Byte :
              n * Byte + k <= Len(bits) => ByteAt(bits, n)[k] = bits[n * Byte + k]
<1> DEFINE p == Padded(bits)
           a == n * Byte
           c == (n + 1) * Byte
           m == Bytes(bits) * Byte
<1>1. p \in Bits /\ Len(p) = m /\ Len(bits) <= m /\ m \in Nat
      /\ \A i \in 1..Len(bits) : p[i] = bits[i]
  BY PaddedIs
<1>2. a \in Nat /\ c = a + Byte
  OBVIOUS
<1>3. c <= m
  <2>1. Bytes(bits) \in Nat
    BY PaddedIs
  <2>2. n * Byte < Bytes(bits) * Byte
    BY <1>1, <1>2 DEF Bits
  <2>3. n < Bytes(bits)
    BY <2>1, <2>2
  <2>4. n + 1 <= Bytes(bits)
    BY <2>1, <2>3
  <2> QED
    BY <2>1, <2>4
<1>4. ByteAt(bits, n) = SubSeq(p, a + 1, c)
  BY DEF ByteAt
<1>5. Len(bits) \in Nat
  BY DEF Bits
<1> HIDE DEF p, a, c, m
<1>6. /\ SubSeq(p, a + 1, c) \in Bits /\ Len(SubSeq(p, a + 1, c)) = Byte
      /\ \A k \in 1..Byte : SubSeq(p, a + 1, c)[k] = p[a + k]
  <2>1. a + 1 \in 1..(c + 1) /\ c \in 1..Len(p) /\ c - (a + 1) + 1 = Byte
    BY <1>1, <1>2, <1>3
  <2> QED
    BY <1>1, <1>2, <1>3, <2>1 DEF Bits
<1> QED
  BY <1>1, <1>2, <1>4, <1>5, <1>6 DEF a

LEMMA ShiftIs ==
  ASSUME NEW byte \in Bits, Len(byte) > 0
  PROVE  LET s == ShiftLeft(byte, 1) IN
         /\ s \in Bits /\ Len(s) = Len(byte)
         /\ \A k \in 1..(Len(byte) - 1) : s[k] = byte[k + 1]
<1> DEFINE t == SubSeq(byte, 2, Len(byte))
           z == Zeros(1)
<1>1. Len(byte) \in Nat /\ byte \in Seq({0, 1})
  BY DEF Bits
<1>2. t \in Bits /\ Len(t) = Len(byte) - 1 /\ \A k \in 1..(Len(byte) - 1) : t[k] = byte[k + 1]
  <2> DEFINE n == Len(byte)
  <2>1. \A i \in 2..n : byte[i] \in {0, 1}
    BY <1>1
  <2>2. 2 \in Int /\ n \in Int /\ n > 0
    BY <1>1
  <2> HIDE DEF n
  <2>3. /\ SubSeq(byte, 2, n) \in Seq({0, 1})
        /\ Len(SubSeq(byte, 2, n)) = IF 2 <= n THEN n - 2 + 1 ELSE 0
        /\ \A i \in 1..(n - 2 + 1) : SubSeq(byte, 2, n)[i] = byte[2 + i - 1]
    BY <2>1, <2>2, SubSeqProperties
  <2>4. /\ Len(SubSeq(byte, 2, n)) = n - 1
        /\ \A i \in 1..(n - 1) : SubSeq(byte, 2, n)[i] = byte[i + 1]
    BY <2>2, <2>3
  <2> QED
    BY <2>3, <2>4 DEF n, Bits
<1>3. z \in Bits /\ Len(z) = 1
  BY ZerosAre
<1>4. ShiftLeft(byte, 1) = t \o z
  BY DEF ShiftLeft
<1> HIDE DEF t, z
<1>5. /\ t \o z \in Bits /\ Len(t \o z) = Len(byte)
      /\ \A k \in 1..(Len(byte) - 1) : (t \o z)[k] = t[k]
  <2>1. t \in Seq({0, 1}) /\ z \in Seq({0, 1})
    BY <1>2, <1>3 DEF Bits
  <2>2. /\ t \o z \in Seq({0, 1}) /\ Len(t \o z) = Len(t) + Len(z)
        /\ \A k \in 1..(Len(t) + Len(z)) :
             (t \o z)[k] = IF k <= Len(t) THEN t[k] ELSE z[k - Len(t)]
    BY <2>1, ConcatProperties
  <2> QED
    BY <1>1, <1>2, <1>3, <2>2 DEF Bits
<1> QED
  BY <1>2, <1>4, <1>5

LEMMA NoShift ==
  ASSUME NEW byte \in Bits
  PROVE  ShiftLeft(byte, 0) = byte
<1> DEFINE t == SubSeq(byte, 1, Len(byte))
           z == Zeros(0)
<1>1. t = byte /\ Len(byte) \in Nat
  BY DEF Bits
<1>2. z = <<>>
  <2>1. z \in Bits /\ Len(z) = 0
    BY ZerosAre
  <2> QED
    BY <2>1 DEF Bits
<1>3. ShiftLeft(byte, 0) = t \o z
  BY DEF ShiftLeft
<1> HIDE DEF t, z
<1> QED
  BY <1>1, <1>2, <1>3 DEF Bits

(* A reference to the first bit of a byte shifts it by nothing.            *)
LEMMA FirstOfByte ==
  ASSUME NEW bits \in Bits, Byte \in Nat \ {0}, NEW place \in Nat,
         place < Len(bits), place % Byte = 0
  PROVE  AfterBit(bits, place) = bits
<1> DEFINE b == place \div Byte
           byte == ByteAt(bits, b)
<1>1. b \in Nat /\ place = b * Byte
  <2>1. b \in Nat /\ place = b * Byte + (place % Byte)
    BY NatDivMod
  <2> HIDE DEF b
  <2>2. b * Byte \in Int
    BY <2>1
  <2> QED
    BY <2>1, <2>2
<1>2. byte \in Bits /\ \A k \in 1..Byte :
              b * Byte + k <= Len(bits) => byte[k] = bits[b * Byte + k]
  BY <1>1, ByteIs
<1>3. AfterBit(bits, place)
      = [i \in DOMAIN bits |-> IF (i - 1) \div Byte = b THEN byte[((i - 1) % Byte) + 1]
                               ELSE bits[i]]
  BY <1>2, NoShift DEF AfterBit
<1>4. ASSUME NEW i \in DOMAIN bits, (i - 1) \div Byte = b
      PROVE  byte[((i - 1) % Byte) + 1] = bits[i]
  <2> DEFINE r == (i - 1) % Byte
  <2>1. i \in 1..Len(bits) /\ i - 1 \in Nat /\ Len(bits) \in Nat
    BY DEF Bits
  <2>2. r \in 0..(Byte - 1) /\ i - 1 = b * Byte + r
    BY <1>4, <2>1, NatDivMod
  <2> HIDE DEF r, b
  <2>3. r + 1 \in 1..Byte /\ b * Byte + (r + 1) = i /\ b * Byte + (r + 1) <= Len(bits)
    BY <1>1, <2>1, <2>2
  <2>4. byte[r + 1] = bits[b * Byte + (r + 1)]
    BY <1>2, <2>3
  <2> QED
    BY <2>3, <2>4 DEF r
<1> HIDE DEF b, byte
<1>5. AfterBit(bits, place) = [i \in DOMAIN bits |-> bits[i]]
  BY <1>3, <1>4
<1>6. bits = [i \in DOMAIN bits |-> bits[i]]
  BY DEF Bits
<1> QED
  BY <1>5, <1>6

-----------------------------------------------------------------------------
(* Induction and recursion                                                 *)

LEMMA LeastNat ==
  ASSUME NEW T, T \subseteq Nat, T # {}
  PROVE  \E x \in T : \A y \in T : x <= y
<1> DEFINE R == OpToRel(<, Nat)
<1>1. IsWellFoundedOn(R, Nat)
  BY NatLessThanWellFounded
<1>2. \A x, y \in Nat : x < y => <<x, y>> \in R
  BY DEF OpToRel
<1> HIDE DEF R
<1>3. PICK x \in T : \A y \in T : <<y, x>> \notin R
  BY <1>1, WFMin
<1>4. ASSUME NEW y \in T PROVE x <= y
  <2>1. x \in Nat /\ y \in Nat /\ ~(y < x)
    BY <1>2, <1>3
  <2> QED
    BY <2>1
<1> QED
  BY <1>4

(* Induction, with a set in place of the operator of NatInduction.         *)
LEMMA SetInduction ==
  ASSUME NEW S, 0 \in S, \A n \in Nat : n \in S => n + 1 \in S
  PROVE  \A n \in Nat : n \in S
<1> SUFFICES ASSUME NEW k \in Nat, k \notin S PROVE FALSE
  OBVIOUS
<1> DEFINE T == Nat \ S
<1>1. T \subseteq Nat /\ T # {}
  OBVIOUS
<1>2. PICK x \in T : \A y \in T : x <= y
  <2> HIDE DEF T
  <2> QED
    BY <1>1, LeastNat
<1>3. x # 0 /\ x - 1 \in Nat /\ x - 1 \notin T
  BY <1>2
<1> QED
  BY <1>3

LEMMA TopIsMax ==
  ASSUME NEW n \in Nat, NEW s \in SUBSET (1..n), n \in s
  PROVE  Max(s) = n
<1>1. \A y \in s : n >= y
  OBVIOUS
<1>2. \A x \in s : (\A y \in s : x >= y) => x = n
  BY <1>1
<1> QED
  BY <1>1, <1>2 DEF Max

LEMMA MaxIn ==
  ASSUME NEW n \in Nat, NEW s \in SUBSET (1..n), s # {}
  PROVE  Max(s) \in s
<1> DEFINE T == {k \in Nat : \A y \in s : y <= k}
<1>1. T \subseteq Nat /\ n \in T
  OBVIOUS
<1>2. PICK x \in T : \A y \in T : x <= y
  <2> HIDE DEF T
  <2> QED
    BY <1>1, LeastNat
<1>3. x \in s
  <2> SUFFICES ASSUME x \notin s PROVE FALSE
    OBVIOUS
  <2>1. \A y \in s : y \in Nat /\ y <= x /\ y # x /\ y > 0
    BY <1>2
  <2>2. x > 0 /\ x - 1 \in Nat
    <3>1. PICK y \in s : TRUE
      OBVIOUS
    <3>2. x \in Nat /\ y \in Nat /\ y <= x /\ y > 0
      BY <1>2, <2>1
    <3> QED
      BY <3>2
  <2>3. \A y \in s : y <= x - 1
    BY <1>2, <2>1
  <2>4. x - 1 \in T
    BY <2>2, <2>3
  <2> QED
    BY <1>2, <2>4
<1>4. \A y \in s : x >= y
  BY <1>2
<1>5. \E z \in s : \A y \in s : z >= y
  BY <1>3, <1>4
<1> HIDE DEF T
<1> QED
  BY <1>5 DEF Max

(* g is the function of a fold over 1..m, from its end.                    *)
Folds(g, m, V, base, F) ==
  /\ g \in [SUBSET (1..m) -> V]
  /\ \A s \in SUBSET (1..m) :
       g[s] = IF s = {} THEN base ELSE F[<<Max(s), g[s \ {Max(s)}]>>]

(* There is such a function.                                               *)
LEMMA FoldExists ==
  ASSUME NEW V, NEW base \in V, NEW m \in Nat, NEW F \in [(1..m) \X V -> V]
  PROVE  \E g : Folds(g, m, V, base, F)
<1> DEFINE Is(g, k) ==
             /\ g \in [SUBSET (1..k) -> V]
             /\ \A s \in SUBSET (1..k) :
                  g[s] = IF s = {} THEN base ELSE F[<<Max(s), g[s \ {Max(s)}]>>]
           S == {k \in Nat : k <= m => \E g : Is(g, k)}
<1>0. \A k : k \in S <=> k \in Nat /\ (k <= m => \E g : Is(g, k))
  <2> HIDE DEF Is
  <2> QED
    OBVIOUS
<1> HIDE DEF S
<1>1. 0 \in S
  <2> DEFINE g == [s \in SUBSET (1..0) |-> base]
  <2>1. Is(g, 0)
    OBVIOUS
  <2> HIDE DEF g, Is
  <2> QED
    BY <1>0, <2>1
<1>2. ASSUME NEW k \in Nat, k \in S PROVE k + 1 \in S
  <2> SUFFICES ASSUME k + 1 <= m PROVE \E h : Is(h, k + 1)
    <3> HIDE DEF Is
    <3> QED
      BY <1>0, <1>2
  <2>1. PICK g : Is(g, k)
    <3> HIDE DEF Is
    <3> QED
      BY <1>0, <1>2
  <2> DEFINE h == [s \in SUBSET (1..(k + 1)) |->
                     IF k + 1 \in s THEN F[<<k + 1, g[s \ {k + 1}]>>] ELSE g[s]]
  <2>2. \A s \in SUBSET (1..(k + 1)) :
          /\ s \ {k + 1} \in SUBSET (1..k)
          /\ k + 1 \notin s => s \in SUBSET (1..k)
    OBVIOUS
  <2>3. SUBSET (1..k) \subseteq SUBSET (1..(k + 1))
    OBVIOUS
  <2>4. h \in [SUBSET (1..(k + 1)) -> V]
    <3>1. k + 1 \in 1..m
      OBVIOUS
    <3> QED
      BY <2>1, <2>2, <3>1
  <2>5. \A s \in SUBSET (1..k) : h[s] = g[s]
    <3> SUFFICES ASSUME NEW s \in SUBSET (1..k) PROVE h[s] = g[s]
      OBVIOUS
    <3>1. k + 1 \notin s
      OBVIOUS
    <3> QED
      BY <2>3, <3>1
  <2>6. ASSUME NEW s \in SUBSET (1..(k + 1))
        PROVE  h[s] = IF s = {} THEN base ELSE F[<<Max(s), h[s \ {Max(s)}]>>]
    <3>1. CASE k + 1 \in s
      <4>1. Max(s) = k + 1
        BY <3>1, TopIsMax
      <4>2. h[s \ {k + 1}] = g[s \ {k + 1}]
        BY <2>2, <2>5
      <4> HIDE DEF h
      <4>3. h[s] = F[<<k + 1, g[s \ {k + 1}]>>]
        BY <3>1 DEF h
      <4> QED
        BY <3>1, <4>1, <4>2, <4>3
    <3>2. CASE k + 1 \notin s
      <4>1. s \in SUBSET (1..k) /\ s \ {Max(s)} \in SUBSET (1..k)
        BY <2>2, <3>2
      <4>2. h[s] = g[s] /\ h[s \ {Max(s)}] = g[s \ {Max(s)}]
        BY <2>5, <4>1
      <4> HIDE DEF h
      <4> QED
        BY <2>1, <4>1, <4>2
    <3> QED
      BY <3>1, <3>2
  <2> HIDE DEF h
  <2> QED
    BY <2>4, <2>6
<1>3. m \in S
  <2> HIDE DEF Is
  <2> QED
    BY <1>1, <1>2, SetInduction
<1>4. PICK g : Is(g, m)
  <2> HIDE DEF Is
  <2> QED
    BY <1>0, <1>3
<1> QED
  BY <1>4 DEF Folds

(* g is the function of m repeated steps.                                  *)
Iterates(g, m, V, a, F) ==
  /\ g \in [0..m -> V]
  /\ \A n \in 0..m : g[n] = IF n = 0 THEN a ELSE F[g[n - 1]]

LEMMA IterExists ==
  ASSUME NEW V, NEW a \in V, NEW m \in Nat, NEW F \in [V -> V]
  PROVE  \E g : Iterates(g, m, V, a, F)
<1> DEFINE Is(g, k) ==
             /\ g \in [0..k -> V]
             /\ \A n \in 0..k : g[n] = IF n = 0 THEN a ELSE F[g[n - 1]]
           S == {k \in Nat : \E g : Is(g, k)}
<1>1. 0 \in S
  <2> DEFINE g == [n \in 0..0 |-> a]
  <2>1. Is(g, 0)
    OBVIOUS
  <2> QED
    BY <2>1
<1>2. ASSUME NEW k \in Nat, k \in S PROVE k + 1 \in S
  <2>1. PICK g : Is(g, k)
    BY <1>2
  <2> DEFINE h == [n \in 0..(k + 1) |-> IF n = k + 1 THEN F[g[k]] ELSE g[n]]
  <2>2. h \in [0..(k + 1) -> V]
    BY <2>1
  <2>3. ASSUME NEW n \in 0..(k + 1)
        PROVE  h[n] = IF n = 0 THEN a ELSE F[h[n - 1]]
    BY <2>1
  <2> HIDE DEF h
  <2> QED
    BY <2>2, <2>3
<1> HIDE DEF S
<1>3. m \in S
  BY <1>1, <1>2, SetInduction
<1> QED
  BY <1>3 DEF S, Iterates

LEMMA OneMore ==
  ASSUME NEW k \in Nat
  PROVE  /\ 1..(k + 1) # {} /\ Max(1..(k + 1)) = k + 1
         /\ (1..(k + 1)) \ {k + 1} = 1..k
<1>1. k + 1 \in Nat /\ k + 1 \in 1..(k + 1)
  OBVIOUS
<1>2. Max(1..(k + 1)) = k + 1
  BY <1>1, TopIsMax
<1>3. \A x : x \in (1..(k + 1)) \ {k + 1} <=> x \in 1..k
  OBVIOUS
<1>4. (1..(k + 1)) \ {k + 1} = 1..k
  BY <1>3
<1> QED
  BY <1>1, <1>2, <1>4

(* NotNull satisfies its recursion.                                        *)
LEMMA NotNullRec ==
  ASSUME NEW S, NEW list \in Seq(S)
  PROVE  \E g : /\ g[{}] = <<>>
                /\ \A k \in Nat : k + 1 <= Len(list) =>
                     g[1..(k + 1)] = IF list[k + 1] = Null THEN g[1..k]
                                     ELSE Append(g[1..k], list[k + 1])
                /\ NotNull(list) = g[1..Len(list)]
<1> DEFINE n == Len(list)
           V == Seq(S)
           F == [p \in (1..n) \X V |-> IF list[p[1]] = Null THEN p[2]
                                       ELSE Append(p[2], list[p[1]])]
           Eqn(g) == g = [s \in SUBSET (DOMAIN list) |->
                            IF s = {} THEN <<>>
                            ELSE IF list[Max(s)] = Null THEN g[s \ {Max(s)}]
                                 ELSE Append(g[s \ {Max(s)}], list[Max(s)])]
<1>1. n \in Nat /\ DOMAIN list = 1..n /\ \A i \in 1..n : list[i] \in S
  OBVIOUS
<1>2. F \in [(1..n) \X V -> V] /\ <<>> \in V
  OBVIOUS
<1>3. PICK g \in [SUBSET (1..n) -> V] : \A s \in SUBSET (1..n) :
           g[s] = IF s = {} THEN <<>> ELSE F[<<Max(s), g[s \ {Max(s)}]>>]
  <2> DEFINE base == <<>>
  <2>1. n \in Nat /\ base \in V /\ F \in [(1..n) \X V -> V]
    BY <1>1, <1>2
  <2> HIDE DEF F, V, n, base
  <2>2. PICK g : Folds(g, n, V, base, F)
    BY <2>1, FoldExists
  <2> QED
    BY <2>2 DEF base, Folds
<1>4. Eqn(g)
  <2>1. ASSUME NEW s \in SUBSET (1..n), s # {}
        PROVE  g[s] = IF list[Max(s)] = Null THEN g[s \ {Max(s)}]
                      ELSE Append(g[s \ {Max(s)}], list[Max(s)])
    <3>1. g[s \ {Max(s)}] \in V
      BY <1>3
    <3>2. Max(s) \in 1..n
      BY <2>1, <1>1, MaxIn
    <3> QED
      BY <1>3, <2>1, <3>1, <3>2
  <2> HIDE DEF F, V, n
  <2> QED
    BY <1>1, <1>3, <2>1
<1> DEFINE c == CHOOSE h : Eqn(h)
<1>5. Eqn(c)
  <2> HIDE DEF Eqn
  <2> QED
    BY <1>4
<1>6. NotNull(list) = c[DOMAIN list]
  BY DEF NotNull, FoldLeft, MapThenFoldSet
<1> HIDE DEF c
<1>7. c[{}] = <<>>
  BY <1>5
<1>8. ASSUME NEW k \in Nat, k + 1 <= n
      PROVE  c[1..(k + 1)] = IF list[k + 1] = Null THEN c[1..k]
                             ELSE Append(c[1..k], list[k + 1])
  <2> DEFINE s == 1..(k + 1)
  <2>1. s \in SUBSET (DOMAIN list)
    BY <1>1, <1>8
  <2>2. s # {} /\ Max(s) = k + 1 /\ s \ {Max(s)} = 1..k
    BY OneMore
  <2> HIDE DEF n, s
  <2>3. c[s] = IF list[Max(s)] = Null THEN c[s \ {Max(s)}]
               ELSE Append(c[s \ {Max(s)}], list[Max(s)])
    BY <1>5, <2>1, <2>2
  <2> QED
    BY <2>2, <2>3 DEF s
<1> QED
  BY <1>1, <1>6, <1>7, <1>8

LEMMA NotNullSame ==
  ASSUME NEW S, NEW list \in Seq(S), \A i \in DOMAIN list : list[i] # Null
  PROVE  NotNull(list) = list
<1> DEFINE n == Len(list)
<1>1. n \in Nat /\ DOMAIN list = 1..n /\ \A i \in 1..n : list[i] \in S
  OBVIOUS
<1>2. PICK g : /\ g[{}] = <<>>
               /\ \A k \in Nat : k + 1 <= n =>
                    g[1..(k + 1)] = IF list[k + 1] = Null THEN g[1..k]
                                    ELSE Append(g[1..k], list[k + 1])
               /\ NotNull(list) = g[1..n]
  BY NotNullRec
<1> DEFINE Same(k) == g[1..k] \in Seq(S) /\ Len(g[1..k]) = k
                      /\ \A i \in 1..k : g[1..k][i] = list[i]
           T == {k \in Nat : k <= n => Same(k)}
<1>3. \A k : k \in T <=> k \in Nat /\ (k <= n => Same(k))
  <2> HIDE DEF Same
  <2> QED
    OBVIOUS
<1> HIDE DEF T, n
<1>4. 0 \in T
  <2>1. 1..0 = {}
    OBVIOUS
  <2>2. g[1..0] = <<>>
    BY <1>2, <2>1
  <2>3. <<>> \in Seq(S) /\ Len(<<>>) = 0
    OBVIOUS
  <2>4. Same(0)
    BY <2>1, <2>2, <2>3
  <2> HIDE DEF Same
  <2> QED
    BY <1>3, <2>4
<1>5. ASSUME NEW k \in Nat, k \in T PROVE k + 1 \in T
  <2> SUFFICES ASSUME k + 1 <= n PROVE Same(k + 1)
    BY <1>3
  <2>1. Same(k) /\ k + 1 \in 1..n
    BY <1>1, <1>3, <1>5
  <2>2. g[1..(k + 1)] = Append(g[1..k], list[k + 1]) /\ list[k + 1] \in S
    BY <1>1, <1>2, <2>1
  <2> DEFINE f == g[1..k]
             h == g[1..(k + 1)]
  <2>3. f \in Seq(S) /\ Len(f) = k /\ (\A i \in 1..k : f[i] = list[i])
        /\ h = Append(f, list[k + 1])
    BY <2>1, <2>2
  <2> HIDE DEF f, h
  <2>4. h \in Seq(S) /\ Len(h) = k + 1 /\ \A i \in 1..(k + 1) : h[i] = list[i]
    BY <2>2, <2>3
  <2> QED
    BY <2>4 DEF h
<1>6. Same(n)
  <2> HIDE DEF Same
  <2>1. n \in T
    BY <1>1, <1>4, <1>5, SetInduction
  <2> QED
    BY <1>1, <1>3, <2>1
<1>7. NotNull(list) \in Seq(S) /\ Len(NotNull(list)) = Len(list)
      /\ \A i \in 1..Len(list) : NotNull(list)[i] = list[i]
  BY <1>2, <1>6 DEF n
<1> QED
  BY <1>7

-----------------------------------------------------------------------------
(* Array#flatten                                                           *)

Piece(value) == IF IsArray(value) THEN value ELSE <<value>>

(* g flattens what is before each place of a list of n values.             *)
Flattens(g, list, n) ==
  /\ g[{}] = <<>>
  /\ \A k \in Nat : k + 1 <= n =>
       g[1..(k + 1)] = g[1..k] \o Piece(list[k + 1])
  /\ FlattenOnce(list) = g[1..n]

LEMMA FlattenRec ==
  ASSUME NEW V, <<>> \in V, NEW n \in Nat, NEW list, DOMAIN list = 1..n,
         \A v \in V : \A i \in 1..n : v \o Piece(list[i]) \in V
  PROVE  \E g : Flattens(g, list, n)
<1> DEFINE F == [p \in (1..n) \X V |-> p[2] \o Piece(list[p[1]])]
           Eqn(g) == g = [s \in SUBSET (DOMAIN list) |->
                            IF s = {} THEN <<>>
                            ELSE g[s \ {Max(s)}] \o Piece(list[Max(s)])]
<1>2. F \in [(1..n) \X V -> V]
  OBVIOUS
<1>3. PICK g \in [SUBSET (1..n) -> V] : \A s \in SUBSET (1..n) :
           g[s] = IF s = {} THEN <<>> ELSE F[<<Max(s), g[s \ {Max(s)}]>>]
  <2> DEFINE base == <<>>
  <2>1. base \in V /\ F \in [(1..n) \X V -> V]
    BY <1>2
  <2> HIDE DEF F, base
  <2>2. PICK g : Folds(g, n, V, base, F)
    BY <2>1, FoldExists
  <2> QED
    BY <2>2 DEF base, Folds
<1>4. Eqn(g)
  <2>1. ASSUME NEW s \in SUBSET (1..n), s # {}
        PROVE  g[s] = g[s \ {Max(s)}] \o Piece(list[Max(s)])
    <3>1. g[s \ {Max(s)}] \in V
      BY <1>3
    <3>2. Max(s) \in 1..n
      BY <2>1, MaxIn
    <3> QED
      BY <1>3, <2>1, <3>1, <3>2
  <2> HIDE DEF F
  <2> QED
    BY <1>3, <2>1
<1> DEFINE c == CHOOSE h : Eqn(h)
<1>5. Eqn(c)
  <2> HIDE DEF Eqn
  <2> QED
    BY <1>4
<1>6. FlattenOnce(list) = c[DOMAIN list]
  BY DEF FlattenOnce, FoldLeft, MapThenFoldSet, Piece
<1> HIDE DEF c
<1>7. c[{}] = <<>>
  BY <1>5
<1>8. ASSUME NEW k \in Nat, k + 1 <= n
      PROVE  c[1..(k + 1)] = c[1..k] \o Piece(list[k + 1])
  <2> DEFINE s == 1..(k + 1)
  <2>1. s \in SUBSET (DOMAIN list)
    BY <1>8
  <2>2. s # {} /\ Max(s) = k + 1 /\ s \ {Max(s)} = 1..k
    BY OneMore
  <2> HIDE DEF s
  <2>3. c[s] = c[s \ {Max(s)}] \o Piece(list[Max(s)])
    BY <1>5, <2>1, <2>2
  <2> QED
    BY <2>2, <2>3 DEF s
<1> QED
  BY <1>6, <1>7, <1>8 DEF Flattens

LEMMA FlattenLeaves ==
  ASSUME NEW list \in Seq(Leaves)
  PROVE  FlattenOnce(list) = list
<1> DEFINE n == Len(list)
           V == Seq(Leaves)
<1>1. n \in Nat /\ DOMAIN list = 1..n /\ \A i \in 1..n : list[i] \in Leaves
  OBVIOUS
<1>2. \A i \in 1..n : Piece(list[i]) = <<list[i]>>
  BY <1>1 DEF Piece, IsArray
<1>3. <<>> \in V /\ \A v \in V : \A i \in 1..n : v \o Piece(list[i]) \in V
  <2> SUFFICES ASSUME NEW v \in V, NEW i \in 1..n PROVE v \o Piece(list[i]) \in V
    OBVIOUS
  <2>1. <<list[i]>> \in Seq(Leaves)
    BY <1>1
  <2>2. v \o <<list[i]>> \in Seq(Leaves)
    BY <2>1, ConcatProperties
  <2> QED
    BY <1>2, <2>2
<1>4. PICK g : Flattens(g, list, n)
  <2> HIDE DEF n, V
  <2> QED
    BY <1>1, <1>3, FlattenRec
<1> DEFINE Same(k) == g[1..k] \in Seq(Leaves) /\ Len(g[1..k]) = k
                      /\ \A i \in 1..k : g[1..k][i] = list[i]
           T == {k \in Nat : k <= n => Same(k)}
<1>5. \A k : k \in T <=> k \in Nat /\ (k <= n => Same(k))
  <2> HIDE DEF Same
  <2> QED
    OBVIOUS
<1> HIDE DEF T, n
<1>6. 0 \in T
  <2>1. 1..0 = {}
    OBVIOUS
  <2>2. g[1..0] = <<>>
    BY <1>4, <2>1 DEF Flattens
  <2>3. <<>> \in Seq(Leaves) /\ Len(<<>>) = 0
    OBVIOUS
  <2>4. Same(0)
    BY <2>1, <2>2, <2>3
  <2> HIDE DEF Same
  <2> QED
    BY <1>5, <2>4
<1>7. ASSUME NEW k \in Nat, k \in T PROVE k + 1 \in T
  <2> SUFFICES ASSUME k + 1 <= n PROVE Same(k + 1)
    BY <1>5
  <2>1. Same(k) /\ k + 1 \in 1..n
    BY <1>1, <1>5, <1>7
  <2>2. g[1..(k + 1)] = g[1..k] \o <<list[k + 1]>> /\ list[k + 1] \in Leaves
    BY <1>1, <1>2, <1>4, <2>1 DEF Flattens
  <2> DEFINE f == g[1..k]
             h == g[1..(k + 1)]
             e == list[k + 1]
  <2>3. f \in Seq(Leaves) /\ Len(f) = k /\ (\A i \in 1..k : f[i] = list[i])
        /\ h = f \o <<e>> /\ e \in Leaves
    BY <2>1, <2>2
  <2> HIDE DEF f, h, e
  <2>4. h \in Seq(Leaves) /\ Len(h) = k + 1 /\ h[k + 1] = e
        /\ \A i \in 1..k : h[i] = f[i]
    BY <2>3
  <2>5. \A i \in 1..(k + 1) : h[i] = list[i]
    BY <2>3, <2>4 DEF e
  <2> QED
    BY <2>4, <2>5 DEF h
<1>8. Same(n)
  <2> HIDE DEF Same
  <2>1. n \in T
    BY <1>1, <1>6, <1>7, SetInduction
  <2> QED
    BY <1>1, <1>5, <2>1
<1>9. FlattenOnce(list) \in Seq(Leaves) /\ Len(FlattenOnce(list)) = Len(list)
      /\ \A i \in 1..Len(list) : FlattenOnce(list)[i] = list[i]
  BY <1>4, <1>8 DEF n, Flattens
<1> QED
  BY <1>9

(* The list of an array of a rows of b items each, and the i-th of them.   *)
Row(items, b, i) == [j \in 1..b |-> items[(i - 1) * b + j]]

Rows(items, a, b) == [i \in 1..a |-> Row(items, b, i)]

LEMMA PlaceInRow ==
  ASSUME NEW a \in Nat, NEW b \in Nat \ {0}, NEW i \in 1..a, NEW j \in 1..b
  PROVE  /\ (i - 1) * b \in Nat /\ (i - 1) * b + b <= a * b
         /\ i * b = (i - 1) * b + b
         /\ (i - 1) * b + j \in 1..(a * b)
<1>1. i - 1 \in Nat /\ a - i \in Nat /\ i \in Nat
  OBVIOUS
<1>2. (i - 1) * b \in Nat /\ (a - i) * b \in Nat /\ a * b \in Nat
  BY <1>1
<1>3. i * b = (i - 1) * b + b
  BY <1>1
<1>4. a * b = (i - 1) * b + b + (a - i) * b
  BY <1>1
<1> DEFINE x == (i - 1) * b
           y == (a - i) * b
           z == a * b
<1>5. x \in Nat /\ y \in Nat /\ z = x + b + y
  BY <1>2, <1>4
<1> HIDE DEF x, y, z
<1>6. x + b <= z /\ x + j \in 1..z
  BY <1>5
<1> QED
  BY <1>2, <1>3, <1>6 DEF x, z

LEMMA RowIs ==
  ASSUME NEW S, NEW a \in Nat, NEW b \in Nat \ {0}, NEW items \in Seq(S),
         Len(items) = a * b, NEW i \in 1..a
  PROVE  Row(items, b, i) \in Seq(S) /\ Len(Row(items, b, i)) = b
<1>1. \A j \in 1..b : (i - 1) * b + j \in 1..Len(items)
  BY PlaceInRow
<1>2. \A j \in 1..b : items[(i - 1) * b + j] \in S
  BY <1>1
<1> QED
  BY <1>2 DEF Row

LEMMA RowIsArray ==
  ASSUME NEW a \in Nat, NEW b \in Nat \ {0}, NEW items \in Seq(Leaves),
         Len(items) = a * b, NEW i \in 1..a
  PROVE  IsArray(Row(items, b, i))
BY RowIs, LeavesAssumption DEF IsArray

LEMMA FlattenRows ==
  ASSUME NEW a \in Nat, NEW b \in Nat \ {0}, NEW items \in Seq(Leaves),
         Len(items) = a * b
  PROVE  FlattenOnce(Rows(items, a, b)) = items
<1> DEFINE list == Rows(items, a, b)
           V == Seq(Leaves)
<1>1. DOMAIN list = 1..a
  BY DEF Rows
<1>2. ASSUME NEW i \in 1..a
      PROVE  /\ Piece(list[i]) = Row(items, b, i)
             /\ Row(items, b, i) \in V /\ Len(Row(items, b, i)) = b
  BY RowIs, RowIsArray DEF Rows, Piece
<1>3. <<>> \in V /\ \A v \in V : \A i \in 1..a : v \o Piece(list[i]) \in V
  <2> SUFFICES ASSUME NEW v \in V, NEW i \in 1..a PROVE v \o Piece(list[i]) \in V
    OBVIOUS
  <2> DEFINE row == Row(items, b, i)
  <2>1. row \in V /\ Piece(list[i]) = row
    BY <1>2
  <2> HIDE DEF row, list
  <2>2. v \o row \in V
    BY <2>1, ConcatProperties
  <2> QED
    BY <2>1, <2>2
<1>4. PICK g : Flattens(g, list, a)
  <2> HIDE DEF list, V
  <2> QED
    BY <1>1, <1>3, FlattenRec
<1> DEFINE Same(k) == g[1..k] \in V /\ Len(g[1..k]) = k * b
                      /\ \A i \in 1..(k * b) : g[1..k][i] = items[i]
           T == {k \in Nat : k <= a => Same(k)}
<1>5. \A k : k \in T <=> k \in Nat /\ (k <= a => Same(k))
  <2> HIDE DEF Same
  <2> QED
    OBVIOUS
<1> HIDE DEF T, list
<1>6. 0 \in T
  <2>1. 1..0 = {} /\ 0 * b = 0
    OBVIOUS
  <2>2. g[1..0] = <<>>
    BY <1>4, <2>1 DEF Flattens
  <2>3. <<>> \in V /\ Len(<<>>) = 0
    OBVIOUS
  <2>4. Same(0)
    BY <2>1, <2>2, <2>3
  <2> HIDE DEF Same
  <2> QED
    BY <1>5, <2>4
<1>7. ASSUME NEW k \in Nat, k \in T PROVE k + 1 \in T
  <2> SUFFICES ASSUME k + 1 <= a PROVE Same(k + 1)
    <3> HIDE DEF Same
    <3> QED
      BY <1>5
  <2>1. Same(k) /\ k + 1 \in 1..a
    BY <1>5, <1>7
  <2> DEFINE f == g[1..k]
             h == g[1..(k + 1)]
             row == Row(items, b, k + 1)
             x == k * b
             y == (k + 1) * b
  <2>2. h = f \o row /\ row \in V /\ Len(row) = b
    BY <1>2, <1>4, <2>1 DEF Flattens
  <2>3. f \in V /\ Len(f) = x /\ (\A i \in 1..x : f[i] = items[i])
    BY <2>1
  <2>4. x \in Nat /\ y = x + b
    OBVIOUS
  <2>5. \A j \in 1..b : row[j] = items[x + j]
    BY DEF Row
  <2> HIDE DEF f, h, row, x, y
  <2>6. /\ h \in V /\ Len(h) = Len(f) + Len(row)
        /\ \A i \in 1..(Len(f) + Len(row)) :
             h[i] = IF i <= Len(f) THEN f[i] ELSE row[i - Len(f)]
    BY <2>2, <2>3, ConcatProperties
  <2>7. ASSUME NEW i \in 1..y PROVE h[i] = items[i]
    <3>1. CASE i <= x
      BY <2>2, <2>3, <2>4, <2>6, <3>1
    <3>2. CASE i > x
      <4>1. i - x \in 1..b /\ x + (i - x) = i
        BY <2>4, <3>2
      <4>2. h[i] = row[i - x]
        BY <2>2, <2>3, <2>4, <2>6, <3>2
      <4> QED
        BY <2>5, <4>1, <4>2
    <3> QED
      BY <2>4, <3>1, <3>2
  <2> QED
    BY <2>2, <2>3, <2>4, <2>6, <2>7 DEF h, y
<1>8. Same(a)
  <2> HIDE DEF Same
  <2>1. a \in T
    BY <1>6, <1>7, SetInduction
  <2> QED
    BY <1>5, <2>1
<1>9. /\ FlattenOnce(list) \in V /\ Len(FlattenOnce(list)) = Len(items)
      /\ \A i \in 1..Len(items) : FlattenOnce(list)[i] = items[i]
  BY <1>4, <1>8 DEF Flattens
<1>10. FlattenOnce(list) = items
  BY <1>9
<1> QED
  BY <1>10 DEF list

-----------------------------------------------------------------------------
(* ArrayGetNItems                                                          *)

Products(g, dims, n) ==
  /\ g[{}] = 1
  /\ \A k \in Nat : k + 1 <= n => g[1..(k + 1)] = g[1..k] * dims[k + 1]
  /\ Product(dims) = g[1..n]

LEMMA ProductRec ==
  ASSUME NEW n \in Nat, NEW dims \in [1..n -> Nat]
  PROVE  \E g : Products(g, dims, n)
<1> DEFINE F == [p \in (1..n) \X Nat |-> p[2] * dims[p[1]]]
           Eqn(g) == g = [s \in SUBSET (DOMAIN dims) |->
                            IF s = {} THEN 1
                            ELSE g[s \ {Max(s)}] * dims[Max(s)]]
<1>2. F \in [(1..n) \X Nat -> Nat]
  OBVIOUS
<1>3. PICK g : Folds(g, n, Nat, 1, F)
  <2> HIDE DEF F
  <2> QED
    BY <1>2, FoldExists
<1>4. Eqn(g)
  <2>1. ASSUME NEW s \in SUBSET (1..n), s # {}
        PROVE  g[s] = g[s \ {Max(s)}] * dims[Max(s)]
    <3>1. g[s \ {Max(s)}] \in Nat
      BY <1>3 DEF Folds
    <3>2. Max(s) \in 1..n
      BY <2>1, MaxIn
    <3> QED
      BY <1>3, <2>1, <3>1, <3>2 DEF Folds
  <2> HIDE DEF F
  <2> QED
    BY <1>3, <2>1 DEF Folds
<1> DEFINE c == CHOOSE h : Eqn(h)
<1>5. Eqn(c)
  <2> HIDE DEF Eqn
  <2> QED
    BY <1>4
<1>6. Product(dims) = c[DOMAIN dims]
  BY DEF Product, FoldLeft, MapThenFoldSet
<1> HIDE DEF c
<1>7. c[{}] = 1
  BY <1>5
<1>8. ASSUME NEW k \in Nat, k + 1 <= n
      PROVE  c[1..(k + 1)] = c[1..k] * dims[k + 1]
  <2> DEFINE s == 1..(k + 1)
  <2>1. s \in SUBSET (DOMAIN dims)
    BY <1>8
  <2>2. s # {} /\ Max(s) = k + 1 /\ s \ {Max(s)} = 1..k
    BY OneMore
  <2> HIDE DEF s
  <2>3. c[s] = c[s \ {Max(s)}] * dims[Max(s)]
    BY <1>5, <2>1, <2>2
  <2> QED
    BY <2>2, <2>3 DEF s
<1> QED
  BY <1>6, <1>7, <1>8 DEF Products

LEMMA ProductIs ==
  ASSUME NEW a \in Nat, NEW b \in Nat
  PROVE  Product(<<a>>) = a /\ Product(<<a, b>>) = a * b
<1>1. Product(<<a>>) = a
  <2> DEFINE dims == <<a>>
  <2>1. dims \in [1..1 -> Nat] /\ dims[1] = a
    OBVIOUS
  <2> HIDE DEF dims
  <2>2. PICK g : Products(g, dims, 1)
    BY <2>1, ProductRec
  <2>3. g[1..0] = 1 /\ g[1..1] = g[1..0] * dims[1] /\ Product(dims) = g[1..1]
    <3>1. 1..0 = {} /\ 0 \in Nat /\ 0 + 1 <= 1 /\ 0 + 1 = 1
      OBVIOUS
    <3> QED
      BY <2>2, <3>1 DEF Products
  <2> QED
    BY <2>1, <2>3 DEF dims
<1>2. Product(<<a, b>>) = a * b
  <2> DEFINE dims == <<a, b>>
  <2>1. dims \in [1..2 -> Nat] /\ dims[1] = a /\ dims[2] = b
    OBVIOUS
  <2> HIDE DEF dims
  <2>2. PICK g : Products(g, dims, 2)
    BY <2>1, ProductRec
  <2>3. /\ g[1..0] = 1 /\ g[1..1] = g[1..0] * dims[1]
        /\ g[1..2] = g[1..1] * dims[2] /\ Product(dims) = g[1..2]
    <3>1. /\ 1..0 = {} /\ 0 \in Nat /\ 0 + 1 <= 2 /\ 0 + 1 = 1
          /\ 1 \in Nat /\ 1 + 1 <= 2 /\ 1 + 1 = 2
      OBVIOUS
    <3> QED
      BY <2>2, <3>1 DEF Products
  <2>4. g[1..1] = a
    BY <2>1, <2>3
  <2> QED
    BY <2>1, <2>3, <2>4 DEF dims
<1> QED
  BY <1>1, <1>2

-----------------------------------------------------------------------------
(* create_array                                                            *)

(* The dimensions of an array of one or of two, none of them empty.        *)
Rects == {<<a>> : a \in Nat \ {0}}
         \cup {<<p[1], p[2]>> : p \in (Nat \ {0}) \X (Nat \ {0})}

(* The array in Ruby.                                                      *)
Nest(dims, items) ==
  IF Len(dims) = 1 THEN items ELSE Rows(items, dims[1], dims[2])

LEMMA RectIs ==
  ASSUME NEW dims \in Rects
  PROVE  \/ \E a \in Nat \ {0} : dims = <<a>> /\ NItems(dims) = a
         \/ \E a, b \in Nat \ {0} : dims = <<a, b>> /\ NItems(dims) = a * b
<1>1. CASE \E a \in Nat \ {0} : dims = <<a>>
  <2>1. PICK a \in Nat \ {0} : dims = <<a>>
    BY <1>1
  <2>2. NItems(dims) = a
    BY <2>1, ProductIs DEF NItems
  <2> QED
    BY <2>1, <2>2
<1>2. CASE \E a, b \in Nat \ {0} : dims = <<a, b>>
  <2>1. PICK a \in Nat \ {0}, b \in Nat \ {0} : dims = <<a, b>>
    BY <1>2
  <2>2. NItems(dims) = a * b
    BY <2>1, ProductIs DEF NItems
  <2> QED
    BY <2>1, <2>2
<1> QED
  BY <1>1, <1>2 DEF Rects

LEMMA ChunksAre ==
  ASSUME NEW S, NEW a \in Nat, NEW b \in Nat \ {0}, NEW items \in Seq(S),
         Len(items) = a * b
  PROVE  Chunks(items, b) = Rows(items, a, b)
<1>1. Len(items) \div b = a
  <2>1. Len(items) = a * b + 0 /\ 0 \in 0..(b - 1) /\ a \in Int
    OBVIOUS
  <2> QED
    BY <2>1, DivUnique
<1>2. ASSUME NEW i \in 1..a
      PROVE  SubSeq(items, (i - 1) * b + 1, i * b) = Row(items, b, i)
  <2> DEFINE x == (i - 1) * b
             y == i * b
             s == SubSeq(items, x + 1, y)
             row == Row(items, b, i)
  <2>1. x \in Nat /\ y = x + b /\ y <= Len(items)
    BY PlaceInRow
  <2>2. row \in Seq(S) /\ Len(row) = b
    BY RowIs
  <2>3. \A j \in 1..b : row[j] = items[x + j]
    BY DEF Row
  <2> HIDE DEF x, y, row
  <2>4. \A k \in (x + 1)..y : items[k] \in S
    BY <2>1
  <2>5. /\ s \in Seq(S)
        /\ Len(s) = IF x + 1 <= y THEN y - (x + 1) + 1 ELSE 0
        /\ \A j \in 1..(y - (x + 1) + 1) : s[j] = items[(x + 1) + j - 1]
    <3>1. x + 1 \in Int /\ y \in Int
      BY <2>1
    <3> QED
      BY <2>4, <3>1, SubSeqProperties
  <2> HIDE DEF s
  <2>6. Len(s) = b /\ \A j \in 1..b : s[j] = items[x + j]
    BY <2>1, <2>5
  <2>7. s = row
    <3>1. s \in Seq(S)
      BY <2>5
    <3>2. \A j \in 1..Len(s) : s[j] = row[j]
      BY <2>3, <2>6
    <3>3. Len(s) = Len(row)
      BY <2>2, <2>6
    <3> QED
      BY <2>2, <3>1, <3>2, <3>3, SeqEqual
  <2> QED
    BY <2>7 DEF s, row, x, y
<1> QED
  BY <1>1, <1>2 DEF Chunks, Rows

(* The loops over one and over two dimensions.                             *)
LEMMA ChunksFold ==
  ASSUME NEW list, NEW b
  PROVE  /\ FoldRight(LAMBDA n, ls : Chunks(ls, n), <<>>, list) = list
         /\ FoldRight(LAMBDA n, ls : Chunks(ls, n), <<b>>, list)
              = Chunks(list, b)
<1> DEFINE Eqn(g, sizes) == g = [s \in SUBSET (DOMAIN sizes) |->
                                   IF s = {} THEN list
                                   ELSE Chunks(g[s \ {Min(s)}], sizes[Min(s)])]
           Of(sizes) == CHOOSE h : Eqn(h, sizes)
<1>1. ASSUME NEW sizes PROVE FoldRight(LAMBDA n, ls : Chunks(ls, n), sizes, list)
                             = Of(sizes)[DOMAIN sizes]
  BY DEF FoldRight, MapThenFoldSet
<1>2. FoldRight(LAMBDA n, ls : Chunks(ls, n), <<>>, list) = list
  <2> DEFINE g == [s \in SUBSET {} |-> list]
             sizes == <<>>
  <2>1. DOMAIN sizes = {}
    OBVIOUS
  <2>2. Eqn(g, sizes)
    BY <2>1
  <2>3. Eqn(Of(sizes), sizes)
    <3> HIDE DEF Eqn, g
    <3> QED
      BY <2>2
  <2>4. Of(sizes)[{}] = list
    <3> DEFINE h == Of(sizes)
    <3> HIDE DEF h
    <3> QED
      BY <2>1, <2>3
  <2> QED
    BY <1>1, <2>1, <2>4
<1>3. FoldRight(LAMBDA n, ls : Chunks(ls, n), <<b>>, list) = Chunks(list, b)
  <2> DEFINE g == [s \in SUBSET {1} |-> IF s = {} THEN list ELSE Chunks(list, b)]
             sizes == <<b>>
  <2>1. DOMAIN sizes = {1} /\ sizes[1] = b
    OBVIOUS
  <2>2. \A s \in SUBSET {1} : s # {} => s = {1}
    OBVIOUS
  <2>3. Min({1}) = 1 /\ {1} \ {1} = {}
    BY DEF Min
  <2>4. Eqn(g, sizes)
    <3>1. ASSUME NEW s \in SUBSET {1}
          PROVE  g[s] = IF s = {} THEN list
                        ELSE Chunks(g[s \ {Min(s)}], sizes[Min(s)])
      BY <2>1, <2>2, <2>3
    <3> HIDE DEF sizes
    <3> QED
      BY <2>1, <3>1
  <2>5. Eqn(Of(sizes), sizes)
    <3> HIDE DEF Eqn, g
    <3> QED
      BY <2>4
  <2>6. Of(sizes)[{1}] = Chunks(list, b)
    <3> DEFINE h == Of(sizes)
    <3> HIDE DEF sizes
    <3>1. Eqn(h, sizes)
      BY <2>5
    <3> HIDE DEF h
    <3>2. h[{}] = list
      BY <2>1, <3>1
    <3>3. h[{1}] = Chunks(h[{}], b)
      BY <2>1, <2>3, <3>1
    <3> QED
      BY <3>2, <3>3 DEF h
  <2> QED
    BY <1>1, <2>1, <2>6
<1> QED
  BY <1>2, <1>3

(* create_array nests the items.                                           *)
LEMMA CreateArrayIs ==
  ASSUME NEW dims \in Rects, NEW items \in Seq(Elements),
         Len(items) = NItems(dims)
  PROVE  CreateArray([dims |-> dims, lbound |-> 1, items |-> items]) = Nest(dims, items)
<1> DEFINE array == [dims |-> dims, lbound |-> 1, items |-> items]
<1>1. Taken(items) = items
  <2>1. \A i \in DOMAIN items : items[i] # Null
    BY ArraysAssumption
  <2>2. Stored(items) = items
    BY <2>1, NotNullSame DEF Stored
  <2>3. Taken(items) = [i \in DOMAIN items |-> items[i]]
    BY <2>2 DEF Taken
  <2> QED
    BY <2>3
<1>2. NItems(dims) # 0 => CreateArray(array)
        = FoldRight(LAMBDA n, list : Chunks(list, n), Tail(dims), items)
  BY <1>1 DEF CreateArray
<1>3. CASE \E a \in Nat \ {0} : dims = <<a>> /\ NItems(dims) = a
  <2>1. PICK a \in Nat \ {0} : dims = <<a>> /\ NItems(dims) = a
    BY <1>3
  <2>2. Tail(dims) = <<>> /\ NItems(dims) # 0 /\ Len(dims) = 1
    BY <2>1
  <2>3. CreateArray(array) = items
    BY <1>2, <2>2, ChunksFold
  <2> QED
    BY <2>2, <2>3 DEF Nest
<1>4. CASE \E a, b \in Nat \ {0} : dims = <<a, b>> /\ NItems(dims) = a * b
  <2>1. PICK a \in Nat \ {0}, b \in Nat \ {0} :
          dims = <<a, b>> /\ NItems(dims) = a * b
    BY <1>4
  <2>2. a * b # 0
    OBVIOUS
  <2>3. Tail(dims) = <<b>> /\ NItems(dims) # 0 /\ Len(dims) = 2
        /\ dims[1] = a /\ dims[2] = b
    BY <2>1, <2>2
  <2>4. CreateArray(array) = Chunks(items, b)
    BY <1>2, <2>3, ChunksFold
  <2>5. Chunks(items, b) = Rows(items, a, b)
    BY <2>1, ChunksAre
  <2> QED
    BY <2>3, <2>4, <2>5 DEF Nest
<1> QED
  BY <1>3, <1>4, RectIs

-----------------------------------------------------------------------------
(* plruby_return_array                                                     *)

Deeper(value) == IF IsArray(value) THEN First(value) ELSE Wild

(* The recursive function of Down.                                         *)
LEMMA DownIs ==
  ASSUME NEW V, NEW ary \in V, \A v \in V : Deeper(v) \in V
  PROVE  /\ Down(ary)[0] = ary
         /\ \A n \in 0..(MAXDIM - 1) : Down(ary)[n + 1] = Deeper(Down(ary)[n])
<1> DEFINE F == [v \in V |-> Deeper(v)]
           Eqn(g) == g = [n \in 0..MAXDIM |-> IF n = 0 THEN ary
                                               ELSE IF IsArray(g[n - 1])
                                                    THEN First(g[n - 1]) ELSE Wild]
<1>1. MAXDIM \in Nat /\ F \in [V -> V]
  BY ArraysAssumption
<1>2. PICK g : Iterates(g, MAXDIM, V, ary, F)
  <2> HIDE DEF F
  <2> QED
    BY <1>1, IterExists
<1>3. Eqn(g)
  <2>1. ASSUME NEW n \in 0..MAXDIM
        PROVE  g[n] = IF n = 0 THEN ary ELSE Deeper(g[n - 1])
    <3>1. CASE n = 0
      BY <1>2, <3>1 DEF Iterates
    <3>2. CASE n # 0
      <4>1. n - 1 \in 0..MAXDIM
        BY <1>1, <3>2
      <4> QED
        BY <1>2, <3>2, <4>1 DEF Iterates
    <3> QED
      BY <3>1, <3>2
  <2> QED
    BY <1>2, <2>1 DEF Iterates, Deeper
<1> DEFINE c == CHOOSE h : Eqn(h)
<1>4. Eqn(c)
  <2> HIDE DEF Eqn
  <2> QED
    BY <1>3
<1>5. Down(ary) = c
  BY DEF Down
<1> HIDE DEF c
<1>6. c[0] = ary
  BY <1>1, <1>4
<1>7. ASSUME NEW n \in 0..(MAXDIM - 1) PROVE c[n + 1] = Deeper(c[n])
  <2>1. n + 1 \in 0..MAXDIM /\ n + 1 # 0 /\ (n + 1) - 1 = n
    BY <1>1
  <2> QED
    BY <1>4, <2>1 DEF Deeper
<1> QED
  BY <1>5, <1>6, <1>7

(* Array#flatten of an array of Arrays.                                    *)
LEMMA FlattenIs ==
  ASSUME NEW ary, NEW items, FlattenOnce(ary) = items,
         FlattenOnce(items) = items
  PROVE  Flatten(ary) = items
<1> DEFINE V == {ary, items}
           F == [v \in V |-> FlattenOnce(v)]
           Eqn(g) == g = [n \in 0..MAXDIM |-> IF n = 0 THEN ary
                                               ELSE FlattenOnce(g[n - 1])]
<1>1. MAXDIM \in Nat /\ MAXDIM # 0 /\ F \in [V -> V]
  BY ArraysAssumption
<1>2. PICK g : Iterates(g, MAXDIM, V, ary, F)
  <2>1. ary \in V
    OBVIOUS
  <2> HIDE DEF F, V
  <2> QED
    BY <1>1, <2>1, IterExists
<1>3. Eqn(g)
  <2>1. ASSUME NEW n \in 0..MAXDIM
        PROVE  g[n] = IF n = 0 THEN ary ELSE FlattenOnce(g[n - 1])
    <3>1. CASE n = 0
      BY <1>2, <3>1 DEF Iterates
    <3>2. CASE n # 0
      <4>1. n - 1 \in 0..MAXDIM
        BY <1>1, <3>2
      <4> QED
        BY <1>2, <3>2, <4>1 DEF Iterates
    <3> QED
      BY <3>1, <3>2
  <2> QED
    BY <1>2, <2>1 DEF Iterates
<1> DEFINE c == CHOOSE h : Eqn(h)
<1>4. Eqn(c)
  <2> HIDE DEF Eqn
  <2> QED
    BY <1>3
<1>5. Flatten(ary) = c[MAXDIM]
  BY DEF Flatten
<1> HIDE DEF c
<1>6. c[0] = ary
  BY <1>1, <1>4
<1>7. ASSUME NEW n \in 0..(MAXDIM - 1) PROVE c[n + 1] = FlattenOnce(c[n])
  <2>1. n + 1 \in 0..MAXDIM /\ n + 1 # 0 /\ (n + 1) - 1 = n
    BY <1>1
  <2> QED
    BY <1>4, <2>1
<1> DEFINE T == {k \in Nat : k + 1 <= MAXDIM => c[k + 1] = items}
<1>8. 0 \in T
  BY <1>1, <1>6, <1>7
<1>9. ASSUME NEW k \in Nat, k \in T PROVE k + 1 \in T
  <2> SUFFICES ASSUME (k + 1) + 1 <= MAXDIM PROVE c[(k + 1) + 1] = items
    OBVIOUS
  <2>1. c[k + 1] = items /\ k + 1 \in 0..(MAXDIM - 1)
    BY <1>1, <1>9
  <2> QED
    BY <1>7, <2>1
<1>10. c[MAXDIM] = items
  <2>1. \A n \in Nat : n \in T
    <3> HIDE DEF T
    <3> QED
      BY <1>8, <1>9, SetInduction
  <2>2. MAXDIM - 1 \in Nat /\ (MAXDIM - 1) + 1 = MAXDIM
    BY <1>1
  <2> QED
    BY <2>1, <2>2
<1> QED
  BY <1>5, <1>10

LEMMA LeafIs ==
  /\ \A e \in Elements : ~IsArray(e) /\ e # Null /\ e # Wild
  /\ ~IsArray(Wild)
  /\ \A list \in Seq(Elements) : list \in Seq(Leaves) /\ IsArray(list)
<1>1. Elements \subseteq Leaves /\ Wild \in Leaves
  BY DEF Leaves
<1>2. \A list \in Seq(Elements) : list \in Seq(Leaves)
  BY <1>1
<1> QED
  BY <1>1, <1>2, ArraysAssumption, LeavesAssumption DEF IsArray

(* The levels of an array are those that are Arrays.                       *)
LEMMA DimsOfList ==
  ASSUME NEW items \in Seq(Elements), MAXDIM > 1
  PROVE  Dims(items) = <<Len(items)>>
<1> DEFINE leaf == First(items)
           D == Down(items)
           V == {items, leaf, Wild}
<1>1. ~IsArray(leaf) /\ IsArray(items)
  <2>1. CASE items = <<>>
    BY <2>1, LeafIs DEF First
  <2>2. CASE items # <<>>
    <3>1. Head(items) \in Elements
      BY <2>2
    <3> QED
      BY <2>2, <3>1, LeafIs DEF First
  <2> QED
    BY <2>1, <2>2
<1>2. /\ Deeper(items) = leaf /\ Deeper(leaf) = Wild
      /\ Deeper(Wild) = Wild
  BY <1>1, LeafIs DEF Deeper
<1> HIDE DEF leaf
<1>3. D[0] = items /\ \A n \in 0..(MAXDIM - 1) : D[n + 1] = Deeper(D[n])
  <2>1. items \in V /\ \A v \in V : Deeper(v) \in V
    BY <1>2
  <2> HIDE DEF V
  <2> QED
    BY <2>1, DownIs
<1> HIDE DEF D
<1>4. D[1] = leaf
  <2>1. 0 \in 0..(MAXDIM - 1) /\ 0 + 1 = 1
    BY ArraysAssumption
  <2> QED
    BY <1>2, <1>3, <2>1
<1>5. IsArray(D[0]) /\ ~IsArray(D[1])
  BY <1>1, <1>3, <1>4
<1> DEFINE levels == {n \in 0..(MAXDIM - 1) : \A k \in 0..n : IsArray(D[k])}
<1>6. levels = {0}
  <2>1. 0 \in levels
    BY <1>5, ArraysAssumption
  <2>2. ASSUME NEW n \in levels PROVE n = 0
    <3>1. n \in Nat /\ (n # 0 => 1 \in 0..n)
      BY ArraysAssumption
    <3> QED
      BY <1>5, <3>1
  <2> QED
    BY <2>1, <2>2
<1>7. Dims(items) = [d \in {n + 1 : n \in levels} |-> Len(D[d - 1])]
  BY DEF Dims, D
<1>8. {n + 1 : n \in levels} = 1..1
  <2> HIDE DEF levels
  <2>1. {n + 1 : n \in {0}} = {1}
    OBVIOUS
  <2>2. 1..1 = {1}
    OBVIOUS
  <2> QED
    BY <1>6, <2>1, <2>2
<1> HIDE DEF levels
<1>9. Dims(items) = [d \in 1..1 |-> Len(items)]
  <2>1. \A d \in 1..1 : d - 1 = 0
    OBVIOUS
  <2>2. \A d \in 1..1 : Len(D[d - 1]) = Len(items)
    BY <1>3, <2>1
  <2> QED
    BY <1>7, <1>8, <2>2
<1> QED
  BY <1>9

LEMMA DimsOfRows ==
  ASSUME NEW a \in Nat \ {0}, NEW b \in Nat \ {0}, NEW items \in Seq(Elements),
         Len(items) = a * b, MAXDIM > 2
  PROVE  Dims(Rows(items, a, b)) = <<a, b>>
<1> DEFINE ary == Rows(items, a, b)
           row == Row(items, b, 1)
           leaf == items[1]
           D == Down(ary)
           V == {ary, row, leaf, Wild}
<1>1. /\ row \in Seq(Elements) /\ Len(row) = b
      /\ ary \in Seq(Seq(Elements)) /\ Len(ary) = a /\ ary[1] = row
  <2>1. \A i \in 1..a : Row(items, b, i) \in Seq(Elements) /\ Len(Row(items, b, i)) = b
    BY RowIs
  <2>2. 1 \in 1..a
    OBVIOUS
  <2> QED
    BY <2>1, <2>2 DEF Rows
<1>2. leaf \in Elements /\ row[1] = leaf
  <2>1. 1 \in 1..b /\ (1 - 1) * b + 1 = 1 /\ 1 \in 1..a
    OBVIOUS
  <2>2. 1 \in 1..(a * b)
    BY <2>1, PlaceInRow
  <2> QED
    BY <2>1, <2>2 DEF Row
<1>3. IsArray(ary) /\ IsArray(row) /\ ~IsArray(leaf) /\ ~IsArray(Wild)
  <2>1. Seq(Elements) \subseteq Seq(Leaves)
    BY LeafIs
  <2>2. ary \in Seq(Seq(Leaves))
    BY <1>1, <2>1
  <2>3. ary \notin Leaves
    BY <2>2, LeavesAssumption
  <2> QED
    BY <1>1, <1>2, <2>3, LeafIs DEF IsArray
<1> HIDE DEF ary, row, leaf
<1>4. First(ary) = row /\ First(row) = leaf
  <2>1. ary # <<>> /\ row # <<>>
    BY <1>1
  <2> QED
    BY <1>1, <1>2, <2>1 DEF First
<1>5. /\ Deeper(ary) = row /\ Deeper(row) = leaf
      /\ Deeper(leaf) = Wild /\ Deeper(Wild) = Wild
  BY <1>3, <1>4 DEF Deeper
<1>6. D[0] = ary /\ \A n \in 0..(MAXDIM - 1) : D[n + 1] = Deeper(D[n])
  <2>1. ary \in V /\ \A v \in V : Deeper(v) \in V
    BY <1>5
  <2> HIDE DEF V
  <2> QED
    BY <2>1, DownIs
<1> HIDE DEF D
<1>7. D[1] = row /\ D[2] = leaf
  <2>1. 0 \in 0..(MAXDIM - 1) /\ 0 + 1 = 1 /\ 1 \in 0..(MAXDIM - 1) /\ 1 + 1 = 2
    BY ArraysAssumption
  <2> QED
    BY <1>5, <1>6, <2>1
<1>8. IsArray(D[0]) /\ IsArray(D[1]) /\ ~IsArray(D[2])
  BY <1>3, <1>6, <1>7
<1> DEFINE levels == {n \in 0..(MAXDIM - 1) : \A k \in 0..n : IsArray(D[k])}
<1>9. levels = {0, 1}
  <2>1. 0 \in levels
    BY <1>8, ArraysAssumption
  <2>2. 1 \in levels
    <3>1. 1 \in 0..(MAXDIM - 1) /\ \A k \in 0..1 : k = 0 \/ k = 1
      BY ArraysAssumption
    <3> QED
      BY <1>8, <3>1
  <2>3. ASSUME NEW n \in levels PROVE n = 0 \/ n = 1
    <3>1. n \in Nat /\ (n # 0 /\ n # 1 => 2 \in 0..n)
      BY ArraysAssumption
    <3> QED
      BY <1>8, <3>1
  <2> QED
    BY <2>1, <2>2, <2>3
<1>10. Dims(ary) = [d \in {n + 1 : n \in levels} |-> Len(D[d - 1])]
  BY DEF Dims, D
<1> HIDE DEF levels
<1>11. {n + 1 : n \in levels} = 1..2
  <2>1. {n + 1 : n \in levels} = {0 + 1, 1 + 1}
    BY <1>9
  <2>2. {0 + 1, 1 + 1} = 1..2
    OBVIOUS
  <2> QED
    BY <2>1, <2>2
<1>12. Dims(ary) = [d \in 1..2 |-> IF d = 1 THEN a ELSE b]
  <2>1. \A d \in 1..2 : Len(D[d - 1]) = IF d = 1 THEN a ELSE b
    <3>1. \A d \in 1..2 : d = 1 \/ d = 2
      OBVIOUS
    <3>2. Len(D[1 - 1]) = a /\ Len(D[2 - 1]) = b
      BY <1>1, <1>6, <1>7
    <3> QED
      BY <3>1, <3>2
  <2> QED
    BY <1>10, <1>11, <2>1
<1> QED
  BY <1>12 DEF ary

(* An empty Array has one dimension, of no items.                          *)
LEMMA EmptyIs ==
  /\ ~TooManyDims(Dims(<<>>))
  /\ ReturnArray(<<>>) = [dims |-> <<>>, lbound |-> 1, items |-> <<>>]
<1>1. <<>> \in Seq(Elements) /\ Len(<<>>) = 0 /\ MAXDIM > 1
  BY ArraysAssumption
<1>2. Dims(<<>>) = <<0>>
  BY <1>1, DimsOfList
<1>3. NItems(<<0>>) = 0 /\ Len(<<0>>) = 1
  <2>1. Product(<<0>>) = 0
    <3>1. 0 \in Nat
      OBVIOUS
    <3> QED
      BY <3>1, ProductIs
  <2>2. <<0>> # <<>> /\ Len(<<0>>) = 1
    OBVIOUS
  <2> QED
    BY <2>1, <2>2 DEF NItems
<1>4. NItems(Dims(<<>>)) = 0
  BY <1>2, <1>3
<1>5. ReturnArray(<<>>) = [dims |-> <<>>, lbound |-> 1, items |-> <<>>]
  BY <1>4 DEF ReturnArray
<1>6. Len(Dims(<<>>)) # MAXDIM
  BY <1>1, <1>2, <1>3, ArraysAssumption
<1> QED
  BY <1>5, <1>6 DEF TooManyDims

(* plruby_return_array undoes create_array.                                *)
LEMMA ReturnArrayIs ==
  ASSUME NEW dims \in Rects, Len(dims) < MAXDIM, NEW items \in Seq(Elements),
         Len(items) = NItems(dims)
  PROVE  /\ Dims(Nest(dims, items)) = dims
         /\ ReturnArray(Nest(dims, items)) = [dims |-> dims, lbound |-> 1, items |-> items]
<1> DEFINE ary == Nest(dims, items)
<1>1. items \in Seq(Leaves)
  BY LeafIs
<1>2. /\ Dims(ary) = dims /\ Flatten(ary) = items
      /\ NItems(dims) # 0 /\ Product(dims) = NItems(dims)
  <2>1. CASE \E a \in Nat \ {0} : dims = <<a>> /\ NItems(dims) = a
    <3>1. PICK a \in Nat \ {0} : dims = <<a>> /\ NItems(dims) = a
      BY <2>1
    <3>2. ary = items /\ MAXDIM > 1 /\ items # <<>>
      BY <3>1, ArraysAssumption DEF Nest
    <3>3. Dims(ary) = dims
      BY <3>1, <3>2, DimsOfList
    <3>4. Flatten(ary) = items
      BY <1>1, <3>2, FlattenLeaves, FlattenIs
    <3> QED
      BY <3>1, <3>3, <3>4, ProductIs
  <2>2. CASE \E a, b \in Nat \ {0} : dims = <<a, b>> /\ NItems(dims) = a * b
    <3>1. PICK a \in Nat \ {0}, b \in Nat \ {0} :
            dims = <<a, b>> /\ NItems(dims) = a * b
      BY <2>2
    <3>2. ary = Rows(items, a, b) /\ MAXDIM > 2
      BY <3>1, ArraysAssumption DEF Nest
    <3>3. Dims(ary) = dims
      BY <3>1, <3>2, DimsOfRows
    <3>4. FlattenOnce(ary) = items
      BY <1>1, <3>1, <3>2, FlattenRows
    <3>5. Flatten(ary) = items
      BY <1>1, <3>4, FlattenLeaves, FlattenIs
    <3>6. a * b # 0
      OBVIOUS
    <3> QED
      BY <3>1, <3>3, <3>5, <3>6, ProductIs
  <2> QED
    BY <2>1, <2>2, RectIs
<1>3. \A i \in 1..Len(items) : Item(items[i]) = items[i]
  BY LeafIs DEF Item
<1> HIDE DEF ary
<1>4. [i \in 1..Product(dims) |->
          IF i <= Len(items) THEN Item(items[i]) ELSE Wild]
        = [i \in 1..Len(items) |-> items[i]]
  BY <1>2, <1>3
<1>5. items = [i \in 1..Len(items) |-> items[i]]
  OBVIOUS
<1>6. ReturnArray(ary) = [dims |-> dims, lbound |-> 1,
        items |-> [i \in 1..Product(dims) |->
                     IF i <= Len(items) THEN Item(items[i]) ELSE Wild]]
  BY <1>2 DEF ReturnArray
<1> QED
  BY <1>2, <1>4, <1>5, <1>6 DEF ary

-----------------------------------------------------------------------------
(* Numbers and times                                                       *)

(* Int16GetDatum of a number that an int2 can hold.                        *)
LEMMA Int2Fits ==
  ASSUME NEW n \in Int, FitsInt2(n)
  PROVE  Int2(n) = n
<1> DEFINE h == Short \div 2
<1>1. h \in Nat /\ Short = 2 * h /\ Short \in Nat \ {0}
  <2>1. Short \in Int /\ Short >= 0 /\ 2 \in Nat \ {0} /\ Short % 2 = 0
        /\ Short \in Nat \ {0}
    BY BasicAssumption
  <2>2. h \in Nat /\ Short = h * 2 + (Short % 2)
    BY <2>1, DivMod
  <2> QED
    BY <2>1, <2>2
<1> HIDE DEF h
<1>2. n \in (-h)..(h - 1)
  BY DEF FitsInt2, h
<1>3. CASE n >= 0
  <2>1. n \in 0..(Short - 1) /\ n = 0 * Short + n /\ 0 \in Int
    BY <1>1, <1>2, <1>3
  <2>2. n % Short = n
    BY <1>1, <2>1, DivUnique
  <2>3. n < Short \div 2
    BY <1>1, <1>2 DEF h
  <2> QED
    BY <2>2, <2>3, Zenon DEF Int2
<1>4. CASE n < 0
  <2>1. n + Short \in 0..(Short - 1) /\ n = (-1) * Short + (n + Short)
        /\ -1 \in Int
    BY <1>1, <1>2, <1>4
  <2>2. n % Short = n + Short
    BY <1>1, <2>1, DivUnique
  <2>3. ~(n + Short < h) /\ (n + Short) - Short = n
    BY <1>1, <1>2
  <2> QED
    BY <2>2, <2>3 DEF Int2, h
<1> QED
  BY <1>3, <1>4

LEMMA Sizes ==
  /\ Second \in Nat \ {0} /\ Day \in Nat \ {0} /\ ULong \in Nat \ {0}
  /\ ULong \div 2 \in Nat /\ Second <= ULong \div 2 /\ ULong \div 2 <= ULong
  /\ Day * Second \in Nat \ {0}
<1>1. /\ Second \in Nat \ {0} /\ Day \in Nat \ {0} /\ ULong \in Nat \ {0}
      /\ Second <= ULong \div 2
  BY BasicAssumption
<1>2. ULong \div 2 \in Nat /\ ULong \div 2 <= ULong
  BY <1>1
<1>3. Day * Second \in Nat \ {0}
  BY <1>1
<1> QED
  BY <1>1, <1>2, <1>3

(* A Time that has no part of a second ...                                 *)
LEMMA TimeAtWhole ==
  ASSUME NEW q \in Int
  PROVE  TimeAt(q * Second) = q * Second
<1> DEFINE n == q * Second
<1>1. Second \in Nat \ {0} /\ 0 \in 0..(Second - 1)
  BY Sizes
<1>2. n \in Int /\ n = q * Second + 0 /\ -n = (-q) * Second + 0
  BY <1>1
<1>3. n \div Second = q
  BY <1>1, <1>2, DivUnique
<1>4. (-n) \div Second = -q
  <2>1. -q \in Int
    OBVIOUS
  <2> QED
    BY <1>1, <1>2, <2>1, DivUnique
<1>5. Quot(n, Second) = q
  <2> HIDE DEF n
  <2> QED
    BY <1>3, <1>4 DEF Quot
<1>6. Rem(n, Second) = 0
  <2>1. n - Second * q = 0
    BY <1>1
  <2> HIDE DEF n
  <2> QED
    BY <1>5, <2>1 DEF Rem
<1>7. 0 % ULong = 0
  <2>1. 0 = 0 * ULong + 0 /\ 0 \in 0..(ULong - 1) /\ 0 \in Int
    BY Sizes
  <2> QED
    BY <2>1, Sizes, DivUnique
<1>8. ~(0 >= ULong \div 2)
  BY Sizes
<1> HIDE DEF n
<1>9. TimeAt(n) = Quot(n, Second) * Second + 0
  BY <1>6, <1>7, <1>8 DEF TimeAt
<1> QED
  BY <1>2, <1>5, <1>9 DEF n

(* ... or is not before the epoch is the one of its microseconds.          *)
LEMMA TimeAtLate ==
  ASSUME NEW n \in Nat
  PROVE  TimeAt(n) = n /\ Rem(n, Second) = n % Second
<1> DEFINE q == n \div Second
           r == n % Second
<1>1. q \in Nat /\ r \in 0..(Second - 1) /\ n = q * Second + r
  <2>1. n \in Int /\ n >= 0
    OBVIOUS
  <2> QED
    BY <2>1, Sizes, DivMod
<1>2. Quot(n, Second) = q
  BY DEF Quot
<1>3. Rem(n, Second) = r
  <2> HIDE DEF q, r
  <2>1. Second * q = q * Second /\ q * Second \in Int
    BY <1>1, Sizes
  <2> DEFINE x == q * Second
  <2>2. x \in Int /\ n = x + r /\ Second * q = x
    BY <1>1, <2>1
  <2> HIDE DEF x
  <2>3. n - Second * q = r
    BY <1>1, <2>2
  <2> QED
    BY <1>2, <2>3 DEF Rem
<1> HIDE DEF q, r
<1>4. r % ULong = r
  <2>1. r = 0 * ULong + r /\ r \in 0..(ULong - 1) /\ 0 \in Int
    BY <1>1, Sizes
  <2> QED
    BY <2>1, Sizes, DivUnique
<1>5. ~(r >= ULong \div 2)
  BY <1>1, Sizes
<1>6. TimeAt(n) = q * Second + r
  BY <1>2, <1>3, <1>4, <1>5 DEF TimeAt
<1> QED
  BY <1>1, <1>3, <1>6 DEF r

(* A date becomes its midnight, whatever the time zone, and back.          *)
LEMMA MidnightIs ==
  ASSUME NEW date \in Int, NEW ahead \in Int
  PROVE  /\ Midnight(date, ahead) \in Int
         /\ Midnight(date, ahead) + Day * Second = Midnight(date + 1, ahead)
         /\ DateOf(Midnight(date, ahead), ahead) = date
         /\ TimeFrom("date", date, ahead) = Midnight(date, ahead)
<1> DEFINE m == Midnight(date, ahead)
           d == Day * Second
<1>1. Second \in Nat \ {0} /\ Day \in Nat \ {0} /\ d \in Nat \ {0}
  BY Sizes
<1>2. m = date * d - ahead * Second
  BY <1>1 DEF Midnight
<1>3. m \in Int
  BY <1>1, <1>2
<1>4. m + d = Midnight(date + 1, ahead)
  <2>1. Midnight(date + 1, ahead) = (date + 1) * d - ahead * Second
    BY <1>1 DEF Midnight
  <2>2. (date + 1) * d = date * d + d
    BY <1>1
  <2> DEFINE x == date * d
             y == ahead * Second
  <2>3. x \in Int /\ y \in Int
    BY <1>1
  <2>4. m = x - y /\ Midnight(date + 1, ahead) = (x + d) - y
    BY <1>2, <2>1, <2>2
  <2> HIDE DEF x, y, d
  <2> QED
    BY <1>1, <2>3, <2>4
<1>5. DateOf(m, ahead) = date
  <2>1. Local(m, ahead) = m + ahead * Second
    BY DEF Local
  <2>2. m + ahead * Second = date * d + 0
    <3> DEFINE x == date * d
               y == ahead * Second
    <3>1. x \in Int /\ y \in Int /\ m = x - y
      BY <1>1, <1>2
    <3> HIDE DEF x, y, m
    <3>2. m + y = x + 0
      BY <3>1
    <3> QED
      BY <3>2 DEF x, y
  <2> HIDE DEF d
  <2>3. 0 \in 0..(d - 1)
    BY <1>1
  <2>4. (date * d + 0) \div d = date
    BY <1>1, <2>3, DivUnique
  <2> QED
    BY <2>1, <2>2, <2>4 DEF DateOf, d
<1>6. TimeFrom("date", date, ahead) = m
  <2> DEFINE q == date * Day - ahead
  <2>1. q \in Int /\ m = q * Second
    BY <1>1 DEF Midnight
  <2>2. TimeAt(m) = m
    <3> HIDE DEF q, m
    <3> QED
      BY <2>1, TimeAtWhole
  <2> QED
    BY <2>2 DEF TimeFrom
<1> QED
  BY <1>3, <1>4, <1>5, <1>6

-----------------------------------------------------------------------------
(* Paths and boxes                                                         *)

(* A path made by the backend survives its copies.                         *)
LEMMA PathIs ==
  ASSUME NEW path, NEW pts \in Seq(Int), path = FromBackend(pts)
  PROVE  /\ CopyPath(path) = path /\ PathToDatum(path) = path
         /\ \E q \in Seq(Int) : Moved(path) = FromBackend(q)
<1>1. /\ path.pts = pts /\ path.size = SizeOf(Len(pts))
      /\ path = [size |-> SizeOf(Len(pts)), pts |-> pts]
      /\ Len(pts) \in Nat
  BY DEF FromBackend
<1>2. Size(path) = SizeOf(Len(pts)) /\ SizeOf(Len(pts)) \in Nat \ {0}
  BY <1>1 DEF Size, SizeOf
<1>3. \A into : Memcpy(into, path, Size(path)) = path
  BY <1>1, <1>2 DEF Memcpy
<1>4. CopyPath(path) = path /\ PathToDatum(path) = path
  BY <1>3 DEF CopyPath, PathToDatum
<1> DEFINE q == [i \in DOMAIN pts |-> IF pts[i] = Unset THEN Unset ELSE pts[i] + 1]
<1>5. q \in Seq(Int) /\ Len(q) = Len(pts)
  <2>1. \A i \in DOMAIN pts : pts[i] \in Int /\ q[i] \in Int
    BY GeoAssumption
  <2>2. DOMAIN pts = 1..Len(pts)
    OBVIOUS
  <2> HIDE DEF q
  <2>3. q \in [1..Len(pts) -> Int]
    BY <2>1, <2>2 DEF q
  <2> QED
    BY <1>1, <2>3
<1>6. Moved(path) = [size |-> SizeOf(Len(pts)), pts |-> q]
  <2>1. Moved(path) = [path EXCEPT !.pts =
          [i \in DOMAIN path.pts |-> IF path.pts[i] = Unset THEN Unset
                                     ELSE path.pts[i] + 1]]
    BY DEF Moved
  <2>2. Moved(path) = [path EXCEPT !.pts = q]
    BY <1>1, <2>1
  <2> HIDE DEF q
  <2> QED
    BY <1>1, <2>2
<1>7. Moved(path) = FromBackend(q)
  BY <1>5, <1>6 DEF FromBackend
<1> QED
  BY <1>4, <1>5, <1>7

LEMMA BoxIs ==
  ASSUME NEW box \in SomeBoxes, NEW a \in 1..3, NEW b \in 1..3
  PROVE  /\ NewBox(a, b) = BoxOf(a, b) /\ BoxOf(a, b) \in SomeBoxes
         /\ SetLow(box, a) = BoxOf(a, box.high)
         /\ SetHigh(box, b) = BoxOf(box.low, b)
         /\ box.low \in 1..3 /\ box.high \in 1..3
<1>1. box = [low |-> box.low, high |-> box.high]
      /\ box.low \in 1..3 /\ box.high \in 1..3
  BY DEF SomeBoxes
<1>2. ASSUME NEW x \in 1..3, NEW y \in 1..3
      PROVE  /\ AdjustBox([low |-> x, high |-> y]) = BoxOf(x, y)
             /\ BoxOf(x, y) \in SomeBoxes
  BY DEF AdjustBox, BoxOf, SomeBoxes
<1>3. /\ [box EXCEPT !.low = a] = [low |-> a, high |-> box.high]
      /\ [box EXCEPT !.high = b] = [low |-> box.low, high |-> b]
  BY <1>1
<1> QED
  BY <1>1, <1>2, <1>3 DEF NewBox, SetLow, SetHigh

-----------------------------------------------------------------------------
(* One item, one bit                                                       *)

(* A change of an item of a row is a change of the items.                  *)
ItemChange(items, a, b, i, j, value) ==
  /\ (i - 1) * b + j \in DOMAIN items
  /\ [Rows(items, a, b) EXCEPT ![i][j] = value]
       = Rows([items EXCEPT ![(i - 1) * b + j] = value], a, b)

LEMMA RowsChanged ==
  ASSUME NEW S, NEW a \in Nat, NEW b \in Nat \ {0}, NEW items \in Seq(S),
         Len(items) = a * b, NEW i \in 1..a, NEW j \in 1..b, NEW value
  PROVE  ItemChange(items, a, b, i, j, value)
<1> DEFINE p == (i - 1) * b + j
           changed == [items EXCEPT ![p] = value]
           rows == Rows(items, a, b)
<1>1. p \in 1..Len(items) /\ DOMAIN items = 1..Len(items)
  BY PlaceInRow
<1>2. /\ DOMAIN rows = 1..a
      /\ \A k \in 1..a : rows[k] = Row(items, b, k) /\ DOMAIN rows[k] = 1..b
  BY DEF Rows, Row
<1>3. ASSUME NEW k \in 1..a, NEW l \in 1..b, (k - 1) * b + l = p
      PROVE  k = i /\ l = j
  <2>1. /\ ((k - 1) * b + (l - 1)) \div b = k - 1
        /\ ((k - 1) * b + (l - 1)) % b = l - 1
    <3>1. l - 1 \in 0..(b - 1) /\ k - 1 \in Int
      OBVIOUS
    <3> QED
      BY <3>1, DivUnique
  <2>2. /\ ((i - 1) * b + (j - 1)) \div b = i - 1
        /\ ((i - 1) * b + (j - 1)) % b = j - 1
    <3>1. j - 1 \in 0..(b - 1) /\ i - 1 \in Int
      OBVIOUS
    <3> QED
      BY <3>1, DivUnique
  <2>3. (k - 1) * b + (l - 1) = (i - 1) * b + (j - 1)
    <3> DEFINE x == (k - 1) * b
               y == (i - 1) * b
    <3>1. x \in Int /\ y \in Int /\ x + l = y + j
      BY <1>3
    <3> HIDE DEF x, y
    <3>2. x + (l - 1) = y + (j - 1)
      BY <3>1
    <3> QED
      BY <3>2 DEF x, y
  <2>4. k - 1 = i - 1 /\ l - 1 = j - 1
    BY <2>1, <2>2, <2>3
  <2> QED
    BY <2>4
<1>4. ASSUME NEW k \in 1..a, NEW l \in 1..b
      PROVE  changed[(k - 1) * b + l]
               = IF k = i /\ l = j THEN value ELSE items[(k - 1) * b + l]
  <2>1. (k - 1) * b + l \in DOMAIN items
    BY <1>1, PlaceInRow
  <2> DEFINE r == (k - 1) * b + l
  <2>2. r = p => k = i /\ l = j
    BY <1>3
  <2>3. k = i /\ l = j => r = p
    OBVIOUS
  <2> HIDE DEF r, p
  <2>4. changed[r] = IF r = p THEN value ELSE items[r]
    BY <1>1, <2>1 DEF r
  <2> QED
    BY <2>2, <2>3, <2>4 DEF r
<1>5. Rows(changed, a, b)
        = [k \in 1..a |-> [l \in 1..b |->
             IF k = i /\ l = j THEN value ELSE items[(k - 1) * b + l]]]
  <2> HIDE DEF changed
  <2> QED
    BY <1>4 DEF Rows, Row
<1>6. [rows EXCEPT ![i][j] = value]
        = [k \in 1..a |-> [l \in 1..b |->
             IF k = i /\ l = j THEN value ELSE items[(k - 1) * b + l]]]
  <2>1. [rows EXCEPT ![i][j] = value]
          = [k \in 1..a |-> IF k = i THEN [rows[i] EXCEPT ![j] = value]
                            ELSE rows[k]]
    <3> HIDE DEF rows
    <3> QED
      BY <1>2
  <2>2. [rows[i] EXCEPT ![j] = value]
          = [l \in 1..b |-> IF l = j THEN value ELSE items[(i - 1) * b + l]]
    <3>1. rows[i] = [l \in 1..b |-> items[(i - 1) * b + l]]
      BY <1>2 DEF Row
    <3> HIDE DEF rows
    <3> QED
      BY <3>1
  <2>3. \A k \in 1..a : rows[k] = [l \in 1..b |-> items[(k - 1) * b + l]]
    BY <1>2 DEF Row
  <2> HIDE DEF rows
  <2>4. ASSUME NEW k \in 1..a
        PROVE  (IF k = i THEN [rows[i] EXCEPT ![j] = value] ELSE rows[k])
                 = [l \in 1..b |-> IF k = i /\ l = j THEN value
                                   ELSE items[(k - 1) * b + l]]
    <3>1. CASE k = i
      BY <2>2, <3>1
    <3>2. CASE k # i
      BY <2>3, <3>2
    <3> QED
      BY <3>1, <3>2
  <2> QED
    BY <2>1, <2>4
<1> QED
  BY <1>1, <1>5, <1>6 DEF ItemChange

(* x holds the bits from i on of a byte.                                   *)
Holds(x, i, bits) ==
  /\ x \in Bits /\ Len(x) = Byte
  /\ \A k \in 1..(Byte - (i % Byte)) :
       i + k <= Len(bits) => x[k] = bits[i + k]

(* The next bit that each finds, and what it keeps of the byte.            *)
LEMMA EachStep ==
  ASSUME NEW bits \in Bits, NEW i \in Nat, i < Len(bits), NEW x,
         i % Byte # 0 => Holds(x, i, bits)
  PROVE  LET y == EachByte(i, x, bits) IN
         /\ Head(y) = bits[i + 1]
         /\ (i + 1) % Byte # 0 => Holds(ShiftLeft(y, 1), i + 1, bits)
<1> DEFINE y == EachByte(i, x, bits)
           r == i % Byte
<1>0. Byte \in Nat \ {0} /\ Len(bits) \in Nat
  BY BitsAssumption DEF Bits
<1>1. r \in 0..(Byte - 1)
  BY <1>0, NatDivMod
<1>2. Holds(y, i, bits)
  <2>1. CASE i % Byte # 0
    BY <2>1 DEF EachByte
  <2>2. CASE i % Byte = 0
    <3> DEFINE q == i \div Byte
    <3>1. q \in Nat /\ i = q * Byte + (i % Byte)
      BY <1>0, NatDivMod
    <3>2. y = ByteAt(bits, q)
      BY <2>2 DEF EachByte
    <3> HIDE DEF q, y
    <3>3. q * Byte \in Nat
      BY <1>0, <3>1
    <3>4. q * Byte = i
      BY <2>2, <3>1, <3>3
    <3>5. /\ y \in Bits /\ Len(y) = Byte
          /\ \A k \in 1..Byte : i + k <= Len(bits) => y[k] = bits[i + k]
      BY <1>0, <3>1, <3>2, <3>4, ByteIs
    <3> QED
      BY <1>0, <2>2, <3>5 DEF Holds
  <2> QED
    BY <2>1, <2>2
<1> HIDE DEF y, r
<1>3. y \in Bits /\ Len(y) = Byte
      /\ \A k \in 1..(Byte - r) : i + k <= Len(bits) => y[k] = bits[i + k]
  BY <1>2 DEF Holds, r
<1>4. Head(y) = bits[i + 1]
  <2>1. 1 \in 1..(Byte - r) /\ i + 1 <= Len(bits)
    BY <1>0, <1>1
  <2>2. y[1] = bits[i + 1]
    BY <1>3, <2>1
  <2>3. Head(y) = y[1]
    BY <1>0, <1>3 DEF Bits
  <2> QED
    BY <2>2, <2>3
<1>5. ASSUME (i + 1) % Byte # 0 PROVE Holds(ShiftLeft(y, 1), i + 1, bits)
  <2> DEFINE s == ShiftLeft(y, 1)
  <2>1. r + 1 < Byte /\ (i + 1) % Byte = r + 1
    BY <1>0, <1>5, ModNext DEF r
  <2>2. s \in Bits /\ Len(s) = Byte /\ \A k \in 1..(Byte - 1) : s[k] = y[k + 1]
    BY <1>0, <1>3, ShiftIs
  <2> HIDE DEF s
  <2>3. ASSUME NEW k \in 1..(Byte - (r + 1)), (i + 1) + k <= Len(bits)
        PROVE  s[k] = bits[(i + 1) + k]
    <3>1. /\ k \in 1..(Byte - 1) /\ k + 1 \in 1..(Byte - r)
          /\ i + (k + 1) <= Len(bits) /\ i + (k + 1) = (i + 1) + k
      BY <1>0, <1>1, <2>3
    <3> QED
      BY <1>3, <2>2, <3>1
  <2> QED
    BY <2>1, <2>2, <2>3 DEF Holds, s
<1> QED
  BY <1>4, <1>5 DEF y

(* One bit more of the string.                                             *)
LEMMA OneBitMore ==
  ASSUME NEW bits \in Bits, NEW i \in Nat, i < Len(bits)
  PROVE  Append(SubSeq(bits, 1, i), bits[i + 1]) = SubSeq(bits, 1, i + 1)
<1> DEFINE s == SubSeq(bits, 1, i)
           t == SubSeq(bits, 1, i + 1)
           e == bits[i + 1]
<1>1. Len(bits) \in Nat /\ \A k \in 1..Len(bits) : bits[k] \in {0, 1}
  BY DEF Bits
<1>2. s \in Seq({0, 1}) /\ Len(s) = i /\ \A k \in 1..i : s[k] = bits[k]
  <2>1. \A k \in 1..i : bits[k] \in {0, 1}
    BY <1>1
  <2>2. /\ s \in Seq({0, 1}) /\ Len(s) = IF 1 <= i THEN i - 1 + 1 ELSE 0
        /\ \A k \in 1..(i - 1 + 1) : s[k] = bits[1 + k - 1]
    <3> HIDE DEF s
    <3>1. i \in Int /\ 1 \in Int
      OBVIOUS
    <3> QED
      BY <2>1, <3>1, SubSeqProperties DEF s
  <2> HIDE DEF s
  <2> QED
    BY <2>2
<1>3. t \in Seq({0, 1}) /\ Len(t) = i + 1 /\ \A k \in 1..(i + 1) : t[k] = bits[k]
  <2>1. \A k \in 1..(i + 1) : bits[k] \in {0, 1}
    BY <1>1
  <2>2. /\ t \in Seq({0, 1}) /\ Len(t) = IF 1 <= i + 1 THEN (i + 1) - 1 + 1 ELSE 0
        /\ \A k \in 1..((i + 1) - 1 + 1) : t[k] = bits[1 + k - 1]
    <3> DEFINE n == i + 1
    <3>1. n \in Int /\ 1 \in Int
      OBVIOUS
    <3> HIDE DEF n
    <3>2. /\ SubSeq(bits, 1, n) \in Seq({0, 1})
          /\ Len(SubSeq(bits, 1, n)) = IF 1 <= n THEN n - 1 + 1 ELSE 0
          /\ \A k \in 1..(n - 1 + 1) : SubSeq(bits, 1, n)[k] = bits[1 + k - 1]
      BY <2>1, <3>1, SubSeqProperties DEF n
    <3> QED
      BY <3>2 DEF n
  <2> HIDE DEF t
  <2> QED
    BY <2>2
<1>4. e \in {0, 1} /\ t[i + 1] = e
  BY <1>1, <1>3
<1> HIDE DEF s, t, e
<1>5. /\ Append(s, e) \in Seq({0, 1}) /\ Len(Append(s, e)) = i + 1
      /\ \A k \in 1..(i + 1) : Append(s, e)[k] = t[k]
  BY <1>2, <1>3, <1>4
<1> QED
  BY <1>3, <1>5 DEF s, t, e

-----------------------------------------------------------------------------
(* The invariants                                                          *)

(* None of the kinds of data and operations was met.                       *)
Without(kinds) == met \cap kinds = {}

TypeInv ==
  /\ type \in OnWay /\ zone \in Nat /\ changes \in Nat
  /\ phase \in {"ruby", "each", "given"}
  /\ phase = "each" => IsBits

(* The operations that change other bits than they should.                 *)
BitKinds == {"bit_reference", "bit_assign"}

WalkKinds == BitKinds \cup {"each_change"}

(* The block got the bits up to i, and x has those left in the byte.       *)
Walked ==
  /\ walk.i \in 0..Len(meant) /\ walk.got = SubSeq(meant, 1, walk.i)
  /\ walk.i % Byte # 0 => Holds(walk.x, walk.i, meant)

(* A string holds the bits it stands for.  Before the first operation that *)
(* is so whatever is odd.                                                  *)
BitsInv ==
  /\ IsBits /\ (Without(BitKinds) \/ changes = 0) =>
       meant \in Bits /\ object = meant
  /\ phase = "each" /\ (Without(WalkKinds) \/ changes = 0) => Walked
  /\ phase = "ruby" /\ walk.i > 0 /\ changes = 0 => walk.got = meant

(* The locals of pl_bit_each; the string went away only under a block.     *)
WalkInv ==
  /\ walk = [i |-> walk.i, x |-> walk.x, got |-> walk.got, gone |-> walk.gone]
  /\ walk.gone => "each_change" \in met
  /\ ~IsBits => walk.i = 0

(* An array with a NULL, of MAXDIM dimensions, that does not start at 1,   *)
(* or that is none.                                                        *)
ArrayKinds == {"null_item", "ragged", "deep", "bounds"}

(* The object is the array of Arrays that is meant.                        *)
Nested(dims, items) ==
  /\ dims \in Rects /\ Len(dims) < MAXDIM
  /\ items \in Seq(Elements) /\ Len(items) = NItems(dims)
  /\ meant = [dims |-> dims, lbound |-> 1, items |-> items]
  /\ object = Nest(dims, items)

(* The empty array.                                                        *)
Hollow == /\ meant = [dims |-> <<>>, lbound |-> 1, items |-> <<>>]
          /\ object = <<>> /\ "empty" \in met

ArrayInv ==
  type = "array" /\ Without(ArrayKinds) =>
    Hollow \/ \E dims, items : Nested(dims, items)

ValueKinds == {"wide", "early", "fraction", "zoned", "months", "new_path",
               "concat", "row_change", "dropped", "tinterval"}

(* How the object of each of the other types stands for what is meant.     *)
ValueInv ==
  Without(ValueKinds) =>
    /\ type = "int2" => object \in Int /\ meant = object /\ FitsInt2(object)
    /\ type = "date" => meant \in Int /\ object = Midnight(meant, zone)
    /\ type \in {"time", "timestamp"} =>
         /\ zone = 0
         /\ object = meant /\ meant \in 0..(Day * Second - 1)
    /\ type = "timestamptz" =>
         object = meant /\ meant \in Int /\ TimeText(meant) = meant
    /\ type = "interval" =>
         object \in Int /\ meant = [month |-> 0, day |-> 0, time |-> object]
    /\ type # "tinterval"
    /\ type = "inet" => object = meant
    /\ type = "path" =>
         object = meant /\ \E pts \in Seq(Int) : meant = FromBackend(pts)
    /\ type = "box" =>
         object = meant /\ meant \in SomeBoxes
    /\ type = "row" => object.tuple = meant /\ meant \in SomeRows
    /\ type = "record" =>
         /\ object = [cells |-> meant, tuple |-> Null]
         /\ meant \in [1..2 -> Elements]

(* The kinds for which memory outside of an object is read.                *)
TouchKinds == {"packed", "each_empty", "each_change", "empty"} \cup ArrayKinds

TouchInv == Without(TouchKinds) => touched = "inside"

(* The kinds that lose a value on the way.                                 *)
GivenKinds == ValueKinds \cup BitKinds \cup ArrayKinds \cup {"bit_length"}

GivenInv == phase = "given" /\ Without(GivenKinds) => out = meant

Inv == /\ TypeInv /\ WalkInv /\ BitsInv /\ ArrayInv /\ ValueInv /\ TouchInv
       /\ GivenInv

-----------------------------------------------------------------------------
(* The beginning                                                           *)

LEMMA BitStringsAre ==
  ASSUME NEW n \in Nat, NEW bits \in BitStrings(n)
  PROVE  bits \in Bits /\ Len(bits) = n
BY DEF BitStrings, Bits

(* The dimensions that are neither empty nor MAXDIM.                       *)
LEMMA ShapesAre ==
  ASSUME NEW dims \in Shapes, dims # <<>>, Len(dims) # MAXDIM
  PROVE  dims \in Rects /\ Len(dims) < MAXDIM
<1>1. MAXDIM \in Nat /\ MAXDIM > 1
  BY ArraysAssumption
<1>2. Len([d \in 1..MAXDIM |-> 1]) = MAXDIM
  BY <1>1
<1>3. dims \in {<<2>>, <<1, 2>>, <<2, 2>>, <<2, 1>>}
  BY <1>2 DEF Shapes
<1>4. Len(dims) \in {1, 2}
  BY <1>3
<1>5. Len(dims) < MAXDIM
  <2>1. CASE Len(dims) = 1
    BY <1>1, <2>1
  <2>2. CASE Len(dims) = 2
    <3>1. MAXDIM # 2
      BY <2>2
    <3> QED
      BY <1>1, <2>2, <3>1
  <2> QED
    BY <1>4, <2>1, <2>2
<1>6. dims \in Rects
  BY <1>3 DEF Rects
<1> QED
  BY <1>5, <1>6

LEMMA ArrayGiven ==
  ASSUME NEW datum \in SomeArrays, ~NilIn(datum.items), datum.dims # <<>>,
         Len(datum.dims) # MAXDIM, datum.lbound = 1
  PROVE  \E dims \in Rects, items \in Seq(Elements) :
           /\ Len(dims) < MAXDIM /\ Len(items) = NItems(dims)
           /\ datum = [dims |-> dims, lbound |-> 1, items |-> items]
           /\ CreateArray(datum) = Nest(dims, items)
<1>1. PICK dims \in Shapes :
        datum \in [dims : {dims}, lbound : IF dims = <<>> THEN {1} ELSE 0..1,
                    items : [1..NItems(dims) -> SomeItems]]
  BY DEF SomeArrays
<1> DEFINE items == datum.items
<1>2. /\ datum = [dims |-> dims, lbound |-> 1, items |-> items] /\ datum.dims = dims
      /\ items \in [1..NItems(dims) -> SomeItems]
  BY <1>1
<1> HIDE DEF items
<1>3. dims \in Rects /\ Len(dims) < MAXDIM
  BY <1>2, ShapesAre
<1>4. NItems(dims) \in Nat
  BY <1>3, RectIs
<1>5. \A i \in 1..NItems(dims) : items[i] \in Elements
  BY <1>2 DEF SomeItems, NilIn, items
<1>6. items \in Seq(Elements) /\ Len(items) = NItems(dims)
  BY <1>2, <1>4, <1>5
<1>7. CreateArray(datum) = Nest(dims, items)
  BY <1>2, <1>3, <1>6, CreateArrayIs
<1> QED
  BY <1>2, <1>3, <1>6, <1>7

LEMMA ListOf ==
  ASSUME NEW S, NEW n \in Nat, NEW list \in [1..n -> S]
  PROVE  list \in Seq(S) /\ Len(list) = n
<1>1. \A i \in 1..n : list[i] \in S
  OBVIOUS
<1>2. DOMAIN list = 1..n
  OBVIOUS
<1>3. list \in Seq(S)
  BY SeqDef
<1> QED
  BY <1>2, <1>3

LEMMA RecordGiven ==
  ASSUME NEW row \in SomeRows
  PROVE  /\ row \in Seq(Leaves) /\ row # Null
         /\ Null \notin {row[1], row[2]} =>
              row \in [1..2 -> Elements] /\ Live(row) = row
<1>1. Elements \subseteq Leaves /\ Null \in Leaves
  BY DEF Leaves
<1>2. row \in [1..2 -> Elements] \/ \E value \in Elements : row = <<value, Null>>
  BY DEF SomeRows
<1>3. ASSUME row \in [1..2 -> Elements] PROVE row \in Seq(Elements) /\ Len(row) = 2
  BY <1>3, ListOf
<1>4. row \in Seq(Leaves)
  <2>1. CASE row \in [1..2 -> Elements]
    <3>1. \A i \in 1..2 : row[i] \in Leaves
      BY <1>1, <2>1
    <3>2. row \in [1..2 -> Leaves]
      BY <2>1, <3>1
    <3> QED
      BY <3>2, ListOf
  <2>2. ASSUME NEW value \in Elements, row = <<value, Null>>
        PROVE  row \in Seq(Leaves)
    <3>1. value \in Leaves
      BY <1>1
    <3>2. <<value, Null>> \in Seq(Leaves)
      BY <1>1, <3>1
    <3> QED
      BY <2>2, <3>2
  <2> QED
    BY <1>2, <2>1, <2>2
<1>5. row # Null
  BY <1>1, <1>4, LeavesAssumption
<1>6. ASSUME Null \notin {row[1], row[2]}
      PROVE  row \in [1..2 -> Elements] /\ Live(row) = row
  <2>1. \A value : <<value, Null>>[2] = Null
    OBVIOUS
  <2>2. row \in [1..2 -> Elements]
    BY <1>2, <1>6, <2>1
  <2>3. \A i \in 1..2 : row[i] # Null
    BY <1>1, <2>2, ArraysAssumption
  <2>4. row \in Seq(Elements) /\ DOMAIN row = 1..2
    BY <1>3, <2>2
  <2>5. NotNull(row) = row
    BY <2>3, <2>4, NotNullSame
  <2> QED
    BY <2>2, <2>5 DEF Live
<1> QED
  BY <1>4, <1>5, <1>6

(* Every argument is what its Ruby object stands for.                      *)
LEMMA InitTyped == Init => TypeInv /\ WalkInv
<1> SUFFICES ASSUME Init PROVE TypeInv /\ WalkInv
  OBVIOUS
<1>1. walk = NoWalk /\ walk.i = 0 /\ walk.gone = FALSE
  BY DEF Init, NoWalk
<1>2. WalkInv
  BY <1>1 DEF WalkInv, NoWalk
<1>3. type \in OnWay
  BY ValuesAssumption DEF Init
<1>4. TypeInv
  BY <1>3 DEF TypeInv, Init
<1> QED
  BY <1>2, <1>4

LEMMA InitBits == Init => BitsInv
<1> SUFFICES ASSUME Init PROVE BitsInv
  OBVIOUS
<1>1. phase = "ruby" /\ walk.i = 0
  BY DEF Init, NoWalk
<1>2. PICK datum \in Datums : meant = datum /\ object = FromDatum(datum)
  BY DEF Init
<1>3. ASSUME IsBits PROVE meant \in Bits /\ object = meant
  <2>1. object = datum
    BY <1>2, <1>3 DEF FromDatum, IsBits
  <2>2. \E n \in Nat : datum \in BitStrings(n)
    <3>1. CASE type = "bit"
      BY <3>1, ValuesAssumption DEF Datums
    <3>2. CASE type = "varbit"
      BY <3>2, ValuesAssumption DEF Datums
    <3> QED
      BY <1>3, <3>1, <3>2 DEF IsBits
  <2> QED
    BY <1>2, <2>1, <2>2, BitStringsAre
<1> QED
  BY <1>1, <1>3 DEF BitsInv

LEMMA InitArray == Init => ArrayInv
<1> SUFFICES ASSUME Init, type = "array", Without(ArrayKinds)
             PROVE  Hollow \/ \E dims, items : Nested(dims, items)
  BY DEF ArrayInv
<1>1. PICK datum \in Datums : /\ meant = datum /\ object = FromDatum(datum)
                              /\ OddData(datum) \subseteq met
  BY DEF Init
<1>2. datum \in SomeArrays /\ object = CreateArray(datum)
  BY <1>1 DEF Datums, FromDatum
<1>3. OddData(datum) = MetIf(NilIn(datum.items), "null_item")
                       \cup MetIf(datum.dims = <<>>, "empty")
                       \cup MetIf(Len(datum.dims) = MAXDIM, "deep")
                       \cup MetIf(datum.lbound # 1, "bounds")
  BY DEF OddData
<1>4. ~NilIn(datum.items) /\ Len(datum.dims) # MAXDIM /\ datum.lbound = 1
  BY <1>1, <1>3 DEF Without, ArrayKinds, MetIf
<1>5. CASE datum.dims = <<>>
  <2>1. PICK dims \in Shapes :
          datum \in [dims : {dims}, lbound : IF dims = <<>> THEN {1} ELSE 0..1,
                      items : [1..NItems(dims) -> SomeItems]]
    BY <1>2 DEF SomeArrays
  <2>2. /\ datum = [dims |-> datum.dims, lbound |-> datum.lbound,
                     items |-> datum.items]
        /\ datum.items \in [1..NItems(datum.dims) -> SomeItems]
    BY <2>1
  <2>3. NItems(<<>>) = 0
    BY DEF NItems
  <2>4. datum.items = <<>>
    BY <1>5, <2>2, <2>3
  <2>5. CreateArray(datum) = <<>>
    BY <1>5, <2>3 DEF CreateArray
  <2>6. datum = [dims |-> <<>>, lbound |-> 1, items |-> <<>>]
    BY <1>4, <1>5, <2>2, <2>4
  <2>7. "empty" \in met
    BY <1>1, <1>3, <1>5 DEF MetIf
  <2>8. Hollow
    BY <1>1, <1>2, <2>5, <2>6, <2>7 DEF Hollow
  <2> QED
    BY <2>8
<1>6. CASE datum.dims # <<>>
  <2>1. PICK dims \in Rects, items \in Seq(Elements) :
             /\ Len(dims) < MAXDIM /\ Len(items) = NItems(dims)
             /\ datum = [dims |-> dims, lbound |-> 1, items |-> items]
             /\ CreateArray(datum) = Nest(dims, items)
    BY <1>2, <1>4, <1>6, ArrayGiven
  <2>2. Nested(dims, items)
    BY <1>1, <1>2, <2>1 DEF Nested
  <2> QED
    BY <2>2
<1> QED
  BY <1>5, <1>6

LEMMA InitValue == Init => ValueInv
<1> SUFFICES ASSUME Init, Without(ValueKinds) PROVE ValueInv
  BY DEF ValueInv
<1>1. PICK datum \in Datums : /\ meant = datum /\ object = FromDatum(datum)
                              /\ OddData(datum) \subseteq met
  BY DEF Init
<1>2. zone \in {0, 1}
  BY DEF Init
<1>3. \A kind : kind \in OddData(datum) => kind \notin ValueKinds
  BY <1>1 DEF Without
<1>4. ASSUME type = "int2"
      PROVE  object \in Int /\ meant = object /\ FitsInt2(object)
  <2>1. datum \in Int /\ FitsInt2(datum)
    BY <1>4 DEF Datums
  <2>2. object = datum
    BY <1>1, <1>4 DEF FromDatum
  <2> QED
    BY <1>1, <2>1, <2>2
<1>5. ASSUME type = "date"
      PROVE  meant \in Int /\ object = Midnight(meant, zone)
  <2>1. datum \in Int
    BY <1>5 DEF Datums
  <2>2. object = TimeFrom("date", datum, zone)
    BY <1>1, <1>5 DEF FromDatum
  <2> QED
    BY <1>1, <1>2, <2>1, <2>2, MidnightIs
<1>6. ASSUME type \in {"time", "timestamp"}
      PROVE  zone = 0 /\ object = meant /\ meant \in 0..(Day * Second - 1)
  <2>1. datum \in -Second..(Day * Second - 1)
    BY <1>6 DEF Datums
  <2>2. OddData(datum) = MetIf(zone # 0, "zoned") \cup MetIf(datum < 0, "early")
    BY <1>6 DEF OddData
  <2>3. zone = 0 /\ ~(datum < 0)
    BY <1>3, <2>2 DEF MetIf, ValueKinds
  <2>4. object = TimeAt(datum)
    BY <1>1, <1>6 DEF FromDatum, TimeFrom
  <2> DEFINE d == Day * Second
  <2>5. d \in Nat /\ Second \in Nat
    BY Sizes
  <2>6. datum \in -Second..(d - 1)
    BY <2>1
  <2> HIDE DEF d
  <2>7. datum \in 0..(d - 1) /\ datum \in Nat
    BY <2>3, <2>5, <2>6
  <2>8. object = datum
    BY <2>4, <2>7, TimeAtLate
  <2> QED
    BY <1>1, <2>3, <2>7, <2>8 DEF d
<1>7. ASSUME type = "timestamptz"
      PROVE  object = meant /\ meant \in Int /\ TimeText(meant) = meant
  <2> DEFINE d == Day * Second
  <2>1. datum \in 0..d
    BY <1>7 DEF Datums
  <2>2. OddData(datum) = MetIf(Rem(datum, Second) # 0, "fraction")
    BY <1>7 DEF OddData
  <2>3. Rem(datum, Second) = 0
    BY <1>3, <2>2 DEF MetIf, ValueKinds
  <2>4. d \in Nat /\ Second \in Nat \ {0}
    BY Sizes
  <2> HIDE DEF d
  <2>5. datum \in Nat
    BY <2>1, <2>4
  <2>6. object = TimeAt(datum)
    BY <1>1, <1>7 DEF FromDatum, TimeFrom
  <2>7. object = datum /\ datum % Second = 0
    BY <2>3, <2>5, <2>6, TimeAtLate
  <2>8. TimeText(datum) = datum
    <3> DEFINE q == datum \div Second
    <3>1. q \in Nat /\ datum = (q * Second) + (datum % Second)
      BY <2>4, <2>5, NatDivMod
    <3> DEFINE x == q * Second
    <3>2. x \in Nat
      BY <2>4, <3>1
    <3> HIDE DEF x
    <3>3. datum = x
      BY <2>7, <3>1, <3>2 DEF x
    <3> QED
      BY <3>3 DEF TimeText, x
  <2> QED
    BY <1>1, <2>5, <2>7, <2>8
<1>8. ASSUME type = "interval"
      PROVE  object \in Int /\ meant = [month |-> 0, day |-> 0, time |-> object]
  <2>1. datum \in [month : 0..1, day : 0..1, time : 0..2]
    BY <1>8 DEF Datums
  <2>2. OddData(datum) = MetIf(datum.month + datum.day > 0, "months")
    BY <1>8 DEF OddData
  <2>3. ~(datum.month + datum.day > 0)
    BY <1>3, <2>2 DEF MetIf, ValueKinds
  <2>4. datum.month = 0 /\ datum.day = 0 /\ datum.time \in Int
    BY <2>1, <2>3
  <2>5. object = datum.month * 30 * Day + datum.time
    BY <1>1, <1>8 DEF FromDatum, Seconds
  <2>6. object = datum.time
    <3>1. Day \in Nat
      BY Sizes
    <3>2. 0 * 30 * Day = 0
      BY <3>1
    <3>3. datum.month * 30 * Day = 0
      BY <2>4, <3>2
    <3> QED
      BY <2>4, <2>5, <3>3
  <2>7. datum = [month |-> datum.month, day |-> datum.day, time |-> datum.time]
    BY <2>1
  <2> QED
    BY <1>1, <2>4, <2>6, <2>7
<1>9. type # "tinterval"
  <2>1. type = "tinterval" => OddData(datum) = {"tinterval"}
    BY DEF OddData
  <2> QED
    BY <1>3, <2>1 DEF ValueKinds
<1>10. type = "inet" => object = meant
  BY <1>1 DEF FromDatum
<1>11. ASSUME type = "path"
       PROVE  object = meant /\ \E pts \in Seq(Int) : meant = FromBackend(pts)
  <2>1. datum \in {FromBackend(pts) : pts \in SomePaths}
    BY <1>11 DEF Datums
  <2>2. PICK pts \in SomePaths : datum = FromBackend(pts)
    BY <2>1
  <2>3. pts \in Seq(Int)
    <3>1. PICK n \in 0..2 : pts \in [1..n -> 1..2]
      BY DEF SomePaths
    <3>2. pts \in [1..n -> Int] /\ n \in Nat
      BY <3>1
    <3> QED
      BY <3>2, ListOf
  <2>4. object = datum
    BY <1>1, <1>11 DEF FromDatum
  <2> QED
    BY <1>1, <2>2, <2>3, <2>4
<1>12. type = "box" => object = meant /\ meant \in SomeBoxes
  BY <1>1 DEF FromDatum, Datums
<1>13. type = "row" => object.tuple = meant /\ meant \in SomeRows
  BY <1>1 DEF FromDatum, Datums
<1>14. ASSUME type = "record"
       PROVE  /\ object = [cells |-> meant, tuple |-> Null]
              /\ meant \in [1..2 -> Elements]
  <2>1. datum \in SomeRows /\ object = [cells |-> Live(datum), tuple |-> Null]
    BY <1>1, <1>14 DEF FromDatum, Datums
  <2>2. OddData(datum) = MetIf(Null \in {datum[1], datum[2]}, "dropped")
    BY <1>14 DEF OddData
  <2>3. Null \notin {datum[1], datum[2]}
    BY <1>3, <2>2 DEF MetIf, ValueKinds
  <2>4. datum \in [1..2 -> Elements] /\ Live(datum) = datum
    BY <2>1, <2>3, RecordGiven
  <2> QED
    BY <1>1, <2>1, <2>4
<1> QED
  BY <1>4, <1>5, <1>6, <1>7, <1>8, <1>9, <1>10, <1>11, <1>12, <1>13, <1>14
  DEF ValueInv

LEMMA InitRest == Init => TouchInv /\ GivenInv
<1> SUFFICES ASSUME Init PROVE TouchInv /\ GivenInv
  OBVIOUS
<1>1. GivenInv
  BY DEF Init, GivenInv
<1>2. ASSUME Without(TouchKinds) PROVE touched = "inside"
  <2>1. PICK datum \in Datums, packed \in BOOLEAN :
          /\ met = OddData(datum) \cup MetIf(packed, "packed")
          /\ touched = IF packed \/ (type = "array" /\ NilIn(datum.items))
                       THEN "outside" ELSE "inside"
    BY DEF Init
  <2>2. ~packed
    BY <1>2, <2>1 DEF Without, TouchKinds, MetIf
  <2>3. ASSUME type = "array" PROVE ~NilIn(datum.items)
    <3>1. MetIf(NilIn(datum.items), "null_item") \subseteq OddData(datum)
      BY <2>3 DEF OddData
    <3> QED
      BY <1>2, <2>1, <3>1 DEF Without, TouchKinds, ArrayKinds, MetIf
  <2> QED
    BY <2>1, <2>2, <2>3
<1> QED
  BY <1>1, <1>2 DEF TouchInv

LEMMA InitInv == Init => Inv
BY InitTyped, InitBits, InitArray, InitValue, InitRest DEF Inv

-----------------------------------------------------------------------------
(* The steps                                                               *)

(* What every step leaves alone or adds to.                                *)
LEMMA Grows ==
  ASSUME Next
  PROVE  type' = type /\ zone' = zone /\ met \subseteq met'
<1>1. Changing => type' = type /\ zone' = zone
  BY DEF Changing
<1>2. CASE Count
  BY <1>1, <1>2 DEF Count, Meets
<1>3. CASE Push
  BY <1>1, <1>3 DEF Push, Replaced, Meets
<1>4. CASE TakeSubstr
  BY <1>1, <1>4 DEF TakeSubstr
<1>5. CASE Reference
  BY <1>1, <1>5 DEF Reference, Meets
<1>6. CASE Assign
  BY <1>1, <1>6 DEF Assign, Replaced, Meets
<1>7. CASE Dup
  BY <1>1, <1>7 DEF Dup
<1>8. CASE SetMasklen
  BY <1>1, <1>8 DEF SetMasklen
<1>9. CASE Move
  BY <1>1, <1>9 DEF Move
<1>10. CASE ConcatPath
  BY <1>1, <1>10 DEF ConcatPath, Meets
<1>11. CASE MakePath
  BY <1>1, <1>11 DEF MakePath, Meets
<1>12. CASE ChangeBox
  BY <1>1, <1>12 DEF ChangeBox
<1>13. CASE ChangeItem
  BY <1>1, <1>13 DEF ChangeItem, Meets
<1>14. CASE MakeRagged
  BY <1>14 DEF MakeRagged, Meets
<1>15. CASE ChangeCell
  BY <1>1, <1>15 DEF ChangeCell, Meets
<1>16. CASE EachStart
  BY <1>16 DEF EachStart, Meets
<1>17. CASE EachNext
  BY <1>17 DEF EachNext
<1>18. CASE EachEnd
  BY <1>18 DEF EachEnd
<1>19. CASE Give
  BY <1>19 DEF Give, Meets
<1> QED
  BY <1>2, <1>3, <1>4, <1>5, <1>6, <1>7, <1>8, <1>9, <1>10, <1>11, <1>12,
     <1>13, <1>14, <1>15, <1>16, <1>17, <1>18, <1>19 DEF Next

(* What was not met by then was not met before.                            *)
LEMMA Earlier ==
  ASSUME Next, NEW kinds, Without(kinds)'
  PROVE  Without(kinds)
BY Grows DEF Without

(* The operations of the class, apart from those of BitString.             *)
Other == \/ Count \/ Dup \/ SetMasklen \/ Move \/ ConcatPath \/ MakePath
         \/ ChangeBox \/ ChangeItem \/ ChangeCell

LEMMA Others ==
  ASSUME Other
  PROVE  Changing /\ ~IsBits /\ walk' = walk /\ touched' = touched
<1>1. CASE Count
  BY <1>1 DEF Count, IsBits
<1>2. CASE Dup
  BY <1>2 DEF Dup, IsBits
<1>3. CASE SetMasklen
  BY <1>3 DEF SetMasklen, IsBits
<1>4. CASE Move
  BY <1>4 DEF Move, IsBits
<1>5. CASE ConcatPath
  BY <1>5 DEF ConcatPath, IsBits
<1>6. CASE MakePath
  BY <1>6 DEF MakePath, IsBits
<1>7. CASE ChangeBox
  BY <1>7 DEF ChangeBox, IsBits
<1>8. CASE ChangeItem
  BY <1>8 DEF ChangeItem, IsBits
<1>9. CASE ChangeCell
  BY <1>9 DEF ChangeCell, IsBits
<1> QED
  BY <1>1, <1>2, <1>3, <1>4, <1>5, <1>6, <1>7, <1>8, <1>9 DEF Other

LEMMA Steps ==
  ASSUME Next
  PROVE  \/ Other \/ Push \/ TakeSubstr \/ Reference \/ Assign
         \/ MakeRagged \/ EachStart \/ EachNext \/ EachEnd \/ Give
BY DEF Next, Other

(* An operation of the class counts and stays in the method.               *)
LEMMA Changed ==
  ASSUME TypeInv, Changing
  PROVE  /\ changes' \in Nat /\ changes' # 0 /\ phase' = phase /\ out' = out
         /\ phase \in {"ruby", "each"} /\ type' = type /\ zone' = zone
BY DEF TypeInv, Changing

LEMMA BitOps ==
  ASSUME Push \/ TakeSubstr \/ Reference \/ Assign
  PROVE  Changing /\ IsBits /\ touched' = touched
<1>1. CASE Push
  BY <1>1 DEF Push
<1>2. CASE TakeSubstr
  BY <1>2 DEF TakeSubstr
<1>3. CASE Reference
  BY <1>3 DEF Reference
<1>4. CASE Assign
  BY <1>4 DEF Assign
<1> QED
  BY <1>1, <1>2, <1>3, <1>4

LEMMA TypeStep ==
  ASSUME TypeInv, Next
  PROVE  TypeInv'
<1>1. type' = type /\ zone' = zone
  BY Grows
<1>2. IsBits' = IsBits
  BY <1>1 DEF IsBits
<1>3. CASE Changing
  BY <1>1, <1>2, <1>3, Changed DEF TypeInv
<1>4. CASE MakeRagged
  BY <1>1, <1>2, <1>4 DEF TypeInv, MakeRagged
<1>5. CASE EachStart
  BY <1>1, <1>2, <1>5 DEF TypeInv, EachStart
<1>6. CASE EachNext
  BY <1>1, <1>2, <1>6 DEF TypeInv, EachNext
<1>7. CASE EachEnd
  BY <1>1, <1>2, <1>7 DEF TypeInv, EachEnd
<1>8. CASE Give
  BY <1>1, <1>2, <1>8 DEF TypeInv, Give
<1> QED
  BY <1>3, <1>4, <1>5, <1>6, <1>7, <1>8, Steps, Others, BitOps

(* A string that is replaced is a new one for each, too.                   *)
LEMMA ReplacedIs ==
  ASSUME WalkInv, NEW bits, NEW kinds, Replaced(bits, kinds)
  PROVE  /\ object' = bits /\ kinds \subseteq met'
         /\ phase = "each" => "each_change" \in met'
         /\ walk' = [i |-> walk.i, x |-> walk.x, got |-> walk.got,
                     gone |-> phase = "each"]
<1>1. /\ object' = bits
      /\ met' = met \cup (kinds \cup MetIf(phase = "each", "each_change"))
      /\ walk' = [walk EXCEPT !.gone = phase = "each"]
  BY DEF Replaced, Meets
<1>2. walk = [i |-> walk.i, x |-> walk.x, got |-> walk.got, gone |-> walk.gone]
  BY DEF WalkInv
<1>3. walk' = [i |-> walk.i, x |-> walk.x, got |-> walk.got,
               gone |-> phase = "each"]
  BY <1>1, <1>2
<1>4. phase = "each" => MetIf(phase = "each", "each_change") = {"each_change"}
  BY DEF MetIf
<1> QED
  BY <1>1, <1>3, <1>4

LEMMA WalkStep ==
  ASSUME TypeInv, WalkInv, Next
  PROVE  WalkInv'
<1>1. type' = type /\ met \subseteq met'
  BY Grows
<1>2. IsBits' = IsBits
  BY <1>1 DEF IsBits
<1>3. ASSUME walk' = walk PROVE WalkInv'
  BY <1>1, <1>2, <1>3 DEF WalkInv
<1>4. ASSUME NEW bits, NEW kinds, IsBits, Replaced(bits, kinds) PROVE WalkInv'
  <2>1. /\ phase = "each" => "each_change" \in met'
        /\ walk' = [i |-> walk.i, x |-> walk.x, got |-> walk.got,
                    gone |-> phase = "each"]
    BY <1>4, ReplacedIs
  <2> DEFINE b == phase = "each"
  <2>2. walk'.gone = b /\ walk'.i = walk.i /\ walk'.x = walk.x /\ walk'.got = walk.got
    BY <2>1
  <2>3. walk' = [i |-> walk'.i, x |-> walk'.x, got |-> walk'.got, gone |-> walk'.gone]
    BY <2>1, <2>2
  <2>4. walk'.gone => "each_change" \in met'
    BY <2>1, <2>2
  <2> QED
    BY <1>2, <1>4, <2>3, <2>4 DEF WalkInv
<1>5. CASE Other
  BY <1>3, <1>5, Others
<1>6. CASE Push
  BY <1>4, <1>6 DEF Push
<1>7. CASE TakeSubstr
  BY <1>3, <1>7 DEF TakeSubstr
<1>8. CASE Reference
  BY <1>3, <1>8 DEF Reference
<1>9. CASE Assign
  BY <1>4, <1>9 DEF Assign
<1>10. CASE MakeRagged
  BY <1>3, <1>10 DEF MakeRagged
<1>11. CASE EachStart
  <2>1. walk' = [i |-> 0, x |-> <<>>, got |-> <<>>, gone |-> FALSE]
    BY <1>11 DEF EachStart, NoWalk
  <2>2. walk'.i = 0 /\ walk'.x = <<>> /\ walk'.got = <<>> /\ walk'.gone = FALSE
    BY <2>1
  <2>3. walk' = [i |-> walk'.i, x |-> walk'.x, got |-> walk'.got, gone |-> walk'.gone]
    BY <2>1, <2>2
  <2> QED
    BY <2>2, <2>3 DEF WalkInv
<1>12. CASE EachNext
  <2> DEFINE x == EachByte(walk.i, walk.x, object)
  <2>1. walk' = [walk EXCEPT !.i = @ + 1, !.x = ShiftLeft(x, 1),
                             !.got = Append(@, Head(x))]
    BY <1>12 DEF EachNext
  <2>2. walk = [i |-> walk.i, x |-> walk.x, got |-> walk.got, gone |-> walk.gone]
    BY DEF WalkInv
  <2>3. walk' = [i |-> walk.i + 1, x |-> ShiftLeft(x, 1),
                 got |-> Append(walk.got, Head(x)), gone |-> walk.gone]
    BY <2>1, <2>2
  <2>4. /\ walk'.i = walk.i + 1 /\ walk'.x = ShiftLeft(x, 1)
        /\ walk'.got = Append(walk.got, Head(x)) /\ walk'.gone = walk.gone
    BY <2>3
  <2>5. walk' = [i |-> walk'.i, x |-> walk'.x, got |-> walk'.got, gone |-> walk'.gone]
    BY <2>3, <2>4
  <2>6. IsBits
    BY <1>12 DEF EachNext, TypeInv
  <2> QED
    BY <1>1, <1>2, <2>4, <2>5, <2>6 DEF WalkInv
<1>13. CASE EachEnd
  BY <1>3, <1>13 DEF EachEnd
<1>14. CASE Give
  BY <1>3, <1>14 DEF Give
<1> QED
  BY <1>5, <1>6, <1>7, <1>8, <1>9, <1>10, <1>11, <1>12, <1>13, <1>14, Steps

-----------------------------------------------------------------------------
(* Bit strings, and each                                                   *)

LEMMA PlaceIs ==
  ASSUME NEW bits \in Bits, NEW idx \in Int, Place(bits, idx) # Nil
  PROVE  Place(bits, idx) \in Nat /\ Place(bits, idx) < Len(bits)
<1>1. Len(bits) \in Nat
  BY DEF Bits
<1> DEFINE place == IF idx < 0 THEN Len(bits) + idx ELSE idx
<1>2. place \in Int
  BY <1>1
<1>3. Place(bits, idx) = IF place < 0 \/ place >= Len(bits) THEN Nil ELSE place
  BY DEF Place
<1> HIDE DEF place
<1>4. ~(place < 0 \/ place >= Len(bits)) /\ Place(bits, idx) = place
  BY <1>3
<1> QED
  BY <1>1, <1>2, <1>4

(* What a[beg, len] answers is what it stands for.                         *)
LEMMA SubstrIs ==
  ASSUME NEW bits \in Bits, NEW beg \in Int, NEW len \in Nat \ {0},
         Substr(bits, beg, len) # Nil
  PROVE  LET first == IF beg < 0 THEN Len(bits) + beg ELSE beg
             s == Substr(bits, beg, len)
         IN  s \in Bits /\ s = SubSeq(bits, first + 1, first + Len(s))
<1> DEFINE first == IF beg < 0 THEN beg + Len(bits) ELSE beg
           count == IF first + len > Len(bits) THEN Len(bits) - first ELSE len
<1>1. Len(bits) \in Nat /\ \A i \in 1..Len(bits) : bits[i] \in {0, 1}
  BY DEF Bits
<1>2. first \in Int /\ first = IF beg < 0 THEN Len(bits) + beg ELSE beg
  BY <1>1
<1>3. Substr(bits, beg, len)
        = IF len < 0 \/ beg > Len(bits) \/ first < 0 THEN Nil
          ELSE SubSeq(bits, first + 1, first + count)
  BY DEF Substr
<1>4. ~(beg > Len(bits)) /\ ~(first < 0)
      /\ Substr(bits, beg, len) = SubSeq(bits, first + 1, first + count)
  <2> HIDE DEF first, count
  <2> QED
    BY <1>3
<1>5. first <= Len(bits)
  BY <1>1, <1>4
<1> HIDE DEF first
<1>6. count \in Nat /\ first + count <= Len(bits)
  <2> DEFINE size == Len(bits)
  <2>1. size \in Nat /\ first \in Nat /\ first <= size
    BY <1>1, <1>2, <1>4, <1>5
  <2>2. count = IF first + len > size THEN size - first ELSE len
    OBVIOUS
  <2> HIDE DEF count, size
  <2>3. count \in Nat /\ first + count <= size
    BY <2>1, <2>2
  <2> QED
    BY <2>3 DEF size
<1> HIDE DEF count
<1> DEFINE m == first + 1
           n == first + count
           s == SubSeq(bits, m, n)
<1>7. /\ s \in Seq({0, 1})
      /\ Len(s) = IF m <= n THEN n - m + 1 ELSE 0
  <2>1. m \in Int /\ n \in Int
    BY <1>2, <1>6
  <2>2. \A i \in m..n : bits[i] \in {0, 1}
    BY <1>1, <1>2, <1>4, <1>6
  <2> HIDE DEF m, n
  <2>3. bits \in Seq({0, 1})
    BY DEF Bits
  <2> QED
    BY <2>1, <2>2, <2>3, SubSeqProperties
<1>8. Len(s) = count
  <2> HIDE DEF s
  <2> QED
    BY <1>2, <1>6, <1>7
<1>9. s \in Bits
  BY <1>7 DEF Bits
<1>10. s = SubSeq(bits, first + 1, first + Len(s))
  <2>1. s = SubSeq(bits, first + 1, first + count)
    OBVIOUS
  <2> HIDE DEF s
  <2> QED
    BY <1>8, <2>1
<1>11. Substr(bits, beg, len) = s
  BY <1>4
<1> HIDE DEF s
<1> QED
  BY <1>2, <1>9, <1>10, <1>11

LEMMA EachNextIs ==
  ASSUME WalkInv, EachNext
  PROVE  /\ walk'.i = walk.i + 1
         /\ walk'.x = ShiftLeft(EachByte(walk.i, walk.x, object), 1)
         /\ walk'.got = Append(walk.got, Head(EachByte(walk.i, walk.x, object)))
         /\ phase = "each" /\ phase' = "each" /\ walk.i < Len(object)
         /\ object' = object /\ meant' = meant /\ changes' = changes
         /\ met' = met
<1> DEFINE x == EachByte(walk.i, walk.x, object)
<1>1. walk' = [walk EXCEPT !.i = @ + 1, !.x = ShiftLeft(x, 1),
                           !.got = Append(@, Head(x))]
  BY DEF EachNext
<1>2. walk = [i |-> walk.i, x |-> walk.x, got |-> walk.got, gone |-> walk.gone]
  BY DEF WalkInv
<1>3. walk' = [i |-> walk.i + 1, x |-> ShiftLeft(x, 1),
               got |-> Append(walk.got, Head(x)), gone |-> walk.gone]
  BY <1>1, <1>2
<1> QED
  BY <1>3 DEF EachNext, EachHas

(* What the object stands for is what it holds.                            *)
LEMMA BitsKept ==
  ASSUME TypeInv, WalkInv, BitsInv, Next, IsBits, Without(BitKinds)' \/ changes' = 0
  PROVE  meant' \in Bits /\ object' = meant'
<1>1. type' = type /\ met \subseteq met'
  BY Grows
<1>2. Changing => changes' # 0 /\ phase' = phase
  BY Changed
<1>3. changes' = 0 => changes = 0
  BY <1>2, Others, BitOps, Steps
  DEF MakeRagged, EachStart, EachNext, EachEnd, Give
<1>4. meant \in Bits /\ object = meant
  BY <1>3, Earlier DEF BitsInv
<1>5. Len(meant) \in Nat /\ Byte \in Nat \ {0} /\ Column \in Nat
  BY <1>4, BitsAssumption, ValuesAssumption DEF Bits
<1>6. ASSUME Changing PROVE Without(BitKinds)'
  BY <1>2, <1>6
<1>7. CASE Push
  <2>1. PICK bit \in {0, 1} : /\ object' = Append(object, bit)
                              /\ meant' = Append(meant, bit)
    BY <1>7 DEF Push, Replaced
  <2>2. Append(meant, bit) \in Bits
    BY <1>4 DEF Bits
  <2> QED
    BY <1>4, <2>1, <2>2
<1>8. CASE TakeSubstr
  <2>1. PICK beg \in -Column..Column, len \in 1..Column :
          /\ Substr(object, beg, len) # Nil
          /\ object' = Substr(object, beg, len)
          /\ meant' = LET first == IF beg < 0 THEN Len(meant) + beg ELSE beg IN
                      SubSeq(meant, first + 1, first + Len(object'))
    BY <1>8 DEF TakeSubstr
  <2>2. beg \in Int /\ len \in Nat \ {0}
    BY <1>5
  <2>3. Substr(object, beg, len) \in Bits
        /\ Substr(object, beg, len)
             = LET first == IF beg < 0 THEN Len(object) + beg ELSE beg IN
               SubSeq(object, first + 1, first + Len(Substr(object, beg, len)))
    BY <1>4, <2>1, <2>2, SubstrIs
  <2> QED
    BY <1>4, <2>1, <2>3
<1>9. CASE Reference
  <2>1. PICK idx \in -Column..(Column - 1) :
          /\ Place(object, idx) # Nil
          /\ met' = met \cup MetIf(Place(object, idx) % Byte # 0, "bit_reference")
          /\ object' = AfterBit(object, Place(object, idx))
    BY <1>9 DEF Reference, Meets
  <2> DEFINE place == Place(object, idx)
  <2>2. place \in Nat /\ place < Len(object)
    <3>1. idx \in Int
      BY <1>5
    <3> QED
      BY <1>4, <2>1, <3>1, PlaceIs
  <2>3. place % Byte = 0
    <3>1. "bit_reference" \notin met'
      BY <1>6, <1>9, BitOps DEF Without, BitKinds
    <3> QED
      BY <2>1, <3>1 DEF MetIf
  <2> HIDE DEF place
  <2>4. AfterBit(object, place) = object
    BY <1>4, <1>5, <2>2, <2>3, FirstOfByte
  <2>5. meant' = meant
    BY <1>9 DEF Reference
  <2> QED
    BY <1>4, <2>1, <2>4, <2>5 DEF place
<1>10. CASE Assign
  <2>1. PICK idx \in 0..(Column - 1), bit \in 0..1 :
          /\ idx < Len(object)
          /\ Replaced(Assigned(object, idx, <<bit>>),
                      MetIf(Len(object) # 1, "bit_assign"))
          /\ meant' = [meant EXCEPT ![idx + 1] = bit]
    BY <1>10 DEF Assign
  <2>2. object' = <<bit>> /\ MetIf(Len(object) # 1, "bit_assign") \subseteq met'
    BY <2>1, ReplacedIs DEF Assigned
  <2>3. Len(object) = 1
    BY <1>6, <1>10, <2>2, BitOps DEF Without, BitKinds, MetIf
  <2>4. idx + 1 = 1
    BY <1>5, <2>1, <2>3
  <2>5. DOMAIN meant = 1..1
    BY <1>4, <2>3 DEF Bits
  <2>6. meant' = <<bit>>
    <3>1. meant' = [meant EXCEPT ![1] = bit]
      BY <2>1, <2>4
    <3>2. [meant EXCEPT ![1] = bit] = [i \in 1..1 |-> bit]
      <4>1. meant = [i \in 1..1 |-> meant[i]]
        BY <1>4, <2>5 DEF Bits
      <4> DEFINE f == [i \in 1..1 |-> meant[i]]
      <4>2. [f EXCEPT ![1] = bit] = [i \in 1..1 |-> bit]
        OBVIOUS
      <4> HIDE DEF f
      <4>3. meant = f
        BY <4>1 DEF f
      <4> QED
        BY <4>2, <4>3
    <3>3. <<bit>> = [i \in 1..1 |-> bit]
      OBVIOUS
    <3> QED
      BY <3>1, <3>2, <3>3
  <2>7. <<bit>> \in Bits
    BY DEF Bits
  <2> QED
    BY <2>2, <2>6, <2>7
<1>11. CASE MakeRagged
  BY <1>11 DEF MakeRagged, IsBits
<1>12. CASE EachStart \/ EachNext \/ EachEnd \/ Give
  BY <1>4, <1>12 DEF EachStart, EachNext, EachEnd, Give
<1> QED
  BY <1>7, <1>8, <1>9, <1>10, <1>11, <1>12, Steps, Others

(* A block that is running gets the bits in their order.                   *)
LEMMA WalkKept ==
  ASSUME TypeInv, WalkInv, BitsInv, Next,
         phase' = "each", Without(WalkKinds)' \/ changes' = 0
  PROVE  Walked'
<1>1. type' = type /\ met \subseteq met'
  BY Grows
<1>2. Changing => changes' # 0 /\ phase' = phase /\ Without(WalkKinds)'
  BY Changed
<1>3. changes' = 0 => changes = 0
  BY <1>2, Others, BitOps, Steps
  DEF MakeRagged, EachStart, EachNext, EachEnd, Give
<1>4. Without(WalkKinds) \/ changes = 0
  BY <1>3, Earlier
<1>5. Without(BitKinds) \/ changes = 0
  BY <1>4 DEF Without, WalkKinds
<1>6. IsBits => meant \in Bits /\ object = meant
  BY <1>5 DEF BitsInv
<1>7. Without(WalkKinds)' => "each_change" \notin met'
  BY DEF Without, WalkKinds
<1>8. Push \/ Assign => phase = "each" /\ "each_change" \in met'
  BY <1>2, BitOps, ReplacedIs DEF Push, Assign
<1>9. CASE Reference
  <2>1. phase = "each" /\ IsBits
    BY <1>2, <1>9, BitOps
  <2>2. Walked
    BY <1>4, <2>1 DEF BitsInv
  <2> QED
    BY <1>9, <2>2 DEF Reference, Walked
<1>10. CASE EachStart
  <2>1. walk'.i = 0 /\ walk'.got = <<>>
    BY <1>10 DEF EachStart, NoWalk
  <2>2. meant \in Bits /\ meant' = meant
    BY <1>6, <1>10 DEF EachStart
  <2>3. SubSeq(meant, 1, 0) = <<>>
    BY <2>2 DEF Bits
  <2>4. Len(meant) \in Nat
    BY <2>2 DEF Bits
  <2>5. 0 % Byte = 0
    BY BitsAssumption
  <2> QED
    BY <2>1, <2>2, <2>3, <2>4, <2>5 DEF Walked
<1>11. CASE EachNext
  <2> DEFINE i == walk.i
             y == EachByte(walk.i, walk.x, object)
  <2>1. /\ walk'.i = i + 1 /\ walk'.x = ShiftLeft(y, 1)
        /\ walk'.got = Append(walk.got, Head(y))
        /\ phase = "each" /\ i < Len(object) /\ meant' = meant
    BY <1>11, EachNextIs
  <2>2. meant \in Bits /\ object = meant /\ Len(meant) \in Nat
    BY <1>6, <2>1 DEF TypeInv, Bits
  <2>3. /\ i \in 0..Len(meant) /\ walk.got = SubSeq(meant, 1, i)
        /\ i % Byte # 0 => Holds(walk.x, i, meant)
    BY <1>4, <2>1 DEF BitsInv, Walked
  <2> HIDE DEF i
  <2>4. i \in Nat /\ i < Len(meant) /\ i + 1 \in 0..Len(meant)
    BY <2>1, <2>2, <2>3
  <2>5. /\ Head(y) = meant[i + 1]
        /\ (i + 1) % Byte # 0 => Holds(ShiftLeft(y, 1), i + 1, meant)
    <3>1. y = EachByte(i, walk.x, meant)
      BY <2>2 DEF i
    <3> HIDE DEF y
    <3> QED
      BY <2>2, <2>3, <2>4, <3>1, EachStep
  <2> HIDE DEF y
  <2>6. walk'.got = SubSeq(meant, 1, i + 1)
    BY <2>1, <2>2, <2>3, <2>4, <2>5, OneBitMore
  <2> QED
    BY <2>1, <2>4, <2>5, <2>6 DEF Walked
<1>12. ~Other
  BY <1>2, Others DEF TypeInv
<1>13. ~(TakeSubstr \/ MakeRagged \/ EachEnd \/ Give)
  BY <1>2, BitOps DEF TakeSubstr, MakeRagged, EachEnd, Give
<1> QED
  BY <1>2, <1>7, <1>8, <1>9, <1>10, <1>11, <1>12, <1>13, Steps, BitOps

(* When each ends without an operation, the block got all bits.            *)
LEMMA WalkEnds ==
  ASSUME TypeInv, WalkInv, BitsInv, Next,
         phase' = "ruby", walk'.i > 0, changes' = 0
  PROVE  walk'.got = meant'
<1>1. ~Changing
  BY Changed
<1>2. ~(Other \/ Push \/ TakeSubstr \/ Reference \/ Assign)
  BY <1>1, Others, BitOps
<1>3. ~MakeRagged
  <2>1. MakeRagged => ~IsBits /\ walk' = walk
    BY DEF MakeRagged, IsBits
  <2>2. ~(0 > 0)
    OBVIOUS
  <2> QED
    BY <2>1, <2>2 DEF WalkInv
<1>4. ~(EachStart \/ EachNext \/ Give)
  BY DEF EachStart, EachNext, Give
<1>5. EachEnd
  BY <1>2, <1>3, <1>4, Steps
<1>6. /\ phase = "each" /\ walk' = walk /\ meant' = meant /\ changes = 0
      /\ ~(walk.i < Len(object))
  BY <1>5 DEF EachEnd, EachHas
<1>7. meant \in Bits /\ object = meant /\ Walked
  BY <1>6 DEF BitsInv, TypeInv
<1>8. walk.i = Len(meant) /\ walk.got = SubSeq(meant, 1, walk.i)
  <2>1. Len(meant) \in Nat
    BY <1>7 DEF Bits
  <2> QED
    BY <1>6, <1>7, <2>1 DEF Walked
<1>9. SubSeq(meant, 1, Len(meant)) = meant
  BY <1>7 DEF Bits
<1> QED
  BY <1>6, <1>8, <1>9

LEMMA BitsStep ==
  ASSUME TypeInv, WalkInv, BitsInv, Next
  PROVE  BitsInv'
<1>1. IsBits' = IsBits
  BY Grows DEF IsBits
<1>2. IsBits' /\ (Without(BitKinds)' \/ changes' = 0) =>
        meant' \in Bits /\ object' = meant'
  BY <1>1, BitsKept
<1>3. phase' = "each" /\ (Without(WalkKinds)' \/ changes' = 0) => Walked'
  BY WalkKept
<1>4. phase' = "ruby" /\ walk'.i > 0 /\ changes' = 0 => walk'.got = meant'
  BY WalkEnds
<1> QED
  BY <1>2, <1>3, <1>4 DEF BitsInv

-----------------------------------------------------------------------------
(* Arrays, and the other types                                             *)

(* Nothing can be assigned to an item of the empty array.                  *)
LEMMA HollowStep ==
  ASSUME type = "array", Hollow, Next
  PROVE  Hollow'
<1>1. type = "array" /\ met \subseteq met'
  BY Grows
<1>2. Len(meant.dims) = 0 /\ Len(meant.dims) # 1 /\ Len(meant.dims) # 2
  BY DEF Hollow
<1>3. ~ChangeItem
  BY <1>2 DEF ChangeItem
<1>4. ~MakeRagged
  BY <1>2 DEF MakeRagged
<1>5. CASE EachStart \/ EachNext \/ EachEnd \/ Give
  BY <1>1, <1>5 DEF EachStart, EachNext, EachEnd, Give, Hollow
<1>6. ~IsBits
  BY <1>1 DEF IsBits
<1>7. ~Other
  BY <1>1, <1>3 DEF Other, Count, Dup, SetMasklen, Move, ConcatPath, MakePath,
                    ChangeBox, ChangeCell
<1> QED
  BY <1>4, <1>5, <1>6, <1>7, Steps, BitOps

LEMMA NestedStep ==
  ASSUME type = "array", NEW dims, NEW items, Nested(dims, items), Next,
         Without(ArrayKinds)'
  PROVE  (\E d, i : Nested(d, i))'
<1>1. type = "array"
  OBVIOUS
<1>2. Nested(dims, items)
  OBVIOUS
<1>3. ASSUME object' = object, meant' = meant
      PROVE  (\E d, i : Nested(d, i))'
  BY <1>2, <1>3 DEF Nested
<1>4. CASE ChangeItem
  <2>1. PICK value \in SomeItems :
          /\ met' = met \cup MetIf(value = Null, "null_item")
          /\ \/ /\ Len(meant.dims) = 1
                /\ \E i \in DOMAIN object :
                     /\ object' = [object EXCEPT ![i] = value]
                     /\ meant' = [meant EXCEPT !.items[i] = value]
             \/ /\ Len(meant.dims) = 2
                /\ \E i \in DOMAIN object : \E j \in DOMAIN object[i] :
                     /\ object' = [object EXCEPT ![i][j] = value]
                     /\ meant' = [meant EXCEPT
                          !.items[(i - 1) * meant.dims[2] + j] = value]
    BY <1>4 DEF ChangeItem, Meets
  <2>2. value \in Elements
    <3>1. value # Null
      BY <2>1 DEF Without, ArrayKinds, MetIf
    <3> QED
      BY <3>1 DEF SomeItems
  <2>3. /\ dims \in Rects /\ Len(dims) < MAXDIM
        /\ items \in Seq(Elements) /\ Len(items) = NItems(dims)
        /\ meant = [dims |-> dims, lbound |-> 1, items |-> items]
        /\ meant.dims = dims /\ meant.items = items
        /\ object = Nest(dims, items)
    BY <1>2 DEF Nested
  <2>4. ASSUME NEW p \in DOMAIN items,
               meant' = [meant EXCEPT !.items[p] = value],
               object' = Nest(dims, [items EXCEPT ![p] = value])
        PROVE  (\E d, i : Nested(d, i))'
    <3> DEFINE new == [items EXCEPT ![p] = value]
    <3>1. new \in Seq(Elements) /\ Len(new) = Len(items)
      BY <2>2, <2>3, <2>4, ExceptSeq
    <3>2. meant' = [dims |-> dims, lbound |-> 1, items |-> new]
      BY <2>3, <2>4
    <3> HIDE DEF new
    <3>3. Nested(dims, new)'
      BY <2>3, <2>4, <3>1, <3>2 DEF Nested, new
    <3> QED
      BY <3>3
  <2>5. CASE Len(dims) = 1
    <3>1. object = items /\ Nest(dims, items) = items
          /\ \A other : Nest(dims, other) = other
      BY <2>3, <2>5 DEF Nest
    <3>2. PICK i \in DOMAIN object : /\ object' = [object EXCEPT ![i] = value]
                                     /\ meant' = [meant EXCEPT !.items[i] = value]
      <4>1. Len(meant.dims) # 2
        <5>1. Len(dims) # 2
          BY <2>5
        <5>2. meant.dims = dims
          BY <2>3
        <5> QED
          BY <5>1, <5>2, Zenon
      <4> QED
        BY <2>1, <4>1, Zenon
    <3>3. i \in DOMAIN items /\ object' = Nest(dims, [items EXCEPT ![i] = value])
      BY <3>1, <3>2
    <3> QED
      BY <2>4, <3>2, <3>3
  <2>6. CASE Len(dims) # 1
    <3>1. PICK a, b \in Nat \ {0} : dims = <<a, b>> /\ NItems(dims) = a * b
      BY <2>3, <2>6, RectIs
    <3>2. /\ dims[2] = b /\ Len(dims) = 2
          /\ \A other : Nest(dims, other) = Rows(other, a, b)
      BY <3>1 DEF Nest
    <3>3. PICK i \in DOMAIN object : \E j \in DOMAIN object[i] :
            /\ object' = [object EXCEPT ![i][j] = value]
            /\ meant' = [meant EXCEPT !.items[(i - 1) * b + j] = value]
      <4>1. meant.dims[2] = b /\ Len(meant.dims) # 1
        <5>1. meant.dims = dims /\ dims[2] = b
          BY <2>3, <3>2
        <5>2. Len(dims) # 1
          BY <3>2
        <5> QED
          BY <5>1, <5>2, Zenon
      <4>2. \E i \in DOMAIN object : \E j \in DOMAIN object[i] :
              /\ object' = [object EXCEPT ![i][j] = value]
              /\ meant' = [meant EXCEPT
                   !.items[(i - 1) * meant.dims[2] + j] = value]
        BY <2>1, <4>1, Zenon
      <4> QED
        BY <4>1, <4>2, Zenon
    <3>4. PICK j \in DOMAIN object[i] :
            /\ object' = [object EXCEPT ![i][j] = value]
            /\ meant' = [meant EXCEPT !.items[(i - 1) * b + j] = value]
      BY <3>3
    <3>5. object = Rows(items, a, b)
      BY <2>3, <3>2
    <3>6. i \in 1..a /\ j \in 1..b
      BY <3>5 DEF Rows, Row
    <3>7. /\ (i - 1) * b + j \in DOMAIN items
          /\ [Rows(items, a, b) EXCEPT ![i][j] = value]
               = Rows([items EXCEPT ![(i - 1) * b + j] = value], a, b)
      <4>1. items \in Seq(Elements) /\ Len(items) = a * b
        BY <2>3, <3>1
      <4>2. ItemChange(items, a, b, i, j, value)
        BY <3>6, <4>1, RowsChanged
      <4> QED
        BY <4>2, Zenon DEF ItemChange
    <3> DEFINE p == (i - 1) * b + j
    <3>8. /\ p \in DOMAIN items /\ meant' = [meant EXCEPT !.items[p] = value]
          /\ object' = Rows([items EXCEPT ![p] = value], a, b)
      BY <3>4, <3>5, <3>7
    <3> HIDE DEF p
    <3> QED
      BY <2>4, <3>2, <3>8
  <2> QED
    BY <2>5, <2>6
<1>5. CASE MakeRagged
  BY <1>5 DEF MakeRagged, Meets, Without, ArrayKinds
<1>6. CASE EachStart \/ EachNext \/ EachEnd \/ Give
  BY <1>3, <1>6 DEF EachStart, EachNext, EachEnd, Give
<1>7. ~IsBits
  BY <1>1 DEF IsBits
<1>8. Other => ChangeItem
  BY <1>1 DEF Other, Count, Dup, SetMasklen, Move, ConcatPath, MakePath,
              ChangeBox, ChangeCell
<1> QED
  BY <1>4, <1>5, <1>6, <1>7, <1>8, Steps, BitOps

LEMMA ArrayStep ==
  ASSUME TypeInv, ArrayInv, Next
  PROVE  ArrayInv'
<1> SUFFICES ASSUME type' = "array", Without(ArrayKinds)'
             PROVE  Hollow' \/ (\E dims, items : Nested(dims, items))'
  BY DEF ArrayInv
<1>1. type = "array" /\ Without(ArrayKinds)
  BY Grows, Earlier
<1>2. CASE Hollow
  BY <1>1, <1>2, HollowStep
<1>3. CASE \E dims, items : Nested(dims, items)
  BY <1>1, <1>3, NestedStep
<1> QED
  BY <1>1, <1>2, <1>3 DEF ArrayInv

LEMMA ValueStep ==
  ASSUME TypeInv, ValueInv, Next
  PROVE  ValueInv'
<1> SUFFICES ASSUME Without(ValueKinds)' PROVE ValueInv'
  BY DEF ValueInv
<1>1. type' = type /\ zone' = zone /\ Without(ValueKinds)
  BY Grows, Earlier
<1>2. zone \in Nat
  BY DEF TypeInv
<1>3. ASSUME object' = object, meant' = meant PROVE ValueInv'
  BY <1>1, <1>3 DEF ValueInv
<1>4. CASE Count
  <2>1. CASE type = "int2"
    <3>1. /\ object' = object + 1 /\ meant' = meant + 1
          /\ met' = met \cup MetIf(~FitsInt2(object'), "wide")
      BY <1>4, <2>1 DEF Count, Meets
    <3>2. FitsInt2(object')
      BY <3>1 DEF Without, ValueKinds, MetIf
    <3>3. object \in Int /\ meant = object
      BY <1>1, <2>1 DEF ValueInv
    <3>4. object' \in Int /\ meant' = object' /\ FitsInt2(object)'
      BY <3>1, <3>2, <3>3 DEF FitsInt2
    <3> QED
      BY <1>1, <2>1, <3>4 DEF ValueInv
  <2>2. CASE type = "date"
    <3>1. object' = object + Day * Second /\ meant' = meant + 1
      BY <1>4, <2>2 DEF Count
    <3>2. meant \in Int /\ object = Midnight(meant, zone)
      BY <1>1, <2>2 DEF ValueInv
    <3>3. meant + 1 \in Int /\ object' = Midnight(meant + 1, zone)
      BY <1>2, <3>1, <3>2, MidnightIs
    <3>4. meant' \in Int /\ object' = Midnight(meant', zone')
      BY <1>1, <3>1, <3>3
    <3> QED
      BY <1>1, <2>2, <3>4 DEF ValueInv, Midnight
  <2>3. CASE type = "interval"
    <3>1. object' = object + 1 /\ meant' = [meant EXCEPT !.time = @ + 1]
      BY <1>4, <2>3 DEF Count
    <3>2. object \in Int /\ meant = [month |-> 0, day |-> 0, time |-> object]
      BY <1>1, <2>3 DEF ValueInv
    <3>3. object' \in Int /\ meant' = [month |-> 0, day |-> 0, time |-> object']
      BY <3>1, <3>2
    <3> QED
      BY <1>1, <2>3, <3>3 DEF ValueInv
  <2> QED
    BY <1>4, <2>1, <2>2, <2>3 DEF Count
<1>5. CASE Dup
  <2>1. PICK pts \in Seq(Int) : object = meant /\ meant = FromBackend(pts)
    BY <1>1, <1>5 DEF ValueInv, Dup
  <2>2. object' = object /\ meant' = meant
    BY <1>5, <2>1, PathIs DEF Dup
  <2> QED
    BY <1>3, <2>2
<1>6. CASE SetMasklen
  <2>1. type = "inet" /\ object = meant
    BY <1>1, <1>6 DEF ValueInv, SetMasklen
  <2>2. object' = meant'
    BY <1>6, <2>1 DEF SetMasklen
  <2> QED
    BY <1>1, <2>1, <2>2 DEF ValueInv
<1>7. CASE Move
  <2>1. type = "path" /\ object' = Moved(object) /\ meant' = Moved(meant)
    BY <1>7 DEF Move
  <2>2. PICK pts \in Seq(Int) : object = meant /\ meant = FromBackend(pts)
    BY <1>1, <2>1 DEF ValueInv
  <2>3. PICK moved \in Seq(Int) : Moved(meant) = FromBackend(moved)
    BY <2>2, PathIs
  <2>4. object' = meant' /\ meant' = FromBackend(moved)
    BY <2>1, <2>2, <2>3
  <2>5. (\E q \in Seq(Int) : meant = FromBackend(q))'
    BY <2>4 DEF FromBackend, SizeOf
  <2> QED
    BY <1>1, <2>1, <2>4, <2>5 DEF ValueInv
<1>8. ~ConcatPath /\ ~MakePath
  BY DEF ConcatPath, MakePath, Meets, Without, ValueKinds
<1>9. CASE ChangeBox
  <2>1. type = "box" /\ object = meant /\ meant \in SomeBoxes
    BY <1>1, <1>9 DEF ValueInv, ChangeBox
  <2>2. PICK a \in 1..3, b \in 1..3 :
          \/ object' = NewBox(a, b) /\ meant' = BoxOf(a, b)
          \/ object' = SetLow(object, a) /\ meant' = BoxOf(a, meant.high)
          \/ object' = SetHigh(object, b) /\ meant' = BoxOf(meant.low, b)
    BY <1>9 DEF ChangeBox
  <2>3. meant.low \in 1..3 /\ meant.high \in 1..3
    BY <2>1, BoxIs
  <2>4. object' = meant' /\ meant' \in SomeBoxes
    BY <2>1, <2>2, <2>3, BoxIs
  <2> QED
    BY <1>1, <2>1, <2>4 DEF ValueInv
<1>10. CASE ChangeItem
  BY <1>1, <1>10 DEF ValueInv, ChangeItem
<1>11. CASE ChangeCell
  <2>1. type # "row"
    BY <1>11 DEF ChangeCell, Meets, MetIf, Without, ValueKinds
  <2>2. type = "record"
    BY <1>11, <2>1 DEF ChangeCell
  <2>3. object = [cells |-> meant, tuple |-> Null] /\ meant \in [1..2 -> Elements]
    BY <1>1, <2>2 DEF ValueInv
  <2>4. PICK i \in DOMAIN object.cells, value \in Elements :
             /\ object' = [object EXCEPT !.cells[i] = value]
             /\ meant' = [meant EXCEPT ![i] = value]
    BY <1>11 DEF ChangeCell
  <2>5. meant' \in [1..2 -> Elements] /\ object' = [cells |-> meant', tuple |-> Null]
    BY <2>3, <2>4
  <2> QED
    BY <1>1, <2>2, <2>5 DEF ValueInv
<1>12. CASE MakeRagged
  BY <1>1, <1>12 DEF ValueInv, MakeRagged
<1>13. CASE EachStart \/ EachNext \/ EachEnd \/ Give
  BY <1>3, <1>13 DEF EachStart, EachNext, EachEnd, Give
<1>14. CASE Push \/ TakeSubstr \/ Reference \/ Assign
  BY <1>1, <1>14, BitOps DEF ValueInv, IsBits
<1> QED
  BY <1>4, <1>5, <1>6, <1>7, <1>8, <1>9, <1>10, <1>11, <1>12, <1>13, <1>14,
     Steps DEF Other

-----------------------------------------------------------------------------
(* The object is given back                                                *)

(* What Give makes of an object that stands for what is meant.             *)
LEMMA ArrayBack ==
  ASSUME NEW dims, NEW items, Nested(dims, items), type = "array",
         NEW typmod
  PROVE  /\ ToDatum(typmod) = meant /\ object # <<>>
         /\ meant.items = items /\ \A i \in DOMAIN items : items[i] # Wild
<1>1. /\ dims \in Rects /\ Len(dims) < MAXDIM
      /\ items \in Seq(Elements) /\ Len(items) = NItems(dims)
      /\ meant = [dims |-> dims, lbound |-> 1, items |-> items]
      /\ object = Nest(dims, items)
  BY DEF Nested
<1>2. Dims(object) = dims /\ ReturnArray(object) = meant
  BY <1>1, ReturnArrayIs
<1>3. Len(dims) # MAXDIM
  <2>1. Len(dims) \in Nat
    <3>1. CASE \E a \in Nat \ {0} : dims = <<a>> /\ NItems(dims) = a
      BY <3>1
    <3>2. CASE \E a, b \in Nat \ {0} : dims = <<a, b>> /\ NItems(dims) = a * b
      <4>1. Len(dims) = 2
        BY <3>2
      <4> QED
        BY <4>1
    <3> QED
      BY <1>1, <3>1, <3>2, RectIs
  <2> QED
    BY <1>1, <2>1, ArraysAssumption
<1>4. ~TooManyDims(Dims(object))
  BY <1>2, <1>3 DEF TooManyDims
<1>5. ToDatum(typmod) = meant
  BY <1>2, <1>4 DEF ToDatum
<1>6. object # <<>>
  <2>1. CASE \E a \in Nat \ {0} : dims = <<a>> /\ NItems(dims) = a
    <3>1. PICK a \in Nat \ {0} : dims = <<a>> /\ NItems(dims) = a
      BY <2>1
    <3>2. Len(dims) = 1
      BY <3>1
    <3>3. object = items /\ Len(items) # 0
      BY <1>1, <3>1, <3>2 DEF Nest
    <3> QED
      BY <3>3
  <2>2. CASE \E a, b \in Nat \ {0} : dims = <<a, b>> /\ NItems(dims) = a * b
    <3>1. PICK a, b \in Nat \ {0} : dims = <<a, b>> /\ NItems(dims) = a * b
      BY <2>2
    <3>2. Len(dims) = 2 /\ dims[1] = a /\ dims[2] = b
      BY <3>1
    <3>3. object = Rows(items, a, b)
      BY <1>1, <3>2 DEF Nest
    <3>4. DOMAIN object = 1..a /\ 1 \in 1..a
      BY <3>3 DEF Rows
    <3> QED
      BY <3>4
  <2> QED
    BY <1>1, <2>1, <2>2, RectIs
<1>7. \A i \in DOMAIN items : items[i] # Wild
  <2>1. \A i \in DOMAIN items : items[i] \in Elements
    BY <1>1
  <2> QED
    BY <2>1, ArraysAssumption
<1> QED
  BY <1>1, <1>5, <1>6, <1>7

LEMMA GiveBack ==
  ASSUME Inv, Give, Without(GivenKinds)'
  PROVE  out' = meant
<1>1. Without(BitKinds) /\ Without(ArrayKinds) /\ Without(ValueKinds)
  <2>1. Without(GivenKinds)
    BY Earlier DEF Next
  <2> QED
    BY <2>1 DEF Without, GivenKinds
<1>2. PICK typmod \in {-1, Column} :
        /\ met' = met \cup MetIf(IsBits /\ typmod # -1 /\ Len(object) # Column,
                                 "bit_length")
        /\ out' = ToDatum(typmod)
  BY DEF Give, Meets
<1>3. zone \in Nat /\ type \in OnWay
  BY DEF Inv, TypeInv
<1>4. Error \notin Int
  BY BasicAssumption
<1>5. CASE type = "int2"
  <2>1. object \in Int /\ meant = object /\ FitsInt2(object)
    BY <1>1, <1>5 DEF Inv, ValueInv
  <2>2. ToDatum(typmod) = Int2(object)
    BY <1>5 DEF ToDatum
  <2> QED
    BY <1>2, <2>1, <2>2, Int2Fits
<1>6. CASE type = "date"
  <2>1. meant \in Int /\ object = Midnight(meant, zone)
    BY <1>1, <1>6 DEF Inv, ValueInv
  <2>2. object \in Int /\ DateOf(object, zone) = meant
    BY <1>3, <2>1, MidnightIs
  <2>3. object # Error
    BY <1>4, <2>2
  <2>4. ToDatum(typmod) = TimeConv("date", object, zone)
    BY <1>6, <2>3 DEF ToDatum
  <2> QED
    BY <1>2, <2>2, <2>4 DEF TimeConv
<1>7. CASE type \in {"time", "timestamp"}
  <2> DEFINE d == Day * Second
  <2>1. zone = 0 /\ object = meant /\ meant \in 0..(d - 1)
    BY <1>1, <1>7 DEF Inv, ValueInv
  <2>2. d \in Nat \ {0} /\ Second \in Nat
    BY Sizes
  <2>3. object # Error
    BY <1>4, <2>1
  <2>4. Local(object, zone) = object
    <3>1. 0 * Second = 0
      BY <2>2
    <3> QED
      BY <2>1, <3>1 DEF Local
  <2>5. TimeOfDay(object, zone) = object % d
    BY <2>4 DEF TimeOfDay
  <2>6. ToDatum(typmod) = TimeConv(type, object, zone)
    BY <1>7, <2>3 DEF ToDatum
  <2> HIDE DEF d
  <2>7. object % d = object
    BY <2>1, <2>2
  <2>8. CASE type = "time"
    BY <1>2, <2>1, <2>5, <2>6, <2>7, <2>8 DEF TimeConv
  <2>9. CASE type = "timestamp"
    BY <1>2, <2>1, <2>4, <2>6, <2>9 DEF TimeConv
  <2> QED
    BY <1>7, <2>8, <2>9
<1>8. CASE type = "timestamptz"
  <2>1. object = meant /\ meant \in Int /\ TimeText(meant) = meant
    BY <1>1, <1>8 DEF Inv, ValueInv
  <2>2. object # Error
    BY <1>4, <2>1
  <2>3. ToDatum(typmod) = TimeConv("timestamptz", object, zone)
    BY <1>8, <2>2 DEF ToDatum
  <2> QED
    BY <1>2, <2>1, <2>3 DEF TimeConv
<1>9. CASE type = "interval"
  BY <1>1, <1>2, <1>9 DEF Inv, ValueInv, ToDatum, FromSeconds
<1>10. CASE IsBits
  <2>1. meant \in Bits /\ object = meant
    BY <1>1, <1>10 DEF Inv, BitsInv
  <2>2. ToDatum(typmod) = Cast(object, typmod)
    BY <1>10 DEF ToDatum, IsBits
  <2>3. CASE typmod = -1
    BY <1>2, <2>1, <2>2, <2>3 DEF Cast
  <2>4. CASE typmod = Column
    <3>1. Column \in Nat \ {0}
      BY ValuesAssumption
    <3>2. "bit_length" \notin met'
      BY DEF Without, GivenKinds
    <3>3. Len(object) = Column
      BY <1>2, <1>10, <2>4, <3>1, <3>2 DEF MetIf
    <3>4. Cast(object, typmod) = SubSeq(object, 1, Len(object))
      BY <2>4, <3>1, <3>3 DEF Cast
    <3>5. SubSeq(object, 1, Len(object)) = object
      BY <2>1 DEF Bits
    <3> QED
      BY <1>2, <2>1, <2>2, <3>4, <3>5
  <2> QED
    BY <2>3, <2>4
<1>11. CASE type = "path"
  <2>1. PICK pts \in Seq(Int) : object = meant /\ meant = FromBackend(pts)
    BY <1>1, <1>11 DEF Inv, ValueInv
  <2>2. ToDatum(typmod) = PathToDatum(object)
    BY <1>11 DEF ToDatum
  <2> QED
    BY <1>2, <2>1, <2>2, PathIs
<1>12. CASE type = "array"
  <2>1. CASE Hollow
    <3>1. object = <<>> /\ meant = [dims |-> <<>>, lbound |-> 1, items |-> <<>>]
      BY <2>1 DEF Hollow
    <3>2. ToDatum(typmod) = meant
      BY <1>12, <3>1, EmptyIs DEF ToDatum
    <3> QED
      BY <1>2, <3>2
  <2>2. CASE \E dims, items : Nested(dims, items)
    BY <1>2, <1>12, <2>2, ArrayBack
  <2> QED
    BY <1>1, <1>12, <2>1, <2>2 DEF Inv, ArrayInv
<1>13. CASE type = "row"
  <2>1. object.tuple = meant /\ meant # Null
    BY <1>1, <1>13, RecordGiven DEF Inv, ValueInv
  <2> QED
    BY <1>2, <1>13, <2>1 DEF ToDatum
<1>14. CASE type = "record"
  <2>1. object = [cells |-> meant, tuple |-> Null] /\ meant \in [1..2 -> Elements]
    BY <1>1, <1>14 DEF Inv, ValueInv
  <2>2. object.tuple = Null /\ object.cells = meant /\ Len(meant) = 2
    BY <2>1, ListOf
  <2> QED
    BY <1>2, <1>14, <2>2 DEF ToDatum
<1>15. CASE type \in {"box", "inet"}
  BY <1>1, <1>2, <1>15 DEF Inv, ValueInv, ToDatum
<1>16. type # "tinterval"
  BY <1>1 DEF Inv, ValueInv
<1> QED
  BY <1>3, <1>5, <1>6, <1>7, <1>8, <1>9, <1>10, <1>11, <1>12, <1>13, <1>14,
     <1>15, <1>16 DEF OnWay, IsBits

LEMMA GivenStep ==
  ASSUME Inv, Next
  PROVE  GivenInv'
<1> SUFFICES ASSUME phase' = "given", Without(GivenKinds)' PROVE out' = meant'
  BY DEF GivenInv
<1>1. ~Changing
  BY Changed DEF Inv
<1>2. Give
  BY <1>1, Steps, Others, BitOps DEF MakeRagged, EachStart, EachNext, EachEnd
<1>3. meant' = meant
  BY <1>2 DEF Give
<1> QED
  BY <1>2, <1>3, GiveBack

LEMMA TouchStep ==
  ASSUME Inv, Next
  PROVE  TouchInv'
<1> SUFFICES ASSUME Without(TouchKinds)' PROVE touched' = "inside"
  BY DEF TouchInv
<1>1. Without(TouchKinds) /\ Without(ArrayKinds)
  <2>1. Without(TouchKinds)
    BY Earlier
  <2> QED
    BY <2>1 DEF Without, TouchKinds
<1>2. touched = "inside"
  BY <1>1 DEF Inv, TouchInv
<1>3. ASSUME touched' = touched PROVE touched' = "inside"
  BY <1>2, <1>3
<1>4. CASE EachStart
  <2>1. object # <<>>
    BY <1>4 DEF EachStart, Meets, MetIf, Without, TouchKinds
  <2> QED
    BY <1>2, <1>4, <2>1 DEF EachStart, OutsideIf
<1>5. CASE EachNext
  <2>1. ~walk.gone
    BY <1>1 DEF Inv, WalkInv, Without, TouchKinds
  <2> QED
    BY <1>2, <1>5, <2>1 DEF EachNext, OutsideIf
<1>6. CASE Give
  <2>1. ASSUME type = "array"
        PROVE  ~(object = <<>> \/ \E i \in DOMAIN out'.items : out'.items[i] = Wild)
    <3>1. PICK dims, items : Nested(dims, items)
      <4>1. ~Hollow
        BY <1>1 DEF Hollow, Without, TouchKinds
      <4> QED
        BY <1>1, <2>1, <4>1 DEF Inv, ArrayInv
    <3>2. PICK typmod \in {-1, Column} : out' = ToDatum(typmod)
      BY <1>6 DEF Give
    <3>3. out' = meant /\ object # <<>> /\ meant.items = items
          /\ \A i \in DOMAIN items : items[i] # Wild
      BY <2>1, <3>1, <3>2, ArrayBack
    <3> QED
      BY <3>3
  <2>2. OutsideIf(type = "array" /\ out' # Error
                  /\ (object = <<>> \/ \E i \in DOMAIN out'.items :
                                         out'.items[i] = Wild))
    BY <1>6 DEF Give
  <2> QED
    BY <1>2, <2>1, <2>2 DEF OutsideIf
<1>7. CASE Other \/ Push \/ TakeSubstr \/ Reference \/ Assign
  BY <1>3, <1>7, Others, BitOps
<1>8. CASE MakeRagged \/ EachEnd
  BY <1>3, <1>8 DEF MakeRagged, EachEnd
<1> QED
  BY <1>4, <1>5, <1>6, <1>7, <1>8, Steps

LEMMA Stutters ==
  ASSUME Inv, UNCHANGED vars
  PROVE  Inv'
<1> USE DEF Inv, vars
<1>1. TypeInv'
  BY DEF TypeInv, IsBits
<1>2. WalkInv'
  BY DEF WalkInv, IsBits
<1>3. BitsInv'
  BY DEF BitsInv, Walked, IsBits, Without
<1>4. ArrayInv'
  BY DEF ArrayInv, Nested, Hollow, Without
<1>5. ValueInv'
  BY DEF ValueInv, Without
<1>6. TouchInv' /\ GivenInv'
  BY DEF TouchInv, GivenInv, Without
<1> QED
  BY <1>1, <1>2, <1>3, <1>4, <1>5, <1>6

-----------------------------------------------------------------------------
(* The theorems                                                            *)

(* The invariants together hold in every state.                            *)
THEOREM Invariant == Spec => []Inv
<1>1. Init => Inv
  BY InitInv
<1>2. Inv /\ [Next]_vars => Inv'
  <2> SUFFICES ASSUME Inv, Next PROVE Inv'
    BY Stutters
  <2>1. TypeInv' /\ WalkInv' /\ BitsInv'
    BY TypeStep, WalkStep, BitsStep DEF Inv
  <2>2. ArrayInv' /\ ValueInv'
    BY ArrayStep, ValueStep DEF Inv
  <2>3. TouchInv' /\ GivenInv'
    BY TouchStep, GivenStep
  <2> QED
    BY <2>1, <2>2, <2>3 DEF Inv
<1> QED
  BY <1>1, <1>2, PTL DEF Spec

(* plruby_to_datum gives back the datum the object stands for, whatever    *)
(* its type and however many operations, if the kinds of data and of       *)
(* operations that lose it are counted as odd.                             *)
THEOREM ValuesComeBack ==
  ASSUME GivenKinds \subseteq Odd
  PROVE  Spec => []GivenAsMeant
<1>1. Inv => GivenAsMeant
  BY DEF Inv, GivenInv, GivenAsMeant, Ordinary, Without
<1> QED
  BY <1>1, Invariant, PTL

(* The block of each gets the bits of the string, in their order, all of   *)
(* them when each ends; a string that the block changes is odd.            *)
THEOREM BlocksGetBits ==
  ASSUME WalkKinds \subseteq Odd
  PROVE  Spec => []EachGivesBits
<1>1. Inv => EachGivesBits
  <2> SUFFICES ASSUME Inv PROVE EachGivesBits
    OBVIOUS
  <2>1. phase = "ruby" /\ walk.i > 0 /\ changes = 0 => walk.got = meant
    BY DEF Inv, BitsInv
  <2>2. ASSUME phase = "each", Ordinary PROVE IsPrefix(walk.got, meant)
    <3>1. Without(WalkKinds) /\ Without(BitKinds)
      BY <2>2 DEF Ordinary, Without, WalkKinds
    <3>2. IsBits /\ Walked
      BY <2>2, <3>1 DEF Inv, TypeInv, BitsInv
    <3>3. meant \in Seq({0, 1})
      BY <3>1, <3>2 DEF Inv, BitsInv, Bits
    <3> DEFINE i == walk.i
    <3>4. i \in 0..Len(meant) /\ walk.got = SubSeq(meant, 1, i)
      BY <3>2 DEF Walked
    <3> HIDE DEF i
    <3>5. i \in Nat /\ i <= Len(meant) /\ Len(meant) \in Nat
      BY <3>3, <3>4
    <3>6. /\ walk.got \in Seq({0, 1}) /\ Len(walk.got) = i
      <4>1. \A k \in 1..i : meant[k] \in {0, 1}
        BY <3>3, <3>5
      <4>2. /\ SubSeq(meant, 1, i) \in Seq({0, 1})
            /\ Len(SubSeq(meant, 1, i)) = IF 1 <= i THEN i - 1 + 1 ELSE 0
        BY <3>3, <3>5, <4>1, SubSeqProperties
      <4> QED
        BY <3>4, <3>5, <4>2
    <3>7. SubSeq(walk.got, 1, Len(walk.got)) = walk.got
      BY <3>6
    <3> QED
      BY <3>4, <3>5, <3>6, <3>7 DEF IsPrefix
  <2> QED
    BY <2>1, <2>2 DEF EachGivesBits
<1> QED
  BY <1>1, Invariant, PTL

(* No operation reads behind a datum or an object, unless it is short,     *)
(* empty or changed by a block of each, or an array that is odd.           *)
THEOREM ReadsStayInside ==
  ASSUME TouchKinds \subseteq Odd
  PROVE  Spec => []ReadsInside
<1>1. Inv => ReadsInside
  BY DEF Inv, TouchInv, ReadsInside, Ordinary, Without
<1> QED
  BY <1>1, Invariant, PTL

=============================================================================
