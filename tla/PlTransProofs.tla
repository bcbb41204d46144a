--------------------------- MODULE PlTransProofs ---------------------------
(***************************************************************************)
(* Proofs of the properties of PlTrans, for every number of blocks, rows   *)
(* and levels.                                                             *)
(*                                                                         *)
(* The first half says what each operation of the backend and each helper  *)
(* of pltrans.c does to the two stacks: levels end from the top (Shrunk,   *)
(* Closes), or one is put there (Grows), those beneath are not touched     *)
(* (Beneath), and connections are only popped with _SPI_curid reset to     *)
(* their number (FewerConns).  Typed and NamesInv hold in every program.   *)
(*                                                                         *)
(* The next part is about two classes of programs.  One is called inside a *)
(* savepoint of the client and does what it likes: its blocks are all      *)
(* savepoints.  The other lets exceptions leave its blocks and uses no     *)
(* savepoint of its own; it may be called at the top level, where its      *)
(* first block has an SPI connection.  Such a call is Good, with one level *)
(* for each block, or an ERROR leaves its blocks (Unwinds), or SPI_finish  *)
(* will fail (Hopeless).  Marked says why an abort is complete: a row      *)
(* under the level of a block is not younger than the block.               *)
(*                                                                         *)
(* Then every program again: the only SPI_pop is that of the outermost     *)
(* block, and CurInv says that what SPI_push gave is there to take back,   *)
(* however many connections the backend popped meanwhile.                  *)
(*                                                                         *)
(* The last part is the refinement of NestedTxn, for the second class.  A  *)
(* call that is not doomed is Good, so that it has one level for each      *)
(* block over those of the client (RunsWell), and Blocks maps the levels   *)
(* to the rows of the blocks.  A block that ends has its level merged into *)
(* the one beneath (Merged, pl_intern_commit) or loses it (Dropped,        *)
(* pl_intern_abort), and a call that is doomed stays so (DoomedStays).     *)
(***************************************************************************)
EXTENDS MCPlTrans, FiniteSetTheorems, WellFoundedInduction, TLAPS

(* The states of the backend. *)
Pg == [lvl : Seq(Level), conn : Seq(Nat), cur : Int]

-----------------------------------------------------------------------------
(* Sets of numbers *)

LEMMA LeastIn ==
  ASSUME NEW S, S \subseteq Nat, S # {}
  PROVE  \E x \in S : \A y \in S : x <= y
<1> DEFINE R == StrictSubsetOrdering(Nat)
           F == {0..x : x \in S}
<1>1. F \subseteq FiniteSubsetsOf(Nat) /\ F # {}
  <2> SUFFICES ASSUME NEW x \in S PROVE 0..x \in FiniteSubsetsOf(Nat)
    OBVIOUS
  <2>1. IsFiniteSet(0..x) /\ 0..x \subseteq Nat
    BY FS_Interval
  <2> QED
    BY <2>1 DEF FiniteSubsetsOf
<1>2. IsWellFoundedOn(R, FiniteSubsetsOf(Nat))
  BY FS_StrictSubsetOrderingWellFounded
<1>3. \E T \in F : \A U \in F : <<U, T>> \notin R
  <2> HIDE DEF R, F
  <2> QED
    BY <1>1, <1>2, WFMin
<1>4. PICK x \in S : \A y \in S : <<0..y, 0..x>> \notin R
  BY <1>3
<1>5. \A y \in S : x <= y
  <2> SUFFICES ASSUME NEW y \in S, y < x PROVE FALSE
    OBVIOUS
  <2>1. /\ 0..y \subseteq 0..x /\ x \in 0..x /\ x \notin 0..y
        /\ 0..y \subseteq Nat /\ 0..x \subseteq Nat
    OBVIOUS
  <2>2. 0..y # 0..x
    BY <2>1
  <2>3. <<0..y, 0..x>> \in R
    BY <2>1, <2>2 DEF StrictSubsetOrdering
  <2> QED
    BY <1>4, <2>3
<1> QED
  BY <1>5

LEMMA GreatestIn ==
  ASSUME NEW n \in Nat, NEW S, S \subseteq 0..n, S # {}
  PROVE  \E x \in S : \A y \in S : y <= x
<1> DEFINE U == {z \in 0..n : n - z \in S}
<1>1. U \subseteq Nat
  OBVIOUS
<1>2. \A y \in S : n - y \in U
  <2> SUFFICES ASSUME NEW y \in S PROVE n - y \in U
    OBVIOUS
  <2>1. n - y \in 0..n /\ n - (n - y) = y
    OBVIOUS
  <2> QED
    BY <2>1
<1>3. PICK u \in U : \A v \in U : u <= v
  BY <1>1, <1>2, LeastIn
<1>4. n - u \in S /\ u \in 0..n
  OBVIOUS
<1>5. \A y \in S : y <= n - u
  <2> SUFFICES ASSUME NEW y \in S PROVE y <= n - u
    OBVIOUS
  <2>1. u <= n - y
    BY <1>2, <1>3
  <2> QED
    BY <1>4, <2>1
<1> QED
  BY <1>4, <1>5

-----------------------------------------------------------------------------
(* The stacks of the backend *)

LEMMA FieldFacts ==
  ASSUME NEW p \in Pg
  PROVE  /\ p.lvl \in Seq(Level) /\ p.conn \in Seq(Nat) /\ p.cur \in Int
         /\ Len(p.lvl) \in Nat /\ Len(p.conn) \in Nat /\ Depth(p) = Len(p.lvl)
         /\ \A i \in 1..Len(p.lvl) :
              p.lvl[i].name \in Names /\ p.lvl[i].rows \subseteq Nat
<1>1. /\ p.lvl \in Seq(Level) /\ p.conn \in Seq(Nat) /\ p.cur \in Int
      /\ Depth(p) = Len(p.lvl)
  BY DEF Pg, Depth
<1>2. Len(p.lvl) \in Nat /\ Len(p.conn) \in Nat
  BY <1>1
<1>3. \A i \in 1..Len(p.lvl) : p.lvl[i] \in Level
  BY <1>1
<1> QED
  BY <1>1, <1>2, <1>3 DEF Level

LEMMA PrefixFacts ==
  ASSUME NEW P, NEW s \in Seq(P), NEW n \in 0..Len(s)
  PROVE  LET t == SubSeq(s, 1, n) IN
         /\ t \in Seq(P) /\ Len(t) = n
         /\ \A i \in 1..n : t[i] = s[i]
OBVIOUS

LEMMA PushFacts ==
  ASSUME NEW P, NEW s \in Seq(P), NEW x \in P
  PROVE  LET t == Append(s, x) IN
         /\ t \in Seq(P) /\ Len(t) = Len(s) + 1 /\ Len(s) \in Nat
         /\ \A i \in 1..Len(s) : t[i] = s[i]
         /\ t[Len(s) + 1] = x
OBVIOUS

(* AtEOSubXact_SPI pops the connections above d.                           *)
LEMMA PoppedIs ==
  ASSUME NEW p \in Pg, NEW d \in Nat
  PROVE  LET n == Len(p.conn)
             j == Popped(p, d)
         IN  /\ j \in 0..n /\ (j = n \/ p.conn[n - j] <= d)
             /\ \A i \in 0..(j - 1) : p.conn[n - i] > d
<1> DEFINE n == Len(p.conn)
           S == {j \in 0..n : j = n \/ p.conn[n - j] <= d}
<1>1. n \in Nat /\ \A i \in 1..n : p.conn[i] \in Nat
  BY FieldFacts
<1>2. n \in S /\ S \subseteq Nat
  BY <1>1
<1>3. PICK j \in S : \A y \in S : j <= y
  BY <1>2, LeastIn
<1>4. \A i \in 0..(j - 1) : p.conn[n - i] > d
  <2> SUFFICES ASSUME NEW i \in 0..(j - 1), ~(p.conn[n - i] > d) PROVE FALSE
    OBVIOUS
  <2>1. i \in 0..n /\ n - i \in 1..n /\ i < j
    BY <1>1
  <2>2. p.conn[n - i] <= d
    <3>1. p.conn[n - i] \in Nat /\ d \in Nat
      BY <1>1, <2>1
    <3> QED
      BY <3>1
  <2>3. i \in S
    BY <2>1, <2>2
  <2> QED
    BY <1>3, <2>1, <2>3
<1>5. \E k \in 0..n : /\ k = n \/ p.conn[n - k] <= d
                      /\ \A i \in 0..(k - 1) : p.conn[n - i] > d
  BY <1>4
<1> QED
  BY <1>5 DEF Popped

LEMMA AtEOFacts ==
  ASSUME NEW p \in Pg, NEW d \in Nat
  PROVE  LET q == AtEOSubXact(p, d)
             n == Len(p.conn)
         IN  /\ q \in Pg /\ q.lvl = p.lvl
             /\ \/ q.conn = p.conn /\ q.cur = p.cur
                \/ Len(q.conn) < n /\ q.cur = Len(q.conn)
             /\ (n > 0 => p.conn[n] <= d) => q.conn = p.conn /\ q.cur = p.cur
             /\ n > 1 /\ p.conn[n] > d /\ p.conn[n - 1] <= d
                  => /\ q.conn = SubSeq(p.conn, 1, n - 1)
                     /\ q.cur = n - 1
<1> DEFINE n == Len(p.conn)
           j == Popped(p, d)
           k == n - j
           q == AtEOSubXact(p, d)
<1>1. /\ j \in 0..n /\ (j = n \/ p.conn[n - j] <= d)
      /\ \A i \in 0..(j - 1) : p.conn[n - i] > d
  BY PoppedIs
<1>2. /\ p.lvl \in Seq(Level) /\ p.conn \in Seq(Nat) /\ p.cur \in Int
      /\ n \in Nat /\ \A i \in 1..n : p.conn[i] \in Nat
  BY FieldFacts
<1>3. q = [p EXCEPT !.conn = SubSeq(@, 1, k), !.cur = IF j = 0 THEN @ ELSE k]
  BY DEF AtEOSubXact
<1>4. /\ q.lvl = p.lvl /\ q.conn = SubSeq(p.conn, 1, k)
      /\ q.cur = IF j = 0 THEN p.cur ELSE k
  BY <1>3 DEF Pg
<1> HIDE DEF j
<1>5. k \in 0..n
  BY <1>1, <1>2
<1>6. /\ SubSeq(p.conn, 1, k) \in Seq(Nat) /\ Len(SubSeq(p.conn, 1, k)) = k
      /\ k = n => SubSeq(p.conn, 1, k) = p.conn
  <2> HIDE DEF k
  <2> QED
    BY <1>2, <1>5, PrefixFacts
<1>7. q \in Pg
  <2> DEFINE c == SubSeq(p.conn, 1, k)
             x == IF j = 0 THEN p.cur ELSE k
  <2>1. c \in Seq(Nat) /\ x \in Int
    BY <1>2, <1>5, <1>6
  <2>2. q = [p EXCEPT !.conn = c, !.cur = x]
    BY <1>3
  <2> HIDE DEF c, x, q
  <2> QED
    BY <2>1, <2>2 DEF Pg
<1>8. \/ q.conn = p.conn /\ q.cur = p.cur
      \/ Len(q.conn) < n /\ q.cur = Len(q.conn)
  BY <1>1, <1>2, <1>4, <1>5, <1>6
<1>9. (n > 0 => p.conn[n] <= d) => q.conn = p.conn /\ q.cur = p.cur
  <2> SUFFICES ASSUME n > 0 => p.conn[n] <= d PROVE j = 0
    BY <1>2, <1>4, <1>6
  <2> SUFFICES ASSUME j # 0 PROVE FALSE
    OBVIOUS
  <2>1. 0 \in 0..(j - 1) /\ n > 0 /\ n - 0 = n
    BY <1>1, <1>2
  <2>2. p.conn[n] > d
    BY <1>1, <2>1
  <2> QED
    BY <1>2, <2>1, <2>2
<1>10. ASSUME n > 1, p.conn[n] > d, p.conn[n - 1] <= d
       PROVE  j = 1
  <2>1. j # 0
    BY <1>1, <1>2, <1>10
  <2>2. ASSUME j > 1 PROVE FALSE
    <3>1. 1 \in 0..(j - 1) /\ n - 1 \in 1..n
      BY <1>1, <1>2, <1>10, <2>2
    <3>2. p.conn[n - 1] > d /\ p.conn[n - 1] \in Nat
      BY <1>1, <1>2, <3>1
    <3> QED
      BY <1>10, <3>2
  <2> QED
    BY <1>1, <2>1, <2>2
<1>11. n > 1 /\ p.conn[n] > d /\ p.conn[n - 1] <= d
         => q.conn = SubSeq(p.conn, 1, n - 1) /\ q.cur = n - 1
  BY <1>4, <1>10
<1> HIDE DEF q, n
<1> QED
  BY <1>4, <1>7, <1>8, <1>9, <1>11 DEF q, n

(* The connection of the function call itself, made at the top level.      *)
First(p) == Len(p.conn) > 0 /\ p.conn[1] = 1

LEMMA FirstStays ==
  ASSUME NEW p \in Pg, NEW d \in Nat, d >= 1, First(p)
  PROVE  First(AtEOSubXact(p, d))
<1> DEFINE n == Len(p.conn)
           j == Popped(p, d)
           k == n - j
           q == AtEOSubXact(p, d)
<1>1. /\ j \in 0..n /\ (j = n \/ p.conn[n - j] <= d)
      /\ \A i \in 0..(j - 1) : p.conn[n - i] > d
  BY PoppedIs
<1>2. p.conn \in Seq(Nat) /\ n \in Nat /\ n > 0 /\ p.conn[1] = 1
  BY FieldFacts DEF First
<1>3. q = [p EXCEPT !.conn = SubSeq(@, 1, k), !.cur = IF j = 0 THEN @ ELSE k]
  BY DEF AtEOSubXact
<1>4. q.conn = SubSeq(p.conn, 1, k)
  BY <1>3 DEF Pg
<1> HIDE DEF j, q
<1>5. j # n
  <2> SUFFICES ASSUME j = n PROVE FALSE
    OBVIOUS
  <2>1. n - 1 \in 0..(j - 1) /\ n - (n - 1) = 1
    BY <1>2
  <2>2. p.conn[1] > d
    BY <1>1, <2>1
  <2> QED
    BY <1>2, <2>2
<1>6. k \in 0..n /\ k > 0 /\ 1 \in 1..k
  BY <1>1, <1>2, <1>5
<1> HIDE DEF k
<1>7. Len(q.conn) = k /\ q.conn[1] = p.conn[1]
  BY <1>2, <1>4, <1>6, PrefixFacts
<1> QED
  BY <1>2, <1>6, <1>7 DEF First, q

-----------------------------------------------------------------------------
(* Levels that end *)

(* The connections of q are those of p, or some were popped.               *)
FewerConns(q, p) ==
  \/ q.conn = p.conn /\ q.cur = p.cur
  \/ Len(q.conn) < Len(p.conn) /\ q.cur = Len(q.conn)

(* Whatever ended, the levels under the top one are as they were.          *)
Beneath(q, p) == \A i \in 1..(Depth(q) - 1) : q.lvl[i] = p.lvl[i]

(* q comes of p when levels are released or rolled back.                   *)
Shrunk(q, p) ==
  /\ q \in Pg
  /\ Depth(q) \in 1..Depth(p)
  /\ \A i \in 1..Depth(q) : q.lvl[i].name = p.lvl[i].name
  /\ AllRows(q) \subseteq AllRows(p)
  /\ Beneath(q, p)
  /\ FewerConns(q, p)
  /\ First(p) => First(q)

(* The connections above depth d were popped, when there is at most one.   *)
PoppedAbove(q, p, d) ==
  LET n == Len(p.conn) IN
  /\ (n > 0 => p.conn[n] <= d) => q.conn = p.conn /\ q.cur = p.cur
  /\ n > 1 /\ p.conn[n] > d /\ p.conn[n - 1] <= d
       => q.conn = SubSeq(p.conn, 1, n - 1) /\ q.cur = n - 1

LEMMA AtEOIs ==
  ASSUME NEW p \in Pg, NEW d \in Nat
  PROVE  LET q == AtEOSubXact(p, d) IN
         /\ q \in Pg /\ q.lvl = p.lvl /\ FewerConns(q, p) /\ PoppedAbove(q, p, d)
         /\ d >= 1 /\ First(p) => First(q)
BY AtEOFacts, FirstStays DEF FewerConns, PoppedAbove

LEMMA AbortIs ==
  ASSUME NEW p \in Pg, NEW i \in 2..Depth(p)
  PROVE  LET q == AbortFrom(p, i) IN
         /\ Shrunk(q, p) /\ Depth(q) = i - 1 /\ PoppedAbove(q, p, i - 1)
         /\ \A k \in 1..Depth(q) : q.lvl[k] = p.lvl[k]
<1> DEFINE m == i - 1
           t == SubSeq(p.lvl, 1, m)
           p1 == [p EXCEPT !.lvl = t]
           q == AtEOSubXact(p1, m)
<1>1. /\ p.lvl \in Seq(Level) /\ p.conn \in Seq(Nat) /\ p.cur \in Int
      /\ Len(p.lvl) \in Nat /\ Depth(p) = Len(p.lvl)
  BY FieldFacts
<1>2. m \in Nat /\ m >= 1 /\ m \in 0..Len(p.lvl) /\ m \in 1..Depth(p)
  BY <1>1
<1>3. t \in Seq(Level) /\ Len(t) = m /\ \A k \in 1..m : t[k] = p.lvl[k]
  <2> HIDE DEF m
  <2> QED
    BY <1>1, <1>2, PrefixFacts
<1> HIDE DEF t, m
<1>4. p1 \in Pg /\ p1.lvl = t /\ p1.conn = p.conn /\ p1.cur = p.cur
  BY <1>1, <1>3 DEF Pg
<1> HIDE DEF p1
<1>5. /\ q \in Pg /\ q.lvl = t /\ FewerConns(q, p1) /\ PoppedAbove(q, p1, m)
      /\ First(p1) => First(q)
  BY <1>2, <1>4, AtEOIs
<1> HIDE DEF q
<1>6. FewerConns(q, p) /\ PoppedAbove(q, p, m) /\ (First(p) => First(q))
  BY <1>4, <1>5 DEF FewerConns, PoppedAbove, First
<1>7. Depth(q) = m /\ \A k \in 1..m : q.lvl[k] = p.lvl[k] /\ k \in 1..Depth(p)
  BY <1>1, <1>2, <1>3, <1>5 DEF Depth
<1>8. AllRows(q) \subseteq AllRows(p)
  BY <1>7 DEF AllRows
<1>9. Beneath(q, p)
  BY <1>2, <1>7 DEF Beneath
<1>10. Shrunk(q, p)
  BY <1>2, <1>5, <1>6, <1>7, <1>8, <1>9 DEF Shrunk
<1> QED
  BY <1>6, <1>7, <1>10 DEF q, p1, t, m, AbortFrom

LEMMA ReleaseIs ==
  ASSUME NEW p \in Pg, NEW i \in 2..Depth(p)
  PROVE  LET q == ReleaseFrom(p, i) IN
         /\ Shrunk(q, p) /\ Depth(q) = i - 1 /\ PoppedAbove(q, p, i - 1)
         /\ q.lvl[i - 1].rows = UNION {p.lvl[j].rows : j \in (i - 1)..Depth(p)}
<1> DEFINE m == i - 1
           R == UNION {p.lvl[j].rows : j \in m..Depth(p)}
           kept == [p.lvl[m] EXCEPT !.rows = R]
           s == SubSeq(p.lvl, 1, i - 2)
           t == Append(s, kept)
           p1 == [p EXCEPT !.lvl = t]
           q == AtEOSubXact(p1, m)
<1>1. /\ p.lvl \in Seq(Level) /\ p.conn \in Seq(Nat) /\ p.cur \in Int
      /\ Len(p.lvl) \in Nat /\ Depth(p) = Len(p.lvl)
      /\ \A k \in 1..Len(p.lvl) : p.lvl[k] \in Level /\ p.lvl[k].rows \subseteq Nat
  BY FieldFacts
<1>2. /\ m \in Nat /\ m >= 1 /\ m \in 1..Depth(p) /\ i - 2 \in 0..Len(p.lvl)
      /\ i - 2 = m - 1 /\ \A j \in m..Depth(p) : j \in 1..Depth(p)
  BY <1>1
<1>3. R \subseteq Nat /\ R \subseteq AllRows(p)
  BY <1>1, <1>2 DEF AllRows
<1> HIDE DEF R, m
<1>4. kept \in Level /\ kept.name = p.lvl[m].name /\ kept.rows = R
  <2>1. p.lvl[m] \in Level
    BY <1>1, <1>2
  <2> QED
    BY <1>3, <2>1 DEF Level
<1> HIDE DEF kept
<1>5. /\ s \in Seq(Level) /\ Len(s) = m - 1
      /\ \A k \in 1..(m - 1) : s[k] = p.lvl[k]
  BY <1>1, <1>2, PrefixFacts
<1> HIDE DEF s
<1>6. /\ t \in Seq(Level) /\ Len(t) = m /\ t[m] = kept
      /\ \A k \in 1..(m - 1) : t[k] = p.lvl[k]
  <2>1. /\ t \in Seq(Level) /\ Len(t) = Len(s) + 1
        /\ \A k \in 1..Len(s) : t[k] = s[k]
        /\ t[Len(s) + 1] = kept
    BY <1>4, <1>5, PushFacts
  <2>2. Len(s) + 1 = m
    BY <1>2, <1>5
  <2> HIDE DEF t
  <2> QED
    BY <1>5, <2>1, <2>2
<1> HIDE DEF t
<1>7. p1 \in Pg /\ p1.lvl = t /\ p1.conn = p.conn /\ p1.cur = p.cur
  BY <1>1, <1>6 DEF Pg
<1> HIDE DEF p1
<1>8. /\ q \in Pg /\ q.lvl = t /\ FewerConns(q, p1) /\ PoppedAbove(q, p1, m)
      /\ First(p1) => First(q)
  BY <1>2, <1>7, AtEOIs
<1> HIDE DEF q
<1>9. FewerConns(q, p) /\ PoppedAbove(q, p, m) /\ (First(p) => First(q))
  BY <1>7, <1>8 DEF FewerConns, PoppedAbove, First
<1>10. /\ Depth(q) = m
       /\ \A k \in 1..m : q.lvl[k].name = p.lvl[k].name
       /\ \A k \in 1..m : q.lvl[k].rows \subseteq AllRows(p)
  <2>1. Depth(q) = m
    BY <1>6, <1>8 DEF Depth
  <2>2. \A k \in 1..m : k \in 1..(m - 1) \/ k = m
    BY <1>2
  <2>3. \A k \in 1..m : k \in 1..Depth(p)
    BY <1>1, <1>2
  <2>4. \A k \in 1..m : q.lvl[k].name = p.lvl[k].name
    BY <1>4, <1>6, <1>8, <2>2
  <2>5. \A k \in 1..(m - 1) : q.lvl[k].rows \subseteq AllRows(p)
    BY <1>6, <1>8, <2>2, <2>3 DEF AllRows
  <2>6. q.lvl[m].rows \subseteq AllRows(p)
    BY <1>3, <1>4, <1>6, <1>8
  <2> QED
    BY <2>1, <2>2, <2>4, <2>5, <2>6
<1>11. AllRows(q) \subseteq AllRows(p)
  BY <1>10 DEF AllRows
<1>12. Beneath(q, p)
  BY <1>6, <1>8, <1>10 DEF Beneath
<1>13. Shrunk(q, p)
  BY <1>2, <1>8, <1>9, <1>10, <1>11, <1>12 DEF Shrunk
<1>14. q.lvl[m].rows = R
  BY <1>4, <1>6, <1>8
<1> QED
  BY <1>9, <1>10, <1>13, <1>14 DEF q, p1, t, s, kept, R, m, ReleaseFrom

LEMMA BeginIs ==
  ASSUME NEW p \in Pg, NEW name \in Names
  PROVE  LET q == BeginSub(p, name) IN
         /\ q \in Pg /\ Depth(q) = Depth(p) + 1
         /\ q.lvl[Depth(q)].name = name /\ q.lvl[Depth(q)].rows = {}
         /\ \A i \in 1..Depth(p) : q.lvl[i] = p.lvl[i]
         /\ AllRows(q) = AllRows(p)
         /\ q.conn = p.conn /\ q.cur = p.cur
<1> DEFINE x == [name |-> name, rows |-> {}]
           t == Append(p.lvl, x)
           q == BeginSub(p, name)
<1>1. /\ p.lvl \in Seq(Level) /\ p.conn \in Seq(Nat) /\ p.cur \in Int
      /\ Len(p.lvl) \in Nat /\ Depth(p) = Len(p.lvl)
  BY FieldFacts
<1>2. x \in Level /\ x.name = name /\ x.rows = {}
  BY DEF Level
<1> HIDE DEF x
<1>3. /\ t \in Seq(Level) /\ Len(t) = Len(p.lvl) + 1
      /\ \A i \in 1..Len(p.lvl) : t[i] = p.lvl[i]
      /\ t[Len(p.lvl) + 1] = x
  BY <1>1, <1>2, PushFacts
<1>4. q = [p EXCEPT !.lvl = t]
  BY DEF BeginSub, x
<1> HIDE DEF t, q
<1>5. q \in Pg /\ q.lvl = t /\ q.conn = p.conn /\ q.cur = p.cur
  BY <1>1, <1>3, <1>4 DEF Pg
<1>6. /\ Depth(q) = Depth(p) + 1 /\ q.lvl[Depth(q)] = x
      /\ \A i \in 1..Depth(p) : q.lvl[i] = p.lvl[i]
  BY <1>1, <1>3, <1>5 DEF Depth
<1>7. \A i \in 1..Depth(q) : i \in 1..Depth(p) \/ i = Depth(q)
  BY <1>1, <1>6
<1>8. \A i \in 1..Depth(p) : i \in 1..Depth(q)
  BY <1>1, <1>6
<1>9. AllRows(q) = AllRows(p)
  BY <1>2, <1>6, <1>7, <1>8 DEF AllRows
<1> QED
  BY <1>2, <1>5, <1>6, <1>9 DEF q

LEMMA InnermostIs ==
  ASSUME NEW p \in Pg, NEW name, Named(p, name) # {}
  PROVE  /\ Innermost(p, name) \in 2..Depth(p)
         /\ p.lvl[Innermost(p, name)].name = name
         /\ \A j \in Named(p, name) : j <= Innermost(p, name)
<1>1. Depth(p) \in Nat
  BY FieldFacts
<1>2. Named(p, name) \subseteq 0..Depth(p)
  BY <1>1 DEF Named
<1>3. \E i \in Named(p, name) : \A j \in Named(p, name) : j <= i
  BY <1>1, <1>2, GreatestIn
<1>4. /\ Innermost(p, name) \in Named(p, name)
      /\ \A j \in Named(p, name) : j <= Innermost(p, name)
  BY <1>3 DEF Innermost
<1> QED
  BY <1>4 DEF Named

LEMMA BeneathTwice ==
  ASSUME NEW p \in Pg, NEW q \in Pg, NEW r \in Pg, Beneath(q, p), Beneath(r, q),
         Depth(r) <= Depth(q)
  PROVE  Beneath(r, p)
<1>1. Depth(q) \in Nat /\ Depth(r) \in Nat
  BY FieldFacts
<1>2. \A i \in 1..(Depth(r) - 1) : i \in 1..(Depth(q) - 1)
  BY <1>1
<1> QED
  BY <1>2 DEF Beneath

LEMMA ShrunkTwice ==
  ASSUME NEW p \in Pg, NEW q, NEW r, Shrunk(q, p), Shrunk(r, q)
  PROVE  Shrunk(r, p)
<1>1. /\ Depth(p) \in Nat /\ Depth(q) \in Nat /\ Depth(r) \in Nat
      /\ Len(p.conn) \in Nat /\ Len(q.conn) \in Nat /\ Len(r.conn) \in Nat
  BY FieldFacts DEF Shrunk
<1>2. Depth(r) \in 1..Depth(p) /\ \A i \in 1..Depth(r) : i \in 1..Depth(q)
  BY <1>1 DEF Shrunk
<1>3. FewerConns(r, p)
  BY <1>1 DEF Shrunk, FewerConns
<1>4. Beneath(r, p)
  BY <1>1, BeneathTwice DEF Shrunk
<1> QED
  BY <1>2, <1>3, <1>4 DEF Shrunk

(* The innermost level of that name ended, with all above.                 *)
Closes(q, p, name) ==
  Shrunk(q, p) /\ Depth(q) < Depth(p) /\ p.lvl[Depth(q) + 1].name = name

(* pl_intern_abort: the savepoint is rolled back and destroyed.            *)
RolledBack(p, name) ==
  RollbackAndReleaseCurrentSubTransaction(RollbackToSavepoint(p, name))

LEMMA RolledBackIs ==
  ASSUME NEW p \in Pg, NEW name \in Names, Named(p, name) # {}
  PROVE  LET q == RolledBack(p, name)
             i == Innermost(p, name)
         IN  /\ Closes(q, p, name) /\ Depth(q) = i - 1
             /\ \A k \in 1..Depth(q) : q.lvl[k] = p.lvl[k]
             /\ (Len(p.conn) > 0 => p.conn[Len(p.conn)] <= i - 1)
                  => q.conn = p.conn /\ q.cur = p.cur
<1> DEFINE i == Innermost(p, name)
           a == AbortFrom(p, i)
           b == BeginSub(a, name)
           q == AbortFrom(b, Depth(b))
<1>1. i \in 2..Depth(p) /\ Depth(p) \in Nat /\ p.lvl[i].name = name
  BY InnermostIs, FieldFacts
<1> HIDE DEF i
<1>2. /\ Shrunk(a, p) /\ Depth(a) = i - 1 /\ PoppedAbove(a, p, i - 1)
      /\ \A k \in 1..Depth(a) : a.lvl[k] = p.lvl[k]
      /\ a \in Pg
  BY <1>1, AbortIs DEF Shrunk
<1> HIDE DEF a
<1>3. /\ b \in Pg /\ Depth(b) = Depth(a) + 1
      /\ \A j \in 1..Depth(a) : b.lvl[j] = a.lvl[j]
      /\ AllRows(b) = AllRows(a) /\ b.conn = a.conn /\ b.cur = a.cur
  BY <1>2, BeginIs
<1> HIDE DEF b
<1>4. Depth(b) = i /\ Depth(b) \in 2..Depth(b)
  BY <1>1, <1>2, <1>3
<1>5. /\ Shrunk(q, b) /\ Depth(q) = i - 1 /\ PoppedAbove(q, b, i - 1)
      /\ \A k \in 1..Depth(q) : q.lvl[k] = b.lvl[k]
  BY <1>3, <1>4, AbortIs
<1> HIDE DEF q
<1>6. Shrunk(q, a)
  <2>1. Depth(q) \in 1..Depth(a)
    BY <1>1, <1>2, <1>5
  <2>2. \A j \in 1..Depth(q) : q.lvl[j].name = a.lvl[j].name
    BY <1>2, <1>3, <1>5 DEF Shrunk
  <2>3. Beneath(q, a)
    BY <1>1, <1>2, <1>3, <1>5 DEF Beneath
  <2> QED
    BY <1>3, <1>5, <2>1, <2>2, <2>3 DEF Shrunk, FewerConns, First
<1>7. Shrunk(q, p)
  BY <1>2, <1>6, ShrunkTwice
<1>8. (Len(p.conn) > 0 => p.conn[Len(p.conn)] <= i - 1)
        => q.conn = p.conn /\ q.cur = p.cur
  BY <1>2, <1>3, <1>5 DEF PoppedAbove
<1>9. Closes(q, p, name)
  <2>1. Depth(q) < Depth(p) /\ Depth(q) + 1 = i
    BY <1>1, <1>5
  <2> QED
    BY <1>1, <1>7, <2>1 DEF Closes
<1>10. \A k \in 1..Depth(q) : q.lvl[k] = p.lvl[k]
  BY <1>2, <1>3, <1>5
<1> QED
  BY <1>5, <1>8, <1>9, <1>10 DEF RolledBack, q, b, a, i, RollbackToSavepoint,
     RollbackAndReleaseCurrentSubTransaction

LEMMA ReleasedIs ==
  ASSUME NEW p \in Pg, NEW name \in Names, Named(p, name) # {}
  PROVE  LET q == ReleaseSavepoint(p, name)
             i == Innermost(p, name)
         IN  /\ Closes(q, p, name) /\ Depth(q) = i - 1
             /\ (Len(p.conn) > 0 => p.conn[Len(p.conn)] <= i - 1)
                  => q.conn = p.conn /\ q.cur = p.cur
             /\ q.lvl[i - 1].rows = UNION {p.lvl[j].rows : j \in (i - 1)..Depth(p)}
<1> DEFINE i == Innermost(p, name)
           q == ReleaseFrom(p, i)
<1>1. i \in 2..Depth(p) /\ Depth(p) \in Nat /\ p.lvl[i].name = name
  BY InnermostIs, FieldFacts
<1> HIDE DEF i
<1>2. /\ Shrunk(q, p) /\ Depth(q) = i - 1 /\ PoppedAbove(q, p, i - 1)
      /\ q.lvl[i - 1].rows = UNION {p.lvl[j].rows : j \in (i - 1)..Depth(p)}
  BY <1>1, ReleaseIs
<1> HIDE DEF q
<1>3. Depth(q) < Depth(p) /\ Depth(q) + 1 = i
  BY <1>1, <1>2
<1> QED
  BY <1>1, <1>2, <1>3 DEF Closes, PoppedAbove, ReleaseSavepoint, q, i

-----------------------------------------------------------------------------
(* The helpers of pltrans.c                                                *)

(* Whatever was done to the connections, levels only ended.                *)
LevelsOf(q, p) ==
  /\ q \in Pg
  /\ Depth(q) \in 1..Depth(p)
  /\ \A i \in 1..Depth(q) : q.lvl[i].name = p.lvl[i].name
  /\ AllRows(q) \subseteq AllRows(p)
  /\ Beneath(q, p)

LEMMA LevelsTwice ==
  ASSUME NEW p \in Pg, NEW q, NEW r, LevelsOf(q, p), LevelsOf(r, q)
  PROVE  LevelsOf(r, p)
<1>1. Depth(p) \in Nat /\ Depth(q) \in Nat /\ Depth(r) \in Nat
  BY FieldFacts DEF LevelsOf
<1>2. Depth(r) \in 1..Depth(p) /\ \A i \in 1..Depth(r) : i \in 1..Depth(q)
  BY <1>1 DEF LevelsOf
<1>3. Beneath(r, p)
  BY <1>1, BeneathTwice DEF LevelsOf
<1> QED
  BY <1>2, <1>3 DEF LevelsOf

LEMMA LevelsSame ==
  ASSUME NEW p \in Pg, Depth(p) # 0
  PROVE  LevelsOf(p, p)
BY FieldFacts DEF LevelsOf, Beneath

LEMMA ConnsOnly ==
  ASSUME NEW p \in Pg, Depth(p) # 0, NEW q \in Pg, q.lvl = p.lvl
  PROVE  LevelsOf(q, p) /\ Depth(q) = Depth(p) /\ AllRows(q) = AllRows(p)
<1>1. Depth(p) \in Nat /\ Depth(q) = Depth(p)
  BY FieldFacts DEF Depth
<1>2. AllRows(q) = AllRows(p) /\ Beneath(q, p)
  BY <1>1 DEF AllRows, Beneath
<1> QED
  BY <1>1, <1>2 DEF LevelsOf

LEMMA FinishIs ==
  ASSUME NEW p \in Pg
  PROVE  LET q == SPI_finish(p) IN
         /\ q \in Pg /\ q.lvl = p.lvl /\ q.cur = p.cur
         /\ q.conn = SubSeq(p.conn, 1, Len(p.conn) - 1)
<1>1. /\ p.lvl \in Seq(Level) /\ p.conn \in Seq(Nat) /\ p.cur \in Int
      /\ Len(p.conn) \in Nat
  BY FieldFacts
<1> DEFINE t == SubSeq(p.conn, 1, Len(p.conn) - 1)
<1>2. t \in Seq(Nat)
  <2>1. CASE Len(p.conn) = 0
    <3>1. t = <<>>
      BY <1>1, <2>1
    <3> HIDE DEF t
    <3> QED
      BY <3>1
  <2>2. CASE Len(p.conn) # 0
    <3> DEFINE n == Len(p.conn) - 1
    <3>1. n \in 0..Len(p.conn)
      BY <1>1, <2>2
    <3> HIDE DEF n
    <3>2. SubSeq(p.conn, 1, n) \in Seq(Nat)
      BY <1>1, <3>1, PrefixFacts
    <3> QED
      BY <3>2 DEF n
  <2> QED
    BY <2>1, <2>2
<1> HIDE DEF t
<1>3. SPI_finish(p) = [p EXCEPT !.conn = t]
  BY DEF SPI_finish, t
<1> QED
  BY <1>1, <1>2, <1>3 DEF Pg, t

LEMMA PopIs ==
  ASSUME NEW p \in Pg, NEW f \in Frame
  PROVE  LET q == PopOwn(p, f) IN
         /\ q \in Pg /\ q.lvl = p.lvl /\ q.conn = p.conn
         /\ q.cur = IF f.begin THEN p.cur - 1 ELSE p.cur
         /\ ~f.begin => q = p
<1>1. p.lvl \in Seq(Level) /\ p.conn \in Seq(Nat) /\ p.cur \in Int
  BY FieldFacts
<1>2. p.cur - 1 \in Int
  BY <1>1
<1> QED
  BY <1>1, <1>2 DEF PopOwn, SPI_pop, Pg

(* A result of pl_intern_commit, pl_intern_abort or pl_intern_error.       *)
Ends(r, p) ==
  /\ LevelsOf(r.pg, p) /\ r.fr \in Frame
  /\ r.exc \in {"no", "catch", "error"}

LEMMA FrameIs ==
  ASSUME NEW f \in Frame
  PROVE  /\ Committed(f) \in Frame /\ Committed(f).commit
         /\ Committed(f).begin = f.begin /\ Committed(f).name = f.name
         /\ Committed(f).txn = f.txn
         /\ Unnamed(f) \in Frame /\ Unnamed(f).commit
         /\ Unnamed(f).begin = f.begin /\ Unnamed(f).txn = f.txn
<1>1. NoName \in Names
  BY DEF NoName, Names
<1> QED
  BY <1>1 DEF Frame, Committed, Unnamed

LEMMA InternalEnds ==
  ASSUME NEW p \in Pg, Depth(p) # 0, NEW f \in Frame, NEW q,
         IsSubTransaction(p) => LevelsOf(q, p)
  PROVE  Ends(EndInternal(p, f, q), p)
<1>1. LevelsOf(p, p) /\ LevelsOf(SPI_finish(p), p)
  BY LevelsSame, FinishIs, ConnsOnly
<1>2. f.commit \in BOOLEAN
  BY DEF Frame
<1> QED
  BY <1>1, <1>2, FrameIs DEF EndInternal, Ends, Result

LEMMA SavepointEnds ==
  ASSUME NEW p \in Pg, Depth(p) # 0, NEW f \in Frame, NEW q,
         Named(p, f.name) # {} => Closes(q, p, f.name)
  PROVE  LET r == EndNamed(p, f, q) IN
         /\ Ends(r, p) /\ r.fr = Unnamed(f)
         /\ r.pg = p \/ Closes(r.pg, p, f.name)
<1>1. LevelsOf(p, p) /\ (Closes(q, p, f.name) => LevelsOf(q, p))
  BY LevelsSame DEF Closes, Shrunk, LevelsOf
<1> QED
  BY <1>1, FrameIs DEF EndNamed, Ends, Result

LEMMA CurrentEnds ==
  ASSUME NEW p \in Pg, IsSubTransaction(p)
  PROVE  /\ LevelsOf(ReleaseCurrentSubTransaction(SPI_finish(p)), p)
         /\ LevelsOf(RollbackAndReleaseCurrentSubTransaction(SPI_finish(p)), p)
         /\ LevelsOf(RollbackAndReleaseCurrentSubTransaction(p), p)
<1> DEFINE q == SPI_finish(p)
<1>1. q \in Pg /\ Depth(q) = Depth(p) /\ LevelsOf(q, p) /\ Depth(p) \in Nat
  BY FinishIs, ConnsOnly, FieldFacts DEF IsSubTransaction
<1> HIDE DEF q
<1>2. /\ Shrunk(ReleaseFrom(q, Depth(q)), q)
      /\ Shrunk(AbortFrom(q, Depth(q)), q)
      /\ Shrunk(AbortFrom(p, Depth(p)), p)
  BY <1>1, ReleaseIs, AbortIs DEF IsSubTransaction
<1>3. /\ LevelsOf(ReleaseFrom(q, Depth(q)), q)
      /\ LevelsOf(AbortFrom(q, Depth(q)), q)
      /\ LevelsOf(AbortFrom(p, Depth(p)), p)
  BY <1>2 DEF Shrunk, LevelsOf
<1> QED
  BY <1>1, <1>3, LevelsTwice
     DEF q, ReleaseCurrentSubTransaction, RollbackAndReleaseCurrentSubTransaction

LEMMA CommitEnds ==
  ASSUME NEW p \in Pg, Depth(p) # 0, NEW f \in Frame
  PROVE  LET r == InternCommit(p, f) IN
         /\ Ends(r, p) /\ r.fr.begin = f.begin
         /\ f.name # NoName =>
              \/ r.fr = f /\ r.pg = p
              \/ r.fr.commit /\ (r.pg = p \/ Closes(r.pg, p, f.name))
<1>1. CASE interrupted
  BY <1>1, LevelsSame DEF InternCommit, Ends, Result
<1>2. CASE ~interrupted /\ f.name = NoName
  <2> DEFINE q == ReleaseCurrentSubTransaction(SPI_finish(p))
  <2>1. InternCommit(p, f) = EndInternal(p, f, q)
    BY <1>2 DEF InternCommit
  <2>2. IsSubTransaction(p) => LevelsOf(q, p)
    BY CurrentEnds
  <2> HIDE DEF q
  <2>3. Ends(EndInternal(p, f, q), p)
    BY <2>2, InternalEnds
  <2>4. EndInternal(p, f, q).fr.begin = f.begin
    <3>1. f.commit \in BOOLEAN
      BY DEF Frame
    <3> QED
      BY <3>1, FrameIs DEF EndInternal, Result
  <2> QED
    BY <1>2, <2>1, <2>3, <2>4
<1>3. CASE ~interrupted /\ f.name # NoName
  <2> DEFINE q == ReleaseSavepoint(p, f.name)
  <2>1. InternCommit(p, f) = EndNamed(p, f, q)
    BY <1>3 DEF InternCommit
  <2>2. Named(p, f.name) # {} => Closes(q, p, f.name)
    BY ReleasedIs DEF Frame
  <2> HIDE DEF q
  <2>3. LET r == EndNamed(p, f, q) IN
        /\ Ends(r, p) /\ r.fr = Unnamed(f)
        /\ r.pg = p \/ Closes(r.pg, p, f.name)
    BY <2>2, SavepointEnds
  <2> QED
    BY <2>1, <2>3, FrameIs
<1> QED
  BY <1>1, <1>2, <1>3

LEMMA AbortEnds ==
  ASSUME NEW p \in Pg, Depth(p) # 0, NEW f \in Frame
  PROVE  LET r == InternAbort(p, f) IN
         /\ Ends(r, p) /\ r.fr.begin = f.begin
         /\ f.name # NoName =>
              \/ r.fr = f /\ r.pg = p
              \/ r.fr.commit /\ (r.pg = p \/ Closes(r.pg, p, f.name))
<1>1. CASE interrupted \/ ~IsSubTransaction(p)
  BY <1>1, LevelsSame DEF InternAbort, Ends, Result
<1>2. CASE ~(interrupted \/ ~IsSubTransaction(p)) /\ f.name = NoName
  <2> DEFINE q == RollbackAndReleaseCurrentSubTransaction(SPI_finish(p))
  <2>1. InternAbort(p, f) = EndInternal(p, f, q)
    BY <1>2 DEF InternAbort
  <2>2. IsSubTransaction(p) => LevelsOf(q, p)
    BY CurrentEnds
  <2> HIDE DEF q
  <2>3. Ends(EndInternal(p, f, q), p)
    BY <2>2, InternalEnds
  <2>4. EndInternal(p, f, q).fr.begin = f.begin
    <3>1. f.commit \in BOOLEAN
      BY DEF Frame
    <3> QED
      BY <3>1, FrameIs DEF EndInternal, Result
  <2> QED
    BY <1>2, <2>1, <2>3, <2>4
<1>3. CASE ~(interrupted \/ ~IsSubTransaction(p)) /\ f.name # NoName
  <2> DEFINE q == RolledBack(p, f.name)
  <2>1. InternAbort(p, f) = EndNamed(p, f, q)
    BY <1>3 DEF InternAbort, RolledBack
  <2>2. Named(p, f.name) # {} => Closes(q, p, f.name)
    BY RolledBackIs DEF Frame
  <2> HIDE DEF q
  <2>3. LET r == EndNamed(p, f, q) IN
        /\ Ends(r, p) /\ r.fr = Unnamed(f)
        /\ r.pg = p \/ Closes(r.pg, p, f.name)
    BY <2>2, SavepointEnds
  <2> QED
    BY <2>1, <2>3, FrameIs
<1> QED
  BY <1>1, <1>2, <1>3

LEMMA ErrorEnds ==
  ASSUME NEW p \in Pg, Depth(p) # 0, NEW f \in Frame
  PROVE  Ends(InternError(p, f), p)
<1>1. CASE interrupted \/ ~IsSubTransaction(p)
  BY <1>1, LevelsSame DEF InternError, Ends, Result
<1>2. CASE ~(interrupted \/ ~IsSubTransaction(p))
  BY <1>2, CurrentEnds, FrameIs DEF InternError, Ends, Result
<1> QED
  BY <1>1, <1>2

(* A helper that does not raise has set trans->commit.                     *)
LEMMA DoneIsCommitted ==
  ASSUME NEW p, NEW f \in Frame,
         NEW r \in {InternCommit(p, f), InternAbort(p, f)}, r.exc = "no"
  PROVE  r.fr.commit
<1> DEFINE internal(q) == EndInternal(p, f, q)
           named(q) == EndNamed(p, f, q)
<1>1. \A q : internal(q).exc = "no" => internal(q).fr.commit
  <2>1. f.commit \in BOOLEAN
    BY DEF Frame
  <2> QED
    BY <2>1, FrameIs DEF EndInternal, Result
<1>2. \A q : named(q).exc = "no" => named(q).fr.commit
  BY FrameIs DEF EndNamed, Result
<1>3. CASE r = InternCommit(p, f)
  <2>1. \/ r = internal(ReleaseCurrentSubTransaction(SPI_finish(p)))
        \/ r = named(ReleaseSavepoint(p, f.name))
    BY <1>3 DEF InternCommit, Result
  <2> HIDE DEF internal, named
  <2> QED
    BY <1>1, <1>2, <2>1
<1>4. CASE r = InternAbort(p, f)
  <2>1. \/ r = internal(RollbackAndReleaseCurrentSubTransaction(SPI_finish(p)))
        \/ r = named(RollbackAndReleaseCurrentSubTransaction(
                       RollbackToSavepoint(p, f.name)))
    BY <1>4 DEF InternAbort, Result
  <2> HIDE DEF internal, named
  <2> QED
    BY <1>1, <1>2, <2>1
<1> QED
  BY <1>3, <1>4

Bang == {"nil"} \cup Exceptions

(* What pl_transaction does when its block is over.                        *)
LEMMA LeaveIs ==
  ASSUME NEW p \in Pg, Depth(p) # 0, NEW f \in Frame, NEW c, NEW b \in Bang,
         Leave(p, f, c, b)
  PROVE  /\ LevelsOf(pg', p) /\ frames' = Outer /\ bang' \in Bang
         /\ ~f.begin /\ f.commit => pg' = p
         /\ ~f.begin /\ f.name # NoName => pg' = p \/ Closes(pg', p, f.name)
<1> DEFINE isCatch == f.begin /\ b = "catch"
           r == IF f.commit THEN Result(p, f, "no")
                ELSE IF isCatch THEN InternError(p, f)
                ELSE InternAbort(p, f)
<1>1. /\ pg' = IF isCatch THEN r.pg ELSE PopOwn(r.pg, f)
      /\ bang' = IF r.exc # "no" THEN r.exc ELSE b
      /\ frames' = Outer
  BY DEF Leave
<1>2. f.commit \in BOOLEAN /\ f.begin \in BOOLEAN
  BY DEF Frame
<1>3. Ends(r, p)
  <2>1. Ends(Result(p, f, "no"), p)
    BY LevelsSame DEF Ends, Result
  <2>2. Ends(InternError(p, f), p) /\ Ends(InternAbort(p, f), p)
    BY ErrorEnds, AbortEnds
  <2> QED
    BY <1>2, <2>1, <2>2
<1>4. /\ ~f.begin /\ f.commit => r.pg = p
      /\ ~f.begin /\ f.name # NoName => r.pg = p \/ Closes(r.pg, p, f.name)
  BY <1>2, AbortEnds DEF Result
<1> HIDE DEF r
<1>5. LevelsOf(PopOwn(r.pg, f), p) /\ (~f.begin => PopOwn(r.pg, f) = r.pg)
  <2>1. r.pg \in Pg /\ Depth(r.pg) # 0 /\ LevelsOf(r.pg, p)
    BY <1>3, FieldFacts DEF Ends, LevelsOf
  <2>2. /\ PopOwn(r.pg, f) \in Pg /\ PopOwn(r.pg, f).lvl = r.pg.lvl
        /\ ~f.begin => PopOwn(r.pg, f) = r.pg
    BY <2>1, PopIs
  <2> QED
    BY <2>1, <2>2, ConnsOnly, LevelsTwice
<1>6. bang' \in Bang
  BY <1>1, <1>3 DEF Ends, Bang, Exceptions
<1> QED
  BY <1>1, <1>2, <1>3, <1>4, <1>5, <1>6 DEF Ends

LEMMA EndedIs ==
  ASSUME NEW p \in Pg, Depth(p) # 0, NEW f \in Frame, Finish(p, f),
         f.begin => f.commit
  PROVE  LevelsOf(pg', p) /\ frames' = Outer /\ (~f.begin => pg' = p)
<1>1. frames' = Outer /\ pg' = PopOwn(p, f)
  <2>1. f.commit \in BOOLEAN /\ f.begin \in BOOLEAN
    BY DEF Frame
  <2> QED
    BY <2>1 DEF Finish, Result
<1>2. /\ PopOwn(p, f) \in Pg /\ PopOwn(p, f).lvl = p.lvl
      /\ ~f.begin => PopOwn(p, f) = p
  BY PopIs
<1> QED
  BY <1>1, <1>2, ConnsOnly

(* Every state of every program.                                           *)
Typed ==
  /\ pg \in Pg /\ Depth(pg) # 0
  /\ frames \in Seq(Frame)
  /\ seq \in Nat /\ rows \in Nat /\ txns \in Nat
  /\ bang \in Bang /\ interrupted \in BOOLEAN
  /\ bad \subseteq 1..rows

EndsBlock == EndBlock \/ CatchThrow \/ LeaveBlock

LEMMA TopIs ==
  ASSUME Typed, InBlock
  PROVE  /\ Top \in Frame /\ Outer \in Seq(Frame)
         /\ Len(Outer) = Len(frames) - 1 /\ Len(frames) \in Nat \ {0}
         /\ \A i \in 1..Len(Outer) : Outer[i] = frames[i]
<1>1. frames \in Seq(Frame) /\ frames # <<>>
  BY DEF Typed, InBlock
<1>2. Len(frames) \in Nat \ {0} /\ frames[Len(frames)] \in Frame
  BY <1>1
<1> DEFINE n == Len(frames) - 1
<1>3. n \in 0..Len(frames)
  BY <1>2
<1> HIDE DEF n
<1>4. /\ SubSeq(frames, 1, n) \in Seq(Frame) /\ Len(SubSeq(frames, 1, n)) = n
      /\ \A i \in 1..n : SubSeq(frames, 1, n)[i] = frames[i]
  BY <1>1, <1>3, PrefixFacts
<1> QED
  BY <1>2, <1>4 DEF n, Top, Outer

LEMMA BlockEnds ==
  ASSUME Typed, EndsBlock
  PROVE  /\ LevelsOf(pg', pg) /\ frames' = Outer /\ bang' \in Bang
         /\ InBlock /\ outcome = "running"
         /\ UNCHANGED <<seq, interrupted, outcome, rows, bad, txns>>
         /\ ~Top.begin /\ Top.name # NoName
              => pg' = pg \/ Closes(pg', pg, Top.name)
<1>1. /\ InBlock /\ outcome = "running"
      /\ UNCHANGED <<seq, interrupted, outcome, rows, bad, txns>>
  BY DEF EndsBlock, EndBlock, CatchThrow, LeaveBlock, CanRun, UnchangedByBlocks
<1>2. Top \in Frame /\ pg \in Pg /\ Depth(pg) # 0 /\ bang \in Bang
  BY <1>1, TopIs DEF Typed
<1> DEFINE R == {InternCommit(pg, Top), InternAbort(pg, Top)}
<1>3. \A r \in R :
        /\ Ends(r, pg) /\ r.fr.begin = Top.begin
        /\ Top.name # NoName =>
             \/ r.fr = Top /\ r.pg = pg
             \/ r.fr.commit /\ (r.pg = pg \/ Closes(r.pg, pg, Top.name))
  BY <1>2, CommitEnds, AbortEnds
<1>4. ASSUME NEW r \in R, NEW c, NEW b \in Bang, Leave(r.pg, r.fr, c, b)
      PROVE  /\ LevelsOf(pg', pg) /\ frames' = Outer /\ bang' \in Bang
             /\ ~Top.begin /\ Top.name # NoName
                  => pg' = pg \/ Closes(pg', pg, Top.name)
  <2>1. /\ Ends(r, pg) /\ r.fr.begin = Top.begin
        /\ Top.name # NoName =>
             \/ r.fr = Top /\ r.pg = pg
             \/ r.fr.commit /\ (r.pg = pg \/ Closes(r.pg, pg, Top.name))
    BY <1>3
  <2>2. r.pg \in Pg /\ Depth(r.pg) # 0 /\ r.fr \in Frame /\ LevelsOf(r.pg, pg)
    BY <2>1, FieldFacts, <1>2 DEF Ends, LevelsOf
  <2> HIDE DEF R
  <2>3. /\ LevelsOf(pg', r.pg) /\ frames' = Outer /\ bang' \in Bang
        /\ ~r.fr.begin /\ r.fr.commit => pg' = r.pg
        /\ ~r.fr.begin /\ r.fr.name # NoName
             => pg' = r.pg \/ Closes(pg', r.pg, r.fr.name)
    BY <1>4, <2>2, LeaveIs
  <2>4. LevelsOf(pg', pg)
    BY <1>2, <2>2, <2>3, LevelsTwice
  <2>5. ~Top.begin /\ Top.name # NoName => pg' = pg \/ Closes(pg', pg, Top.name)
    BY <2>1, <2>3
  <2> QED
    BY <2>3, <2>4, <2>5
<1>5. ASSUME NEW r \in R, r.exc = "no", Finish(r.pg, r.fr)
      PROVE  /\ LevelsOf(pg', pg) /\ frames' = Outer /\ bang' \in Bang
             /\ ~Top.begin /\ Top.name # NoName
                  => pg' = pg \/ Closes(pg', pg, Top.name)
  <2>1. /\ Ends(r, pg) /\ r.fr.begin = Top.begin
        /\ Top.name # NoName => r.pg = pg \/ Closes(r.pg, pg, Top.name)
    BY <1>3
  <2>2. r.pg \in Pg /\ Depth(r.pg) # 0 /\ r.fr \in Frame /\ LevelsOf(r.pg, pg)
    BY <2>1, FieldFacts, <1>2 DEF Ends, LevelsOf
  <2>3. r.fr.begin => r.fr.commit
    BY <1>2, <1>5, DoneIsCommitted
  <2>4. bang' \in Bang
    BY <1>1, <1>2, <1>5 DEF Finish, BangOutside, Frame, Bang
  <2> HIDE DEF R
  <2>5. LevelsOf(pg', r.pg) /\ frames' = Outer /\ (~r.fr.begin => pg' = r.pg)
    BY <1>5, <2>2, <2>3, EndedIs
  <2> QED
    BY <1>2, <2>1, <2>2, <2>4, <2>5, LevelsTwice
<1>6. "error" \in Bang /\ \A r \in R : r.exc # "no" => r.exc \in Bang
  BY <1>3 DEF Ends, Bang, Exceptions
<1>7. CASE EndBlock
  <2> DEFINE r == InternCommit(pg, Top)
  <2>1. IF r.exc = "no" THEN Finish(r.pg, r.fr)
                        ELSE Leave(r.pg, r.fr, Plain(r.exc), r.exc)
    BY <1>7 DEF EndBlock
  <2>2. r \in R
    OBVIOUS
  <2> HIDE DEF r, R
  <2> QED
    BY <1>1, <1>4, <1>5, <1>6, <2>1, <2>2
<1>8. CASE CatchThrow
  <2> DEFINE r == IF ctl.commit THEN InternCommit(pg, Top) ELSE InternAbort(pg, Top)
  <2>1. \/ r.exc # "no" /\ Leave(r.pg, r.fr, Plain(r.exc), r.exc)
        \/ r.exc = "no" /\ Finish(r.pg, r.fr)
        \/ Leave(r.pg, r.fr, Plain("error"), "error")
        \/ Leave(r.pg, r.fr, ctl, bang)
    BY <1>8 DEF CatchThrow
  <2>2. r \in R
    OBVIOUS
  <2> HIDE DEF r, R
  <2> QED
    BY <1>1, <1>2, <1>4, <1>5, <1>6, <2>1, <2>2
<1>9. CASE LeaveBlock
  <2>1. Leave(pg, Top, ctl, bang)
    BY <1>9 DEF LeaveBlock
  <2> QED
    BY <1>1, <1>2, <2>1, LeaveIs
<1> QED
  BY <1>7, <1>8, <1>9 DEF EndsBlock

-----------------------------------------------------------------------------
(* Steps of every program                                                  *)

LEMMA WriteIs ==
  ASSUME NEW p \in Pg, Depth(p) # 0, NEW r \in Nat
  PROVE  LET q == Write(p, r) IN
         /\ q \in Pg /\ Depth(q) = Depth(p)
         /\ \A i \in 1..Depth(p) : q.lvl[i].name = p.lvl[i].name
         /\ q.lvl[Depth(p)].rows = p.lvl[Depth(p)].rows \cup {r}
         /\ AllRows(q) = AllRows(p) \cup {r}
         /\ Beneath(q, p)
         /\ q.conn = p.conn /\ q.cur = p.cur
<1> DEFINE n == Depth(p)
           x == [p.lvl[n] EXCEPT !.rows = @ \cup {r}]
           t == [p.lvl EXCEPT ![n] = x]
           q == Write(p, r)
<1>1. /\ p.lvl \in Seq(Level) /\ p.conn \in Seq(Nat) /\ p.cur \in Int
      /\ Len(p.lvl) \in Nat /\ n = Len(p.lvl) /\ n \in 1..n
      /\ \A i \in 1..Len(p.lvl) : p.lvl[i] \in Level
  BY FieldFacts
<1>2. x \in Level /\ x.name = p.lvl[n].name /\ x.rows = p.lvl[n].rows \cup {r}
  BY <1>1 DEF Level
<1> HIDE DEF x
<1>3. /\ t \in Seq(Level) /\ Len(t) = n /\ t[n] = x
      /\ \A i \in 1..n : i # n => t[i] = p.lvl[i]
  BY <1>1, <1>2
<1>4. q = [p EXCEPT !.lvl = t]
  BY DEF Write, x
<1> HIDE DEF t, q
<1>5. q \in Pg /\ q.lvl = t /\ q.conn = p.conn /\ q.cur = p.cur
  BY <1>1, <1>3, <1>4 DEF Pg
<1>6. Depth(q) = n /\ \A i \in 1..n : q.lvl[i].name = p.lvl[i].name
  BY <1>2, <1>3, <1>5 DEF Depth
<1> HIDE DEF n
<1>7. /\ \A i \in 1..n : i # n => q.lvl[i].rows = p.lvl[i].rows
      /\ q.lvl[n].rows = p.lvl[n].rows \cup {r}
  BY <1>2, <1>3, <1>5
<1>8. AllRows(q) = AllRows(p) \cup {r}
  <2>1. ASSUME NEW z PROVE z \in AllRows(q) <=> z \in AllRows(p) \cup {r}
    <3>1. z \in AllRows(q) <=> \E i \in 1..n : z \in q.lvl[i].rows
      BY <1>6 DEF AllRows
    <3>2. z \in AllRows(p) <=> \E i \in 1..n : z \in p.lvl[i].rows
      BY DEF AllRows, n
    <3> QED
      BY <1>1, <1>7, <3>1, <3>2
  <2> QED
    BY <2>1
<1>9. Beneath(q, p)
  BY <1>3, <1>5, <1>6 DEF Beneath
<1> QED
  BY <1>5, <1>6, <1>7, <1>8, <1>9 DEF q, n

LEMMA CurIs ==
  ASSUME NEW p \in Pg
  PROVE  /\ SPI_interrupted(p) \in Pg /\ SPI_push(p) \in Pg
         /\ \A q \in {SPI_interrupted(p), SPI_push(p)} :
              q.lvl = p.lvl /\ q.conn = p.conn /\ q.cur = p.cur + 1
<1>1. p.lvl \in Seq(Level) /\ p.conn \in Seq(Nat) /\ p.cur + 1 \in Int
  BY FieldFacts
<1> QED
  BY <1>1 DEF SPI_interrupted, SPI_push, Pg

LEMMA ConnectIs ==
  ASSUME NEW p \in Pg
  PROVE  LET q == SPI_connect(p) IN
         /\ q \in Pg /\ q.lvl = p.lvl /\ q.cur = p.cur
         /\ q.conn = Append(p.conn, Depth(p)) /\ Len(q.conn) = Len(p.conn) + 1
<1>1. /\ p.lvl \in Seq(Level) /\ p.conn \in Seq(Nat) /\ p.cur \in Int
      /\ Depth(p) \in Nat
  BY FieldFacts
<1> DEFINE t == Append(p.conn, Depth(p))
<1>2. t \in Seq(Nat) /\ Len(t) = Len(p.conn) + 1
  BY <1>1
<1> HIDE DEF t
<1>3. SPI_connect(p) = [p EXCEPT !.conn = t]
  BY DEF SPI_connect, t
<1> QED
  BY <1>1, <1>2, <1>3 DEF Pg, t

(* A level was put on top.                                                 *)
Grows(q, p, name) ==
  /\ q \in Pg /\ Depth(q) = Depth(p) + 1
  /\ q.lvl[Depth(q)].name = name /\ q.lvl[Depth(q)].rows = {}
  /\ \A i \in 1..Depth(p) : q.lvl[i].name = p.lvl[i].name
  /\ AllRows(q) = AllRows(p)
  /\ Beneath(q, p)

LEMMA GrowsIs ==
  ASSUME NEW p \in Pg, NEW name \in Names
  PROVE  LET q == BeginSub(p, name) IN
         Grows(q, p, name) /\ q.conn = p.conn /\ q.cur = p.cur
<1> DEFINE q == BeginSub(p, name)
<1>1. /\ q \in Pg /\ Depth(q) = Depth(p) + 1
      /\ q.lvl[Depth(q)].name = name /\ q.lvl[Depth(q)].rows = {}
      /\ \A i \in 1..Depth(p) : q.lvl[i] = p.lvl[i]
      /\ AllRows(q) = AllRows(p)
      /\ q.conn = p.conn /\ q.cur = p.cur
  BY BeginIs
<1>2. Depth(p) \in Nat
  BY FieldFacts
<1> HIDE DEF q
<1>3. Beneath(q, p)
  BY <1>1, <1>2 DEF Beneath
<1> QED
  BY <1>1, <1>3 DEF Grows, q

NewFrame(begin, name) ==
  [txn |-> txns + 1, begin |-> begin, name |-> name, commit |-> FALSE,
   bang |-> bang, mark |-> rows]

LEMMA NamesAre ==
  /\ NoName \in Names /\ \A n \in Nat : PlName(n) \in Names /\ UserName(n) \in Names
  /\ \A n \in Nat : PlName(n) # NoName /\ UserName(n) # NoName
  /\ \A n, m \in Nat : PlName(n) # UserName(m) /\ (PlName(n) = PlName(m) => n = m)
BY DEF NoName, PlName, UserName, Names

LEMMA NewFrameIs ==
  ASSUME Typed, NEW begin \in BOOLEAN, NEW name \in Names
  PROVE  NewFrame(begin, name) \in Frame
<1>1. txns + 1 \in Nat /\ bang \in {"nil"} \cup Exceptions /\ rows \in Nat
  BY DEF Typed, Bang
<1> QED
  BY <1>1 DEF NewFrame, Frame

(* transaction { ... }                                                     *)
LEMMA TransactionIs ==
  ASSUME Typed, Transaction
  PROVE  /\ outcome = "running" /\ ctl = Running
         /\ UNCHANGED <<interrupted, outcome, rows, bad>>
         /\ \/ /\ interrupted /\ Raise("error")
               /\ UNCHANGED <<pg, frames, seq, txns>>
            \/ /\ ~interrupted /\ IsSubTransaction(pg)
               /\ Grows(pg', pg, PlName(seq))
               /\ pg'.conn = pg.conn /\ pg'.cur = pg.cur
               /\ frames' = Append(frames, NewFrame(FALSE, PlName(seq)))
               /\ seq' = seq + 1 /\ txns' = txns + 1 /\ UNCHANGED <<ctl, bang>>
            \/ /\ ~interrupted /\ ~IsSubTransaction(pg)
               /\ Grows(pg', pg, NoName)
               /\ seq' = 0 /\ txns' = txns + 1
               /\ pg'.cur = pg.cur + 1
               /\ \/ /\ pg.cur + 1 = Len(pg.conn)
                     /\ pg'.conn = Append(pg.conn, Depth(pg) + 1)
                     /\ frames' = Append(frames, NewFrame(TRUE, NoName))
                     /\ UNCHANGED <<ctl, bang>>
                  \/ /\ pg.cur + 1 # Len(pg.conn)
                     /\ pg'.conn = pg.conn
                     /\ Raise("catch") /\ UNCHANGED frames
<1>1. /\ outcome = "running" /\ ctl = Running
      /\ UNCHANGED <<interrupted, outcome, rows, bad>>
  BY DEF Transaction, CanRun
<1>2. pg \in Pg /\ Depth(pg) # 0 /\ Depth(pg) \in Nat /\ seq \in Nat
  BY FieldFacts DEF Typed
<1>3. CASE interrupted /\ Raise("error") /\ UNCHANGED <<pg, frames, seq, txns>>
  BY <1>1, <1>3
<1>4. CASE /\ ~interrupted /\ IsSubTransaction(pg)
           /\ pg' = BeginSub(pg, PlName(seq))
           /\ frames' = Append(frames, NewFrame(FALSE, PlName(seq)))
           /\ seq' = seq + 1 /\ txns' = txns + 1 /\ UNCHANGED <<ctl, bang>>
  <2>1. /\ Grows(pg', pg, PlName(seq))
        /\ pg'.conn = pg.conn /\ pg'.cur = pg.cur
    BY <1>2, <1>4, GrowsIs, NamesAre
  <2> QED
    BY <1>1, <1>4, <2>1
<1>5. CASE /\ ~interrupted /\ ~IsSubTransaction(pg)
           /\ seq' = 0 /\ txns' = txns + 1
           /\ LET p == BeginSub(SPI_push(pg), NoName) IN
                IF SPI_may_connect(p)
                THEN /\ pg' = SPI_connect(p)
                     /\ frames' = Append(frames, NewFrame(TRUE, NoName))
                     /\ UNCHANGED <<ctl, bang>>
                ELSE pg' = p /\ Raise("catch") /\ UNCHANGED frames
  <2> DEFINE s == SPI_push(pg)
             p == BeginSub(s, NoName)
  <2>1. /\ s \in Pg /\ s.lvl = pg.lvl /\ s.conn = pg.conn
        /\ s.cur = pg.cur + 1 /\ Depth(s) = Depth(pg)
        /\ AllRows(s) = AllRows(pg)
    BY <1>2, CurIs, ConnsOnly
  <2> HIDE DEF s
  <2>2. /\ p \in Pg /\ Depth(p) = Depth(s) + 1
        /\ p.lvl[Depth(p)].name = NoName /\ p.lvl[Depth(p)].rows = {}
        /\ \A i \in 1..Depth(s) : p.lvl[i] = s.lvl[i]
        /\ AllRows(p) = AllRows(s)
        /\ p.conn = s.conn /\ p.cur = s.cur
    BY <2>1, BeginIs, NamesAre
  <2> HIDE DEF p
  <2>3. Grows(p, pg, NoName)
    <3>1. Depth(pg) \in Nat /\ Depth(p) = Depth(pg) + 1
      BY <1>2, <2>1, <2>2
    <3>2. Beneath(p, pg)
      BY <2>1, <2>2, <3>1 DEF Beneath
    <3> QED
      BY <2>1, <2>2, <3>2 DEF Grows
  <2>4. CASE SPI_may_connect(p)
    <3>1. /\ pg' = SPI_connect(p)
          /\ frames' = Append(frames, NewFrame(TRUE, NoName))
          /\ UNCHANGED <<ctl, bang>>
      BY <1>5, <2>4 DEF p, s
    <3> HIDE DEF NewFrame
    <3>2. /\ pg' \in Pg /\ pg'.lvl = p.lvl /\ pg'.cur = p.cur
          /\ pg'.conn = Append(p.conn, Depth(p))
      BY <2>2, <3>1, ConnectIs
    <3>3. Depth(pg') = Depth(p) /\ AllRows(pg') = AllRows(p)
      <4>1. Depth(p) # 0
        BY <1>2, <2>1, <2>2
      <4> QED
        BY <2>2, <3>2, <4>1, ConnsOnly
    <3>4. Grows(pg', pg, NoName)
      BY <2>3, <3>2, <3>3 DEF Grows, Beneath
    <3>5. pg.cur + 1 = Len(pg.conn)
      BY <2>1, <2>2, <2>4 DEF SPI_may_connect
    <3> QED
      BY <1>1, <1>5, <2>1, <2>2, <3>1, <3>2, <3>4, <3>5
  <2>5. CASE ~SPI_may_connect(p)
    <3>1. pg' = p /\ Raise("catch") /\ UNCHANGED frames
      BY <1>5, <2>5 DEF p, s
    <3>2. pg.cur + 1 # Len(pg.conn)
      BY <2>1, <2>2, <2>5 DEF SPI_may_connect
    <3> QED
      BY <1>1, <1>5, <2>1, <2>2, <2>3, <3>1, <3>2
  <2> QED
    BY <2>4, <2>5
<1> QED
  BY <1>3, <1>4, <1>5 DEF Transaction, NewFrame

LEMMA RaiseIs ==
  ASSUME NEW k \in Exceptions, Raise(k)
  PROVE  bang' \in Bang /\ ctl' = Plain(k) /\ bang' = k
BY DEF Raise, Bang

(* savepoint, release_savepoint and rollback_to_savepoint                  *)
LEMMA SavepointsAre ==
  ASSUME ProgramAssumption, Typed, Savepoint \/ ReleaseUser \/ RollbackUser
  PROVE  /\ outcome = "running" /\ UNCHANGED frames /\ UnchangedByBlocks
         /\ bang' \in Bang
         /\ \E n \in SavepointNames :
              \/ pg' = pg
              \/ Closes(pg', pg, UserName(n))
              \/ /\ Grows(pg', pg, UserName(n))
                 /\ pg'.conn = pg.conn /\ pg'.cur = pg.cur
<1>1. pg \in Pg /\ \A n \in SavepointNames : n \in Nat /\ UserName(n) \in Names
  BY NamesAre DEF Typed, ProgramAssumption
<1>2. ASSUME NEW may, NEW q, OnSavepoint(may, q)
      PROVE  /\ outcome = "running" /\ UNCHANGED frames /\ UnchangedByBlocks
             /\ bang' \in Bang /\ (pg' = pg \/ (may /\ pg' = q))
  BY <1>2 DEF OnSavepoint, CanRun, Raise, Bang, Exceptions, Typed
<1>3. CASE Savepoint
  <2>1. PICK n \in SavepointNames : OnSavepoint(TRUE, BeginSub(pg, UserName(n)))
    BY <1>3 DEF Savepoint
  <2>2. pg' = pg \/ pg' = BeginSub(pg, UserName(n))
    BY <1>2, <2>1
  <2>3. LET q == BeginSub(pg, UserName(n)) IN
        Grows(q, pg, UserName(n)) /\ q.conn = pg.conn /\ q.cur = pg.cur
    BY <1>1, GrowsIs
  <2> QED
    BY <1>2, <2>1, <2>2, <2>3
<1>4. CASE ReleaseUser
  <2>1. PICK n \in SavepointNames :
          OnSavepoint(Named(pg, UserName(n)) # {}, ReleaseSavepoint(pg, UserName(n)))
    BY <1>4 DEF ReleaseUser
  <2> DEFINE q == ReleaseSavepoint(pg, UserName(n))
  <2>2. Named(pg, UserName(n)) # {} => Closes(q, pg, UserName(n))
    BY <1>1, ReleasedIs
  <2>3. pg' = pg \/ (Named(pg, UserName(n)) # {} /\ pg' = q)
    BY <1>2, <2>1
  <2> HIDE DEF q
  <2>4. pg' = pg \/ Closes(pg', pg, UserName(n))
    BY <2>2, <2>3
  <2> QED
    BY <1>2, <2>1, <2>4
<1>5. CASE RollbackUser
  <2>1. PICK n \in SavepointNames :
          OnSavepoint(Named(pg, UserName(n)) # {}, RolledBack(pg, UserName(n)))
    BY <1>5 DEF RollbackUser, RolledBack
  <2> DEFINE q == RolledBack(pg, UserName(n))
  <2>2. Named(pg, UserName(n)) # {} => Closes(q, pg, UserName(n))
    BY <1>1, RolledBackIs
  <2>3. pg' = pg \/ (Named(pg, UserName(n)) # {} /\ pg' = q)
    BY <1>2, <2>1
  <2> HIDE DEF q
  <2>4. pg' = pg \/ Closes(pg', pg, UserName(n))
    BY <2>2, <2>3
  <2> QED
    BY <1>2, <2>1, <2>4
<1> QED
  BY <1>3, <1>4, <1>5

(* PL.exec                                                                 *)
LEMMA ExecIs ==
  ASSUME Typed, Exec
  PROVE  /\ outcome = "running" /\ ctl = Running /\ bang' \in Bang
         /\ UNCHANGED <<frames, seq, interrupted, outcome, txns>>
         /\ \/ UNCHANGED <<pg, rows, bad>> /\ ctl' = Plain("error")
            \/ /\ ~interrupted /\ SPI_usable(pg) /\ rows' = rows + 1
               /\ pg' \in Pg /\ Depth(pg') = Depth(pg)
               /\ \A i \in 1..Depth(pg) : pg'.lvl[i].name = pg.lvl[i].name
               /\ pg'.lvl[Depth(pg)].rows = pg.lvl[Depth(pg)].rows \cup {rows + 1}
               /\ AllRows(pg') = AllRows(pg) \cup {rows + 1}
               /\ Beneath(pg', pg)
               /\ pg'.conn = pg.conn
               /\ \/ pg'.cur = pg.cur /\ UNCHANGED <<ctl, bang, bad>>
                  \/ /\ pg'.cur = pg.cur + 1
                     /\ bad' = bad \cup {rows + 1} /\ Raise("catch")
<1> DEFINE q == Write(pg, rows + 1)
<1>1. /\ q \in Pg /\ Depth(q) = Depth(pg)
      /\ \A i \in 1..Depth(pg) : q.lvl[i].name = pg.lvl[i].name
      /\ q.lvl[Depth(pg)].rows = pg.lvl[Depth(pg)].rows \cup {rows + 1}
      /\ AllRows(q) = AllRows(pg) \cup {rows + 1} /\ Beneath(q, pg)
      /\ q.conn = pg.conn /\ q.cur = pg.cur /\ Depth(q) # 0
  <2>1. pg \in Pg /\ Depth(pg) # 0 /\ rows + 1 \in Nat
    BY DEF Typed
  <2> QED
    BY <2>1, WriteIs
<1> DEFINE u == SPI_interrupted(q)
<1> HIDE DEF q
<1>2. /\ u \in Pg /\ u.lvl = q.lvl /\ u.conn = q.conn /\ u.cur = q.cur + 1
      /\ Depth(u) = Depth(q) /\ AllRows(u) = AllRows(q) /\ Beneath(u, pg)
  <2>1. /\ u \in Pg /\ u.lvl = q.lvl /\ u.conn = q.conn /\ u.cur = q.cur + 1
        /\ Depth(u) = Depth(q) /\ AllRows(u) = AllRows(q)
    BY <1>1, CurIs, ConnsOnly
  <2> HIDE DEF u
  <2> QED
    BY <1>1, <2>1 DEF Beneath
<1> HIDE DEF u
<1>3. CASE (interrupted \/ ~SPI_usable(pg)) /\ Raise("error") /\ UNCHANGED <<pg, rows, bad>>
  BY <1>3, RaiseIs DEF Exec, CanRun, Exceptions
<1>4. CASE ~interrupted /\ SPI_usable(pg) /\ rows' = rows + 1 /\ pg' = q /\ UNCHANGED <<ctl, bang, bad>>
  BY <1>1, <1>4 DEF Exec, CanRun, Typed
<1>5. CASE /\ ~interrupted /\ SPI_usable(pg) /\ rows' = rows + 1
           /\ bad' = bad \cup {rows + 1} /\ pg' = u /\ Raise("catch")
  <2>1. bang' \in Bang
    BY <1>5, RaiseIs DEF Exceptions
  <2> QED
    BY <1>1, <1>2, <1>5, <2>1 DEF Exec, CanRun
<1> QED
  BY <1>3, <1>4, <1>5 DEF Exec, q, u

(* The rest of what the program and the timer do.                          *)
Quiet ==
  \/ Commit \/ Abort \/ ConversionFails \/ RaiseError \/ BreakOrReturn
  \/ Rescue \/ EndRescue \/ TimeIsOver \/ TimerRaises \/ Fail

LEMMA QuietIs ==
  ASSUME Typed, Quiet
  PROVE  /\ outcome = "running" /\ outcome' \in {"running", "failed"}
         /\ bang' \in Bang /\ interrupted' \in BOOLEAN
         /\ interrupted => interrupted'
         /\ UNCHANGED <<pg, frames, seq, rows, bad, txns>>
<1>1. bang \in Bang /\ interrupted \in BOOLEAN
  BY DEF Typed
<1>2. \A k \in Exceptions : Raise(k) => bang' \in Bang
  BY RaiseIs
<1>3. BangOutside \in Bang
  <2>1. CASE InBlock
    BY <2>1, TopIs DEF BangOutside, Frame, Bang
  <2>2. CASE ~InBlock
    BY <2>2 DEF BangOutside, Bang
  <2> QED
    BY <2>1, <2>2
<1>4. CASE Commit \/ Abort
  BY <1>1, <1>2, <1>4
     DEF Commit, Abort, ThrowAtCatch, CanRun, UnchangedByBlocks, Exceptions, Raise, Bang
<1>5. CASE ConversionFails \/ RaiseError \/ TimerRaises
  BY <1>1, <1>2, <1>5
     DEF ConversionFails, RaiseError, TimerRaises, CanRun, UnchangedByBlocks, Exceptions
<1>6. CASE BreakOrReturn \/ Rescue
  BY <1>1, <1>6 DEF BreakOrReturn, Rescue, CanRun, UnchangedByBlocks
<1>7. CASE EndRescue
  BY <1>1, <1>3, <1>7 DEF EndRescue, CanRun, UnchangedByBlocks
<1>8. CASE TimeIsOver \/ Fail
  BY <1>1, <1>8 DEF TimeIsOver, Fail
<1> QED
  BY <1>4, <1>5, <1>6, <1>7, <1>8 DEF Quiet

LEMMA PrepareIs ==
  ASSUME Typed, PrepareFails
  PROVE  /\ outcome = "running" /\ SPI_usable(pg) /\ bang' \in Bang
         /\ UNCHANGED frames /\ UnchangedByBlocks /\ PrepareErrors
         /\ pg' \in Pg /\ pg'.lvl = pg.lvl /\ pg'.conn = pg.conn
         /\ pg'.cur = pg.cur + 1
BY CurIs, RaiseIs DEF PrepareFails, CanRun, Exceptions, Typed

LEMMA ReturnIs ==
  ASSUME Typed, Return
  PROVE  /\ outcome = "running" /\ ~InBlock
         /\ UNCHANGED <<frames, seq, ctl, bang, interrupted, rows, bad, txns>>
         /\ \/ outcome' = "failed" /\ UNCHANGED pg
            \/ /\ outcome' = "ok" /\ ~interrupted /\ SPI_usable(pg)
               /\ pg' \in Pg /\ pg'.lvl = pg.lvl /\ pg'.cur = pg.cur
               /\ pg'.conn = SubSeq(pg.conn, 1, Len(pg.conn) - 1)
BY FinishIs DEF Return, Refused, Typed

LEMMA InitTyped == BoundsAssumption /\ Init => Typed
<1> SUFFICES ASSUME BoundsAssumption, Init PROVE Typed
  OBVIOUS
<1> DEFINE l == [i \in 1..(ClientDepth + 1) |->
                   [name |-> IF i = 1 THEN NoName ELSE ClientName, rows |-> {}]]
           m == ClientDepth + 1
<1>1. m \in Nat /\ m > 0
  BY DEF BoundsAssumption
<1>2. l \in Seq(Level) /\ Len(l) = m
  <2>1. NoName \in Names /\ ClientName \in Names
    BY DEF NoName, ClientName, Names
  <2>2. l \in [1..m -> Level]
    BY <2>1 DEF Level
  <2> HIDE DEF l, m
  <2> QED
    BY <1>1, <2>2
<1>3. <<m>> \in Seq(Nat) /\ 0 \in Int
  BY <1>1
<1>4. pg = [lvl |-> l, conn |-> <<m>>, cur |-> 0]
  BY DEF Init
<1> HIDE DEF l, m
<1>5. pg \in Pg /\ Depth(pg) # 0
  BY <1>1, <1>2, <1>3, <1>4 DEF Pg, Depth
<1>6. frames \in Seq(Frame)
  <2>1. frames = <<>>
    BY DEF Init
  <2> QED
    BY <2>1
<1> QED
  BY <1>5, <1>6 DEF Init, Typed, Bang

LEMMA TypedStep == ProgramAssumption /\ Typed /\ [Next]_vars => Typed'
<1> SUFFICES ASSUME ProgramAssumption, Typed, [Next]_vars PROVE Typed'
  OBVIOUS
<1>1. ASSUME NEW q, LevelsOf(q, pg) PROVE q \in Pg /\ Depth(q) # 0
  BY <1>1, FieldFacts DEF LevelsOf, Typed
<1>2. ASSUME NEW q, NEW name, Grows(q, pg, name) PROVE q \in Pg /\ Depth(q) # 0
  BY <1>2, FieldFacts DEF Grows, Typed
<1>3. ASSUME NEW f \in Frame PROVE Append(frames, f) \in Seq(Frame)
  BY PushFacts DEF Typed
<1>4. CASE EndsBlock
  BY <1>1, <1>4, BlockEnds, TopIs DEF Typed
<1>5. CASE Transaction
  <2>1. seq \in Nat /\ seq + 1 \in Nat /\ txns + 1 \in Nat
    BY DEF Typed
  <2>2. PlName(seq) \in Names /\ NoName \in Names
    BY <2>1, NamesAre
  <2>3. NewFrame(FALSE, PlName(seq)) \in Frame /\ NewFrame(TRUE, NoName) \in Frame
    BY <2>2, NewFrameIs
  <2>4. UNCHANGED <<interrupted, rows, bad>> /\ seq' \in Nat /\ txns' \in Nat
    <3>1. /\ UNCHANGED <<interrupted, rows, bad>>
          /\ seq' = seq \/ seq' = seq + 1 \/ seq' = 0
          /\ txns' = txns \/ txns' = txns + 1
      BY <1>5, TransactionIs
    <3> QED
      BY <2>1, <3>1 DEF Typed
  <2>5. pg' \in Pg /\ Depth(pg') # 0
    BY <1>2, <1>5, TransactionIs DEF Typed
  <2>6. frames' \in Seq(Frame)
    BY <1>3, <1>5, <2>3, TransactionIs DEF Typed
  <2>7. bang' \in Bang
    <3>1. (UNCHANGED bang) \/ Raise("error") \/ Raise("catch")
      BY <1>5, TransactionIs
    <3> QED
      BY <3>1, RaiseIs DEF Typed, Exceptions
  <2> QED
    BY <2>4, <2>5, <2>6, <2>7 DEF Typed
<1>6. CASE Exec
  <2>1. /\ UNCHANGED <<frames, seq, interrupted, txns>> /\ bang' \in Bang
        /\ pg' \in Pg /\ Depth(pg') # 0
    BY <1>6, ExecIs DEF Typed
  <2>2. \/ rows' = rows /\ bad' = bad
        \/ rows' = rows + 1 /\ (bad' = bad \/ bad' = bad \cup {rows + 1})
    BY <1>6, ExecIs
  <2>3. rows' \in Nat /\ bad' \subseteq 1..rows'
    <3>1. /\ rows \in Nat /\ rows + 1 \in Nat /\ bad \subseteq 1..rows
          /\ 1..rows \subseteq 1..(rows + 1) /\ rows + 1 \in 1..(rows + 1)
      BY DEF Typed
    <3> QED
      BY <2>2, <3>1
  <2> QED
    BY <2>1, <2>3 DEF Typed
<1>7. CASE Quiet
  BY <1>7, QuietIs DEF Typed
<1>8. CASE PrepareFails
  <2>1. Depth(pg') = Depth(pg)
    BY <1>8, PrepareIs DEF Depth
  <2> QED
    BY <1>8, <2>1, PrepareIs DEF Typed, UnchangedByBlocks
<1>9. CASE Savepoint \/ ReleaseUser \/ RollbackUser
  <2>1. pg' \in Pg /\ Depth(pg') # 0
    <3>1. \A q, name : Closes(q, pg, name) => LevelsOf(q, pg)
      BY DEF Closes, Shrunk, LevelsOf
    <3> QED
      BY <1>1, <1>2, <1>9, <3>1, SavepointsAre DEF Typed
  <2> QED
    BY <1>9, <2>1, SavepointsAre DEF Typed, UnchangedByBlocks
<1>10. CASE Return
  <2>1. Depth(pg') = Depth(pg)
    BY <1>10, ReturnIs DEF Depth
  <2> QED
    BY <1>10, <2>1, ReturnIs DEF Typed
<1>11. CASE UNCHANGED vars
  BY <1>11 DEF vars, Typed
<1> QED
  BY <1>4, <1>5, <1>6, <1>7, <1>8, <1>9, <1>10, <1>11 DEF Next, EndsBlock, Quiet

-----------------------------------------------------------------------------
(* The names of savepoints, in every program                               *)

NamesOf(q, p) ==
  /\ q \in Pg /\ Depth(q) \in 1..Depth(p)
  /\ \A i \in 1..Depth(q) : q.lvl[i].name = p.lvl[i].name

LEMMA NamesStep ==
  ASSUME ProgramAssumption, Typed, [Next]_vars
  PROVE  \/ NamesOf(pg', pg) /\ seq' = seq
         \/ Grows(pg', pg, PlName(seq)) /\ seq' = seq + 1
         \/ \E n \in Nat : Grows(pg', pg, UserName(n)) /\ seq' = seq
         \/ Depth(pg) = 1 /\ Grows(pg', pg, NoName) /\ seq' = 0
<1>1. pg \in Pg /\ Depth(pg) \in Nat /\ Depth(pg) # 0 /\ NamesOf(pg, pg)
  BY FieldFacts DEF Typed, NamesOf
<1>2. \A q : LevelsOf(q, pg) => NamesOf(q, pg)
  BY DEF LevelsOf, NamesOf
<1>3. \A q, name : Closes(q, pg, name) => NamesOf(q, pg)
  BY DEF Closes, Shrunk, NamesOf
<1>4. \A q \in Pg : q.lvl = pg.lvl => NamesOf(q, pg)
  BY <1>1 DEF NamesOf, Depth
<1>5. CASE EndsBlock
  BY <1>2, <1>5, BlockEnds
<1>6. CASE Transaction
  <2>1. CASE UNCHANGED <<pg, seq>>
    BY <1>1, <2>1
  <2>2. CASE Grows(pg', pg, PlName(seq)) /\ seq' = seq + 1
    BY <2>2
  <2>3. CASE ~IsSubTransaction(pg) /\ Grows(pg', pg, NoName) /\ seq' = 0
    <3>1. Depth(pg) = 1
      BY <1>1, <2>3 DEF IsSubTransaction
    <3> QED
      BY <2>3, <3>1
  <2> QED
    BY <1>6, <2>1, <2>2, <2>3, TransactionIs
<1>7. CASE Exec
  BY <1>1, <1>7, ExecIs DEF NamesOf
<1>8. CASE Quiet
  BY <1>1, <1>8, QuietIs
<1>9. CASE PrepareFails
  BY <1>4, <1>9, PrepareIs DEF UnchangedByBlocks
<1>10. CASE Savepoint \/ ReleaseUser \/ RollbackUser
  BY <1>1, <1>3, <1>10, SavepointsAre DEF UnchangedByBlocks, ProgramAssumption
<1>11. CASE Return
  BY <1>1, <1>4, <1>11, ReturnIs
<1>12. CASE UNCHANGED vars
  BY <1>1, <1>12 DEF vars
<1> QED
  BY <1>5, <1>6, <1>7, <1>8, <1>9, <1>10, <1>11, <1>12 DEF Next, EndsBlock, Quiet

(* pl_in_transaction is behind all the numbers in use.                     *)
NamesInv ==
  /\ Typed
  /\ \A i \in 2..Depth(pg), n \in Nat : pg.lvl[i].name = PlName(n) => n < seq
  /\ \A i, j \in 2..Depth(pg), n \in Nat :
       pg.lvl[i].name = PlName(n) /\ pg.lvl[j].name = PlName(n) => i = j

LEMMA NamesInvStep == ProgramAssumption /\ NamesInv /\ [Next]_vars => NamesInv'
<1> SUFFICES ASSUME ProgramAssumption, NamesInv, [Next]_vars PROVE NamesInv'
  OBVIOUS
<1>1. Typed /\ Typed'
  BY TypedStep DEF NamesInv
<1>2. Depth(pg) \in Nat /\ Depth(pg) # 0 /\ seq \in Nat
  BY <1>1, FieldFacts DEF Typed
<1>3. ASSUME NamesOf(pg', pg), seq' = seq PROVE NamesInv'
  <2>1. \A i \in 2..Depth(pg') :
          i \in 2..Depth(pg) /\ pg'.lvl[i].name = pg.lvl[i].name
    BY <1>2, <1>3 DEF NamesOf
  <2> QED
    BY <1>1, <1>3, <2>1 DEF NamesInv
<1>4. ASSUME NEW name \in Names, Grows(pg', pg, name),
             \A n \in Nat : name = PlName(n) => n < seq' /\ n >= seq,
             seq <= seq' \/ Depth(pg) = 1, seq' \in Nat
      PROVE  NamesInv'
  <2>1. /\ Depth(pg') = Depth(pg) + 1
        /\ \A i \in 2..Depth(pg') : i \in 2..Depth(pg) \/ i = Depth(pg')
        /\ \A i \in 2..Depth(pg) : pg'.lvl[i].name = pg.lvl[i].name
        /\ pg'.lvl[Depth(pg')].name = name
    BY <1>2, <1>4 DEF Grows
  <2>2. \A i \in 2..Depth(pg), n \in Nat :
          pg'.lvl[i].name = PlName(n) => n < seq /\ n < seq'
    BY <1>2, <1>4, <2>1 DEF NamesInv
  <2>3. \A i \in 2..Depth(pg'), n \in Nat :
          pg'.lvl[i].name = PlName(n) => n < seq'
    BY <1>4, <2>1, <2>2
  <2>4. \A i, j \in 2..Depth(pg'), n \in Nat :
          pg'.lvl[i].name = PlName(n) /\ pg'.lvl[j].name = PlName(n) => i = j
    <3> SUFFICES ASSUME NEW i \in 2..Depth(pg'), NEW j \in 2..Depth(pg'),
                        NEW n \in Nat, pg'.lvl[i].name = PlName(n),
                        pg'.lvl[j].name = PlName(n)
                 PROVE  i = j
      OBVIOUS
    <3>1. CASE i \in 2..Depth(pg) /\ j \in 2..Depth(pg)
      BY <2>1, <3>1 DEF NamesInv
    <3>2. CASE i \in 2..Depth(pg) /\ j = Depth(pg')
      BY <1>2, <1>4, <2>1, <2>2, <3>2
    <3>3. CASE i = Depth(pg') /\ j \in 2..Depth(pg)
      BY <1>2, <1>4, <2>1, <2>2, <3>3
    <3> QED
      BY <2>1, <3>1, <3>2, <3>3
  <2> QED
    BY <1>1, <2>3, <2>4 DEF NamesInv
<1>5. CASE Grows(pg', pg, PlName(seq)) /\ seq' = seq + 1
  <2>1. PlName(seq) \in Names /\ \A n \in Nat : PlName(seq) = PlName(n) => n = seq
    BY <1>2, NamesAre
  <2> QED
    BY <1>2, <1>4, <1>5, <2>1
<1>6. ASSUME NEW n \in Nat, Grows(pg', pg, UserName(n)), seq' = seq
      PROVE  NamesInv'
  <2>1. UserName(n) \in Names /\ \A m \in Nat : UserName(n) # PlName(m)
    BY NamesAre
  <2> QED
    BY <1>2, <1>4, <1>6, <2>1
<1>7. CASE Depth(pg) = 1 /\ Grows(pg', pg, NoName) /\ seq' = 0
  <2>1. NoName \in Names /\ \A m \in Nat : NoName # PlName(m)
    BY NamesAre
  <2> QED
    BY <1>4, <1>7, <2>1
<1> QED
  BY <1>1, <1>3, <1>5, <1>6, <1>7, NamesStep

LEMMA NamesInit == BoundsAssumption /\ Init => NamesInv
<1> SUFFICES ASSUME BoundsAssumption, Init PROVE NamesInv
  OBVIOUS
<1>1. Typed
  BY InitTyped
<1>2. Depth(pg) = ClientDepth + 1 /\ ClientDepth \in Nat
  <2> DEFINE l == [i \in 1..(ClientDepth + 1) |->
                     [name |-> IF i = 1 THEN NoName ELSE ClientName, rows |-> {}]]
  <2>1. pg.lvl = l /\ ClientDepth + 1 \in Nat /\ ClientDepth \in Nat
    BY DEF Init, BoundsAssumption
  <2>2. Len(l) = ClientDepth + 1
    BY <2>1
  <2> HIDE DEF l
  <2> QED
    BY <2>1, <2>2 DEF Depth
<1>3. \A i \in 2..Depth(pg) : pg.lvl[i].name = ClientName
  <2> SUFFICES ASSUME NEW i \in 2..Depth(pg)
               PROVE  pg.lvl[i].name = ClientName
    OBVIOUS
  <2>1. i \in 1..(ClientDepth + 1) /\ i # 1
    BY <1>2
  <2> QED
    BY <2>1 DEF Init
<1>4. \A n \in Nat : PlName(n) # ClientName
  BY DEF PlName, ClientName
<1> QED
  BY <1>1, <1>3, <1>4 DEF NamesInv

(* The savepoint names pl_transaction makes are never open twice, in any   *)
(* program, with any number of blocks and savepoints (pl_in_transaction).  *)
THEOREM EachItsOwn == Spec => []OwnSavepoint
<1>1. BoundsAssumption /\ ProgramAssumption
  BY BoundsAssumption, ProgramAssumption
<1>2. Init => NamesInv
  BY <1>1, NamesInit
<1>3. NamesInv /\ [Next]_vars => NamesInv'
  BY <1>1, NamesInvStep
<1>4. NamesInv => OwnSavepoint
  <2> SUFFICES ASSUME NamesInv, NEW n \in 0..MaxTxn,
                      NEW i \in Named(pg, PlName(n)), NEW j \in Named(pg, PlName(n))
               PROVE  i = j
    BY DEF OwnSavepoint
  <2>1. n \in Nat
    BY <1>1 DEF BoundsAssumption
  <2> QED
    BY <2>1 DEF NamesInv, Named
<1> QED
  BY <1>2, <1>3, <1>4, PTL DEF Spec

-----------------------------------------------------------------------------
(* Programs called inside a savepoint of the client                        *)

(* An ERROR left _SPI_curid raised: SPI_finish will fail.                  *)
Over(p) == p.cur >= Len(p.conn)

(* The SPI stack is as the call found it, and no failed row is in it.      *)
Clean(p, failed) == SPI_usable(p) /\ AllRows(p) \cap failed = {}

(* The client's levels are still there, and no block has an SPI connection *)
(* of its own.                                                             *)
Kept(p) ==
  /\ p \in Pg /\ Depth(p) > ClientDepth
  /\ \A i \in 2..(ClientDepth + 1) : p.lvl[i].name = ClientName

OwnNames ==
  \A i \in 1..Len(frames) :
    ~frames[i].begin /\ frames[i].name \notin {NoName, ClientName}

HalfInv ==
  /\ Typed /\ Kept(pg) /\ OwnNames
  /\ outcome = "running" => Clean(pg, bad) \/ Over(pg)
  /\ outcome = "ok" => AllRows(pg) \cap bad = {}

LEMMA ClosesAbove ==
  ASSUME ClientDepth \in Nat, NEW p, Kept(p), NEW q, NEW name, Closes(q, p, name),
         name # ClientName
  PROVE  Kept(q)
<1>1. Depth(p) \in Nat /\ Depth(q) \in Nat /\ q \in Pg /\ Depth(q) \in 1..Depth(p)
  BY FieldFacts DEF Kept, Closes, Shrunk
<1>2. Depth(q) + 1 \notin 2..(ClientDepth + 1)
  BY DEF Kept, Closes
<1>3. Depth(q) > ClientDepth
  BY <1>1, <1>2
<1>4. \A i \in 2..(ClientDepth + 1) : i \in 1..Depth(q)
  BY <1>1, <1>3
<1> QED
  BY <1>1, <1>3, <1>4 DEF Kept, Closes, Shrunk

LEMMA ClosesClean ==
  ASSUME NEW p \in Pg, NEW q, NEW name, Closes(q, p, name), Clean(p, bad) \/ Over(p)
  PROVE  Clean(q, bad) \/ Over(q)
<1>1. /\ q \in Pg /\ AllRows(q) \subseteq AllRows(p) /\ FewerConns(q, p)
  BY DEF Closes, Shrunk
<1>2. /\ Len(p.conn) \in Nat /\ Len(q.conn) \in Nat
      /\ p.cur \in Int /\ q.cur \in Int
  BY <1>1, FieldFacts
<1>3. CASE q.conn = p.conn /\ q.cur = p.cur
  BY <1>1, <1>3 DEF Clean, Over, SPI_usable
<1>4. CASE q.cur = Len(q.conn)
  BY <1>2, <1>4 DEF Over
<1> QED
  BY <1>1, <1>3, <1>4 DEF FewerConns

LEMMA GrowsClean ==
  ASSUME ClientDepth \in Nat, NEW p, Kept(p), NEW q, NEW name, Grows(q, p, name),
         q.conn = p.conn, q.cur = p.cur
  PROVE  Kept(q) /\ (Clean(p, bad) => Clean(q, bad)) /\ (Over(p) => Over(q))
<1>1. Depth(p) \in Nat /\ q \in Pg /\ Depth(q) = Depth(p) + 1
  BY FieldFacts DEF Kept, Grows
<1>2. \A i \in 2..(ClientDepth + 1) : i \in 1..Depth(p)
  BY <1>1 DEF Kept
<1> QED
  BY <1>1, <1>2 DEF Kept, Grows, Clean, Over, SPI_usable

(* The levels of the same names: the client's are there.                   *)
LEMMA KeptSame ==
  ASSUME ClientDepth \in Nat, NEW p, Kept(p), NEW q \in Pg, Depth(q) = Depth(p),
         \A i \in 1..Depth(p) : q.lvl[i].name = p.lvl[i].name
  PROVE  Kept(q)
<1>1. Depth(p) \in Nat
  BY FieldFacts DEF Kept
<1>2. \A i \in 2..(ClientDepth + 1) : i \in 1..Depth(p)
  BY <1>1 DEF Kept
<1> QED
  BY <1>2 DEF Kept

LEMMA HalfInvStep ==
  ASSUME BoundsAssumption, ProgramAssumption, ClientDepth > 0, HalfInv, [Next]_vars
  PROVE  HalfInv'
<1>1. /\ Typed /\ Typed' /\ Kept(pg) /\ OwnNames /\ ClientDepth \in Nat
      /\ pg \in Pg /\ Depth(pg) \in Nat /\ Depth(pg) > 1 /\ bad \subseteq 1..rows
      /\ Len(pg.conn) \in Nat /\ pg.cur \in Int /\ seq \in Nat /\ rows \in Nat
  <2>1. Typed /\ Typed' /\ ClientDepth \in Nat
    BY TypedStep DEF HalfInv, BoundsAssumption
  <2> QED
    BY <2>1, FieldFacts DEF HalfInv, Typed, Kept
<1>2. ASSUME NEW name, name # ClientName,
             pg' = pg \/ Closes(pg', pg, name), OwnNames', outcome = "running",
             outcome' = outcome, bad' = bad
      PROVE  HalfInv'
  <2>1. Kept(pg')
    BY <1>1, <1>2, ClosesAbove
  <2>2. Clean(pg', bad) \/ Over(pg')
    BY <1>1, <1>2, ClosesClean DEF HalfInv
  <2> QED
    BY <1>1, <1>2, <2>1, <2>2 DEF HalfInv, Kept
<1>3. ASSUME NEW name, Grows(pg', pg, name), pg'.conn = pg.conn, pg'.cur = pg.cur,
             OwnNames', outcome = "running", outcome' = outcome, bad' = bad
      PROVE  HalfInv'
  <2>1. Kept(pg') /\ (Clean(pg', bad) \/ Over(pg'))
    BY <1>1, <1>3, GrowsClean DEF HalfInv
  <2> QED
    BY <1>1, <1>3, <2>1 DEF HalfInv, Kept
<1>4. frames' = frames => OwnNames'
  BY <1>1 DEF OwnNames
<1>5. CASE EndsBlock
  <2>1. /\ InBlock /\ outcome = "running" /\ frames' = Outer
        /\ UNCHANGED <<outcome, bad>>
        /\ ~Top.begin /\ Top.name # NoName
             => pg' = pg \/ Closes(pg', pg, Top.name)
    BY <1>1, <1>5, BlockEnds
  <2>2. /\ Len(frames) \in 1..Len(frames) /\ Len(frames) \in Nat
        /\ Len(Outer) = Len(frames) - 1
        /\ \A i \in 1..Len(Outer) : Outer[i] = frames[i]
    BY <1>1, <2>1, TopIs
  <2>3. ~Top.begin /\ Top.name \notin {NoName, ClientName}
    BY <1>1, <2>2 DEF Top, OwnNames
  <2>4. OwnNames'
    BY <1>1, <2>1, <2>2 DEF OwnNames
  <2> QED
    BY <1>2, <2>1, <2>3, <2>4
<1>6. CASE Transaction
  <2>1. /\ outcome = "running" /\ UNCHANGED <<outcome, bad>>
        /\ \/ UNCHANGED <<pg, frames>>
           \/ /\ Grows(pg', pg, PlName(seq))
              /\ pg'.conn = pg.conn /\ pg'.cur = pg.cur
              /\ frames' = Append(frames, NewFrame(FALSE, PlName(seq)))
    BY <1>1, <1>6, TransactionIs DEF IsSubTransaction
  <2>2. CASE UNCHANGED <<pg, frames>>
    <3>1. NoName # ClientName
      BY DEF NoName, ClientName
    <3> QED
      BY <1>2, <1>4, <2>1, <2>2, <3>1
  <2>3. CASE /\ Grows(pg', pg, PlName(seq))
             /\ pg'.conn = pg.conn /\ pg'.cur = pg.cur
             /\ frames' = Append(frames, NewFrame(FALSE, PlName(seq)))
    <3> DEFINE f == NewFrame(FALSE, PlName(seq))
    <3>1. PlName(seq) \in Names /\ PlName(seq) \notin {NoName, ClientName}
      BY <1>1, NamesAre DEF PlName, ClientName
    <3>2. f \in Frame /\ ~f.begin /\ f.name = PlName(seq)
      BY <1>1, <3>1, NewFrameIs DEF NewFrame
    <3>3. frames \in Seq(Frame) /\ frames' = Append(frames, f)
      BY <1>1, <2>3 DEF Typed
    <3> HIDE DEF f
    <3>4. /\ Len(frames') = Len(frames) + 1 /\ Len(frames) \in Nat
          /\ \A i \in 1..Len(frames) : frames'[i] = frames[i]
          /\ frames'[Len(frames) + 1] = f
      BY <3>2, <3>3
    <3>5. OwnNames'
      BY <1>1, <3>1, <3>2, <3>4 DEF OwnNames
    <3> QED
      BY <1>3, <2>1, <2>3, <3>5
  <2> QED
    BY <2>1, <2>2, <2>3
<1>7. CASE Exec
  <2>1. outcome = "running" /\ outcome' = outcome /\ frames' = frames
    BY <1>1, <1>7, ExecIs
  <2>2. CASE UNCHANGED <<pg, bad>>
    BY <1>1, <1>4, <2>1, <2>2 DEF HalfInv
  <2>3. CASE ~UNCHANGED <<pg, bad>>
    <3>1. /\ SPI_usable(pg) /\ pg' \in Pg /\ Depth(pg') = Depth(pg)
          /\ \A i \in 1..Depth(pg) : pg'.lvl[i].name = pg.lvl[i].name
          /\ AllRows(pg') = AllRows(pg) \cup {rows + 1}
          /\ pg'.conn = pg.conn
          /\ \/ pg'.cur = pg.cur /\ bad' = bad
             \/ pg'.cur = pg.cur + 1
      BY <1>1, <1>7, <2>3, ExecIs
    <3>2. Kept(pg')
      BY <1>1, <3>1, KeptSame
    <3>3. rows + 1 \notin bad /\ ~Over(pg)
      BY <1>1, <3>1 DEF SPI_usable, Over
    <3>4. Clean(pg', bad') \/ Over(pg')
      <4>1. CASE pg'.cur = pg.cur /\ bad' = bad
        BY <2>1, <3>1, <3>3, <4>1 DEF HalfInv, Clean, SPI_usable
      <4>2. CASE pg'.cur = pg.cur + 1
        BY <1>1, <3>1, <4>2 DEF SPI_usable, Over
      <4> QED
        BY <3>1, <4>1, <4>2
    <3> QED
      BY <1>1, <1>4, <2>1, <3>2, <3>4 DEF HalfInv
  <2> QED
    BY <2>2, <2>3
<1>8. CASE Quiet
  <2>1. outcome = "running" /\ outcome' # "ok" /\ UNCHANGED <<pg, frames, bad>>
    BY <1>1, <1>8, QuietIs
  <2> QED
    BY <1>1, <1>4, <2>1 DEF HalfInv
<1>9. CASE PrepareFails
  <2>1. /\ outcome = "running" /\ SPI_usable(pg) /\ UNCHANGED <<frames, outcome, bad>>
        /\ pg' \in Pg /\ pg'.lvl = pg.lvl /\ pg'.conn = pg.conn
        /\ pg'.cur = pg.cur + 1
    BY <1>1, <1>9, PrepareIs DEF UnchangedByBlocks
  <2>2. Depth(pg') = Depth(pg)
    BY <2>1 DEF Depth
  <2>3. Kept(pg')
    BY <1>1, <2>1, <2>2, KeptSame
  <2>4. Over(pg')
    BY <1>1, <2>1 DEF SPI_usable, Over
  <2> QED
    BY <1>1, <1>4, <2>1, <2>3, <2>4 DEF HalfInv
<1>10. CASE Savepoint \/ ReleaseUser \/ RollbackUser
  <2>1. /\ outcome = "running" /\ UNCHANGED <<frames, outcome, bad>>
        /\ \E n \in SavepointNames :
              \/ pg' = pg
              \/ Closes(pg', pg, UserName(n))
              \/ /\ Grows(pg', pg, UserName(n))
                 /\ pg'.conn = pg.conn /\ pg'.cur = pg.cur
    BY <1>1, <1>10, SavepointsAre DEF UnchangedByBlocks
  <2>2. \A n : UserName(n) # ClientName
    BY DEF UserName, ClientName
  <2> QED
    BY <1>2, <1>3, <1>4, <2>1, <2>2
<1>11. CASE Return
  <2>1. CASE outcome' = "failed" /\ UNCHANGED <<pg, frames, bad>>
    BY <1>1, <1>4, <2>1 DEF HalfInv
  <2>2. CASE outcome' = "ok"
    <3>1. /\ outcome = "running" /\ UNCHANGED <<frames, bad>> /\ SPI_usable(pg)
          /\ pg' \in Pg /\ pg'.lvl = pg.lvl
      BY <1>1, <1>11, <2>2, ReturnIs
    <3>2. Depth(pg') = Depth(pg) /\ AllRows(pg') = AllRows(pg)
      BY <3>1 DEF Depth, AllRows
    <3>3. Kept(pg')
      BY <1>1, <3>1, <3>2, KeptSame
    <3>4. ~Over(pg)
      BY <1>1, <3>1 DEF SPI_usable, Over
    <3> QED
      BY <1>1, <1>4, <2>2, <3>1, <3>2, <3>3, <3>4 DEF HalfInv, Clean
  <2> QED
    BY <1>1, <1>11, <2>1, <2>2, ReturnIs
<1>12. CASE UNCHANGED vars
  BY <1>1, <1>4, <1>12 DEF vars, HalfInv
<1> QED
  BY <1>5, <1>6, <1>7, <1>8, <1>9, <1>10, <1>11, <1>12 DEF Next, EndsBlock, Quiet

LEMMA HalfInit == BoundsAssumption /\ Init => HalfInv
<1> SUFFICES ASSUME BoundsAssumption, Init PROVE HalfInv
  OBVIOUS
<1>1. Typed
  BY InitTyped
<1>2. OwnNames /\ outcome = "running" /\ SPI_usable(pg) /\ bad = {}
  BY DEF Init, OwnNames, SPI_usable
<1>3. Kept(pg)
  <2> DEFINE l == [i \in 1..(ClientDepth + 1) |->
                     [name |-> IF i = 1 THEN NoName ELSE ClientName, rows |-> {}]]
  <2>1. pg.lvl = l /\ ClientDepth + 1 \in Nat /\ ClientDepth \in Nat
    BY DEF Init, BoundsAssumption
  <2>2. Len(l) = ClientDepth + 1
    BY <2>1
  <2>4. \A i \in 2..(ClientDepth + 1) : i \in 1..(ClientDepth + 1) /\ i # 1
    BY <2>1
  <2>5. \A i \in 2..(ClientDepth + 1) : l[i].name = ClientName
    BY <2>4
  <2> HIDE DEF l
  <2> QED
    BY <1>1, <2>1, <2>2, <2>5 DEF Kept, Depth, Typed
<1> QED
  BY <1>1, <1>2, <1>3 DEF HalfInv, Clean

(* In every program that is called inside a savepoint of the client, no    *)
(* row of a statement that failed half way is kept: an ERROR the program   *)
(* rescues leaves _SPI_curid raised, nothing the program can do brings it  *)
(* back to where SPI_finish succeeds.                                      *)
THEOREM NoHalfInSavepoint ==
  ASSUME ClientDepth > 0
  PROVE  Spec => []NoHalfStatement
<1>1. BoundsAssumption /\ ProgramAssumption
  BY BoundsAssumption, ProgramAssumption
<1>2. Init => HalfInv
  BY <1>1, HalfInit
<1>3. HalfInv /\ [Next]_vars => HalfInv'
  BY <1>1, HalfInvStep
<1>4. HalfInv => NoHalfStatement
  BY DEF HalfInv, NoHalfStatement
<1> QED
  BY <1>2, <1>3, <1>4, PTL DEF Spec

-----------------------------------------------------------------------------
(* Programs that let exceptions leave their blocks and use no savepoint of *)
(* their own                                                               *)

(* One level for each block, over those of the client.  Only the first     *)
(* block, and only without a savepoint of the client, is internal and has  *)
(* an SPI connection.                                                      *)
Levels ==
  /\ Depth(pg) = ClientDepth + 1 + Len(frames)
  /\ \A i \in 1..Len(frames) :
       /\ pg.lvl[ClientDepth + 1 + i].name = frames[i].name
       /\ ~frames[i].commit
       /\ frames[i].begin <=> ClientDepth = 0 /\ i = 1
       /\ frames[i].begin <=> frames[i].name = NoName

OwnConn == ClientDepth = 0 /\ InBlock

Conn == pg.conn = IF OwnConn THEN <<1, 2>> ELSE <<ClientDepth + 1>>

Good == Levels /\ Conn /\ Clean(pg, bad)

(* An ERROR leaves the blocks.                                             *)
Unwinds ==
  /\ Levels /\ Conn /\ OwnConn /\ pg.cur = 2
  /\ ctl = Plain("catch") /\ bang = "catch"

(* SPI_finish will fail, and no block pops the SPI stack.                  *)
Hopeless ==
  /\ Over(pg)
  /\ \A i \in 1..Len(frames) : ~frames[i].begin /\ frames[i].name # NoName

CoreInv ==
  /\ Typed
  /\ outcome = "running" /\ ~interrupted => Good \/ Unwinds \/ Hopeless
  /\ CleanReturn /\ NoHalfStatement

(* What the end of the innermost block leaves, before its SPI_pop.         *)
Lowers(q) ==
  /\ q \in Pg /\ Depth(q) = Depth(pg) - 1
  /\ \A i \in 1..Depth(q) : q.lvl[i].name = pg.lvl[i].name
  /\ AllRows(q) \subseteq AllRows(pg)
  /\ IF Top.begin THEN q.conn = <<1>> /\ q.cur = 1
                  ELSE q.conn = pg.conn /\ q.cur = pg.cur

LEMMA TopLevel ==
  ASSUME ClientDepth \in Nat, Typed, Levels, Conn, InBlock
  PROVE  /\ pg \in Pg /\ Top \in Frame /\ Len(frames) \in Nat \ {0}
         /\ Depth(pg) \in Nat /\ Depth(pg) > 1
         /\ pg.lvl[Depth(pg)].name = Top.name /\ ~Top.commit
         /\ Top.begin \in BOOLEAN
         /\ Top.begin <=> ClientDepth = 0 /\ Len(frames) = 1
         /\ Top.begin <=> Top.name = NoName
         /\ Top.begin => Depth(pg) = 2 /\ pg.conn = <<1, 2>>
         /\ ~Top.begin => Len(pg.conn) > 0 /\ pg.conn[Len(pg.conn)] <= Depth(pg) - 1
<1>1. pg \in Pg /\ Top \in Frame /\ Len(frames) \in Nat \ {0}
  BY TopIs DEF Typed
<1>2. /\ Depth(pg) = ClientDepth + 1 + Len(frames)
      /\ pg.lvl[Depth(pg)].name = Top.name /\ ~Top.commit
      /\ Top.begin \in BOOLEAN
      /\ Top.begin <=> ClientDepth = 0 /\ Len(frames) = 1
      /\ Top.begin <=> Top.name = NoName
  <2>1. Top = frames[Len(frames)] /\ Len(frames) \in 1..Len(frames)
    BY <1>1 DEF Top
  <2>2. /\ pg.lvl[ClientDepth + 1 + Len(frames)].name = Top.name /\ ~Top.commit
        /\ Top.begin <=> ClientDepth = 0 /\ Len(frames) = 1
        /\ Top.begin <=> Top.name = NoName
        /\ Depth(pg) = ClientDepth + 1 + Len(frames)
    BY <2>1 DEF Levels
  <2>3. Top.begin \in BOOLEAN
    BY <1>1 DEF Frame
  <2> QED
    BY <2>2, <2>3
<1>3. pg.conn = IF ClientDepth = 0 THEN <<1, 2>> ELSE <<ClientDepth + 1>>
  BY DEF Conn, OwnConn
<1>4. ~Top.begin => Len(pg.conn) > 0 /\ pg.conn[Len(pg.conn)] <= Depth(pg) - 1
  <2>1. CASE ClientDepth = 0 /\ ~Top.begin
    <3>1. Len(frames) # 1 /\ pg.conn = <<1, 2>>
      BY <1>2, <1>3, <2>1, Zenon
    <3>2. Len(pg.conn) = 2 /\ pg.conn[2] = 2
      BY <3>1
    <3>3. Depth(pg) = ClientDepth + 1 + Len(frames) /\ ClientDepth = 0
      BY <1>2, <2>1, Zenon
    <3>4. 2 <= Depth(pg) - 1
      <4>1. Len(frames) \in Nat \ {0} /\ Len(frames) # 1
        BY <1>1, <3>1, Zenon
      <4>4. \A n \in Nat \ {0} : n # 1 => n >= 2
        OBVIOUS
      <4>2. Len(frames) >= 2
        BY <4>1, <4>4
      <4>3. Depth(pg) = 1 + Len(frames)
        BY <3>3, <4>1
      <4> QED
        BY <4>1, <4>2, <4>3
    <3> QED
      BY <3>2, <3>4
  <2>2. CASE ClientDepth # 0
    <3>1. pg.conn = <<ClientDepth + 1>>
      BY <1>3, <2>2
    <3> QED
      BY <1>1, <1>2, <3>1
  <2> QED
    BY <2>1, <2>2
<1>5. Depth(pg) \in Nat /\ Depth(pg) > 1
  BY <1>1, <1>2
<1>6. Top.begin => Depth(pg) = 2 /\ pg.conn = <<1, 2>>
  <2> SUFFICES ASSUME Top.begin
               PROVE  Depth(pg) = 2 /\ pg.conn = <<1, 2>>
    OBVIOUS
  <2>1. ClientDepth = 0 /\ Len(frames) = 1 /\ Depth(pg) = ClientDepth + 1 + Len(frames)
    BY <1>2, Zenon
  <2>2. Depth(pg) = 2
    BY <2>1
  <2> QED
    BY <1>3, <2>1, <2>2, Zenon
<1> QED
  BY <1>1, <1>2, <1>4, <1>5, <1>6, Zenon

(* pl_intern_commit and pl_intern_abort end the block's own level.         *)
LEMMA HelperEnds ==
  ASSUME ClientDepth \in Nat, Typed, Levels, Conn, InBlock, ~interrupted,
         Top.begin => pg.cur = 1,
         NEW r \in {InternCommit(pg, Top), InternAbort(pg, Top)}
  PROVE  /\ r.exc = "no" /\ r.fr \in Frame /\ r.fr.commit
         /\ r.fr.begin = Top.begin /\ Lowers(r.pg)
<1>1. /\ pg \in Pg /\ Top \in Frame /\ Len(frames) \in Nat \ {0}
      /\ Depth(pg) \in Nat /\ Depth(pg) > 1
      /\ pg.lvl[Depth(pg)].name = Top.name /\ ~Top.commit
      /\ Top.begin <=> Top.name = NoName
      /\ Top.begin => Depth(pg) = 2 /\ pg.conn = <<1, 2>>
      /\ ~Top.begin => Len(pg.conn) > 0 /\ pg.conn[Len(pg.conn)] <= Depth(pg) - 1
  BY TopLevel
<1>2. CASE ~Top.begin
  <2> DEFINE i == Innermost(pg, Top.name)
  <2>1. Depth(pg) \in Named(pg, Top.name) /\ Top.name \in Names
    BY <1>1 DEF Named, Frame
  <2>2. i = Depth(pg)
    BY <1>1, <2>1, InnermostIs
  <2> HIDE DEF i
  <2>3. ASSUME NEW q, Closes(q, pg, Top.name), Depth(q) = i - 1,
               (Len(pg.conn) > 0 => pg.conn[Len(pg.conn)] <= i - 1)
                  => q.conn = pg.conn /\ q.cur = pg.cur
        PROVE  Lowers(q)
    BY <1>1, <1>2, <2>2, <2>3 DEF Lowers, Closes, Shrunk
  <2>4. /\ Lowers(ReleaseSavepoint(pg, Top.name))
        /\ Lowers(RolledBack(pg, Top.name))
    BY <1>1, <2>1, <2>3, ReleasedIs, RolledBackIs DEF i
  <2>5. \/ r = Result(ReleaseSavepoint(pg, Top.name), Unnamed(Top), "no")
        \/ r = Result(RolledBack(pg, Top.name), Unnamed(Top), "no")
    BY <1>1, <1>2, <2>1 DEF InternCommit, InternAbort, EndNamed, RolledBack,
       IsSubTransaction
  <2> QED
    BY <1>1, <2>4, <2>5, FrameIs DEF Result
<1>3. CASE Top.begin
  <2> DEFINE q == SPI_finish(pg)
  <2>1. /\ q \in Pg /\ q.lvl = pg.lvl /\ q.cur = 1 /\ q.conn = <<1>>
        /\ Depth(q) = 2 /\ AllRows(q) = AllRows(pg)
    <3>1. q \in Pg /\ q.lvl = pg.lvl /\ q.cur = pg.cur
          /\ q.conn = SubSeq(pg.conn, 1, Len(pg.conn) - 1)
      BY <1>1, FinishIs
    <3>2. SubSeq(pg.conn, 1, Len(pg.conn) - 1) = <<1>>
      <4> DEFINE s == <<1, 2>>
      <4>1. s \in Seq(Nat) /\ Len(s) = 2 /\ s[1] = 1 /\ 1 \in 0..2
        OBVIOUS
      <4>2. pg.conn = s /\ Len(pg.conn) - 1 = 1
        <5>1. pg.conn = s
          BY <1>1, <1>3, Zenon
        <5> QED
          BY <4>1, <5>1
      <4> HIDE DEF s
      <4> DEFINE t == SubSeq(s, 1, 1)
      <4>3. t \in Seq(Nat) /\ Len(t) = 1 /\ t[1] = 1
        BY <4>1, PrefixFacts
      <4> HIDE DEF t
      <4>4. t = <<1>>
        BY <4>3
      <4> QED
        BY <4>2, <4>4 DEF t
    <3>3. Depth(q) = 2 /\ AllRows(q) = AllRows(pg)
      BY <1>1, <1>3, <3>1 DEF Depth, AllRows
    <3> QED
      BY <1>3, <3>1, <3>2, <3>3
  <2> HIDE DEF q
  <2>2. ASSUME NEW u, Shrunk(u, q), Depth(u) = 1, PoppedAbove(u, q, 1)
        PROVE  Lowers(u)
    <3>1. u.conn = <<1>> /\ u.cur = 1
      BY <2>1, <2>2 DEF PoppedAbove
    <3> QED
      BY <1>1, <1>3, <2>1, <2>2, <3>1 DEF Lowers, Shrunk
  <2>3. Lowers(ReleaseFrom(q, Depth(q))) /\ Lowers(AbortFrom(q, Depth(q)))
    BY <2>1, <2>2, ReleaseIs, AbortIs
  <2>4. Len(pg.conn) = 2
    BY <1>1, <1>3
  <2>5. \/ r = Result(ReleaseFrom(q, Depth(q)), Committed(Top), "no")
        \/ r = Result(AbortFrom(q, Depth(q)), Committed(Top), "no")
    BY <1>1, <1>3, <2>4 DEF InternCommit, InternAbort, EndInternal, SPI_usable,
       IsSubTransaction, ReleaseCurrentSubTransaction,
       RollbackAndReleaseCurrentSubTransaction, q
  <2> QED
    BY <1>1, <2>3, <2>5, FrameIs DEF Result
<1> QED
  BY <1>2, <1>3

(* The blocks that are left, after the SPI_pop.                            *)
LEMMA Lowered ==
  ASSUME ClientDepth \in Nat, Typed, Levels, Conn, InBlock, frames' = Outer,
         NEW q, Lowers(q), NEW f \in Frame, f.begin = Top.begin,
         pg' = PopOwn(q, f)
  PROVE  /\ Levels' /\ Conn' /\ AllRows(pg') \subseteq AllRows(pg)
         /\ pg'.cur = IF Top.begin THEN 0 ELSE pg.cur
         /\ Top.begin => ~InBlock'
         /\ ~Top.begin => (OwnConn' <=> OwnConn)
<1>1. /\ pg \in Pg /\ Top \in Frame /\ Len(frames) \in Nat \ {0}
      /\ Depth(pg) \in Nat /\ Depth(pg) > 1 /\ Top.begin \in BOOLEAN
      /\ Top.begin <=> ClientDepth = 0 /\ Len(frames) = 1
      /\ Top.begin => Depth(pg) = 2 /\ pg.conn = <<1, 2>>
  BY TopLevel
<1>2. /\ pg' \in Pg /\ pg'.lvl = q.lvl /\ pg'.conn = q.conn
      /\ pg'.cur = IF f.begin THEN q.cur - 1 ELSE q.cur
      /\ q \in Pg
  BY PopIs DEF Lowers
<1>3. Depth(pg') = Depth(pg) - 1 /\ AllRows(pg') \subseteq AllRows(pg)
  BY <1>2 DEF Lowers, Depth, AllRows
<1>4. /\ Len(frames') = Len(frames) - 1 /\ frames' \in Seq(Frame)
      /\ \A i \in 1..Len(frames') : frames'[i] = frames[i] /\ i \in 1..Len(frames)
  BY <1>1, TopIs
<1>5. Depth(pg) = ClientDepth + 1 + Len(frames)
  BY DEF Levels
<1>6. Levels'
  <2>1. \A i \in 1..Len(frames') :
          pg'.lvl[ClientDepth + 1 + i].name = pg.lvl[ClientDepth + 1 + i].name
    <3> SUFFICES ASSUME NEW i \in 1..Len(frames')
                 PROVE  pg'.lvl[ClientDepth + 1 + i].name
                          = pg.lvl[ClientDepth + 1 + i].name
      OBVIOUS
    <3>1. ClientDepth + 1 + i \in 1..Depth(q)
      BY <1>1, <1>4, <1>5 DEF Lowers
    <3> QED
      BY <1>2, <3>1 DEF Lowers
  <2> QED
    BY <1>1, <1>3, <1>4, <1>5, <2>1 DEF Levels
<1>7. InBlock' <=> Len(frames) > 1
  BY <1>1, <1>4 DEF InBlock
<1>8. CASE Top.begin
  <2>1. q.conn = <<1>> /\ q.cur = 1
    BY <1>8 DEF Lowers
  <2>3. ClientDepth = 0 /\ ~InBlock'
    <3>1. ClientDepth = 0 /\ Len(frames) = 1
      BY <1>1, <1>8, Zenon
    <3> QED
      BY <1>7, <3>1
  <2>2. Conn'
    BY <1>2, <2>1, <2>3 DEF Conn, OwnConn
  <2> QED
    BY <1>2, <1>3, <1>6, <1>8, <2>1, <2>2, <2>3
<1>9. CASE ~Top.begin
  <2>1. q.conn = pg.conn /\ q.cur = pg.cur
    BY <1>9 DEF Lowers
  <2>2. OwnConn' <=> OwnConn
    <3>1. ClientDepth = 0 => Len(frames) # 1
      BY <1>1, <1>9, Zenon
    <3>4. Len(frames) \in Nat \ {0}
      BY TopIs
    <3>2. ClientDepth = 0 => Len(frames) > 1
      BY <3>1, <3>4
    <3>3. InBlock
      OBVIOUS
    <3> QED
      BY <1>7, <3>2, <3>3 DEF OwnConn
  <2>3. Conn'
    BY <1>2, <2>1, <2>2 DEF Conn
  <2> QED
    BY <1>2, <1>3, <1>6, <1>9, <2>1, <2>2, <2>3
<1> QED
  BY <1>8, <1>9

(* The block ended normally, or something goes on out of it after its      *)
(* transaction was ended.                                                  *)
LEMMA GoodAgain ==
  ASSUME ClientDepth \in Nat, Typed, Good, InBlock, ~interrupted, bad' = bad,
         frames' = Outer,
         NEW r \in {InternCommit(pg, Top), InternAbort(pg, Top)},
         NEW f \in Frame, f.begin = Top.begin, pg' = PopOwn(r.pg, f)
  PROVE  Good'
<1>1. Levels /\ Conn /\ SPI_usable(pg) /\ AllRows(pg) \cap bad = {}
  BY DEF Good, Clean
<1>2. Top.begin => pg.cur = 1
  <2>1. Top.begin => pg.conn = <<1, 2>>
    BY <1>1, TopLevel
  <2>2. pg.cur \in Int /\ Len(<<1, 2>>) = 2
    BY FieldFacts DEF Typed
  <2>3. pg.conn = <<1, 2>> => pg.cur + 1 = 2
    BY <1>1, <2>2 DEF SPI_usable
  <2> QED
    BY <2>1, <2>2, <2>3
<1>3. Lowers(r.pg)
  BY <1>1, <1>2, HelperEnds
<1>4. /\ Levels' /\ Conn' /\ AllRows(pg') \subseteq AllRows(pg)
      /\ pg'.cur = IF Top.begin THEN 0 ELSE pg.cur
      /\ Top.begin => ~InBlock'
      /\ ~Top.begin => (OwnConn' <=> OwnConn)
  BY <1>1, <1>3, Lowered
<1>5. SPI_usable(pg')
  <2>1. CASE Top.begin
    <3>1. Len(pg'.conn) = 1
      BY <1>4, <2>1 DEF Conn, OwnConn
    <3> QED
      BY <1>4, <2>1, <3>1 DEF SPI_usable
  <2>2. CASE ~Top.begin
    <3>1. pg'.conn = pg.conn
      BY <1>1, <1>4, <2>2 DEF Conn
    <3> QED
      BY <1>1, <1>4, <2>2, <3>1 DEF SPI_usable
  <2> QED
    BY <2>1, <2>2
<1> QED
  BY <1>1, <1>4, <1>5 DEF Good, Clean

(* A block with an SPI connection of its own that an ERROR leaves: the     *)
(* connection is popped, and _SPI_curid stays raised.                      *)
LEMMA OwnConnLost ==
  ASSUME ClientDepth \in Nat, Typed, Levels, Conn, InBlock, Top.begin,
         ~interrupted, frames' = Outer, pg' = InternError(pg, Top).pg
  PROVE  Hopeless'
<1>1. /\ pg \in Pg /\ Depth(pg) = 2 /\ pg.conn = <<1, 2>>
      /\ ClientDepth = 0 /\ Len(frames) = 1
  BY TopLevel
<1>2. pg' = AbortFrom(pg, 2)
  BY <1>1 DEF InternError, Result, IsSubTransaction,
     RollbackAndReleaseCurrentSubTransaction
<1>3. pg' \in Pg /\ PoppedAbove(pg', pg, 1)
  <2>1. 2 \in 2..Depth(pg) /\ 2 - 1 = 1
    BY <1>1
  <2> QED
    BY <1>1, <1>2, <2>1, AbortIs DEF Shrunk
<1>4. Len(pg.conn) = 2 /\ pg.conn[2] = 2 /\ pg.conn[1] = 1 /\ pg.conn \in Seq(Nat)
  BY <1>1
<1>5. pg'.conn = SubSeq(pg.conn, 1, 1) /\ pg'.cur = 1
  BY <1>3, <1>4 DEF PoppedAbove
<1>6. Len(pg'.conn) = 1
  BY <1>4, <1>5
<1>7. Len(frames') = 0
  BY <1>1, TopIs
<1> QED
  BY <1>5, <1>6, <1>7 DEF Hopeless, Over

(* The innermost block ends, from each of the three.                       *)
LEMMA GoodEnds ==
  ASSUME ClientDepth \in Nat, Typed, Good, EndsBlock, ~interrupted
  PROVE  Good' \/ Hopeless'
<1>1. /\ InBlock /\ frames' = Outer /\ bad' = bad
      /\ Levels /\ Conn
  BY BlockEnds DEF Good
<1>2. /\ Top \in Frame /\ ~Top.commit /\ Top.begin \in BOOLEAN
      /\ Top.begin <=> ClientDepth = 0 /\ Len(frames) = 1
  BY <1>1, TopLevel
<1> DEFINE R == {InternCommit(pg, Top), InternAbort(pg, Top)}
<1>3. \A r \in R : /\ r.exc = "no" /\ r.fr \in Frame /\ r.fr.commit
                   /\ r.fr.begin = Top.begin
  <2>1. Top.begin => pg.cur = 1
    <3>1. Top.begin => pg.conn = <<1, 2>>
      BY <1>1, TopLevel
    <3>2. pg.cur \in Int /\ Len(<<1, 2>>) = 2
      BY FieldFacts DEF Typed
    <3>3. pg.conn = <<1, 2>> => pg.cur + 1 = 2
      BY <3>2 DEF SPI_usable, Good, Clean
    <3> QED
      BY <3>1, <3>2, <3>3
  <2> QED
    BY <1>1, <2>1, HelperEnds
<1>4. ASSUME NEW r \in R, NEW f \in Frame, f.begin = Top.begin,
             pg' = PopOwn(r.pg, f)
      PROVE  Good'
  BY <1>1, <1>4, GoodAgain
<1>5. \A r \in R : Finish(r.pg, r.fr) => Good'
  <2> SUFFICES ASSUME NEW r \in R, Finish(r.pg, r.fr) PROVE Good'
    OBVIOUS
  <2>1. pg' = PopOwn(r.pg, r.fr)
    BY <1>3 DEF Finish, Result
  <2> HIDE DEF R
  <2> QED
    BY <1>3, <1>4, <2>1
<1>6. ASSUME NEW r \in R, NEW c, NEW b, Leave(r.pg, r.fr, c, b),
             ~(r.fr.begin /\ b = "catch")
      PROVE  Good'
  <2>1. pg' = PopOwn(r.pg, r.fr)
    BY <1>3, <1>6 DEF Leave, Result
  <2> HIDE DEF R
  <2> QED
    BY <1>3, <1>4, <2>1
<1>7. CASE EndBlock
  <2> DEFINE r == InternCommit(pg, Top)
  <2>1. IF r.exc = "no" THEN Finish(r.pg, r.fr)
                        ELSE Leave(r.pg, r.fr, Plain(r.exc), r.exc)
    BY <1>7 DEF EndBlock
  <2>2. r \in R
    OBVIOUS
  <2> HIDE DEF r, R
  <2> QED
    BY <1>3, <1>5, <2>1, <2>2
<1>8. CASE CatchThrow
  <2> DEFINE r == IF ctl.commit THEN InternCommit(pg, Top) ELSE InternAbort(pg, Top)
  <2>1. \/ r.exc # "no"
        \/ Finish(r.pg, r.fr)
        \/ Leave(r.pg, r.fr, Plain("error"), "error")
        \/ Leave(r.pg, r.fr, ctl, bang) /\ Len(frames) # 1
    BY <1>8 DEF CatchThrow
  <2>2. r \in R
    OBVIOUS
  <2> HIDE DEF r, R
  <2>3. r.exc = "no" /\ r.fr.begin = Top.begin
    BY <1>3, <2>2
  <2>4. Len(frames) # 1 => ~Top.begin
    BY <1>2, Zenon
  <2> QED
    BY <1>5, <1>6, <2>1, <2>2, <2>3, <2>4
<1>9. CASE LeaveBlock
  <2>1. Leave(pg, Top, ctl, bang)
    BY <1>9 DEF LeaveBlock
  <2>2. CASE Top.begin /\ bang = "catch"
    <3>1. pg' = InternError(pg, Top).pg
      BY <1>2, <2>1, <2>2 DEF Leave
    <3> QED
      BY <1>1, <2>2, <3>1, OwnConnLost
  <2>3. CASE ~(Top.begin /\ bang = "catch")
    <3>1. pg' = PopOwn(InternAbort(pg, Top).pg, Top)
      BY <1>2, <2>1, <2>3 DEF Leave
    <3> QED
      BY <1>2, <1>4, <3>1
  <2> QED
    BY <2>2, <2>3
<1> QED
  BY <1>7, <1>8, <1>9 DEF EndsBlock

LEMMA UnwindsEnds ==
  ASSUME ClientDepth \in Nat, Typed, Unwinds, EndsBlock, ~interrupted
  PROVE  Unwinds' \/ Hopeless'
<1>1. /\ InBlock /\ frames' = Outer
      /\ Levels /\ Conn /\ OwnConn /\ pg.cur = 2
      /\ ctl = Plain("catch") /\ bang = "catch"
  BY BlockEnds DEF Unwinds
<1>2. Top \in Frame /\ ~Top.commit /\ Top.begin \in BOOLEAN
  BY <1>1, TopLevel
<1>3. LeaveBlock /\ Leave(pg, Top, ctl, bang)
  <2>1. ~EndBlock /\ ~CatchThrow
    BY <1>1 DEF EndBlock, CatchThrow, CanRun, Running, Plain
  <2> QED
    BY <2>1 DEF EndsBlock, LeaveBlock
<1>4. CASE Top.begin
  <2>1. pg' = InternError(pg, Top).pg
    BY <1>1, <1>2, <1>3, <1>4 DEF Leave
  <2> QED
    BY <1>1, <1>4, <2>1, OwnConnLost
<1>5. CASE ~Top.begin
  <2> DEFINE r == InternAbort(pg, Top)
  <2>1. r.exc = "no" /\ Lowers(r.pg)
    BY <1>1, <1>5, HelperEnds
  <2>2. pg' = PopOwn(r.pg, Top) /\ bang' = bang /\ ctl' = ctl
    BY <1>1, <1>2, <1>3, <1>5, <2>1 DEF Leave, Plain
  <2> HIDE DEF r
  <2>3. Levels' /\ Conn' /\ pg'.cur = pg.cur /\ OwnConn'
    BY <1>1, <1>2, <1>5, <2>1, <2>2, Lowered
  <2> QED
    BY <1>1, <2>2, <2>3 DEF Unwinds
<1> QED
  BY <1>2, <1>4, <1>5

LEMMA HopelessEnds ==
  ASSUME Typed, Hopeless, EndsBlock
  PROVE  Hopeless'
<1>1. /\ InBlock /\ frames' = Outer
      /\ ~Top.begin /\ Top.name # NoName
           => pg' = pg \/ Closes(pg', pg, Top.name)
  BY BlockEnds
<1>2. /\ Len(frames) \in 1..Len(frames) /\ Len(frames) \in Nat
      /\ Len(Outer) = Len(frames) - 1
      /\ \A i \in 1..Len(Outer) : Outer[i] = frames[i]
  BY <1>1, TopIs
<1>3. ~Top.begin /\ Top.name # NoName
  BY <1>2 DEF Top, Hopeless
<1>4. Over(pg')
  <2>1. CASE pg' = pg
    BY <2>1 DEF Hopeless
  <2>2. CASE FewerConns(pg', pg) /\ pg' \in Pg
    <3>1. Len(pg'.conn) \in Nat
      BY <2>2, FieldFacts
    <3> QED
      BY <2>2, <3>1 DEF FewerConns, Hopeless, Over
  <2> QED
    BY <1>1, <1>3, <2>1, <2>2 DEF Closes, Shrunk
<1> QED
  BY <1>1, <1>2, <1>4 DEF Hopeless

(* A block is entered.                                                     *)
LEMMA LevelsGrow ==
  ASSUME ClientDepth \in Nat, Typed, Levels, NEW begin \in BOOLEAN,
         NEW name \in Names, begin <=> name = NoName,
         begin <=> ClientDepth = 0 /\ ~InBlock,
         Grows(pg', pg, name), frames' = Append(frames, NewFrame(begin, name))
  PROVE  Levels' /\ InBlock'
<1> DEFINE f == NewFrame(begin, name)
           n == Len(frames)
<1>1. f \in Frame /\ f.begin = begin /\ f.name = name /\ ~f.commit
  BY NewFrameIs DEF NewFrame
<1>2. frames \in Seq(Frame) /\ n \in Nat /\ frames' = Append(frames, f)
  BY DEF Typed
<1> HIDE DEF f
<1>3. /\ Len(frames') = n + 1 /\ frames'[n + 1] = f
      /\ \A i \in 1..n : frames'[i] = frames[i]
  BY <1>1, <1>2
<1>4. InBlock <=> n # 0
  <2>1. frames = <<>> <=> n = 0
    BY <1>2
  <2> QED
    BY <2>1 DEF InBlock
<1>5. InBlock'
  BY <1>2, <1>3 DEF InBlock
<1>6. Depth(pg) = ClientDepth + 1 + n /\ Depth(pg') = Depth(pg) + 1
  BY DEF Levels, Grows
<1>7. \A i \in 1..n :
        pg'.lvl[ClientDepth + 1 + i].name = pg.lvl[ClientDepth + 1 + i].name
  <2>1. \A i \in 1..n : ClientDepth + 1 + i \in 1..Depth(pg)
    BY <1>2, <1>6
  <2>2. \A k \in 1..Depth(pg) : pg'.lvl[k].name = pg.lvl[k].name
    BY DEF Grows
  <2> QED
    BY <2>1, <2>2
<1>8. pg'.lvl[ClientDepth + 1 + (n + 1)].name = name
  <2>1. ClientDepth + 1 + (n + 1) = Depth(pg')
    BY <1>2, <1>6
  <2> QED
    BY <2>1 DEF Grows
<1>9. \A i \in 1..n :
        /\ pg'.lvl[ClientDepth + 1 + i].name = frames'[i].name
        /\ ~frames'[i].commit
        /\ frames'[i].begin <=> ClientDepth = 0 /\ i = 1
        /\ frames'[i].begin <=> frames'[i].name = NoName
  BY <1>3, <1>7 DEF Levels
<1>10. (ClientDepth = 0 /\ ~InBlock) <=> (ClientDepth = 0 /\ n + 1 = 1)
  BY <1>2, <1>4
<1>11. /\ pg'.lvl[ClientDepth + 1 + (n + 1)].name = frames'[n + 1].name
       /\ ~frames'[n + 1].commit
       /\ frames'[n + 1].begin <=> ClientDepth = 0 /\ n + 1 = 1
       /\ frames'[n + 1].begin <=> frames'[n + 1].name = NoName
  BY <1>1, <1>3, <1>8, <1>10, Zenon
<1>12. \A i \in 1..Len(frames') : i \in 1..n \/ i = n + 1
  BY <1>2, <1>3
<1>13. Depth(pg') = ClientDepth + 1 + Len(frames')
  BY <1>2, <1>3, <1>6
<1> QED
  BY <1>5, <1>9, <1>11, <1>12, <1>13, Zenon DEF Levels

LEMMA PairIs ==
  ASSUME NEW a, NEW b
  PROVE  Append(<<a>>, b) = <<a, b>>
<1> DEFINE P == {a, b}
           s == <<a>>
<1>1. s \in Seq(P) /\ b \in P
  OBVIOUS
<1>2. Len(s) = 1 /\ s[1] = a
  OBVIOUS
<1> HIDE DEF s, P
<1> DEFINE t == Append(s, b)
<1>3. /\ t \in Seq(P) /\ Len(t) = Len(s) + 1
      /\ \A i \in 1..Len(s) : t[i] = s[i]
      /\ t[Len(s) + 1] = b
  BY <1>1, PushFacts
<1> HIDE DEF t
<1>4. Len(t) = 2 /\ t[1] = a /\ t[2] = b
  BY <1>2, <1>3
<1>5. t \in Seq(P) /\ Len(t) = 2 /\ t[1] = a /\ t[2] = b
  BY <1>3, <1>4
<1>6. t = <<t[1], t[2]>>
  BY <1>5
<1>7. t = <<a, b>>
  BY <1>5, <1>6, Zenon
<1> QED
  BY <1>7 DEF s, t

LEMMA CoreTransaction ==
  ASSUME ClientDepth \in Nat, Typed, Good \/ Hopeless, Transaction, ~interrupted
  PROVE  Good' \/ Hopeless'
<1>1. pg \in Pg /\ Depth(pg) \in Nat /\ seq \in Nat /\ frames \in Seq(Frame)
      /\ Depth(pg) # 0 /\ Len(pg.conn) \in Nat /\ pg.cur \in Int
      /\ Len(frames) \in Nat /\ bad' = bad
  <2>1. pg \in Pg /\ Depth(pg) # 0 /\ seq \in Nat /\ frames \in Seq(Frame)
    BY DEF Typed
  <2>2. Depth(pg) \in Nat /\ Len(pg.conn) \in Nat /\ pg.cur \in Int
    BY <2>1, FieldFacts
  <2>3. Len(frames) \in Nat
    BY <2>1
  <2>4. bad' = bad
    BY TransactionIs
  <2> QED
    BY <2>1, <2>2, <2>3, <2>4
<1>2. PlName(seq) \in Names /\ NoName \in Names /\ PlName(seq) # NoName
  BY <1>1, NamesAre
<1>3. InBlock <=> Len(frames) # 0
  <2>1. frames = <<>> <=> Len(frames) = 0
    BY <1>1
  <2> QED
    BY <2>1 DEF InBlock
<1>4. CASE /\ IsSubTransaction(pg) /\ Grows(pg', pg, PlName(seq))
           /\ pg'.conn = pg.conn /\ pg'.cur = pg.cur
           /\ frames' = Append(frames, NewFrame(FALSE, PlName(seq)))
  <2>1. CASE Good
    <3>1. Levels /\ Conn /\ Clean(pg, bad)
      BY <2>1 DEF Good
    <3>2. ~(ClientDepth = 0 /\ ~InBlock)
      BY <1>1, <1>3, <1>4, <3>1 DEF Levels, IsSubTransaction
    <3>3. Levels' /\ InBlock'
      BY <1>2, <1>4, <3>1, <3>2, LevelsGrow
    <3>4. Conn'
      BY <1>4, <3>1, <3>2, <3>3 DEF Conn, OwnConn
    <3>5. Clean(pg', bad)
      BY <1>4, <3>1 DEF Clean, SPI_usable, Grows
    <3> QED
      BY <1>1, <3>3, <3>4, <3>5 DEF Good
  <2>2. CASE Hopeless
    <3> DEFINE f == NewFrame(FALSE, PlName(seq))
    <3>1. f \in Frame /\ ~f.begin /\ f.name # NoName
      BY <1>2, NewFrameIs DEF NewFrame
    <3> HIDE DEF f
    <3>2. /\ Len(frames') = Len(frames) + 1 /\ frames'[Len(frames) + 1] = f
          /\ \A i \in 1..Len(frames) : frames'[i] = frames[i]
      <4>1. frames \in Seq(Frame) /\ frames' = Append(frames, f)
        BY <1>1, <1>4 DEF f
      <4> QED
        BY <3>1, <4>1
    <3>3. Over(pg')
      BY <1>4, <2>2 DEF Hopeless, Over
    <3> QED
      BY <1>1, <2>2, <3>1, <3>2, <3>3 DEF Hopeless
  <2> QED
    BY <2>1, <2>2
<1>5. CASE /\ ~IsSubTransaction(pg) /\ Grows(pg', pg, NoName)
           /\ pg'.cur = pg.cur + 1 /\ pg.cur + 1 = Len(pg.conn)
           /\ pg'.conn = Append(pg.conn, Depth(pg) + 1)
           /\ frames' = Append(frames, NewFrame(TRUE, NoName))
  <2>1. Levels /\ Conn /\ AllRows(pg) \cap bad = {}
    BY <1>1, <1>5 DEF Good, Hopeless, Clean, Over
  <2>2. ClientDepth = 0 /\ Len(frames) = 0 /\ Depth(pg) = 1
    BY <1>1, <1>5, <2>1 DEF Levels, IsSubTransaction
  <2>3. Levels' /\ InBlock'
    BY <1>2, <1>3, <1>5, <2>1, <2>2, LevelsGrow
  <2>4. pg.conn = <<1>>
    BY <1>3, <2>1, <2>2 DEF Conn, OwnConn
  <2>5. pg'.conn = <<1, 2>> /\ pg'.cur = 1
    <3>1. Depth(pg) + 1 = 2 /\ Len(pg.conn) = 1
      BY <2>2, <2>4
    <3>2. pg'.cur = 1
      BY <1>5, <3>1
    <3>3. pg'.conn = Append(<<1>>, 2)
      BY <1>5, <2>4, <3>1
    <3>4. Append(<<1>>, 2) = <<1, 2>>
      BY PairIs
    <3> QED
      BY <3>2, <3>3, <3>4
  <2>6. Conn'
    BY <2>2, <2>3, <2>5 DEF Conn, OwnConn
  <2>7. Clean(pg', bad)
    BY <1>5, <2>1, <2>5 DEF Clean, SPI_usable, Grows
  <2> QED
    BY <1>1, <2>3, <2>6, <2>7 DEF Good
<1>6. CASE /\ pg.cur + 1 # Len(pg.conn) /\ pg'.cur = pg.cur + 1
           /\ pg'.conn = pg.conn /\ frames' = frames
  <2>1. Hopeless
    BY <1>6 DEF Good, Clean, SPI_usable
  <2> QED
    BY <1>1, <1>6, <2>1 DEF Hopeless, Over
<1> QED
  BY <1>4, <1>5, <1>6, TransactionIs

LEMMA CoreExec ==
  ASSUME ClientDepth \in Nat, Typed, Good \/ Hopeless, Exec, ~interrupted
  PROVE  Good' \/ Unwinds' \/ Hopeless'
<1>1. pg \in Pg /\ Len(pg.conn) \in Nat /\ pg.cur \in Int /\ frames' = frames
      /\ bad \subseteq 1..rows /\ rows \in Nat
      /\ Depth(pg) = Len(pg.lvl) /\ Len(pg.lvl) \in Nat
  BY FieldFacts, ExecIs DEF Typed
<1>2. CASE UNCHANGED <<pg, bad>>
  BY <1>1, <1>2 DEF Good, Hopeless, Levels, Conn, OwnConn, InBlock
<1>3. CASE ~UNCHANGED <<pg, bad>>
  <2>1. /\ SPI_usable(pg) /\ pg' \in Pg /\ Depth(pg') = Depth(pg)
        /\ \A i \in 1..Depth(pg) : pg'.lvl[i].name = pg.lvl[i].name
        /\ AllRows(pg') = AllRows(pg) \cup {rows + 1}
        /\ pg'.conn = pg.conn
        /\ \/ pg'.cur = pg.cur /\ bad' = bad
           \/ pg'.cur = pg.cur + 1 /\ Raise("catch")
    BY <1>1, <1>3, ExecIs
  <2>2. Levels /\ Conn /\ AllRows(pg) \cap bad = {}
    BY <1>1, <2>1 DEF Good, Clean, Hopeless, Over, SPI_usable
  <2>3. Levels'
    <3>1. \A i \in 1..Len(frames) : ClientDepth + 1 + i \in 1..Depth(pg)
      BY <2>2 DEF Levels
    <3> QED
      BY <1>1, <2>1, <2>2, <3>1 DEF Levels
  <2>4. Conn' /\ (OwnConn' <=> OwnConn)
    BY <1>1, <2>1, <2>2 DEF Conn, OwnConn, InBlock
  <2>5. CASE pg'.cur = pg.cur /\ bad' = bad
    <3>1. rows + 1 \notin bad
      BY <1>1
    <3> QED
      BY <2>1, <2>2, <2>3, <2>4, <2>5, <3>1 DEF Good, Clean, SPI_usable
  <2>6. CASE pg'.cur = pg.cur + 1 /\ Raise("catch")
    <3>1. CASE OwnConn
      <4>1. Len(<<1, 2>>) = 2
        OBVIOUS
      <4>2. pg'.cur = 2
        BY <1>1, <2>1, <2>2, <2>6, <3>1, <4>1 DEF SPI_usable, Conn
      <4> QED
        BY <2>3, <2>4, <2>6, <3>1, <4>2 DEF Raise, Unwinds
    <3>2. CASE ~OwnConn
      <4>1. Over(pg')
        BY <1>1, <2>1, <2>6 DEF SPI_usable, Over
      <4>2. \A i \in 1..Len(frames) : ~frames[i].begin /\ frames[i].name # NoName
        <5> SUFFICES ASSUME NEW i \in 1..Len(frames)
                     PROVE  ~frames[i].begin /\ frames[i].name # NoName
          OBVIOUS
        <5>1. InBlock
          BY DEF InBlock
        <5>2. ClientDepth # 0
          BY <3>2, <5>1 DEF OwnConn
        <5>3. /\ frames[i].begin <=> ClientDepth = 0 /\ i = 1
              /\ frames[i].begin <=> frames[i].name = NoName
          BY <2>2 DEF Levels
        <5> QED
          BY <5>2, <5>3, Zenon
      <4> QED
        BY <1>1, <4>1, <4>2 DEF Hopeless
    <3> QED
      BY <3>1, <3>2
  <2> QED
    BY <2>1, <2>5, <2>6
<1> QED
  BY <1>2, <1>3

(* The rest of what the program does cannot stop an ERROR in a block.      *)
LEMMA CoreQuiet ==
  ASSUME ~RescueInBlock, Typed, Good \/ Unwinds \/ Hopeless, Quiet, ~interrupted'
  PROVE  Good' \/ Unwinds' \/ Hopeless'
<1>1. UNCHANGED <<pg, frames, bad>>
  BY QuietIs
<1>2. Unwinds => FALSE
  <2> SUFFICES ASSUME Unwinds PROVE FALSE
    OBVIOUS
  <2>1. ctl = Plain("catch") /\ ~CanRun /\ InBlock
    BY DEF Unwinds, CanRun, Running, Plain, OwnConn
  <2> QED
    BY <2>1 DEF Quiet, Commit, Abort, ThrowAtCatch, ConversionFails, RaiseError,
       BreakOrReturn, Rescue, EndRescue, TimeIsOver, TimerRaises, Fail
<1> QED
  BY <1>1, <1>2 DEF Good, Hopeless, Levels, Conn, OwnConn, InBlock

LEMMA CoreReturn ==
  ASSUME ClientDepth \in Nat, Typed, Good \/ Unwinds \/ Hopeless, Return,
         outcome' = "ok"
  PROVE  CleanReturn' /\ NoHalfStatement'
<1>1. /\ ~InBlock /\ SPI_usable(pg) /\ bad' = bad /\ pg' \in Pg
      /\ pg'.lvl = pg.lvl /\ pg'.cur = pg.cur
      /\ pg'.conn = SubSeq(pg.conn, 1, Len(pg.conn) - 1)
      /\ Len(pg.conn) \in Nat /\ pg.cur \in Int
  BY ReturnIs, FieldFacts DEF Typed
<1>2. Good
  BY <1>1 DEF Unwinds, OwnConn, Hopeless, Over, SPI_usable
<1>3. /\ Depth(pg) = ClientDepth + 1 + Len(frames) /\ Len(frames) = 0
      /\ pg.conn = <<ClientDepth + 1>> /\ AllRows(pg) \cap bad = {}
  BY <1>1, <1>2 DEF Good, Levels, Conn, OwnConn, Clean, InBlock
<1>4. Len(pg.conn) = 1 /\ pg.cur = 0
  <2>1. Len(pg.conn) = 1
    BY <1>3
  <2> QED
    BY <1>1, <2>1 DEF SPI_usable
<1>5. pg'.conn = <<>>
  BY <1>1, <1>4
<1>6. Depth(pg') = ClientDepth + 1 /\ AllRows(pg') = AllRows(pg)
  BY <1>1, <1>3 DEF Depth, AllRows
<1> QED
  BY <1>1, <1>3, <1>4, <1>5, <1>6 DEF CleanReturn, NoHalfStatement

LEMMA CoreStep ==
  ASSUME BoundsAssumption, ProgramAssumption,
         SavepointNames = {}, ~RescueInBlock, ~PrepareErrors, CoreInv, [Next]_vars
  PROVE  CoreInv'
<1>1. Typed /\ Typed' /\ ClientDepth \in Nat
  BY TypedStep DEF CoreInv, BoundsAssumption
<1>2. ASSUME outcome = "running", outcome' # "ok",
             interrupted => interrupted',
             ~interrupted /\ ~interrupted' /\ outcome' = "running"
                => Good' \/ Unwinds' \/ Hopeless'
      PROVE  CoreInv'
  BY <1>1, <1>2 DEF CoreInv, CleanReturn, NoHalfStatement
<1>3. outcome = "running" /\ ~interrupted => Good \/ Unwinds \/ Hopeless
  BY DEF CoreInv
<1>4. CASE EndsBlock
  <2>1. outcome = "running" /\ UNCHANGED <<outcome, interrupted>>
    BY <1>1, <1>4, BlockEnds
  <2> QED
    BY <1>1, <1>2, <1>3, <1>4, <2>1, GoodEnds, UnwindsEnds, HopelessEnds
<1>5. CASE Transaction \/ Exec
  <2>1. /\ outcome = "running" /\ ctl = Running
        /\ UNCHANGED <<outcome, interrupted>>
    BY <1>1, <1>5, TransactionIs, ExecIs
  <2>2. ~Unwinds
    BY <2>1 DEF Unwinds, Running, Plain
  <2> QED
    BY <1>1, <1>2, <1>3, <1>5, <2>1, <2>2, CoreTransaction, CoreExec
<1>6. CASE Quiet
  <2>1. /\ outcome = "running" /\ outcome' # "ok"
        /\ interrupted => interrupted'
    BY <1>1, <1>6, QuietIs
  <2>2. ~interrupted' => ~interrupted
    BY <1>1, <2>1 DEF Typed
  <2>3. ~interrupted' => Good' \/ Unwinds' \/ Hopeless'
    BY <1>1, <1>3, <1>6, <2>1, <2>2, CoreQuiet
  <2> QED
    BY <1>2, <2>1, <2>3
<1>7. CASE PrepareFails \/ Savepoint \/ ReleaseUser \/ RollbackUser
  BY <1>7 DEF PrepareFails, Savepoint, ReleaseUser, RollbackUser
<1>8. CASE Return
  <2>1. outcome = "running" /\ outcome' \in {"ok", "failed"}
        /\ UNCHANGED interrupted /\ (outcome' = "ok" => ~interrupted)
    BY <1>1, <1>8, ReturnIs
  <2>2. CASE outcome' = "ok"
    <3>1. CleanReturn' /\ NoHalfStatement'
      BY <1>1, <1>3, <1>8, <2>1, <2>2, CoreReturn
    <3> QED
      BY <1>1, <2>2, <3>1 DEF CoreInv
  <2>3. CASE outcome' = "failed"
    BY <1>2, <2>1, <2>3
  <2> QED
    BY <2>1, <2>2, <2>3
<1>9. CASE UNCHANGED vars
  BY <1>1, <1>9 DEF vars, CoreInv, Good, Unwinds, Hopeless, Levels, Conn, OwnConn,
     InBlock, CleanReturn, NoHalfStatement
<1> QED
  BY <1>4, <1>5, <1>6, <1>7, <1>8, <1>9 DEF Next, EndsBlock, Quiet

LEMMA CoreInit == BoundsAssumption /\ Init => CoreInv
<1> SUFFICES ASSUME BoundsAssumption, Init PROVE CoreInv
  OBVIOUS
<1>1. Typed
  BY InitTyped
<1>2. /\ frames = <<>> /\ pg.conn = <<ClientDepth + 1>> /\ pg.cur = 0
      /\ bad = {} /\ outcome = "running"
  BY DEF Init
<1>3. Depth(pg) = ClientDepth + 1
  <2> DEFINE l == [i \in 1..(ClientDepth + 1) |->
                     [name |-> IF i = 1 THEN NoName ELSE ClientName, rows |-> {}]]
  <2>1. pg.lvl = l /\ ClientDepth + 1 \in Nat
    BY DEF Init, BoundsAssumption
  <2>2. Len(l) = ClientDepth + 1
    BY <2>1
  <2> HIDE DEF l
  <2> QED
    BY <2>1, <2>2 DEF Depth
<1>4. Levels
  BY <1>2, <1>3 DEF Levels, BoundsAssumption
<1>5. Conn /\ Clean(pg, bad)
  BY <1>2 DEF Conn, OwnConn, InBlock, Clean, SPI_usable
<1> QED
  BY <1>1, <1>2, <1>4, <1>5 DEF CoreInv, Good, CleanReturn, NoHalfStatement

(* A program that lets exceptions leave its blocks and uses no savepoint   *)
(* of its own leaves, when the call succeeds, the two stacks of the        *)
(* backend as it found them: no subtransaction of a block is open.         *)
THEOREM ReturnIsClean ==
  ASSUME SavepointNames = {}, ~RescueInBlock, ~PrepareErrors
  PROVE  Spec => []CleanReturn
<1>1. BoundsAssumption /\ ProgramAssumption
  BY BoundsAssumption, ProgramAssumption
<1>2. Init => CoreInv
  BY <1>1, CoreInit
<1>3. CoreInv /\ [Next]_vars => CoreInv'
  BY <1>1, CoreStep
<1>4. CoreInv => CleanReturn
  BY DEF CoreInv
<1> QED
  BY <1>2, <1>3, <1>4, PTL DEF Spec

(* Nor does such a program, called with or without a savepoint of the      *)
(* client, keep a row of a statement that failed half way.                 *)
THEOREM NoHalfInCore ==
  ASSUME SavepointNames = {}, ~RescueInBlock, ~PrepareErrors
  PROVE  Spec => []NoHalfStatement
<1>1. BoundsAssumption /\ ProgramAssumption
  BY BoundsAssumption, ProgramAssumption
<1>2. Init => CoreInv
  BY <1>1, CoreInit
<1>3. CoreInv /\ [Next]_vars => CoreInv'
  BY <1>1, CoreStep
<1>4. CoreInv => NoHalfStatement
  BY DEF CoreInv
<1> QED
  BY <1>2, <1>3, <1>4, PTL DEF Spec

-----------------------------------------------------------------------------
(* The rows a block finds                                                  *)

(* A row under the level of a block is not younger than the block.         *)
Marked ==
  /\ \A r \in AllRows(pg) : r <= rows
  /\ \A i \in 1..Len(frames) : \A j \in Named(pg, frames[i].name) :
       \A k \in 1..(j - 1) : \A r \in pg.lvl[k].rows : r <= frames[i].mark

Prefix(t, s) ==
  Len(t) \in 0..Len(s) /\ \A i \in 1..Len(t) : t[i] = s[i]

(* No level was put on top.                                                *)
NotGrown(q, p) ==
  /\ q \in Pg /\ Depth(q) \in 1..Depth(p)
  /\ \A i \in 1..Depth(q) : q.lvl[i].name = p.lvl[i].name
  /\ Beneath(q, p)

RowsStep ==
  \/ rows' = rows /\ AllRows(pg') \subseteq AllRows(pg)
  \/ rows' = rows + 1 /\ AllRows(pg') \subseteq AllRows(pg) \cup {rows + 1}

(* What ends levels when the program has no savepoints.                    *)
OnlyBlocksEnd ==
  EndsBlock \/ SavepointNames # {} \/ (Depth(pg') = Depth(pg) /\ frames' = frames)

LEMMA StackStep ==
  ASSUME ProgramAssumption, Typed, [Next]_vars
  PROVE  \/ /\ NotGrown(pg', pg) /\ Prefix(frames', frames) /\ RowsStep
            /\ seq' = seq /\ OnlyBlocksEnd
         \/ /\ Grows(pg', pg, PlName(seq)) /\ seq' = seq + 1 /\ rows' = rows
            /\ Depth(pg) > 1
            /\ frames' = Append(frames, NewFrame(FALSE, PlName(seq)))
         \/ /\ \E n \in Nat : Grows(pg', pg, UserName(n))
            /\ seq' = seq /\ rows' = rows /\ frames' = frames
            /\ SavepointNames # {}
         \/ /\ Depth(pg) = 1 /\ Grows(pg', pg, NoName) /\ seq' = 0 /\ rows' = rows
            /\ \/ frames' = frames
               \/ frames' = Append(frames, NewFrame(TRUE, NoName))
<1>1. /\ pg \in Pg /\ Depth(pg) \in Nat /\ Depth(pg) # 0 /\ NotGrown(pg, pg)
      /\ Len(frames) \in Nat /\ Prefix(frames, frames)
  <2>1. pg \in Pg /\ Depth(pg) # 0 /\ frames \in Seq(Frame)
    BY DEF Typed
  <2>2. Depth(pg) \in Nat /\ Len(frames) \in Nat
    BY <2>1, FieldFacts
  <2> QED
    BY <2>1, <2>2 DEF NotGrown, Prefix, Beneath
<1>2. /\ \A q : LevelsOf(q, pg) =>
            NotGrown(q, pg) /\ AllRows(q) \subseteq AllRows(pg)
      /\ \A q, name : Closes(q, pg, name) =>
            NotGrown(q, pg) /\ AllRows(q) \subseteq AllRows(pg)
  BY DEF LevelsOf, Closes, Shrunk, NotGrown
<1>3. \A q \in Pg : q.lvl = pg.lvl =>
        /\ NotGrown(q, pg) /\ AllRows(q) \subseteq AllRows(pg)
        /\ Depth(q) = Depth(pg)
  BY <1>1 DEF NotGrown, Depth, Beneath, AllRows
<1>4. frames' = frames => Prefix(frames', frames)
  BY <1>1
<1>5. CASE EndsBlock
  <2>1. LevelsOf(pg', pg) /\ frames' = Outer /\ InBlock /\ seq' = seq /\ rows' = rows
    BY <1>5, BlockEnds
  <2>2. Prefix(frames', frames)
    BY <1>1, <2>1, TopIs DEF Prefix
  <2> QED
    BY <1>2, <1>5, <2>1, <2>2 DEF RowsStep, OnlyBlocksEnd
<1>6. CASE Transaction
  <2>1. CASE UNCHANGED <<pg, frames, seq>>
    <3>1. rows' = rows
      BY <1>6, TransactionIs
    <3> QED
      BY <1>1, <2>1, <3>1 DEF RowsStep, OnlyBlocksEnd
  <2>2. CASE /\ IsSubTransaction(pg)
             /\ Grows(pg', pg, PlName(seq)) /\ seq' = seq + 1
             /\ frames' = Append(frames, NewFrame(FALSE, PlName(seq)))
    <3>1. rows' = rows
      BY <1>6, TransactionIs
    <3> QED
      BY <2>2, <3>1 DEF IsSubTransaction
  <2>3. CASE /\ ~IsSubTransaction(pg) /\ Grows(pg', pg, NoName) /\ seq' = 0
             /\ \/ frames' = frames
                \/ frames' = Append(frames, NewFrame(TRUE, NoName))
    <3>1. Depth(pg) = 1
      BY <1>1, <2>3 DEF IsSubTransaction
    <3>2. rows' = rows
      BY <1>6, TransactionIs
    <3> QED
      BY <2>3, <3>1, <3>2
  <2> QED
    BY <1>6, <2>1, <2>2, <2>3, TransactionIs
<1>7. CASE Exec
  <2>1. frames' = frames /\ seq' = seq
    BY <1>7, ExecIs
  <2>2. CASE UNCHANGED <<pg, rows>>
    BY <1>1, <2>1, <2>2 DEF RowsStep, OnlyBlocksEnd
  <2>3. CASE /\ rows' = rows + 1 /\ pg' \in Pg /\ Depth(pg') = Depth(pg)
             /\ \A i \in 1..Depth(pg) : pg'.lvl[i].name = pg.lvl[i].name
             /\ AllRows(pg') = AllRows(pg) \cup {rows + 1}
             /\ Beneath(pg', pg)
    <3>1. NotGrown(pg', pg)
      BY <1>1, <2>3 DEF NotGrown
    <3> QED
      BY <1>1, <2>1, <2>3, <3>1 DEF RowsStep, OnlyBlocksEnd
  <2> QED
    BY <1>7, <2>2, <2>3, ExecIs
<1>8. CASE Quiet
  BY <1>1, <1>8, QuietIs DEF RowsStep, OnlyBlocksEnd
<1>9. CASE PrepareFails
  BY <1>3, <1>4, <1>9, PrepareIs DEF UnchangedByBlocks, RowsStep, OnlyBlocksEnd
<1>10. CASE Savepoint \/ ReleaseUser \/ RollbackUser
  <2>1. /\ frames' = frames /\ seq' = seq /\ rows' = rows /\ SavepointNames # {}
        /\ \E n \in SavepointNames :
             pg' = pg \/ Closes(pg', pg, UserName(n)) \/ Grows(pg', pg, UserName(n))
    BY <1>10, SavepointsAre DEF UnchangedByBlocks
  <2>2. SavepointNames \subseteq Nat
    BY DEF ProgramAssumption
  <2> QED
    BY <1>1, <1>2, <2>1, <2>2 DEF RowsStep, OnlyBlocksEnd
<1>11. CASE Return
  BY <1>1, <1>3, <1>4, <1>11, ReturnIs DEF RowsStep, OnlyBlocksEnd
<1>12. CASE UNCHANGED vars
  BY <1>1, <1>12 DEF vars, RowsStep, OnlyBlocksEnd
<1> QED
  BY <1>5, <1>6, <1>7, <1>8, <1>9, <1>10, <1>11, <1>12 DEF Next, EndsBlock, Quiet

LEMMA RowsAreNat ==
  ASSUME NEW p \in Pg
  PROVE  /\ \A k \in 1..Depth(p) : p.lvl[k].rows \subseteq AllRows(p)
         /\ AllRows(p) \subseteq Nat /\ Depth(p) \in Nat
BY FieldFacts DEF AllRows

LEMMA MarkedNotGrown ==
  ASSUME Typed, Marked, NotGrown(pg', pg), Prefix(frames', frames), RowsStep
  PROVE  Marked'
<1>1. Depth(pg) \in Nat /\ Depth(pg') \in Nat /\ rows \in Nat
  BY FieldFacts DEF Typed, NotGrown
<1>2. \A r \in AllRows(pg') : r <= rows'
  <2>1. AllRows(pg) \subseteq Nat
    BY RowsAreNat DEF Typed
  <2> QED
    BY <1>1, <2>1 DEF Marked, RowsStep
<1>3. ASSUME NEW i \in 1..Len(frames'), NEW j \in Named(pg', frames'[i].name),
             NEW k \in 1..(j - 1), NEW r \in pg'.lvl[k].rows
      PROVE  r <= frames'[i].mark
  <2>1. i \in 1..Len(frames) /\ frames'[i] = frames[i]
    BY DEF Prefix
  <2>2. j \in 2..Depth(pg') /\ j \in Named(pg, frames[i].name)
    BY <1>1, <2>1 DEF Named, NotGrown
  <2>3. k \in 1..(Depth(pg') - 1)
    BY <1>1, <2>2
  <2>4. pg'.lvl[k] = pg.lvl[k]
    BY <2>3 DEF NotGrown, Beneath
  <2> QED
    BY <2>1, <2>2, <2>4 DEF Marked
<1> QED
  BY <1>2, <1>3 DEF Marked

(* A level of a new name, for a new block or not for a block.              *)
LEMMA MarkedGrows ==
  ASSUME Typed, Marked, NEW name \in Names, Grows(pg', pg, name), rows' = rows,
         \A i \in 1..Len(frames) : frames[i].name # name,
         Named(pg, name) = {}, NEW begin \in BOOLEAN,
         frames' = frames \/ frames' = Append(frames, NewFrame(begin, name))
  PROVE  Marked'
<1>1. /\ Depth(pg) \in Nat /\ Depth(pg') \in Nat /\ pg \in Pg /\ pg' \in Pg
      /\ Depth(pg') = Depth(pg) + 1 /\ pg'.lvl[Depth(pg')].name = name
      /\ \A k \in 1..Depth(pg) : pg'.lvl[k].name = pg.lvl[k].name
      /\ \A k \in 1..Depth(pg) : pg'.lvl[k] = pg.lvl[k]
      /\ AllRows(pg') = AllRows(pg)
  <2>1. /\ Depth(pg) \in Nat /\ pg \in Pg /\ pg' \in Pg
        /\ Depth(pg') = Depth(pg) + 1
    BY FieldFacts DEF Typed, Grows
  <2> QED
    BY <2>1 DEF Grows, Beneath
<1>2. \A r \in AllRows(pg') : r <= rows'
  BY <1>1 DEF Marked
<1>3. ASSUME NEW j \in 2..Depth(pg') PROVE j \in 2..Depth(pg) \/ j = Depth(pg')
  BY <1>1
<1>4. ASSUME NEW i \in 1..Len(frames), NEW j \in Named(pg', frames[i].name),
             NEW k \in 1..(j - 1), NEW r \in pg'.lvl[k].rows
      PROVE  r <= frames[i].mark
  <2>1. j # Depth(pg')
    BY <1>1 DEF Named
  <2>2. j \in 2..Depth(pg) /\ pg'.lvl[j].name = frames[i].name
    BY <1>3, <2>1 DEF Named
  <2>3. j \in 1..Depth(pg) /\ k \in 1..Depth(pg)
    BY <1>1, <2>2
  <2>4. j \in Named(pg, frames[i].name) /\ pg'.lvl[k] = pg.lvl[k]
    BY <1>1, <2>2, <2>3 DEF Named
  <2> QED
    BY <2>4 DEF Marked
<1>5. CASE frames' = frames
  BY <1>2, <1>4, <1>5 DEF Marked
<1>6. CASE frames' = Append(frames, NewFrame(begin, name))
  <2> DEFINE f == NewFrame(begin, name)
  <2>1. f \in Frame /\ f.name = name /\ f.mark = rows
    BY NewFrameIs DEF NewFrame
  <2>2. frames \in Seq(Frame) /\ frames' = Append(frames, f)
    BY <1>6 DEF Typed
  <2> HIDE DEF f
  <2>3. /\ Len(frames') = Len(frames) + 1 /\ frames'[Len(frames) + 1] = f
        /\ \A i \in 1..Len(frames) : frames'[i] = frames[i]
        /\ Len(frames) \in Nat
    BY <2>1, <2>2
  <2>4. ASSUME NEW j \in Named(pg', f.name), NEW k \in 1..(j - 1),
               NEW r \in pg'.lvl[k].rows
        PROVE  r <= f.mark
    <3>1. k \in 1..Depth(pg')
      BY <1>1 DEF Named
    <3>2. r \in AllRows(pg')
      BY <1>1, <3>1, RowsAreNat
    <3> QED
      BY <1>2, <2>1, <3>2
  <2>5. \A i \in 1..Len(frames') : i \in 1..Len(frames) \/ i = Len(frames) + 1
    BY <2>3
  <2> QED
    BY <1>2, <1>4, <2>3, <2>4, <2>5 DEF Marked
<1> QED
  BY <1>5, <1>6

(* The abort of a block that is a savepoint.                               *)
LEMMA AbortDiscardsNamed ==
  ASSUME Typed, Marked, AbortReaches, InBlock, ~Top.begin, Top.name # NoName
  PROVE  \A r \in AllRows(pg') : r <= Top.mark
<1> DEFINE q == RolledBack(pg, Top.name)
           j == Innermost(pg, Top.name)
<1>1. /\ pg \in Pg /\ Depth(pg) \in Nat /\ Top \in Frame /\ Top.name \in Names
      /\ Len(frames) \in Nat \ {0}
  BY TopIs, FieldFacts DEF Typed, Frame
<1>2. /\ CatchThrow /\ ~ctl.commit /\ ctl.txn = Top.txn /\ ~interrupted
      /\ Named(pg, Top.name) # {}
  BY DEF AbortReaches
<1>3. /\ j \in Named(pg, Top.name) /\ j \in 2..Depth(pg) /\ Depth(q) = j - 1
      /\ \A k \in 1..Depth(q) : q.lvl[k] = pg.lvl[k]
  BY <1>1, <1>2, InnermostIs, RolledBackIs DEF Named
<1>4. InternAbort(pg, Top) = Result(q, Unnamed(Top), "no")
  <2>1. IsSubTransaction(pg)
    BY <1>1, <1>3 DEF IsSubTransaction
  <2> QED
    BY <1>2, <2>1 DEF InternAbort, EndNamed, RolledBack
<1>5. pg' = q
  <2>1. Finish(q, Unnamed(Top))
    BY <1>2, <1>4 DEF CatchThrow, Result
  <2>2. Unnamed(Top) \in Frame /\ ~Unnamed(Top).begin
    BY <1>1, FrameIs
  <2> QED
    BY <2>1, <2>2 DEF Finish, Result, PopOwn
<1> HIDE DEF q, j
<1>6. \A k \in 1..Depth(q) : \A r \in q.lvl[k].rows : r <= Top.mark
  <2>1. Len(frames) \in 1..Len(frames) /\ Top = frames[Len(frames)]
    BY <1>1 DEF Top
  <2>2. \A k \in 1..(j - 1) : \A r \in pg.lvl[k].rows : r <= Top.mark
    BY <1>3, <2>1 DEF Marked
  <2> QED
    BY <1>3, <2>2
<1> QED
  BY <1>5, <1>6 DEF AllRows

(* pl_in_transaction is behind the numbers of all blocks, too.             *)
Numbered ==
  \A i \in 1..Len(frames) :
    frames[i].name = NoName \/ \E n \in Nat : n < seq /\ frames[i].name = PlName(n)

BlocksInv == NamesInv /\ Numbered /\ Marked

(* When an internal transaction begins, no block is left.                  *)
LEMMA BlocksStep ==
  ASSUME ProgramAssumption, BlocksInv, [Next]_vars,
         Depth(pg) = 1 => ~InBlock
  PROVE  BlocksInv'
<1>1. /\ Typed /\ NamesInv /\ NamesInv' /\ Marked /\ Numbered
      /\ seq \in Nat /\ Depth(pg) \in Nat /\ frames \in Seq(Frame)
  <2>1. Typed /\ NamesInv /\ NamesInv' /\ Marked /\ Numbered
    BY NamesInvStep DEF BlocksInv, NamesInv
  <2> QED
    BY <2>1, FieldFacts DEF Typed
<1>2. PlName(seq) \in Names /\ NoName \in Names /\ PlName(seq) # NoName
  BY <1>1, NamesAre
<1>3. CASE /\ NotGrown(pg', pg) /\ Prefix(frames', frames) /\ RowsStep
           /\ seq' = seq
  <2>1. Marked'
    BY <1>1, <1>3, MarkedNotGrown
  <2>2. Numbered'
    BY <1>1, <1>3 DEF Numbered, Prefix
  <2> QED
    BY <1>1, <2>1, <2>2 DEF BlocksInv
<1>4. CASE /\ Grows(pg', pg, PlName(seq)) /\ seq' = seq + 1 /\ rows' = rows
           /\ frames' = Append(frames, NewFrame(FALSE, PlName(seq)))
  <2>1. \A i \in 1..Len(frames) : frames[i].name # PlName(seq)
    <3> SUFFICES ASSUME NEW i \in 1..Len(frames), frames[i].name = PlName(seq)
                 PROVE  FALSE
      OBVIOUS
    <3>1. PICK n \in Nat : n < seq /\ frames[i].name = PlName(n)
      BY <1>1, <1>2 DEF Numbered
    <3>2. n = seq
      BY <1>1, <3>1, NamesAre
    <3> QED
      BY <1>1, <3>1, <3>2
  <2>2. Named(pg, PlName(seq)) = {}
    BY <1>1 DEF Named, NamesInv
  <2>3. Marked'
    BY <1>1, <1>2, <1>4, <2>1, <2>2, MarkedGrows
  <2>4. Numbered'
    <3> DEFINE f == NewFrame(FALSE, PlName(seq))
    <3>1. f \in Frame /\ f.name = PlName(seq)
      BY <1>1, <1>2, NewFrameIs DEF NewFrame
    <3>2. frames' = Append(frames, f)
      BY <1>4
    <3> HIDE DEF f
    <3>3. /\ Len(frames') = Len(frames) + 1 /\ frames'[Len(frames) + 1] = f
          /\ \A i \in 1..Len(frames) : frames'[i] = frames[i]
          /\ Len(frames) \in Nat
      BY <1>1, <3>1, <3>2
    <3>4. \A n \in Nat : n < seq => n < seq + 1
      BY <1>1
    <3>5. \A i \in 1..Len(frames) :
            \/ frames'[i].name = NoName
            \/ \E n \in Nat : n < seq' /\ frames'[i].name = PlName(n)
      BY <1>1, <1>4, <3>3, <3>4 DEF Numbered
    <3>6. seq \in Nat /\ seq < seq' /\ frames'[Len(frames) + 1].name = PlName(seq)
      <4>1. seq < seq + 1 /\ seq' = seq + 1
        BY <1>1, <1>4
      <4>2. frames'[Len(frames) + 1].name = PlName(seq)
        BY <3>1, <3>3
      <4> QED
        BY <1>1, <4>1, <4>2
    <3>7. \A i \in 1..Len(frames') : i \in 1..Len(frames) \/ i = Len(frames) + 1
      BY <3>3
    <3> QED
      BY <3>5, <3>6, <3>7 DEF Numbered
  <2> QED
    BY <1>1, <2>3, <2>4 DEF BlocksInv
<1>5. ASSUME NEW n \in Nat, Grows(pg', pg, UserName(n)),
             seq' = seq, rows' = rows, frames' = frames
      PROVE  BlocksInv'
  <2>1. /\ UserName(n) \in Names /\ UserName(n) # NoName
        /\ \A m \in Nat : UserName(n) # PlName(m)
    BY NamesAre
  <2>2. \A i \in 1..Len(frames) : frames[i].name # UserName(n)
    BY <1>1, <2>1 DEF Numbered
  <2>3. \A i \in 1..Len(frames') : \A j \in Named(pg', frames'[i].name) :
          j \in Named(pg, frames[i].name) /\ j # Depth(pg')
    <3> SUFFICES ASSUME NEW i \in 1..Len(frames),
                        NEW j \in Named(pg', frames[i].name)
                 PROVE  j \in Named(pg, frames[i].name) /\ j # Depth(pg')
      BY <1>5
    <3>1. Depth(pg') = Depth(pg) + 1 /\ j \in 2..Depth(pg')
      BY <1>5 DEF Grows, Named
    <3>2. j # Depth(pg')
      BY <1>5, <2>2 DEF Grows, Named
    <3>3. j \in 2..Depth(pg) /\ j \in 1..Depth(pg)
      BY <1>1, <3>1, <3>2
    <3> QED
      BY <1>5, <3>2, <3>3 DEF Grows, Named
  <2>4. \A i \in 1..Len(frames') : \A j \in Named(pg', frames'[i].name) :
          \A k \in 1..(j - 1) : pg'.lvl[k] = pg.lvl[k]
    <3> SUFFICES ASSUME NEW i \in 1..Len(frames'),
                        NEW j \in Named(pg', frames'[i].name), NEW k \in 1..(j - 1)
                 PROVE  pg'.lvl[k] = pg.lvl[k]
      OBVIOUS
    <3>1. j \in 2..Depth(pg) /\ Depth(pg') = Depth(pg) + 1
      BY <1>5, <2>3 DEF Grows, Named
    <3>2. k \in 1..(Depth(pg') - 1)
      BY <1>1, <3>1
    <3> QED
      BY <1>5, <3>2 DEF Grows, Beneath
  <2>5. Marked'
    <3>1. \A r \in AllRows(pg') : r <= rows'
      BY <1>1, <1>5 DEF Marked, Grows
    <3>2. ASSUME NEW i \in 1..Len(frames'),
                 NEW j \in Named(pg', frames'[i].name),
                 NEW k \in 1..(j - 1), NEW r \in pg'.lvl[k].rows
          PROVE  r <= frames'[i].mark
      <4>1. i \in 1..Len(frames) /\ frames'[i] = frames[i]
        BY <1>5
      <4>2. j \in Named(pg, frames[i].name)
        BY <2>3
      <4>3. r \in pg.lvl[k].rows
        BY <2>4
      <4>4. r <= frames[i].mark
        BY <1>1, <4>1, <4>2, <4>3 DEF Marked
      <4> QED
        BY <4>1, <4>4
    <3> QED
      BY <3>1, <3>2 DEF Marked
  <2>6. Numbered'
    BY <1>1, <1>5 DEF Numbered
  <2> QED
    BY <1>1, <2>5, <2>6 DEF BlocksInv
<1>6. CASE /\ Depth(pg) = 1 /\ Grows(pg', pg, NoName) /\ seq' = 0 /\ rows' = rows
           /\ \/ frames' = frames
              \/ frames' = Append(frames, NewFrame(TRUE, NoName))
  <2>1. Len(frames) = 0 /\ Named(pg, NoName) = {} /\ frames = <<>>
    BY <1>1, <1>6 DEF InBlock, Named
  <2>2. Marked'
    <3>1. \A i \in 1..Len(frames) : frames[i].name # NoName
      BY <2>1
    <3>2. TRUE \in BOOLEAN
      OBVIOUS
    <3> HIDE DEF NewFrame
    <3> QED
      BY <1>1, <1>2, <1>6, <2>1, <3>1, <3>2, MarkedGrows
  <2>3. Numbered'
    <3>1. CASE frames' = frames
      BY <2>1, <3>1 DEF Numbered
    <3>2. CASE frames' = Append(frames, NewFrame(TRUE, NoName))
      <4> DEFINE f == NewFrame(TRUE, NoName)
      <4>1. f \in Frame /\ f.name = NoName
        BY <1>1, <1>2, NewFrameIs DEF NewFrame
      <4>2. frames' = Append(frames, f)
        BY <3>2
      <4> HIDE DEF f
      <4>3. Len(frames') = Len(frames) + 1 /\ frames'[Len(frames) + 1] = f
        BY <1>1, <4>1, <4>2
      <4> QED
        BY <2>1, <4>1, <4>3 DEF Numbered
    <3> QED
      BY <1>6, <3>1, <3>2
  <2> QED
    BY <1>1, <2>2, <2>3 DEF BlocksInv
<1> QED
  BY <1>1, <1>3, <1>4, <1>5, <1>6, StackStep

LEMMA BlocksInit == BoundsAssumption /\ Init => BlocksInv
<1> SUFFICES ASSUME BoundsAssumption, Init PROVE BlocksInv
  OBVIOUS
<1>1. NamesInv
  BY NamesInit
<1>2. AllRows(pg) = {}
  <2> DEFINE l == [i \in 1..(ClientDepth + 1) |->
                     [name |-> IF i = 1 THEN NoName ELSE ClientName, rows |-> {}]]
  <2>1. pg.lvl = l /\ ClientDepth + 1 \in Nat
    BY DEF Init, BoundsAssumption
  <2>2. Len(l) = ClientDepth + 1
    BY <2>1
  <2>3. \A i \in 1..(ClientDepth + 1) : l[i].rows = {}
    OBVIOUS
  <2> HIDE DEF l
  <2> QED
    BY <2>1, <2>2, <2>3 DEF Depth, AllRows
<1>3. Len(frames) = 0
  BY DEF Init
<1> QED
  BY <1>1, <1>2, <1>3 DEF BlocksInv, Numbered, Marked

(* txn.abort, in every program that is called inside a savepoint of the    *)
(* client: when it reaches the block of txn, none of the rows written      *)
(* since that block was entered is left, whatever was rescued and whatever *)
(* savepoints the program used, unless the block's own is gone.            *)
THEOREM AbortInSavepoint ==
  ASSUME ClientDepth > 0
  PROVE  Spec => AbortDiscards
<1> DEFINE Inv == HalfInv /\ BlocksInv
<1>1. BoundsAssumption /\ ProgramAssumption
  BY BoundsAssumption, ProgramAssumption
<1>2. Init => Inv
  BY <1>1, HalfInit, BlocksInit
<1>3. ASSUME Inv, [Next]_vars PROVE Inv'
  <2>1. HalfInv'
    BY <1>1, <1>3, HalfInvStep
  <2>2. Depth(pg) # 1
    BY <1>1, <1>3 DEF HalfInv, Kept, BoundsAssumption
  <2>3. BlocksInv'
    BY <1>1, <1>3, <2>2, BlocksStep
  <2> QED
    BY <2>1, <2>3
<1>4. ASSUME Inv, [Next]_vars, AbortReaches
      PROVE  \A r \in AllRows(pg)' : r <= Top.mark
  <2>1. Typed /\ Marked /\ OwnNames /\ InBlock
    BY <1>3, <1>4 DEF HalfInv, BlocksInv, AbortReaches, CatchThrow
  <2>2. Len(frames) \in 1..Len(frames)
    BY <2>1, TopIs
  <2>3. ~Top.begin /\ Top.name # NoName
    BY <2>1, <2>2 DEF OwnNames, Top
  <2> QED
    BY <1>4, <2>1, <2>3, AbortDiscardsNamed
<1> HIDE DEF Inv
<1>5. Inv /\ [Next]_vars => Inv'
  BY <1>3
<1>6. Inv /\ [Next]_vars => [AbortReaches => \A r \in AllRows(pg)' : r <= Top.mark]_vars
  BY <1>4
<1> QED
  BY <1>2, <1>5, <1>6, PTL DEF Spec, AbortDiscards

(* The second level is not a block's savepoint, and no block is left when  *)
(* there is none.                                                          *)
Bottom ==
  /\ InBlock => Depth(pg) > 1
  /\ Depth(pg) > 1 => pg.lvl[2].name \in {NoName, ClientName}

LEMMA BottomStep ==
  ASSUME BoundsAssumption, ProgramAssumption, SavepointNames = {},
         Good \/ Unwinds \/ Hopeless, BlocksInv, Bottom, [Next]_vars
  PROVE  Bottom'
<1>1. /\ Typed /\ Numbered /\ ClientDepth \in Nat /\ pg \in Pg
      /\ Depth(pg) \in Nat /\ Depth(pg) # 0 /\ frames \in Seq(Frame)
  <2>1. Typed /\ Numbered /\ ClientDepth \in Nat
    BY DEF BlocksInv, NamesInv, BoundsAssumption
  <2> QED
    BY <2>1, FieldFacts DEF Typed
<1>2. CASE NotGrown(pg', pg) /\ Prefix(frames', frames) /\ OnlyBlocksEnd
  <2>1. Depth(pg') \in 1..Depth(pg)
        /\ \A i \in 1..Depth(pg') : pg'.lvl[i].name = pg.lvl[i].name
    BY <1>2 DEF NotGrown
  <2>2. Depth(pg') > 1 => pg'.lvl[2].name \in {NoName, ClientName}
    BY <1>1, <2>1 DEF Bottom
  <2>3. InBlock' => Depth(pg') > 1
    <3>1. CASE Depth(pg') = Depth(pg) /\ frames' = frames
      BY <3>1 DEF Bottom, InBlock
    <3>2. CASE EndsBlock
      <4>1. /\ frames' = Outer /\ InBlock
            /\ ~Top.begin /\ Top.name # NoName
                 => pg' = pg \/ Closes(pg', pg, Top.name)
        BY <1>1, <3>2, BlockEnds
      <4>2. /\ Len(frames) \in 1..Len(frames) /\ Len(frames) \in Nat \ {0}
            /\ Top = frames[Len(frames)] /\ Len(Outer) = Len(frames) - 1
            /\ Outer \in Seq(Frame)
        BY <1>1, <4>1, TopIs DEF Top
      <4>3. CASE Top.begin
        <5>1. Levels
          BY <4>2, <4>3 DEF Good, Unwinds, Hopeless
        <5>2. Len(frames) = 1
          BY <4>2, <4>3, <5>1 DEF Levels
        <5> QED
          BY <4>1, <4>2, <5>2 DEF InBlock
      <4>4. CASE ~Top.begin
        <5>1. Top.name # NoName
          BY <4>2, <4>4 DEF Good, Unwinds, Hopeless, Levels
        <5>2. Top.name # ClientName
          <6>1. PICK n \in Nat : Top.name = PlName(n)
            BY <1>1, <4>2, <5>1 DEF Numbered
          <6> QED
            BY <6>1 DEF PlName, ClientName
        <5>3. Depth(pg) > 1 /\ pg.lvl[2].name # Top.name
          BY <4>1, <5>1, <5>2 DEF Bottom
        <5>4. CASE pg' = pg
          BY <5>3, <5>4
        <5>5. CASE Closes(pg', pg, Top.name)
          <6>1. pg.lvl[Depth(pg') + 1].name = Top.name
            BY <5>5 DEF Closes
          <6>2. Depth(pg') # 1
            BY <5>3, <6>1
          <6> QED
            BY <1>1, <2>1, <6>2
        <5> QED
          BY <4>1, <4>4, <5>1, <5>4, <5>5
      <4> QED
        BY <4>3, <4>4
    <3> QED
      BY <1>2, <3>1, <3>2 DEF OnlyBlocksEnd
  <2> QED
    BY <2>2, <2>3 DEF Bottom
<1>3. CASE Grows(pg', pg, PlName(seq)) /\ Depth(pg) > 1
  <2>1. Depth(pg') = Depth(pg) + 1 /\ 2 \in 1..Depth(pg)
    BY <1>1, <1>3 DEF Grows
  <2>2. pg'.lvl[2].name = pg.lvl[2].name
    BY <1>3, <2>1 DEF Grows
  <2> QED
    BY <1>1, <1>3, <2>1, <2>2 DEF Bottom
<1>4. CASE Grows(pg', pg, NoName) /\ Depth(pg) = 1
  <2>1. Depth(pg') = 2 /\ pg'.lvl[2].name = NoName
    BY <1>4 DEF Grows
  <2> QED
    BY <2>1 DEF Bottom
<1> QED
  BY <1>1, <1>2, <1>3, <1>4, StackStep

(* The abort of the block with an SPI connection of its own.               *)
LEMMA AbortDiscardsOwn ==
  ASSUME ClientDepth \in Nat, Typed, Good, Marked, AbortReaches, InBlock, Top.begin
  PROVE  \A r \in AllRows(pg') : r <= Top.mark
<1> DEFINE q == SPI_finish(pg)
           a == AbortFrom(q, 2)
<1>1. /\ pg \in Pg /\ Top \in Frame /\ Len(frames) \in Nat \ {0}
      /\ pg.lvl[Depth(pg)].name = Top.name /\ ~Top.commit
      /\ Top.name = NoName /\ Depth(pg) = 2 /\ pg.conn = <<1, 2>>
      /\ Levels /\ Conn /\ SPI_usable(pg)
  BY TopLevel DEF Good, Clean
<1>2. CatchThrow /\ ~ctl.commit /\ ctl.txn = Top.txn /\ ~interrupted
  BY DEF AbortReaches
<1>3. q \in Pg /\ q.lvl = pg.lvl /\ Depth(q) = 2
  BY <1>1, FinishIs DEF Depth
<1> HIDE DEF q
<1>4. /\ a \in Pg /\ Depth(a) = 1 /\ a.lvl[1] = q.lvl[1]
  <2>1. 2 \in 2..Depth(q) /\ 2 - 1 = 1 /\ 1 \in 1..1
    BY <1>3
  <2> QED
    BY <1>3, <2>1, AbortIs DEF Shrunk
<1>5. InternAbort(pg, Top) = Result(a, Committed(Top), "no")
  BY <1>1, <1>2, <1>3 DEF InternAbort, EndInternal, IsSubTransaction,
     RollbackAndReleaseCurrentSubTransaction, q
<1> HIDE DEF a
<1>6. pg'.lvl = a.lvl
  <2>1. Finish(a, Committed(Top)) /\ Committed(Top).commit /\ Committed(Top) \in Frame
    BY <1>1, <1>2, <1>5, FrameIs DEF CatchThrow, Result
  <2>2. pg' = PopOwn(a, Committed(Top))
    BY <2>1 DEF Finish, Result
  <2> QED
    BY <1>4, <2>1, <2>2, PopIs
<1>7. 2 \in Named(pg, Top.name) /\ Len(frames) \in 1..Len(frames)
      /\ Top = frames[Len(frames)] /\ 1 \in 1..(2 - 1)
  BY <1>1 DEF Named, Top
<1>8. \A r \in pg.lvl[1].rows : r <= Top.mark
  BY <1>7 DEF Marked
<1>9. AllRows(pg') = pg.lvl[1].rows
  BY <1>3, <1>4, <1>6 DEF AllRows, Depth
<1> QED
  BY <1>8, <1>9

(* A call that is over, or whose time is over, stays so.                   *)
LEMMA OnStep ==
  ASSUME ProgramAssumption, Typed, [Next]_vars,
         outcome' = "running", ~interrupted'
  PROVE  outcome = "running" /\ ~interrupted
<1>1. interrupted \in BOOLEAN
  BY DEF Typed
<1>2. CASE EndsBlock
  BY <1>2, BlockEnds
<1>3. CASE Transaction \/ Exec
  <2>1. outcome = "running" /\ UNCHANGED <<outcome, interrupted>>
    BY <1>3, TransactionIs, ExecIs
  <2> QED
    BY <2>1
<1>4. CASE Quiet
  BY <1>1, <1>4, QuietIs
<1>5. CASE PrepareFails
  BY <1>5, PrepareIs DEF UnchangedByBlocks
<1>6. CASE Savepoint \/ ReleaseUser \/ RollbackUser
  BY <1>6, SavepointsAre DEF UnchangedByBlocks
<1>7. CASE Return
  BY <1>7, ReturnIs
<1>8. CASE UNCHANGED vars
  BY <1>8 DEF vars
<1> QED
  BY <1>2, <1>3, <1>4, <1>5, <1>6, <1>7, <1>8 DEF Next, EndsBlock, Quiet

(* txn.abort, in every program that lets exceptions leave its blocks and   *)
(* uses no savepoint of its own, with or without a savepoint of the        *)
(* client: none of the rows written since the block of txn was entered is  *)
(* left.                                                                   *)
THEOREM AbortInCore ==
  ASSUME SavepointNames = {}, ~RescueInBlock, ~PrepareErrors
  PROVE  Spec => AbortDiscards
<1> DEFINE On == outcome = "running" /\ ~interrupted
           Inv == CoreInv /\ (On => BlocksInv /\ Bottom)
<1>1. BoundsAssumption /\ ProgramAssumption
  BY BoundsAssumption, ProgramAssumption
<1>2. Init => Inv
  <2> SUFFICES ASSUME Init PROVE Inv
    OBVIOUS
  <2>1. CoreInv /\ BlocksInv
    BY <1>1, CoreInit, BlocksInit
  <2>2. Bottom
    <3> DEFINE l == [i \in 1..(ClientDepth + 1) |->
                       [name |-> IF i = 1 THEN NoName ELSE ClientName, rows |-> {}]]
    <3>1. pg.lvl = l /\ ClientDepth + 1 \in Nat
      BY <1>1 DEF Init, BoundsAssumption
    <3>2. Len(l) = ClientDepth + 1
      BY <3>1
    <3>3. 2 \in 1..(ClientDepth + 1) => l[2].name = ClientName
      OBVIOUS
    <3> HIDE DEF l
    <3>4. Depth(pg) > 1 => pg.lvl[2].name = ClientName
      BY <3>1, <3>2, <3>3 DEF Depth
    <3>5. ~InBlock
      BY DEF Init, InBlock
    <3> QED
      BY <3>4, <3>5 DEF Bottom
  <2> QED
    BY <2>1, <2>2
<1>3. ASSUME Inv, [Next]_vars PROVE Inv'
  <2>1. CoreInv'
    BY <1>1, <1>3, CoreStep
  <2>2. On' => On
    <3>1. Typed
      BY <1>3 DEF CoreInv
    <3> QED
      BY <1>1, <1>3, <3>1, OnStep
  <2>3. On => Good \/ Unwinds \/ Hopeless
    BY <1>3 DEF CoreInv
  <2>4. On => Bottom'
    BY <1>1, <1>3, <2>3, BottomStep
  <2>5. On => BlocksInv'
    <3> SUFFICES ASSUME On PROVE BlocksInv'
      OBVIOUS
    <3>1. Depth(pg) = 1 => ~InBlock
      BY <1>3 DEF Bottom
    <3> QED
      BY <1>1, <1>3, <3>1, BlocksStep
  <2> QED
    BY <2>1, <2>2, <2>4, <2>5
<1>4. ASSUME Inv, AbortReaches
      PROVE  \A r \in AllRows(pg)' : r <= Top.mark
  <2>1. InBlock /\ On /\ ctl.k = "throw"
    BY <1>4 DEF AbortReaches, CatchThrow
  <2>2. Typed /\ Marked /\ (Good \/ Unwinds \/ Hopeless) /\ ClientDepth \in Nat
    BY <1>1, <1>4, <2>1 DEF CoreInv, BlocksInv, BoundsAssumption
  <2>3. ~Unwinds
    BY <2>1 DEF Unwinds, Plain
  <2>4. Len(frames) \in 1..Len(frames) /\ Top = frames[Len(frames)]
    BY <2>1, <2>2, TopIs DEF Top
  <2>5. CASE Top.begin
    <3>1. Good
      BY <2>2, <2>3, <2>4, <2>5 DEF Hopeless
    <3> QED
      BY <1>4, <2>1, <2>2, <2>5, <3>1, AbortDiscardsOwn
  <2>6. CASE ~Top.begin
    <3>1. Top.name # NoName
      BY <2>2, <2>3, <2>4, <2>6 DEF Good, Hopeless, Levels
    <3> QED
      BY <1>4, <2>1, <2>2, <2>6, <3>1, AbortDiscardsNamed
  <2> QED
    BY <2>5, <2>6
<1> HIDE DEF Inv
<1>5. Inv /\ [Next]_vars => Inv'
  BY <1>3
<1>6. Inv /\ [Next]_vars => [AbortReaches => \A r \in AllRows(pg)' : r <= Top.mark]_vars
  BY <1>4
<1> QED
  BY <1>2, <1>5, <1>6, PTL DEF Spec, AbortDiscards

-----------------------------------------------------------------------------
(* _SPI_curid does not fall below where the call found it                   *)

(* The connection of the function is open, and _SPI_curid + 1 is at least  *)
(* n.                                                                      *)
AtLeast(p, n) ==
  p \in Pg /\ Depth(p) # 0 /\ First(p) /\ p.cur >= n

LEMMA ShrunkAtLeast ==
  ASSUME NEW n \in {0, 1}, NEW p, NEW q, AtLeast(p, n), Shrunk(q, p)
  PROVE  AtLeast(q, n)
<1>1. q \in Pg /\ Depth(q) # 0 /\ First(q) /\ Len(q.conn) \in Nat
  BY FieldFacts DEF AtLeast, Shrunk
<1>2. q.cur >= n
  <2>1. q.cur = p.cur \/ q.cur = Len(q.conn)
    BY DEF Shrunk, FewerConns
  <2> QED
    BY <1>1, <2>1 DEF AtLeast, First
<1> QED
  BY <1>1, <1>2 DEF AtLeast

(* SPI_finish between SPI_push and SPI_pop leaves the function its own     *)
(* connection.                                                             *)
LEMMA FinishAtLeast ==
  ASSUME NEW p, AtLeast(p, 1), SPI_usable(p)
  PROVE  AtLeast(SPI_finish(p), 1)
<1> DEFINE n == Len(p.conn) - 1
           q == SPI_finish(p)
<1>1. /\ p.conn \in Seq(Nat) /\ Len(p.conn) \in Nat /\ p.cur + 1 = Len(p.conn)
      /\ p.cur >= 1 /\ p.conn[1] = 1 /\ p.cur \in Int
  BY FieldFacts DEF AtLeast, SPI_usable, First
<1>2. n \in 0..Len(p.conn) /\ n > 0 /\ 1 \in 1..n
  BY <1>1
<1>3. q \in Pg /\ q.lvl = p.lvl /\ q.cur = p.cur /\ q.conn = SubSeq(p.conn, 1, n)
  BY FinishIs DEF AtLeast
<1> HIDE DEF n, q
<1>4. Len(q.conn) = n /\ q.conn[1] = p.conn[1]
  BY <1>1, <1>2, <1>3, PrefixFacts
<1> QED
  BY <1>1, <1>2, <1>3, <1>4 DEF AtLeast, First, Depth, q

LEMMA CurrentAtLeast ==
  ASSUME NEW p, AtLeast(p, 1), IsSubTransaction(p)
  PROVE  /\ AtLeast(ReleaseCurrentSubTransaction(p), 1)
         /\ AtLeast(RollbackAndReleaseCurrentSubTransaction(p), 1)
<1>1. p \in Pg /\ Depth(p) \in 2..Depth(p)
  BY FieldFacts DEF AtLeast, IsSubTransaction
<1>2. Shrunk(ReleaseFrom(p, Depth(p)), p) /\ Shrunk(AbortFrom(p, Depth(p)), p)
  BY <1>1, ReleaseIs, AbortIs
<1>3. 1 \in {0, 1}
  OBVIOUS
<1> QED
  BY <1>2, <1>3, ShrunkAtLeast
     DEF ReleaseCurrentSubTransaction, RollbackAndReleaseCurrentSubTransaction

(* The helpers of pltrans.c end no connection but those of blocks.         *)
LEMMA HelpersAtLeast ==
  ASSUME NEW p, AtLeast(p, 1), NEW f \in Frame,
         NEW r \in {InternCommit(p, f), InternAbort(p, f), InternError(p, f)}
  PROVE  AtLeast(r.pg, 1)
<1> DEFINE s == SPI_finish(p)
           c == ReleaseCurrentSubTransaction(s)
           a == RollbackAndReleaseCurrentSubTransaction(s)
           e == RollbackAndReleaseCurrentSubTransaction(p)
           cn == ReleaseSavepoint(p, f.name)
           an == RolledBack(p, f.name)
<1>1. p \in Pg /\ f.name \in Names /\ f.commit \in BOOLEAN /\ 1 \in {0, 1}
  BY DEF AtLeast, Frame
<1>2. SPI_usable(p) => AtLeast(s, 1)
  BY FinishAtLeast
<1>3. IsSubTransaction(p) => IsSubTransaction(s)
  BY <1>1, FinishIs DEF IsSubTransaction, Depth
<1> HIDE DEF s
<1>4. SPI_usable(p) /\ IsSubTransaction(p) => AtLeast(c, 1) /\ AtLeast(a, 1)
  BY <1>2, <1>3, CurrentAtLeast
<1>5. IsSubTransaction(p) => AtLeast(e, 1)
  BY CurrentAtLeast
<1>6. Named(p, f.name) # {} => AtLeast(cn, 1) /\ AtLeast(an, 1)
  <2> SUFFICES ASSUME Named(p, f.name) # {} PROVE AtLeast(cn, 1) /\ AtLeast(an, 1)
    OBVIOUS
  <2>1. Shrunk(cn, p) /\ Shrunk(an, p)
    BY <1>1, ReleasedIs, RolledBackIs DEF Closes
  <2> QED
    BY <1>1, <2>1, ShrunkAtLeast
<1> HIDE DEF c, a, e, cn, an
<1>7. ASSUME NEW q, SPI_usable(p) /\ IsSubTransaction(p) => AtLeast(q, 1)
      PROVE  AtLeast(EndInternal(p, f, q).pg, 1)
  BY <1>1, <1>2, <1>7 DEF EndInternal, Result, s
<1>8. ASSUME NEW q, Named(p, f.name) # {} => AtLeast(q, 1)
      PROVE  AtLeast(EndNamed(p, f, q).pg, 1)
  BY <1>8 DEF EndNamed, Result
<1>9. \/ r.pg = p
      \/ r = EndInternal(p, f, c) \/ r = EndInternal(p, f, a)
      \/ r = EndNamed(p, f, cn) \/ r = EndNamed(p, f, an)
      \/ IsSubTransaction(p) /\ r.pg = e
  BY DEF InternCommit, InternAbort, InternError, Result, RolledBack, s, c, a, e, cn, an
<1> QED
  BY <1>4, <1>5, <1>6, <1>7, <1>8, <1>9

(* The end of the block that did SPI_push.                                 *)
LEMMA PopAtLeast ==
  ASSUME NEW p, AtLeast(p, 1), NEW f \in Frame
  PROVE  AtLeast(PopOwn(p, f), 0)
<1>1. /\ PopOwn(p, f) \in Pg /\ PopOwn(p, f).lvl = p.lvl /\ PopOwn(p, f).conn = p.conn
      /\ PopOwn(p, f).cur = p.cur \/ PopOwn(p, f).cur = p.cur - 1
      /\ p.cur \in Int
  BY PopIs, FieldFacts DEF AtLeast
<1> QED
  BY <1>1 DEF AtLeast, First, Depth

LEMMA OwnEndsAtLeast ==
  ASSUME Typed, EndsBlock, AtLeast(pg, 1)
  PROVE  AtLeast(pg', 0)
<1>1. InBlock /\ Top \in Frame
  BY BlockEnds, TopIs
<1>2. ASSUME NEW p, AtLeast(p, 1), NEW f \in Frame, NEW c, NEW b,
             Leave(p, f, c, b)
      PROVE  AtLeast(pg', 0)
  <2> DEFINE isCatch == f.begin /\ b = "catch"
             r == IF f.commit THEN Result(p, f, "no")
                  ELSE IF isCatch THEN InternError(p, f)
                  ELSE InternAbort(p, f)
  <2>1. pg' = IF isCatch THEN r.pg ELSE PopOwn(r.pg, f)
    BY <1>2 DEF Leave
  <2>2. AtLeast(r.pg, 1)
    BY <1>2, HelpersAtLeast DEF Result
  <2> HIDE DEF r
  <2>3. AtLeast(PopOwn(r.pg, f), 0) /\ AtLeast(r.pg, 0)
    BY <1>2, <2>2, PopAtLeast, FieldFacts DEF AtLeast
  <2> QED
    BY <2>1, <2>3
<1>3. ASSUME NEW p, AtLeast(p, 1), NEW f \in Frame, Finish(p, f)
      PROVE  AtLeast(pg', 0)
  <2> DEFINE r == IF f.begin /\ ~f.commit THEN InternCommit(p, f)
                                          ELSE Result(p, f, "no")
  <2>1. pg' = PopOwn(r.pg, f)
    BY <1>3 DEF Finish
  <2>2. AtLeast(r.pg, 1)
    BY <1>3, HelpersAtLeast DEF Result
  <2> HIDE DEF r
  <2> QED
    BY <1>3, <2>1, <2>2, PopAtLeast
<1> DEFINE R == {InternCommit(pg, Top), InternAbort(pg, Top)}
<1>4. \A r \in R : AtLeast(r.pg, 1) /\ r.fr \in Frame
  BY <1>1, HelpersAtLeast, CommitEnds, AbortEnds DEF Ends, AtLeast
<1>5. \/ Leave(pg, Top, ctl, bang)
      \/ \E r \in R : Finish(r.pg, r.fr) \/ \E c, b : Leave(r.pg, r.fr, c, b)
  BY DEF EndsBlock, EndBlock, CatchThrow, LeaveBlock
<1> HIDE DEF R
<1> QED
  BY <1>1, <1>2, <1>3, <1>4, <1>5

-----------------------------------------------------------------------------
(* A call outside of any savepoint: only its first block has an SPI        *)
(* connection, and as long as that block is open _SPI_curid is not below   *)
(* where SPI_push put it.                                                  *)
Pushed == \E i \in 1..Len(frames) : frames[i].begin

CurInv ==
  /\ Typed
  /\ pg.cur >= 0
  /\ outcome = "running" => First(pg)
  /\ InBlock => Depth(pg) > 1
  /\ Depth(pg) > 1 => pg.lvl[2].name = NoName
  /\ \A i \in 1..Len(frames) :
       /\ frames[i].begin <=> frames[i].name = NoName
       /\ frames[i].begin => i = 1
  /\ Pushed => pg.cur >= 1

LEMMA ClosesSecond ==
  ASSUME NEW p \in Pg, NEW q, NEW name, Closes(q, p, name), name # NoName,
         p.lvl[2].name = NoName
  PROVE  Depth(q) > 1 /\ q.lvl[2].name = NoName
<1>1. /\ Depth(q) \in Nat /\ Depth(q) >= 1 /\ q \in Pg
      /\ p.lvl[Depth(q) + 1].name = name
      /\ \A i \in 1..Depth(q) : q.lvl[i].name = p.lvl[i].name
  BY FieldFacts DEF Closes, Shrunk
<1>2. Depth(q) # 1
  BY <1>1
<1> QED
  BY <1>1, <1>2

(* The innermost block ends.                                               *)
LEMMA CurEnds ==
  ASSUME CurInv, EndsBlock
  PROVE  /\ pg'.cur >= 0 /\ First(pg')
         /\ InBlock' => Depth(pg') > 1
         /\ Depth(pg') > 1 => pg'.lvl[2].name = NoName
         /\ Pushed' => pg'.cur >= 1
<1>1. /\ Typed /\ InBlock /\ First(pg) /\ pg \in Pg /\ Depth(pg) # 0
      /\ pg.cur >= 0 /\ Depth(pg) > 1 /\ pg.lvl[2].name = NoName
      /\ LevelsOf(pg', pg) /\ frames' = Outer
      /\ ~Top.begin /\ Top.name # NoName => pg' = pg \/ Closes(pg', pg, Top.name)
  BY BlockEnds DEF CurInv, Typed
<1>2. /\ Top \in Frame /\ Len(frames) \in Nat \ {0} /\ Top = frames[Len(frames)]
      /\ Len(frames') = Len(frames) - 1 /\ frames' \in Seq(Frame)
      /\ \A i \in 1..Len(frames') : frames'[i] = frames[i] /\ i \in 1..Len(frames)
  BY <1>1, TopIs DEF Top
<1>3. CASE Top.begin
  <2>1. Len(frames) = 1 /\ Pushed
    BY <1>2, <1>3 DEF CurInv, Pushed
  <2>2. AtLeast(pg, 1)
    BY <1>1, <2>1 DEF CurInv, AtLeast
  <2>3. AtLeast(pg', 0)
    BY <1>1, <2>2, OwnEndsAtLeast
  <2>4. ~InBlock' /\ ~Pushed'
    <3>1. Len(frames') = 0
      BY <1>2, <2>1
    <3>2. frames' = <<>>
      BY <1>2, <3>1
    <3> QED
      BY <3>1, <3>2 DEF InBlock, Pushed
  <2>5. Depth(pg') > 1 => pg'.lvl[2].name = NoName
    <3>1. /\ Depth(pg') \in Nat
          /\ \A i \in 1..Depth(pg') : pg'.lvl[i].name = pg.lvl[i].name
      BY <1>1, FieldFacts DEF LevelsOf
    <3>2. Depth(pg') > 1 => 2 \in 1..Depth(pg')
      BY <3>1
    <3> QED
      BY <1>1, <3>1, <3>2
  <2> QED
    BY <2>3, <2>4, <2>5 DEF AtLeast
<1>4. CASE ~Top.begin
  <2>1. Top.name # NoName
    BY <1>2, <1>4 DEF CurInv
  <2>2. CASE pg' = pg
    BY <1>1, <1>2, <2>2 DEF CurInv, Pushed
  <2>3. CASE Closes(pg', pg, Top.name)
    <3>1. Depth(pg') > 1 /\ pg'.lvl[2].name = NoName
      BY <1>1, <2>1, <2>3, ClosesSecond
    <3>2. Shrunk(pg', pg)
      BY <2>3 DEF Closes
    <3>3. AtLeast(pg', 0)
      BY <1>1, <3>2, ShrunkAtLeast DEF AtLeast
    <3>4. Pushed' => AtLeast(pg', 1)
      <4>1. Pushed' => Pushed
        BY <1>2 DEF Pushed
      <4>2. Pushed => AtLeast(pg, 1)
        BY <1>1 DEF CurInv, AtLeast
      <4> QED
        BY <3>2, <4>1, <4>2, ShrunkAtLeast
    <3> QED
      BY <3>1, <3>3, <3>4 DEF AtLeast
  <2> QED
    BY <1>1, <1>4, <2>1, <2>2, <2>3
<1> QED
  BY <1>2, <1>3, <1>4 DEF Frame

(* A block is entered.                                                     *)
LEMMA CurTransaction ==
  ASSUME CurInv, Transaction
  PROVE  /\ pg'.cur >= 0 /\ First(pg')
         /\ InBlock' => Depth(pg') > 1
         /\ Depth(pg') > 1 => pg'.lvl[2].name = NoName
         /\ \A i \in 1..Len(frames') :
              /\ frames'[i].begin <=> frames'[i].name = NoName
              /\ frames'[i].begin => i = 1
         /\ Pushed' => pg'.cur >= 1
<1>1. /\ Typed /\ pg \in Pg /\ Depth(pg) \in Nat /\ Depth(pg) # 0 /\ seq \in Nat
      /\ frames \in Seq(Frame) /\ pg.cur \in Int /\ pg.cur >= 0 /\ First(pg)
      /\ pg.conn \in Seq(Nat)
  BY TransactionIs, FieldFacts DEF CurInv, Typed
<1>2. PlName(seq) \in Names /\ PlName(seq) # NoName /\ NoName \in Names
  BY <1>1, NamesAre
<1>3. CASE interrupted /\ UNCHANGED <<pg, frames>>
  BY <1>1, <1>3 DEF CurInv, InBlock, Pushed
<1>4. CASE /\ IsSubTransaction(pg) /\ Grows(pg', pg, PlName(seq))
           /\ pg'.conn = pg.conn /\ pg'.cur = pg.cur
           /\ frames' = Append(frames, NewFrame(FALSE, PlName(seq)))
  <2> DEFINE f == NewFrame(FALSE, PlName(seq))
  <2>1. f \in Frame /\ ~f.begin /\ f.name # NoName
    BY <1>1, <1>2, NewFrameIs DEF NewFrame
  <2>2. frames' = Append(frames, f)
    BY <1>4
  <2> HIDE DEF f
  <2>3. /\ Len(frames') = Len(frames) + 1 /\ Len(frames) \in Nat
        /\ \A i \in 1..Len(frames) : frames'[i] = frames[i]
        /\ frames'[Len(frames) + 1] = f
    BY <1>1, <2>1, <2>2, PushFacts
  <2>4. \A i \in 1..Len(frames') :
          (i \in 1..Len(frames) /\ frames'[i] = frames[i]) \/ frames'[i] = f
    BY <2>3
  <2>5. Depth(pg') = Depth(pg) + 1 /\ 2 \in 1..Depth(pg) /\ Depth(pg) > 1
        /\ pg'.lvl[2].name = pg.lvl[2].name
    BY <1>1, <1>4 DEF Grows, IsSubTransaction
  <2>6. Pushed' => Pushed
    BY <2>1, <2>4 DEF Pushed
  <2>7. /\ Depth(pg') > 1 /\ pg'.lvl[2].name = NoName /\ First(pg')
    BY <1>1, <1>4, <2>5 DEF CurInv, First
  <2>8. \A i \in 1..Len(frames') :
              /\ frames'[i].begin <=> frames'[i].name = NoName
              /\ frames'[i].begin => i = 1
    BY <2>1, <2>4 DEF CurInv
  <2> QED
    BY <1>1, <1>4, <2>6, <2>7, <2>8 DEF CurInv
<1>5. CASE /\ ~IsSubTransaction(pg) /\ Grows(pg', pg, NoName) /\ pg'.cur = pg.cur + 1
           /\ \/ /\ pg'.conn = Append(pg.conn, Depth(pg) + 1)
                 /\ frames' = Append(frames, NewFrame(TRUE, NoName))
              \/ pg'.conn = pg.conn /\ UNCHANGED frames
  <2>1. Depth(pg) = 1 /\ frames = <<>> /\ Len(frames) = 0
    BY <1>1, <1>5 DEF IsSubTransaction, CurInv, InBlock
  <2>2. Depth(pg') = 2 /\ pg'.lvl[2].name = NoName
    BY <1>5, <2>1 DEF Grows
  <2>3. First(pg')
    <3> DEFINE d == Depth(pg) + 1
    <3>1. d \in Nat
      BY <1>1
    <3> HIDE DEF d
    <3>2. LET t == Append(pg.conn, d) IN Len(t) > 0 /\ t[1] = 1
      BY <1>1, <3>1, PushFacts DEF First
    <3>3. pg'.conn = Append(pg.conn, d) \/ pg'.conn = pg.conn
      BY <1>5 DEF d
    <3> QED
      BY <1>1, <3>2, <3>3 DEF First
  <2>4. pg'.cur >= 1 /\ pg'.cur >= 0
    BY <1>1, <1>5
  <2>5. \A i \in 1..Len(frames') :
              /\ frames'[i].begin <=> frames'[i].name = NoName
              /\ frames'[i].begin => i = 1
    <3> DEFINE f == NewFrame(TRUE, NoName)
    <3>1. f \in Frame /\ f.begin /\ f.name = NoName
      BY <1>1, <1>2, NewFrameIs DEF NewFrame
    <3>2. frames' = Append(frames, f) \/ frames' = frames
      BY <1>5
    <3> HIDE DEF f
    <3>3. CASE frames' = frames
      BY <2>1, <3>3
    <3>4. CASE frames' = Append(frames, f)
      <4>1. Len(frames') = 1 /\ frames'[1] = f
        BY <1>1, <2>1, <3>1, <3>4
      <4> QED
        BY <3>1, <4>1
    <3> QED
      BY <3>2, <3>3, <3>4
  <2> QED
    BY <2>2, <2>3, <2>4, <2>5
<1> QED
  BY <1>3, <1>4, <1>5, <1>1, TransactionIs

LEMMA CurInvStep == ProgramAssumption /\ CurInv /\ [Next]_vars => CurInv'
<1> SUFFICES ASSUME ProgramAssumption, CurInv, [Next]_vars PROVE CurInv'
  OBVIOUS
<1>1. /\ Typed /\ pg \in Pg /\ Depth(pg) \in Nat /\ Depth(pg) # 0 /\ Typed'
      /\ frames \in Seq(Frame) /\ pg.cur \in Int /\ pg.cur >= 0
      /\ ProgramAssumption
  BY TypedStep, FieldFacts DEF CurInv, Typed
<1>2. ASSUME UNCHANGED frames, pg'.cur >= pg.cur, pg' \in Pg,
             outcome' = "running" => First(pg'),
             Depth(pg') >= Depth(pg) \/ Depth(pg') > 1,
             Depth(pg') > 1 => pg'.lvl[2].name = NoName
      PROVE  CurInv'
  <2>1. pg'.cur \in Int /\ Depth(pg') \in Nat
    BY <1>2, FieldFacts
  <2>2. pg'.cur >= 0 /\ (pg.cur >= 1 => pg'.cur >= 1)
    BY <1>1, <1>2, <2>1
  <2>3. InBlock' => Depth(pg') > 1
    BY <1>1, <1>2, <2>1 DEF CurInv, InBlock
  <2>4. Pushed' => pg'.cur >= 1
    BY <1>2, <2>2 DEF CurInv, Pushed
  <2> QED
    BY <1>1, <1>2, <2>2, <2>3, <2>4 DEF CurInv
<1>3. CASE EndsBlock
  <2>1. frames' = Outer /\ InBlock
    BY <1>1, <1>3, BlockEnds
  <2>2. \A i \in 1..Len(frames') : i \in 1..Len(frames) /\ frames'[i] = frames[i]
    BY <1>1, <2>1, TopIs
  <2>3. \A i \in 1..Len(frames') :
              /\ frames'[i].begin <=> frames'[i].name = NoName
              /\ frames'[i].begin => i = 1
    BY <2>2 DEF CurInv
  <2> QED
    BY <1>1, <1>3, <2>3, CurEnds DEF CurInv
<1>4. CASE Transaction
  BY <1>1, <1>4, CurTransaction DEF CurInv
<1>5. CASE Exec
  <2>1. /\ UNCHANGED frames /\ pg' \in Pg /\ pg'.conn = pg.conn
        /\ pg'.cur = pg.cur \/ pg'.cur = pg.cur + 1
        /\ Depth(pg') = Depth(pg) /\ outcome = "running"
        /\ \A i \in 1..Depth(pg) : pg'.lvl[i].name = pg.lvl[i].name
    BY <1>1, <1>5, ExecIs
  <2>2. Depth(pg') > 1 => pg'.lvl[2].name = NoName
    BY <1>1, <2>1 DEF CurInv
  <2> QED
    BY <1>1, <1>2, <2>1, <2>2 DEF CurInv, First
<1>6. CASE Quiet
  BY <1>1, <1>2, <1>6, QuietIs DEF CurInv
<1>7. CASE PrepareFails
  <2>1. /\ UNCHANGED frames /\ pg' \in Pg /\ pg'.conn = pg.conn
        /\ pg'.cur = pg.cur + 1
        /\ Depth(pg') = Depth(pg) /\ outcome = "running" /\ pg'.lvl = pg.lvl
    BY <1>1, <1>7, PrepareIs DEF Depth
  <2> QED
    BY <1>1, <1>2, <2>1 DEF CurInv, First
<1>8. CASE Savepoint \/ ReleaseUser \/ RollbackUser
  <2>1. outcome = "running" /\ UNCHANGED frames /\ First(pg)
    BY <1>1, <1>8, SavepointsAre DEF CurInv
  <2>2. pg' = pg \/ Depth(pg) > 1
    BY <1>8 DEF Savepoint, ReleaseUser, RollbackUser, OnSavepoint, IsSubTransaction
  <2>3. PICK n \in Nat :
          \/ pg' = pg
          \/ Closes(pg', pg, UserName(n))
          \/ Grows(pg', pg, UserName(n)) /\ pg'.conn = pg.conn /\ pg'.cur = pg.cur
    BY <1>1, <1>8, SavepointsAre DEF ProgramAssumption
  <2>4. CASE pg' = pg
    BY <1>1, <1>2, <2>1, <2>4 DEF CurInv
  <2>5. CASE Closes(pg', pg, UserName(n)) /\ Depth(pg) > 1
    <3>1. Depth(pg') > 1 /\ pg'.lvl[2].name = NoName
      BY <1>1, <2>5, ClosesSecond, NamesAre DEF CurInv
    <3>2. Shrunk(pg', pg)
      BY <2>5 DEF Closes
    <3>3. AtLeast(pg', 0)
      BY <1>1, <2>1, <3>2, ShrunkAtLeast DEF AtLeast
    <3>4. Pushed' => AtLeast(pg', 1)
      <4>1. Pushed => AtLeast(pg, 1)
        BY <1>1, <2>1 DEF CurInv, AtLeast
      <4> QED
        BY <2>1, <3>2, <4>1, ShrunkAtLeast DEF Pushed
    <3> QED
      BY <1>1, <2>1, <3>1, <3>3, <3>4 DEF CurInv, AtLeast
  <2>6. CASE /\ Grows(pg', pg, UserName(n)) /\ pg'.conn = pg.conn /\ pg'.cur = pg.cur
             /\ Depth(pg) > 1
    <3>1. /\ Depth(pg') = Depth(pg) + 1 /\ 2 \in 1..Depth(pg) /\ pg' \in Pg
          /\ pg'.lvl[2].name = pg.lvl[2].name
      BY <1>1, <2>6 DEF Grows
    <3>2. Depth(pg') > 1 /\ pg'.lvl[2].name = NoName /\ First(pg')
      BY <1>1, <2>1, <2>6, <3>1 DEF CurInv, First
    <3> QED
      BY <1>1, <1>2, <2>1, <2>6, <3>1, <3>2
  <2> QED
    BY <2>2, <2>3, <2>4, <2>5, <2>6
<1>9. CASE Return
  <2>1. /\ UNCHANGED frames /\ pg' \in Pg /\ pg'.lvl = pg.lvl /\ Depth(pg') = Depth(pg)
        /\ pg'.cur = pg.cur /\ (outcome' = "running" => pg' = pg)
        /\ outcome = "running" /\ outcome' # "running"
    BY <1>1, <1>9, ReturnIs DEF Depth
  <2> QED
    BY <1>1, <1>2, <2>1 DEF CurInv
<1>10. CASE UNCHANGED vars
  BY <1>1, <1>2, <1>10 DEF vars, CurInv
<1> QED
  BY <1>3, <1>4, <1>5, <1>6, <1>7, <1>8, <1>9, <1>10 DEF Next, EndsBlock, Quiet

LEMMA CurInit == BoundsAssumption /\ ClientDepth = 0 /\ Init => CurInv
<1> SUFFICES ASSUME BoundsAssumption, ClientDepth = 0, Init PROVE CurInv
  OBVIOUS
<1>1. Typed
  BY InitTyped
<1>2. pg.cur = 0 /\ pg.conn = <<1>> /\ frames = <<>> /\ Len(frames) = 0
  BY DEF Init
<1>3. Depth(pg) = 1
  <2> DEFINE l == [i \in 1..1 |-> [name |-> IF i = 1 THEN NoName ELSE ClientName, rows |-> {}]]
  <2>1. pg.lvl = l
    BY DEF Init
  <2>2. Len(l) = 1
    OBVIOUS
  <2> QED
    BY <2>1, <2>2 DEF Depth
<1>4. First(pg)
  BY <1>2 DEF First
<1> QED
  BY <1>1, <1>2, <1>3, <1>4 DEF CurInv, InBlock, Pushed

(* Inside a savepoint of the client no block is pushed.                    *)
LEMMA CurStepInSavepoint ==
  ASSUME BoundsAssumption, ProgramAssumption, ClientDepth > 0, HalfInv, pg.cur >= 0,
         [Next]_vars
  PROVE  pg'.cur >= 0
<1>1. /\ Typed /\ pg \in Pg /\ pg.cur \in Int /\ OwnNames /\ Depth(pg) # 1
      /\ frames \in Seq(Frame) /\ ClientDepth \in Nat
  BY FieldFacts DEF HalfInv, Kept, Typed, BoundsAssumption
<1>2. ASSUME NEW name, Closes(pg', pg, name) PROVE pg'.cur >= 0
  BY <1>2, FieldFacts DEF Closes, Shrunk, FewerConns
<1>3. CASE EndsBlock
  <2>1. /\ InBlock
        /\ ~Top.begin /\ Top.name # NoName => pg' = pg \/ Closes(pg', pg, Top.name)
    BY <1>1, <1>3, BlockEnds
  <2>2. Len(frames) \in 1..Len(frames) /\ Top = frames[Len(frames)]
    BY <1>1, <2>1, TopIs DEF Top
  <2> QED
    BY <1>1, <1>2, <2>1, <2>2 DEF OwnNames
<1>4. CASE Transaction
  <2>1. pg' = pg \/ pg'.cur = pg.cur \/ pg'.cur = pg.cur + 1
    BY <1>1, <1>4, TransactionIs
  <2> QED
    BY <1>1, <2>1
<1>5. CASE Exec \/ PrepareFails
  <2>1. pg' = pg \/ pg'.cur = pg.cur \/ pg'.cur = pg.cur + 1
    BY <1>1, <1>5, ExecIs, PrepareIs
  <2> QED
    BY <1>1, <2>1
<1>6. CASE Quiet \/ Return
  <2>1. pg' = pg \/ pg'.cur = pg.cur
    BY <1>1, <1>6, QuietIs, ReturnIs
  <2> QED
    BY <1>1, <2>1
<1>7. CASE Savepoint \/ ReleaseUser \/ RollbackUser
  BY <1>1, <1>2, <1>7, SavepointsAre
<1>8. CASE UNCHANGED vars
  BY <1>8 DEF vars
<1> QED
  BY <1>3, <1>4, <1>5, <1>6, <1>7, <1>8 DEF Next, EndsBlock, Quiet

(* What the interpreter does, and how the call ends.                       *)
Controls ==
  [k : {"run", "throw", "break", "return"} \cup Exceptions,
   commit : BOOLEAN, txn : Nat]

ControlTyped == ctl \in Controls /\ outcome \in {"running", "ok", "failed"}

LEMMA PlainIs ==
  /\ Running \in Controls
  /\ \A k \in {"run", "break", "return"} \cup Exceptions : Plain(k) \in Controls
  /\ \A c \in BOOLEAN, t \in Nat : Throwing(c, t) \in Controls
BY DEF Running, Plain, Throwing, Controls

LEMMA LeaveControl ==
  ASSUME NEW p \in Pg, Depth(p) # 0, NEW f \in Frame, NEW c \in Controls, NEW b,
         Leave(p, f, c, b)
  PROVE  ctl' \in Controls
<1> DEFINE isCatch == f.begin /\ b = "catch"
           r == IF f.commit THEN Result(p, f, "no")
                ELSE IF isCatch THEN InternError(p, f)
                ELSE InternAbort(p, f)
<1>1. ctl' = Running \/ ctl' = c \/ (r.exc # "no" /\ ctl' = Plain(r.exc))
  BY DEF Leave
<1>2. r.exc \in {"no", "catch", "error"}
  BY ErrorEnds, AbortEnds DEF Ends, Result
<1> HIDE DEF r
<1> QED
  BY <1>1, <1>2, PlainIs DEF Exceptions

LEMMA ControlStep ==
  ASSUME ProgramAssumption, Typed, ControlTyped, [Next]_vars
  PROVE  ControlTyped'
<1>1. /\ ctl \in Controls /\ pg \in Pg /\ Depth(pg) # 0 /\ txns \in Nat
      /\ outcome \in {"running", "ok", "failed"}
  BY DEF Typed, ControlTyped
<1>2. \A k \in Exceptions : Raise(k) => ctl' \in Controls
  BY PlainIs DEF Raise
<1>3. "error" \in Exceptions /\ "catch" \in Exceptions
  BY DEF Exceptions
<1>4. CASE EndsBlock
  <2>1. InBlock /\ Top \in Frame /\ UNCHANGED outcome
    BY <1>4, BlockEnds, TopIs
  <2> DEFINE R == {InternCommit(pg, Top), InternAbort(pg, Top)}
  <2>2. \A r \in R :
          /\ r.pg \in Pg /\ Depth(r.pg) # 0 /\ r.fr \in Frame
          /\ r.exc \in {"no", "catch", "error"}
    BY <1>1, <2>1, CommitEnds, AbortEnds, FieldFacts DEF Ends, LevelsOf
  <2>3. \/ Leave(pg, Top, ctl, bang)
        \/ \E r \in R :
             \/ Finish(r.pg, r.fr)
             \/ r.exc # "no" /\ Leave(r.pg, r.fr, Plain(r.exc), r.exc)
             \/ Leave(r.pg, r.fr, Plain("error"), "error")
             \/ Leave(r.pg, r.fr, ctl, bang)
    BY <1>4 DEF EndsBlock, EndBlock, CatchThrow, LeaveBlock
  <2> HIDE DEF R
  <2>4. ctl' \in Controls
    <3>1. CASE Leave(pg, Top, ctl, bang)
      BY <1>1, <2>1, <3>1, LeaveControl
    <3>2. ASSUME NEW r \in R, Finish(r.pg, r.fr)
          PROVE  ctl' \in Controls
      BY <3>2, PlainIs DEF Finish
    <3>3. ASSUME NEW r \in R, r.exc # "no", Leave(r.pg, r.fr, Plain(r.exc), r.exc)
          PROVE  ctl' \in Controls
      <4>1. Plain(r.exc) \in Controls
        BY <2>2, <3>3, PlainIs DEF Exceptions
      <4> QED
        BY <2>2, <3>3, <4>1, LeaveControl
    <3>4. ASSUME NEW r \in R, Leave(r.pg, r.fr, Plain("error"), "error")
          PROVE  ctl' \in Controls
      <4>1. Plain("error") \in Controls
        BY <1>3, PlainIs
      <4> QED
        BY <2>2, <3>4, <4>1, LeaveControl
    <3>5. ASSUME NEW r \in R, Leave(r.pg, r.fr, ctl, bang)
          PROVE  ctl' \in Controls
      BY <1>1, <2>2, <3>5, LeaveControl
    <3> QED
      BY <2>3, <3>1, <3>2, <3>3, <3>4, <3>5
  <2> QED
    BY <1>1, <2>1, <2>4 DEF ControlTyped
<1>5. CASE Transaction
  BY <1>1, <1>2, <1>3, <1>5 DEF Transaction, ControlTyped
<1>6. CASE Exec \/ PrepareFails
  BY <1>1, <1>2, <1>3, <1>6 DEF Exec, PrepareFails, UnchangedByBlocks, ControlTyped
<1>7. CASE Savepoint \/ ReleaseUser \/ RollbackUser
  BY <1>1, <1>2, <1>3, <1>7
     DEF Savepoint, ReleaseUser, RollbackUser, OnSavepoint, UnchangedByBlocks, ControlTyped
<1>8. CASE Commit \/ Abort
  <2>1. PICK c \in BOOLEAN : ThrowAtCatch(c)
    BY <1>8 DEF Commit, Abort
  <2>2. PICK t \in 1..txns : ctl' = Throwing(c, t) \/ Raise("error")
    BY <2>1 DEF ThrowAtCatch
  <2>3. UNCHANGED outcome
    BY <2>1 DEF ThrowAtCatch, UnchangedByBlocks
  <2> QED
    BY <1>1, <1>2, <1>3, <2>2, <2>3, PlainIs DEF ControlTyped
<1>9. CASE BreakOrReturn \/ Rescue
  BY <1>1, <1>9, PlainIs DEF BreakOrReturn, Rescue, UnchangedByBlocks, ControlTyped
<1>10. CASE ConversionFails \/ RaiseError \/ TimerRaises
  BY <1>1, <1>2, <1>3, <1>10
     DEF ConversionFails, RaiseError, TimerRaises, UnchangedByBlocks, ControlTyped
<1>11. CASE EndRescue \/ TimeIsOver \/ Fail \/ Return
  BY <1>1, <1>11 DEF EndRescue, TimeIsOver, Fail, Return, UnchangedByBlocks, ControlTyped
<1>12. CASE UNCHANGED vars
  BY <1>1, <1>12 DEF vars, ControlTyped
<1> QED
  BY <1>4, <1>5, <1>6, <1>7, <1>8, <1>9, <1>10, <1>11, <1>12 DEF Next, EndsBlock

(* The backend stacks and the activations of pl_transaction keep their     *)
(* shape in every program, at every depth: in particular no SPI_pop of a   *)
(* block takes _SPI_curid below where the call found it.                   *)
THEOREM TypeCorrect == Spec => []TypeOK
<1> DEFINE Inv == /\ Typed /\ ControlTyped /\ pg.cur >= 0
                  /\ ClientDepth = 0 => CurInv
                  /\ ClientDepth > 0 => HalfInv
<1>1. BoundsAssumption /\ ProgramAssumption
  BY BoundsAssumption, ProgramAssumption
<1>2. ClientDepth = 0 \/ ClientDepth > 0
  BY <1>1 DEF BoundsAssumption
<1>3. Init => Inv
  <2> SUFFICES ASSUME Init PROVE Inv
    OBVIOUS
  <2>1. ControlTyped /\ pg.cur = 0
    BY PlainIs DEF Init, ControlTyped
  <2> QED
    BY <1>1, <2>1, InitTyped, CurInit, HalfInit
<1>4. ASSUME Inv, [Next]_vars PROVE Inv'
  <2>1. Typed' /\ ControlTyped'
    BY <1>1, <1>4, TypedStep, ControlStep
  <2>2. CASE ClientDepth = 0
    <3>1. CurInv'
      BY <1>1, <1>4, <2>2, CurInvStep
    <3>2. ~(ClientDepth > 0)
      BY <2>2
    <3> QED
      BY <2>1, <2>2, <3>1, <3>2 DEF CurInv
  <2>3. CASE ClientDepth > 0
    <3>1. HalfInv' /\ pg'.cur >= 0
      BY <1>1, <1>4, <2>3, HalfInvStep, CurStepInSavepoint
    <3>2. ~(ClientDepth = 0)
      BY <2>3
    <3> QED
      BY <2>1, <2>3, <3>1, <3>2
  <2> QED
    BY <1>2, <2>2, <2>3
<1>5. Inv => TypeOK
  <2> SUFFICES ASSUME Inv PROVE TypeOK
    OBVIOUS
  <2>1. pg \in [lvl : Seq(Level), conn : Seq(Nat), cur : Nat]
    <3>1. pg.cur \in Nat
      BY FieldFacts DEF Typed
    <3> QED
      BY <3>1 DEF Typed, Pg
  <2>2. bad \in SUBSET Nat
    BY DEF Typed
  <2> QED
    BY <2>1, <2>2 DEF Typed, ControlTyped, Controls, Bang, TypeOK
<1> HIDE DEF Inv
<1>6. Inv /\ [Next]_vars => Inv'
  BY <1>4
<1> QED
  BY <1>3, <1>5, <1>6, PTL DEF Spec

-----------------------------------------------------------------------------
(* The levels as blocks                                                    *)

(* The top level went into the one under it.                               *)
Merged(q, p) ==
  /\ Depth(q) = Depth(p) - 1 /\ Beneath(q, p)
  /\ q.lvl[Depth(q)].rows = p.lvl[Depth(q)].rows \cup p.lvl[Depth(p)].rows

(* The top level is gone.                                                  *)
Dropped(q, p) ==
  Depth(q) = Depth(p) - 1 /\ \A k \in 1..Depth(q) : q.lvl[k] = p.lvl[k]

(* BlockRows of any state of the backend.                                  *)
RowsOf(p, i) ==
  IF i = 1 THEN UNION {p.lvl[j].rows : j \in 1..(ClientDepth + 1)}
           ELSE p.lvl[ClientDepth + i].rows

Blocks(p) == [i \in 1..(Depth(p) - ClientDepth) |-> RowsOf(p, i)]

LEMMA SameSeq ==
  ASSUME NEW P, NEW s \in Seq(P), NEW t \in Seq(P), Len(s) = Len(t),
         \A i \in 1..Len(s) : s[i] = t[i]
  PROVE  s = t
OBVIOUS

LEMMA OneRowsMore ==
  ASSUME NEW I, NEW k \in I, NEW p, NEW q, NEW X,
         \A j \in I : j # k => q.lvl[j].rows = p.lvl[j].rows,
         q.lvl[k].rows = p.lvl[k].rows \cup X
  PROVE  UNION {q.lvl[j].rows : j \in I} = (UNION {p.lvl[j].rows : j \in I}) \cup X
<1> DEFINE Q == UNION {q.lvl[j].rows : j \in I}
           P == UNION {p.lvl[j].rows : j \in I}
<1>1. ASSUME NEW x PROVE x \in Q <=> x \in P \/ x \in X
  <2>1. x \in Q <=> \E j \in I : x \in q.lvl[j].rows
    OBVIOUS
  <2>2. x \in P <=> \E j \in I : x \in p.lvl[j].rows
    OBVIOUS
  <2>3. x \in q.lvl[k].rows <=> x \in p.lvl[k].rows \/ x \in X
    OBVIOUS
  <2> HIDE DEF Q, P
  <2> QED
    BY <2>1, <2>2, <2>3
<1> HIDE DEF Q, P
<1>2. Q = P \cup X
  BY <1>1
<1> QED
  BY <1>2 DEF Q, P

LEMMA BlocksAre ==
  ASSUME ClientDepth \in Nat, NEW p \in Pg, NEW n \in Nat,
         Depth(p) = ClientDepth + 1 + n
  PROVE  /\ Blocks(p) \in Seq(SUBSET Nat) /\ Len(Blocks(p)) = n + 1
         /\ \A i \in 1..(n + 1) : Blocks(p)[i] = RowsOf(p, i)
<1>1. Depth(p) - ClientDepth = n + 1
  OBVIOUS
<1>2. \A i \in 1..(n + 1) : RowsOf(p, i) \in SUBSET Nat
  <2>1. \A j \in 1..Depth(p) : p.lvl[j].rows \subseteq Nat
    BY FieldFacts
  <2>2. /\ \A j \in 1..(ClientDepth + 1) : j \in 1..Depth(p)
        /\ \A i \in 1..(n + 1) : ClientDepth + i \in 1..Depth(p)
    OBVIOUS
  <2> QED
    BY <2>1, <2>2 DEF RowsOf
<1>3. Blocks(p) = [i \in 1..(n + 1) |-> RowsOf(p, i)]
  BY <1>1 DEF Blocks
<1> QED
  BY <1>2, <1>3

LEMMA BlocksSame ==
  ASSUME NEW p, NEW q, q.lvl = p.lvl
  PROVE  Blocks(q) = Blocks(p)
BY DEF Blocks, RowsOf, Depth

LEMMA BlocksPushed ==
  ASSUME ClientDepth \in Nat, NEW p \in Pg, NEW n \in Nat,
         Depth(p) = ClientDepth + 1 + n, NEW q, NEW name, Grows(q, p, name)
  PROVE  Blocks(q) = Append(Blocks(p), {})
<1>1. /\ q \in Pg /\ Depth(q) = ClientDepth + 1 + (n + 1) /\ Beneath(q, p)
      /\ q.lvl[Depth(q)].rows = {}
  BY DEF Grows
<1>2. /\ Blocks(p) \in Seq(SUBSET Nat) /\ Len(Blocks(p)) = n + 1
      /\ \A i \in 1..(n + 1) : Blocks(p)[i] = RowsOf(p, i)
  BY BlocksAre
<1>3. /\ Blocks(q) \in Seq(SUBSET Nat) /\ Len(Blocks(q)) = n + 2
      /\ \A i \in 1..(n + 2) : Blocks(q)[i] = RowsOf(q, i)
  <2>1. n + 1 \in Nat /\ (n + 1) + 1 = n + 2
    OBVIOUS
  <2> QED
    BY <1>1, <2>1, BlocksAre
<1>4. RowsOf(q, n + 2) = {}
  BY <1>1 DEF RowsOf
<1>5. \A i \in 1..(n + 1) : RowsOf(q, i) = RowsOf(p, i)
  <2>1. \A k \in 1..(ClientDepth + 1 + n) : q.lvl[k] = p.lvl[k]
    BY <1>1 DEF Beneath
  <2>2. /\ \A j \in 1..(ClientDepth + 1) : j \in 1..(ClientDepth + 1 + n)
        /\ \A i \in 1..(n + 1) : ClientDepth + i \in 1..(ClientDepth + 1 + n)
    OBVIOUS
  <2> QED
    BY <2>1, <2>2 DEF RowsOf
<1> DEFINE s == Blocks(p)
           t == Append(s, {})
<1>6. /\ t \in Seq(SUBSET Nat) /\ Len(t) = n + 2
      /\ \A i \in 1..(n + 1) : t[i] = RowsOf(p, i)
      /\ t[n + 2] = {}
  <2> HIDE DEF s
  <2>1. s \in Seq(SUBSET Nat) /\ {} \in SUBSET Nat /\ Len(s) = n + 1
        /\ \A i \in 1..(n + 1) : s[i] = RowsOf(p, i)
    BY <1>2 DEF s
  <2>2. /\ t \in Seq(SUBSET Nat) /\ Len(t) = Len(s) + 1
        /\ \A i \in 1..Len(s) : t[i] = s[i] /\ t[Len(s) + 1] = {}
    BY <2>1, PushFacts
  <2>3. (n + 1) + 1 = n + 2 /\ 1 \in 1..(n + 1)
    OBVIOUS
  <2> QED
    BY <2>1, <2>2, <2>3
<1> HIDE DEF s, t
<1>7. \A i \in 1..(n + 2) : i \in 1..(n + 1) \/ i = n + 2
  OBVIOUS
<1>8. \A i \in 1..(n + 2) : Blocks(q)[i] = t[i]
  BY <1>3, <1>4, <1>5, <1>6, <1>7
<1> QED
  BY <1>3, <1>6, <1>8, SameSeq DEF s, t

LEMMA BlocksWritten ==
  ASSUME ClientDepth \in Nat, NEW p \in Pg, NEW n \in Nat,
         Depth(p) = ClientDepth + 1 + n, NEW q \in Pg, NEW r \in Nat,
         Depth(q) = Depth(p), Beneath(q, p),
         q.lvl[Depth(p)].rows = p.lvl[Depth(p)].rows \cup {r}
  PROVE  Blocks(q) = [Blocks(p) EXCEPT ![n + 1] = @ \cup {r}]
<1>1. /\ Blocks(p) \in Seq(SUBSET Nat) /\ Len(Blocks(p)) = n + 1
      /\ \A i \in 1..(n + 1) : Blocks(p)[i] = RowsOf(p, i)
  BY BlocksAre
<1>2. /\ Blocks(q) \in Seq(SUBSET Nat) /\ Len(Blocks(q)) = n + 1
      /\ \A i \in 1..(n + 1) : Blocks(q)[i] = RowsOf(q, i)
  BY BlocksAre
<1>3. \A k \in 1..(ClientDepth + n) : q.lvl[k] = p.lvl[k]
  BY DEF Beneath
<1>4. \A i \in 1..n : RowsOf(q, i) = RowsOf(p, i)
  <2>1. /\ \A i \in 1..n : \A j \in 1..(ClientDepth + 1) : j \in 1..(ClientDepth + n)
        /\ \A i \in 1..n : ClientDepth + i \in 1..(ClientDepth + n)
    OBVIOUS
  <2> QED
    BY <1>3, <2>1 DEF RowsOf
<1>5. RowsOf(q, n + 1) = RowsOf(p, n + 1) \cup {r}
  <2>1. CASE n = 0
    <3> DEFINE I == 1..(ClientDepth + 1)
    <3>1. /\ \A j \in I : j # Depth(p) => j \in 1..(ClientDepth + n)
          /\ Depth(p) \in I /\ n + 1 = 1
      BY <2>1
    <3>2. UNION {q.lvl[j].rows : j \in I} = (UNION {p.lvl[j].rows : j \in I}) \cup {r}
      <4> DEFINE d == Depth(p)
      <4>1. /\ d \in I /\ q.lvl[d].rows = p.lvl[d].rows \cup {r}
            /\ \A j \in I : j # d => q.lvl[j].rows = p.lvl[j].rows
        BY <1>3, <3>1
      <4> HIDE DEF I, d
      <4> QED
        BY <4>1, OneRowsMore
    <3> QED
      BY <3>1, <3>2 DEF RowsOf
  <2>2. CASE n # 0
    <3>1. n + 1 # 1 /\ ClientDepth + (n + 1) = Depth(p)
      BY <2>2
    <3> QED
      BY <3>1 DEF RowsOf
  <2> QED
    BY <2>1, <2>2
<1> DEFINE s == Blocks(p)
           x == s[n + 1] \cup {r}
           t == [s EXCEPT ![n + 1] = x]
<1>6. x \in SUBSET Nat /\ n + 1 \in 1..(n + 1) /\ x = RowsOf(q, n + 1)
  BY <1>1, <1>5
<1> HIDE DEF x, s
<1>7. /\ t \in Seq(SUBSET Nat) /\ Len(t) = n + 1 /\ t[n + 1] = x
      /\ \A i \in 1..(n + 1) : i # n + 1 => t[i] = s[i]
  BY <1>1, <1>6 DEF s
<1> HIDE DEF t
<1>8. \A i \in 1..(n + 1) : i # n + 1 => i \in 1..n
  OBVIOUS
<1>9. \A i \in 1..(n + 1) : Blocks(q)[i] = t[i]
  BY <1>1, <1>2, <1>4, <1>6, <1>7, <1>8 DEF s
<1> QED
  BY <1>2, <1>7, <1>9, SameSeq DEF t, x, s

LEMMA BlocksDropped ==
  ASSUME ClientDepth \in Nat, NEW p \in Pg, NEW n \in Nat \ {0},
         Depth(p) = ClientDepth + 1 + n, NEW q \in Pg, Dropped(q, p)
  PROVE  Blocks(q) = SubSeq(Blocks(p), 1, n)
<1>1. /\ Blocks(p) \in Seq(SUBSET Nat) /\ Len(Blocks(p)) = n + 1
      /\ \A i \in 1..(n + 1) : Blocks(p)[i] = RowsOf(p, i)
  BY BlocksAre
<1>2. Depth(q) = ClientDepth + n /\ \A k \in 1..(ClientDepth + n) : q.lvl[k] = p.lvl[k]
  BY DEF Dropped
<1>3. /\ Blocks(q) \in Seq(SUBSET Nat) /\ Len(Blocks(q)) = n
      /\ \A i \in 1..n : Blocks(q)[i] = RowsOf(q, i)
  <2>1. n - 1 \in Nat /\ ClientDepth + n = ClientDepth + 1 + (n - 1) /\ (n - 1) + 1 = n
    OBVIOUS
  <2> DEFINE m == n - 1
  <2>2. m \in Nat /\ Depth(q) = ClientDepth + 1 + m /\ m + 1 = n
    BY <1>2, <2>1
  <2> HIDE DEF m
  <2> QED
    BY <2>2, BlocksAre
<1>4. \A i \in 1..n : RowsOf(q, i) = RowsOf(p, i)
  <2>1. /\ \A j \in 1..(ClientDepth + 1) : j \in 1..(ClientDepth + n)
        /\ \A i \in 1..n : ClientDepth + i \in 1..(ClientDepth + n)
    OBVIOUS
  <2> QED
    BY <1>2, <2>1 DEF RowsOf
<1> DEFINE s == Blocks(p)
           t == SubSeq(s, 1, n)
<1> HIDE DEF s
<1>5. /\ t \in Seq(SUBSET Nat) /\ Len(t) = n
      /\ \A i \in 1..n : t[i] = s[i]
  <2>1. s \in Seq(SUBSET Nat) /\ n \in 0..Len(s)
    BY <1>1 DEF s
  <2> QED
    BY <2>1, PrefixFacts
<1> HIDE DEF t
<1>6. \A i \in 1..n : Blocks(q)[i] = t[i]
  <2>1. \A i \in 1..n : i \in 1..(n + 1)
    OBVIOUS
  <2> QED
    BY <1>1, <1>3, <1>4, <1>5, <2>1 DEF s
<1> QED
  BY <1>3, <1>5, <1>6, SameSeq DEF t, s

LEMMA BlocksMerged ==
  ASSUME ClientDepth \in Nat, NEW p \in Pg, NEW n \in Nat \ {0},
         Depth(p) = ClientDepth + 1 + n, NEW q \in Pg, Merged(q, p)
  PROVE  Blocks(q) =
           [SubSeq(Blocks(p), 1, n) EXCEPT ![n] = @ \cup Blocks(p)[n + 1]]
<1>1. /\ Blocks(p) \in Seq(SUBSET Nat) /\ Len(Blocks(p)) = n + 1
      /\ \A i \in 1..(n + 1) : Blocks(p)[i] = RowsOf(p, i)
  BY BlocksAre
<1>2. /\ Depth(q) = ClientDepth + n
      /\ \A k \in 1..(ClientDepth + n - 1) : q.lvl[k] = p.lvl[k]
      /\ q.lvl[ClientDepth + n].rows
           = p.lvl[ClientDepth + n].rows \cup p.lvl[ClientDepth + 1 + n].rows
  BY DEF Merged, Beneath
<1>3. /\ Blocks(q) \in Seq(SUBSET Nat) /\ Len(Blocks(q)) = n
      /\ \A i \in 1..n : Blocks(q)[i] = RowsOf(q, i)
  <2>1. n - 1 \in Nat /\ ClientDepth + n = ClientDepth + 1 + (n - 1) /\ (n - 1) + 1 = n
    OBVIOUS
  <2> DEFINE m == n - 1
  <2>2. m \in Nat /\ Depth(q) = ClientDepth + 1 + m /\ m + 1 = n
    BY <1>2, <2>1
  <2> HIDE DEF m
  <2> QED
    BY <2>2, BlocksAre
<1>4. \A i \in 1..(n - 1) : RowsOf(q, i) = RowsOf(p, i)
  <2> DEFINE m == ClientDepth + n - 1
  <2> SUFFICES ASSUME NEW i \in 1..(n - 1) PROVE RowsOf(q, i) = RowsOf(p, i)
    OBVIOUS
  <2>1. /\ \A j \in 1..(ClientDepth + 1) : j \in 1..m
        /\ ClientDepth + i \in 1..m
    OBVIOUS
  <2>2. \A k \in 1..m : q.lvl[k] = p.lvl[k]
    BY <1>2
  <2> HIDE DEF m
  <2> QED
    BY <2>1, <2>2 DEF RowsOf
<1>5. RowsOf(q, n) = RowsOf(p, n) \cup RowsOf(p, n + 1)
  <2>1. RowsOf(p, n + 1) = p.lvl[ClientDepth + 1 + n].rows
    <3>1. n + 1 # 1 /\ ClientDepth + (n + 1) = ClientDepth + 1 + n
      OBVIOUS
    <3> QED
      BY <3>1 DEF RowsOf
  <2>2. CASE n = 1
    <3> DEFINE d == ClientDepth + 1
                   I == 1..d
    <3>1. /\ \A j \in I : j # d => j \in 1..(ClientDepth + n - 1)
          /\ d \in I /\ d = ClientDepth + n
      BY <2>2
    <3>2. UNION {q.lvl[j].rows : j \in I}
            = (UNION {p.lvl[j].rows : j \in I}) \cup p.lvl[ClientDepth + 1 + n].rows
      <4>1. \A j \in I : j # d => q.lvl[j].rows = p.lvl[j].rows
        BY <1>2, <3>1
      <4>2. q.lvl[d].rows = p.lvl[d].rows \cup p.lvl[ClientDepth + 1 + n].rows
        BY <1>2, <3>1
      <4> HIDE DEF I, d
      <4> QED
        BY <3>1, <4>1, <4>2, OneRowsMore
    <3> QED
      BY <2>1, <2>2, <3>2 DEF RowsOf
  <2>3. CASE n # 1
    BY <1>2, <2>1, <2>3 DEF RowsOf
  <2> QED
    BY <2>2, <2>3
<1> DEFINE b == Blocks(p)
           s == SubSeq(b, 1, n)
           x == s[n] \cup b[n + 1]
           t == [s EXCEPT ![n] = x]
<1>6. /\ b \in Seq(SUBSET Nat) /\ Len(b) = n + 1 /\ n \in 0..Len(b)
      /\ \A i \in 1..(n + 1) : b[i] = RowsOf(p, i)
  BY <1>1
<1> HIDE DEF b
<1>7. /\ s \in Seq(SUBSET Nat) /\ Len(s) = n
      /\ \A i \in 1..n : s[i] = b[i]
  BY <1>6, PrefixFacts
<1> HIDE DEF s
<1>8. /\ n \in 1..n /\ n + 1 \in 1..(n + 1)
      /\ \A i \in 1..n : i \in 1..(n + 1) /\ (i # n => i \in 1..(n - 1))
  OBVIOUS
<1>9. x \in SUBSET Nat /\ x = RowsOf(q, n)
  <2>1. s[n] \in SUBSET Nat /\ b[n + 1] \in SUBSET Nat
    BY <1>6, <1>7, <1>8
  <2> QED
    BY <1>5, <1>6, <1>7, <1>8, <2>1
<1> HIDE DEF x
<1>10. /\ t \in Seq(SUBSET Nat) /\ Len(t) = n /\ t[n] = x
       /\ \A i \in 1..n : i # n => t[i] = s[i]
  BY <1>7, <1>8, <1>9
<1> HIDE DEF t
<1>11. \A i \in 1..n : Blocks(q)[i] = t[i]
  BY <1>3, <1>4, <1>6, <1>7, <1>8, <1>9, <1>10
<1> QED
  BY <1>3, <1>10, <1>11, SameSeq DEF t, x, s, b

-----------------------------------------------------------------------------
(* What the end of a block does to them                                    *)

(* pl_intern_commit merges the innermost block, pl_intern_abort drops it.  *)
LEMMA HelperRows ==
  ASSUME ClientDepth \in Nat, Typed, Good, InBlock, ~interrupted
  PROVE  /\ Merged(InternCommit(pg, Top).pg, pg)
         /\ Dropped(InternAbort(pg, Top).pg, pg)
<1> DEFINE n == Depth(pg)
<1>1. /\ pg \in Pg /\ Top \in Frame /\ n \in Nat /\ n > 1
      /\ pg.lvl[n].name = Top.name /\ ~Top.commit
      /\ Top.begin \in BOOLEAN /\ (Top.begin <=> Top.name = NoName)
      /\ Top.begin => n = 2
  BY TopLevel DEF Good
<1>2. SPI_usable(pg) /\ n \in 2..n /\ n - 1 \in Nat
  BY <1>1 DEF Good, Clean
<1> HIDE DEF n
<1>3. ASSUME NEW p \in Pg, p.lvl = pg.lvl, NEW q, Depth(q) = n - 1, Beneath(q, p),
             q.lvl[n - 1].rows = UNION {p.lvl[j].rows : j \in (n - 1)..n}
      PROVE  Merged(q, pg)
  <2>1. (n - 1)..n = {n - 1, n}
    BY <1>1
  <2>2. q.lvl[n - 1].rows = p.lvl[n - 1].rows \cup p.lvl[n].rows
    BY <1>3, <2>1
  <2> QED
    BY <1>3, <2>2 DEF Merged, Beneath, n
<1>4. CASE ~Top.begin
  <2> DEFINE i == Innermost(pg, Top.name)
             a == ReleaseSavepoint(pg, Top.name)
             b == RolledBack(pg, Top.name)
  <2>1. n \in Named(pg, Top.name) /\ Top.name \in Names
    BY <1>1, <1>2 DEF Named, Frame, n
  <2>2. i = n
    BY <1>1, <2>1, InnermostIs DEF n
  <2>3. /\ Closes(a, pg, Top.name) /\ Depth(a) = n - 1
        /\ a.lvl[n - 1].rows = UNION {pg.lvl[j].rows : j \in (n - 1)..n}
        /\ Depth(b) = n - 1 /\ \A k \in 1..Depth(b) : b.lvl[k] = pg.lvl[k]
    BY <1>1, <2>1, <2>2, ReleasedIs, RolledBackIs DEF n
  <2> HIDE DEF a, b
  <2>4. Merged(a, pg) /\ Dropped(b, pg)
    BY <1>1, <1>3, <2>3 DEF Closes, Shrunk, Dropped, n
  <2>5. /\ InternCommit(pg, Top) = Result(a, Unnamed(Top), "no")
        /\ InternAbort(pg, Top) = Result(b, Unnamed(Top), "no")
    BY <1>1, <1>4, <2>1 DEF InternCommit, InternAbort, EndNamed, RolledBack,
       IsSubTransaction, a, b, n
  <2> QED
    BY <2>4, <2>5 DEF Result
<1>5. CASE Top.begin
  <2> DEFINE q == SPI_finish(pg)
             a == ReleaseFrom(q, n)
             b == AbortFrom(q, n)
  <2>1. q \in Pg /\ q.lvl = pg.lvl /\ Depth(q) = n
    BY <1>1, FinishIs DEF Depth, n
  <2> HIDE DEF q
  <2>2. /\ Shrunk(a, q) /\ Depth(a) = n - 1
        /\ a.lvl[n - 1].rows = UNION {q.lvl[j].rows : j \in (n - 1)..n}
        /\ Depth(b) = n - 1 /\ \A k \in 1..Depth(b) : b.lvl[k] = q.lvl[k]
    BY <1>2, <2>1, ReleaseIs, AbortIs
  <2> HIDE DEF a, b
  <2>3. Merged(a, pg) /\ Dropped(b, pg)
    BY <1>3, <2>1, <2>2 DEF Shrunk, Dropped, n
  <2>4. /\ InternCommit(pg, Top) = Result(a, Committed(Top), "no")
        /\ InternAbort(pg, Top) = Result(b, Committed(Top), "no")
    BY <1>1, <1>2, <1>5, <2>1 DEF InternCommit, InternAbort, EndInternal,
       IsSubTransaction, ReleaseCurrentSubTransaction,
       RollbackAndReleaseCurrentSubTransaction, q, a, b, n
  <2> QED
    BY <2>3, <2>4 DEF Result
<1> QED
  BY <1>1, <1>4, <1>5

(* However the innermost block ends, its level is merged or dropped.       *)
LEMMA EndsRows ==
  ASSUME ClientDepth \in Nat, Typed, Good, EndsBlock, ~interrupted
  PROVE  Merged(pg', pg) \/ Dropped(pg', pg)
<1> DEFINE R == {InternCommit(pg, Top), InternAbort(pg, Top)}
<1>1. InBlock /\ Levels /\ Conn /\ SPI_usable(pg) /\ pg \in Pg
  BY BlockEnds DEF Good, Clean, Typed
<1>2. /\ Top \in Frame /\ ~Top.commit /\ Top.begin \in BOOLEAN
      /\ Top.begin => Depth(pg) = 2 /\ pg.conn = <<1, 2>>
  BY <1>1, TopLevel
<1>3. \A r \in R : /\ r.exc = "no" /\ r.fr \in Frame /\ r.fr.commit /\ r.pg \in Pg
                   /\ Merged(r.pg, pg) \/ Dropped(r.pg, pg)
  <2>1. Top.begin => pg.cur = 1
    <3>1. pg.cur \in Int /\ Len(<<1, 2>>) = 2
      BY <1>1, FieldFacts
    <3>2. pg.conn = <<1, 2>> => pg.cur + 1 = 2
      BY <1>1, <3>1 DEF SPI_usable
    <3> QED
      BY <1>2, <3>1, <3>2
  <2>2. \A r \in R : r.exc = "no" /\ r.fr \in Frame /\ r.fr.commit /\ Lowers(r.pg)
    BY <1>1, <2>1, HelperEnds
  <2>3. \A r \in R : Merged(r.pg, pg) \/ Dropped(r.pg, pg)
    BY <1>1, HelperRows
  <2> HIDE DEF R
  <2> QED
    BY <2>2, <2>3 DEF Lowers
<1>4. \A p, q : p.lvl = q.lvl => /\ Merged(q, pg) => Merged(p, pg)
                                 /\ Dropped(q, pg) => Dropped(p, pg)
  BY DEF Merged, Dropped, Beneath, Depth
<1>5. \A r \in R : \A f \in Frame :
        \/ pg' = r.pg
        \/ pg' = PopOwn(r.pg, f)
        => Merged(pg', pg) \/ Dropped(pg', pg)
  <2> SUFFICES ASSUME NEW r \in R, NEW f \in Frame,
                      pg' = r.pg \/ pg' = PopOwn(r.pg, f)
               PROVE  Merged(pg', pg) \/ Dropped(pg', pg)
    OBVIOUS
  <2> HIDE DEF R
  <2>1. pg'.lvl = r.pg.lvl
    BY <1>3, PopIs
  <2> QED
    BY <1>3, <1>4, <2>1
<1>6. \A r \in R : Finish(r.pg, r.fr) => pg' = PopOwn(r.pg, r.fr)
  BY <1>3 DEF Finish, Result
<1>7. \A r \in R : \A c, b : Leave(r.pg, r.fr, c, b) =>
        pg' = r.pg \/ pg' = PopOwn(r.pg, r.fr)
  BY <1>3 DEF Leave, Result
<1>8. CASE EndBlock
  <2> DEFINE r == InternCommit(pg, Top)
  <2>1. \/ Finish(r.pg, r.fr)
        \/ Leave(r.pg, r.fr, Plain(r.exc), r.exc)
    BY <1>8 DEF EndBlock
  <2>2. r \in R
    OBVIOUS
  <2> HIDE DEF r, R
  <2> QED
    BY <1>3, <1>5, <1>6, <1>7, <2>1, <2>2
<1>9. CASE CatchThrow
  <2> DEFINE r == IF ctl.commit THEN InternCommit(pg, Top) ELSE InternAbort(pg, Top)
  <2>1. \/ Finish(r.pg, r.fr)
        \/ Leave(r.pg, r.fr, Plain(r.exc), r.exc)
        \/ Leave(r.pg, r.fr, Plain("error"), "error")
        \/ Leave(r.pg, r.fr, ctl, bang)
    BY <1>9 DEF CatchThrow
  <2>2. r \in R
    OBVIOUS
  <2> HIDE DEF r, R
  <2> QED
    BY <1>3, <1>5, <1>6, <1>7, <2>1, <2>2
<1>10. CASE LeaveBlock
  <2>1. Leave(pg, Top, ctl, bang)
    BY <1>10 DEF LeaveBlock
  <2>2. CASE Top.begin /\ bang = "catch"
    <3>1. pg' = InternError(pg, Top).pg /\ Depth(pg) = 2
      BY <1>2, <2>1, <2>2 DEF Leave
    <3>2. pg' = AbortFrom(pg, 2)
      BY <3>1 DEF InternError, Result, IsSubTransaction,
         RollbackAndReleaseCurrentSubTransaction
    <3>3. Dropped(pg', pg)
      BY <1>1, <3>1, <3>2, AbortIs DEF Dropped
    <3> QED
      BY <3>3
  <2>3. CASE ~(Top.begin /\ bang = "catch")
    <3>1. pg' = PopOwn(InternAbort(pg, Top).pg, Top)
      BY <1>2, <2>1, <2>3 DEF Leave
    <3> QED
      BY <1>2, <1>5, <3>1
  <2> QED
    BY <2>2, <2>3
<1> QED
  BY <1>8, <1>9, <1>10 DEF EndsBlock

(* SPI_finish will fail.                                                   *)
LEMMA NotUsable ==
  ASSUME NEW p \in Pg, (p.cur = 2 /\ Len(p.conn) = 2) \/ Over(p)
  PROVE  ~SPI_usable(p)
<1> DEFINE c == p.cur
           n == Len(p.conn)
<1>1. c \in Int /\ n \in Nat
  BY FieldFacts
<1>2. (c = 2 /\ n = 2) \/ c >= n
  BY DEF Over
<1>3. SPI_usable(p) <=> c + 1 = n
  BY DEF SPI_usable
<1> HIDE DEF c, n
<1> QED
  BY <1>1, <1>2, <1>3

LEMMA PairLength ==
  ASSUME NEW s, s = <<1, 2>>
  PROVE  Len(s) = 2
OBVIOUS

(* A call that runs and is not doomed is Good.                             *)
LEMMA RunsWell ==
  ASSUME CoreInv, outcome = "running", ~Doomed
  PROVE  Good /\ ~interrupted
<1>1. ~interrupted /\ SPI_usable(pg) /\ pg \in Pg /\ (Good \/ Unwinds \/ Hopeless)
  BY DEF CoreInv, Doomed, Typed
<1>2. Unwinds => pg.cur = 2 /\ Len(pg.conn) = 2
  <2>1. Unwinds => pg.cur = 2 /\ pg.conn = <<1, 2>>
    BY Zenon DEF Unwinds, Conn
  <2> QED
    BY <2>1, PairLength
<1>3. ~Unwinds /\ ~Hopeless
  BY <1>1, <1>2, NotUsable DEF Hopeless
<1> QED
  BY <1>1, <1>3

(* What a step may do to the outcome.                                      *)
LEMMA OutcomeStep ==
  ASSUME ProgramAssumption, Typed, [Next]_vars
  PROVE  \/ UNCHANGED vars
         \/ outcome = "running" /\ (outcome' \in {"running", "failed"} \/ Return)
<1>1. CASE EndsBlock
  BY <1>1, BlockEnds
<1>2. CASE Transaction \/ Exec
  <2>1. outcome = "running" /\ outcome' = outcome
    BY <1>2, TransactionIs, ExecIs
  <2> QED
    BY <2>1
<1>3. CASE Quiet
  BY <1>3, QuietIs
<1>4. CASE PrepareFails
  BY <1>4, PrepareIs DEF UnchangedByBlocks
<1>5. CASE Savepoint \/ ReleaseUser \/ RollbackUser
  BY <1>5, SavepointsAre DEF UnchangedByBlocks
<1>6. CASE Return
  BY <1>6, ReturnIs
<1> QED
  BY <1>1, <1>2, <1>3, <1>4, <1>5, <1>6 DEF Next, EndsBlock, Quiet

(* A doomed call stays doomed while it runs.                               *)
LEMMA DoomedStays ==
  ASSUME BoundsAssumption, ProgramAssumption, SavepointNames = {}, ~RescueInBlock,
         ~PrepareErrors, CoreInv, [Next]_vars, outcome = "running", Doomed,
         outcome' = "running"
  PROVE  Doomed'
<1>1. Typed /\ Typed' /\ ClientDepth \in Nat
  BY TypedStep DEF CoreInv, BoundsAssumption
<1>2. /\ pg.cur \in Int /\ Len(pg.conn) \in Nat
      /\ pg'.cur \in Int /\ Len(pg'.conn) \in Nat /\ pg' \in Pg
  BY <1>1, FieldFacts DEF Typed
<1>3. CASE interrupted
  <2>1. ~interrupted' => outcome = "running" /\ ~interrupted
    BY <1>1, OnStep
  <2> QED
    BY <1>3, <2>1 DEF Doomed
<1>4. ASSUME ~interrupted, ~interrupted' PROVE ~SPI_usable(pg')
  <2>1. ~SPI_usable(pg) /\ (Good \/ Unwinds \/ Hopeless)
    BY <1>4 DEF CoreInv, Doomed
  <2>2. Unwinds \/ Hopeless
    BY <2>1 DEF Good, Clean
  <2>3. ASSUME Unwinds' \/ Hopeless' PROVE ~SPI_usable(pg')
    <3>1. Unwinds' => pg'.cur = 2 /\ pg'.conn = <<1, 2>>
      BY Zenon DEF Unwinds, Conn
    <3>2. Unwinds' => pg'.cur = 2 /\ Len(pg'.conn) = 2
      BY <3>1, PairLength
    <3> QED
      BY <1>2, <2>3, <3>2, NotUsable DEF Hopeless
  <2>4. CASE EndsBlock
    BY <1>1, <1>4, <2>2, <2>3, <2>4, UnwindsEnds, HopelessEnds
  <2>5. CASE Transaction
    <3>1. ctl = Running
      BY <1>1, <2>5, TransactionIs
    <3>2. Over(pg)
      BY <2>2, <3>1 DEF Unwinds, Running, Plain, Hopeless
    <3>3. CASE pg' = pg
      BY <2>1, <3>3
    <3>4. CASE pg'.conn = pg.conn /\ (pg'.cur = pg.cur \/ pg'.cur = pg.cur + 1)
      BY <1>2, <3>2, <3>4 DEF Over, SPI_usable
    <3>5. pg.cur + 1 # Len(pg.conn)
      BY <2>1 DEF SPI_usable
    <3> QED
      BY <1>1, <1>4, <2>5, <3>3, <3>4, <3>5, TransactionIs
  <2>6. CASE Exec
    BY <1>1, <2>1, <2>6, ExecIs
  <2>7. CASE Quiet
    BY <1>1, <2>1, <2>7, QuietIs
  <2>8. CASE Return
    BY <1>1, <2>8, ReturnIs
  <2>9. CASE PrepareFails \/ Savepoint \/ ReleaseUser \/ RollbackUser
    BY <2>9 DEF PrepareFails, Savepoint, ReleaseUser, RollbackUser
  <2>10. CASE UNCHANGED vars
    BY <2>1, <2>10 DEF vars
  <2> QED
    BY <2>4, <2>5, <2>6, <2>7, <2>8, <2>9, <2>10 DEF Next, EndsBlock, Quiet
<1> QED
  BY <1>3, <1>4 DEF Doomed

-----------------------------------------------------------------------------
(* The refinement                                                          *)

(* A step of a call that is not doomed before or after.                    *)
LEMMA NestedWell ==
  ASSUME BoundsAssumption, ProgramAssumption, SavepointNames = {}, ~PrepareErrors,
         Typed, Typed', Good, Good', [Next]_vars, ~Doomed, ~Doomed',
         outcome = "running", outcome' = "running"
  PROVE  [Nested!NNext]_(Nested!nvars)
<1> DEFINE n == Len(frames)
<1>1. /\ ClientDepth \in Nat /\ pg \in Pg /\ pg' \in Pg /\ n \in Nat
      /\ Depth(pg) = ClientDepth + 1 + n
      /\ frames \in Seq(Frame) /\ ~interrupted
  BY DEF BoundsAssumption, Typed, Good, Levels, Doomed
<1>2. /\ Blocks(pg) \in Seq(SUBSET Nat) /\ Len(Blocks(pg)) = n + 1
  BY <1>1, BlocksAre
<1>3. /\ BlockRows = Blocks(pg) /\ BlockRows' = Blocks(pg')
      /\ ~Lost /\ ~Lost'
  BY DEF BlockRows, Blocks, RowsOf, Lost
<1> DEFINE b == Blocks(pg)
           c == Blocks(pg')
<1>4. ASSUME c = b, frames' = frames
      PROVE  [Nested!NNext]_(Nested!nvars)
  BY <1>3, <1>4 DEF Nested!nvars
<1>5. CASE EndsBlock
  <2>1. /\ n \in Nat \ {0} /\ n > 0 /\ frames' = Outer /\ Len(frames') = n - 1
        /\ Merged(pg', pg) \/ Dropped(pg', pg)
    BY <1>1, <1>5, BlockEnds, TopIs, EndsRows
  <2>2. CASE Merged(pg', pg)
    <3>1. c = [SubSeq(b, 1, n) EXCEPT ![n] = @ \cup b[n + 1]]
      BY <1>1, <2>1, <2>2, BlocksMerged
    <3>2. Len(b) - 1 = n
      BY <1>1, <1>2
    <3>3. Nested!Innermost = n + 1 /\ Nested!Below = SubSeq(b, 1, n)
      BY <1>2, <1>3, <3>2 DEF Nested!Below, Nested!Innermost
    <3> HIDE DEF b, c
    <3>4. c = [Nested!Below EXCEPT ![n] = @ \cup b[Nested!Innermost]]
      BY <3>1, <3>3, Zenon
    <3> HIDE DEF n
    <3>5. Nested!Commit
      BY <1>3, <2>1, <3>4 DEF Nested!Commit, b, c, n
    <3> QED
      BY <3>5 DEF Nested!NNext
  <2>3. CASE Dropped(pg', pg)
    <3>1. c = SubSeq(b, 1, n)
      BY <1>1, <2>1, <2>3, BlocksDropped
    <3>2. Len(b) - 1 = n
      BY <1>1, <1>2
    <3>3. Nested!Abort
      BY <1>2, <1>3, <2>1, <3>1, <3>2
         DEF Nested!Abort, Nested!Below, Nested!Innermost
    <3> QED
      BY <3>3 DEF Nested!NNext
  <2> QED
    BY <2>1, <2>2, <2>3
<1>6. CASE Transaction
  <2>1. ASSUME NEW begin, NEW name, Grows(pg', pg, name),
               frames' = Append(frames, NewFrame(begin, name))
        PROVE  [Nested!NNext]_(Nested!nvars)
    <3>1. c = Append(b, {})
      BY <1>1, <2>1, BlocksPushed
    <3>2. Len(frames') = n + 1
      BY <1>1, <2>1
    <3>3. Nested!Begin
      BY <1>3, <3>1, <3>2 DEF Nested!Begin
    <3> QED
      BY <3>3 DEF Nested!NNext
  <2>2. SPI_usable(pg)
    BY DEF Doomed
  <2> QED
    BY <1>1, <1>6, <2>1, <2>2, TransactionIs DEF SPI_usable
<1>7. CASE Exec
  <2>1. frames' = frames
    BY <1>7, ExecIs
  <2>2. CASE pg' = pg
    BY <1>4, <2>1, <2>2
  <2>3. CASE /\ pg' \in Pg /\ Depth(pg') = Depth(pg) /\ Beneath(pg', pg)
             /\ pg'.lvl[Depth(pg)].rows = pg.lvl[Depth(pg)].rows \cup {rows + 1}
    <3>1. rows + 1 \in Nat /\ rows + 1 \in 1..MaxRow
      BY <1>7 DEF Exec, Typed, BoundsAssumption
    <3>2. c = [b EXCEPT ![n + 1] = @ \cup {rows + 1}]
      BY <1>1, <2>3, <3>1, BlocksWritten
    <3> HIDE DEF b, c
    <3>3. Nested!WriteRow
      BY <1>2, <1>3, <2>1, <3>1, <3>2 DEF Nested!WriteRow, Nested!Innermost, b, c
    <3> QED
      BY <3>3 DEF Nested!NNext
  <2> QED
    BY <1>7, <2>2, <2>3, ExecIs
<1>8. CASE Quiet \/ UNCHANGED vars
  <2>1. UNCHANGED <<pg, frames>>
    BY <1>8, QuietIs DEF vars
  <2> QED
    BY <1>4, <2>1
<1>9. CASE PrepareFails \/ Savepoint \/ ReleaseUser \/ RollbackUser
  BY <1>9 DEF PrepareFails, Savepoint, ReleaseUser, RollbackUser
<1>10. ~Return
  BY ReturnIs
<1> QED
  BY <1>5, <1>6, <1>7, <1>8, <1>9, <1>10 DEF Next, EndsBlock, Quiet

(* Every step is one of the nested transactions, or changes nothing there. *)
LEMMA NestedStep ==
  ASSUME BoundsAssumption, ProgramAssumption, SavepointNames = {}, ~RescueInBlock,
         ~PrepareErrors, CoreInv, CoreInv', [Next]_vars
  PROVE  [Nested!NNext]_(Nested!nvars)
<1>1. Typed /\ Typed'
  BY DEF CoreInv
<1>2. \/ UNCHANGED vars
      \/ outcome = "running" /\ (outcome' \in {"running", "failed"} \/ Return)
  BY <1>1, OutcomeStep
<1>3. CASE UNCHANGED vars
  BY <1>3 DEF vars, Nested!nvars, Lost, Doomed, BlockRows, Depth
<1>4. CASE outcome = "running" /\ outcome' = "failed"
  <2>1. Nested!FailCall
    BY <1>4 DEF Nested!FailCall, Lost
  <2> QED
    BY <2>1 DEF Nested!NNext
<1>5. CASE Return /\ outcome' # "failed"
  <2>1. /\ outcome = "running" /\ outcome' = "ok" /\ ~InBlock
        /\ ~interrupted /\ SPI_usable(pg)
        /\ pg'.lvl = pg.lvl /\ frames' = frames
    BY <1>1, <1>5, ReturnIs
  <2>2. Len(frames) = 0
    BY <2>1 DEF InBlock
  <2>3. ~Lost /\ ~Lost' /\ BlockRows' = BlockRows /\ ~Doomed
    BY <2>1 DEF Lost, Doomed, BlockRows, Depth
  <2>4. Nested!Succeed
    BY <2>1, <2>2, <2>3 DEF Nested!Succeed
  <2> QED
    BY <2>4 DEF Nested!NNext
<1>6. CASE outcome = "running" /\ outcome' = "running" /\ Doomed
  <2>1. Doomed'
    BY <1>6, DoomedStays
  <2> QED
    BY <1>6, <2>1 DEF Nested!nvars, Lost
<1>7. CASE outcome = "running" /\ outcome' = "running" /\ ~Doomed /\ Doomed'
  <2>1. Nested!Doom
    BY <1>7 DEF Nested!Doom, Lost
  <2> QED
    BY <2>1 DEF Nested!NNext
<1>8. CASE outcome = "running" /\ outcome' = "running" /\ ~Doomed /\ ~Doomed'
  <2>1. Good
    BY <1>8, RunsWell
  <2>2. Good'
    <3>1. /\ pg' \in Pg /\ ~interrupted' /\ SPI_usable(pg')
          /\ Good' \/ Unwinds' \/ Hopeless'
      BY <1>1, <1>8 DEF CoreInv, Doomed, Typed
    <3>2. Unwinds' => pg'.cur = 2 /\ pg'.conn = <<1, 2>>
      BY Zenon DEF Unwinds, Conn
    <3>3. Unwinds' => pg'.cur = 2 /\ Len(pg'.conn) = 2
      BY <3>2, PairLength
    <3> QED
      BY <3>1, <3>3, NotUsable DEF Hopeless
  <2> QED
    BY <1>1, <1>8, <2>1, <2>2, NestedWell
<1> QED
  BY <1>2, <1>3, <1>4, <1>5, <1>6, <1>7, <1>8

LEMMA NestedInit == BoundsAssumption /\ Init => Nested!NInit
<1> SUFFICES ASSUME BoundsAssumption, Init PROVE Nested!NInit
  OBVIOUS
<1>1. CoreInv /\ Typed /\ ClientDepth \in Nat
  BY CoreInit DEF CoreInv, BoundsAssumption
<1>2. frames = <<>> /\ outcome = "running" /\ ~interrupted /\ SPI_usable(pg)
  BY DEF Init, SPI_usable
<1>3. ~Lost /\ ~Doomed /\ BlockRows = Blocks(pg)
  BY <1>2 DEF Lost, Doomed, BlockRows, Blocks, RowsOf
<1> DEFINE l == [i \in 1..(ClientDepth + 1) |->
                   [name |-> IF i = 1 THEN NoName ELSE ClientName, rows |-> {}]]
<1>4. pg.lvl = l /\ ClientDepth + 1 \in Nat
  BY <1>1 DEF Init
<1>5. Len(l) = ClientDepth + 1 /\ \A i \in 1..(ClientDepth + 1) : l[i].rows = {}
  <2>1. Len(l) = ClientDepth + 1
    BY <1>4
  <2>2. \A i \in 1..(ClientDepth + 1) : l[i].rows = {}
    OBVIOUS
  <2> QED
    BY <2>1, <2>2
<1> HIDE DEF l
<1>6. pg \in Pg /\ Depth(pg) = ClientDepth + 1 + 0
  BY <1>1, <1>4, <1>5 DEF Depth, Typed
<1>7. /\ Blocks(pg) \in Seq(SUBSET Nat) /\ Len(Blocks(pg)) = 1
      /\ Blocks(pg)[1] = RowsOf(pg, 1)
  <2>1. 0 \in Nat /\ 0 + 1 = 1 /\ 1 \in 1..1
    OBVIOUS
  <2>2. /\ Blocks(pg) \in Seq(SUBSET Nat) /\ Len(Blocks(pg)) = 0 + 1
        /\ \A i \in 1..(0 + 1) : Blocks(pg)[i] = RowsOf(pg, i)
    BY <1>1, <1>6, <2>1, BlocksAre
  <2> QED
    BY <2>1, <2>2
<1>8. RowsOf(pg, 1) = {}
  <2>1. \A j \in 1..(ClientDepth + 1) : pg.lvl[j].rows = {}
    BY <1>4, <1>5
  <2> QED
    BY <2>1 DEF RowsOf
<1>9. Blocks(pg) = <<{}>>
  BY <1>7, <1>8
<1> QED
  BY <1>2, <1>3, <1>9 DEF Nested!NInit

(* The blocks of a program that lets exceptions leave its blocks, and uses *)
(* no savepoint of its own, are nested transactions: ending one gives its  *)
(* rows to the block around it or drops them, and a call that succeeds has *)
(* ended every block.                                                      *)
THEOREM BlocksAreNested ==
  ASSUME SavepointNames = {}, ~RescueInBlock, ~PrepareErrors
  PROVE  Spec => ImplementsNestedTxn
<1>1. BoundsAssumption /\ ProgramAssumption
  BY BoundsAssumption, ProgramAssumption
<1>2. Init => CoreInv /\ Nested!NInit
  BY <1>1, CoreInit, NestedInit
<1>3. CoreInv /\ [Next]_vars => CoreInv'
  BY <1>1, CoreStep
<1>4. CoreInv /\ CoreInv' /\ [Next]_vars => [Nested!NNext]_(Nested!nvars)
  BY <1>1, NestedStep
<1> QED
  BY <1>2, <1>3, <1>4, PTL DEF Spec, ImplementsNestedTxn, Nested!NSpec

=============================================================================
