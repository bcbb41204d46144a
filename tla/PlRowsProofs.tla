---------------------------- MODULE PlRowsProofs ----------------------------
(***************************************************************************)
(* PlRows: the blocks of exec and plan.each get their rows in order, each  *)
(* once and as many as asked for, and no portal of plan.each is left.      *)
(*                                                                         *)
(* Portioned is what pl_fetch keeps between two rows: the portion f.rows   *)
(* goes on where the rows given so far end, and the portal is behind it.   *)
(* RowsInv says nothing of the positions of cursors: no block of plan.each *)
(* has the portal of one.  TablesOK is about tuple tables: the block of    *)
(* exec, if there is one, is the innermost, and tables have one block      *)
(* each.  TypesInv adds the types and that positions stay in the portal,   *)
(* from which rewind reaches the beginning.                                *)
(***************************************************************************)
EXTENDS PlRows, FiniteSetTheorems, WellFoundedInduction, TLAPS

RowRec == [q : Nat, k : Int, part : Int]

Forms == {"row", "columns", "described", "nothing"}

BlockRec ==
  [op : Ops, form : Forms, q : Nat, size : Nat, count : Int, block : Nat,
   tab : TableId \cup {NoTable}, rows : Seq(RowRec), i : Nat, got : Nat,
   given : Seq(RowRec)]

Spi == [tables : [TableId -> BOOLEAN], tuptable : TableId \cup {NoTable},
        misused : BOOLEAN]

(* The rows given so far, of those in f.rows the first f.i.                *)
GivenSoFar(f) ==
  /\ Len(f.given) = f.got
  /\ \A k \in 1..f.got : f.given[k] = Item(f.q, k, Whole)
  /\ f.i <= Len(f.rows) /\ f.i <= f.got /\ f.tab # NoTable
  /\ \A j \in 1..Len(f.rows) :
       f.rows[j] = Item(f.q, (f.got - f.i) + j, Whole)

(* exec gives what it yields one after the other, and it yields of a row.  *)
ExecRight(f) ==
  /\ f.got = f.i /\ f.i <= Len(f.rows) /\ f.tab # NoTable
  /\ Asked(f.size, f.count) # 0
  /\ f.rows = Yields(f.form, f.q, Asked(f.size, f.count), f.count)
  /\ Len(f.given) = f.got
  /\ \A k \in 1..f.got : f.given[k] = f.rows[k]

(* Items of the first n rows of q in their order, with no row left out.    *)
ItemsUpTo(items, q, n) ==
  /\ \A a \in 1..Len(items) :
       items[a].q = q /\ items[a].k \in 1..n /\ items[a].part \in 0..Empty
  /\ \A a, b \in 1..Len(items) : a < b => Before(items[a], items[b])
  /\ \A a \in 1..Len(items) :
       items[a].k = 1 \/ \E b \in 1..(a - 1) : items[b].k = items[a].k - 1

(* A portal of that size from which n rows were fetched.                   *)
Behind(p, n) ==
  /\ n <= p.size
  /\ p.pos = n \/ (n = p.size /\ p.pos = p.size + 1)

OfEach(f, qs) ==
  /\ f.q \in 1..Len(qs)
  /\ qs[f.q].kind = "each" /\ qs[f.q].size = f.size
  /\ f.block # 0

Portioned(f, qs) ==
  /\ OfEach(f, qs)
  /\ GivenSoFar(f)
  /\ Behind(qs[f.q], (f.got - f.i) + Len(f.rows))
  /\ f.got # 0 /\ (f.count > 0 => f.got <= f.count)

Right(f, qs) ==
  /\ f.op = "exec" => ExecRight(f)
  /\ f.op = "each" => Portioned(f, qs)

(* Blocks of plan.each have portals of their own.                          *)
BlocksOK(its, qs) ==
  /\ its \in Seq(BlockRec)
  /\ \A j \in 1..Len(its) : Right(its[j], qs)
  /\ \A j, k \in 1..Len(its) :
       its[j].op = "each" /\ its[k].op = "each" /\ j # k => its[j].q # its[k].q

(* A portal that is at some position.                                      *)
PortalLike(p) ==
  DOMAIN p = {"kind", "size", "pos", "open"} /\ p.size \in Nat

QueriesOK(qs) ==
  /\ \E P : qs \in Seq(P)
  /\ \A q \in 1..Len(qs) : PortalLike(qs[q])

(* Every portal of plan.each has its block.                                *)
PortalsOK(its, qs) ==
  \A q \in 1..Len(qs) :
    qs[q].kind = "each"
      => \E j \in 1..Len(its) : its[j].op = "each" /\ its[j].q = q

RowsInv ==
  /\ QueriesOK(queries) /\ BlocksOK(iters, queries)
  /\ PortalsOK(iters, queries)
  /\ GivesAsked
  /\ Len(iters) <= MaxNest /\ spi \in Spi

-----------------------------------------------------------------------------
(* Sequences *)

LEMMA AppendFacts ==
  ASSUME NEW P, NEW s \in Seq(P), NEW x
  PROVE  LET t == Append(s, x) IN
         /\ t \in Seq(P \cup {x}) /\ Len(t) = Len(s) + 1
         /\ \A i \in 1..Len(s) : t[i] = s[i]
         /\ t[Len(s) + 1] = x
         /\ x \in P => t \in Seq(P)
<1>1. s \in Seq(P \cup {x})
  OBVIOUS
<1> QED
  BY <1>1

LEMMA ExceptFacts ==
  ASSUME NEW P, NEW s \in Seq(P), NEW q \in 1..Len(s), NEW x
  PROVE  LET t == [s EXCEPT ![q] = x] IN
         /\ t \in Seq(P \cup {x}) /\ Len(t) = Len(s)
         /\ \A i \in 1..Len(s) : i # q => t[i] = s[i]
         /\ t[q] = x
<1>1. s \in Seq(P \cup {x})
  OBVIOUS
<1> QED
  BY <1>1

LEMMA BelowFacts ==
  ASSUME NEW P, NEW s \in Seq(P), s # <<>>
  PROVE  LET t == SubSeq(s, 1, Len(s) - 1) IN
         /\ t \in Seq(P) /\ Len(t) = Len(s) - 1
         /\ \A i \in 1..Len(t) : t[i] = s[i]
         /\ s[Len(s)] \in P /\ Len(s) \in Nat \ {0}
<1>1. Len(s) \in Nat \ {0} /\ s[Len(s)] \in P
  OBVIOUS
<1> DEFINE n == Len(s) - 1
           t == SubSeq(s, 1, n)
<1>2. n \in 0..Len(s)
  BY <1>1
<1>3. t \in Seq(P) /\ Len(t) = n /\ \A i \in 1..n : t[i] = s[i]
  <2> HIDE DEF n
  <2> QED
    BY <1>1, <1>2
<1> QED
  BY <1>1, <1>3

LEMMA SameRows ==
  ASSUME NEW P, NEW s \in Seq(P), NEW t \in Seq(P), Len(s) = Len(t),
         \A i \in 1..Len(s) : s[i] = t[i]
  PROVE  s = t
OBVIOUS

-----------------------------------------------------------------------------
(* Portals *)

(* PortalRunFetch, forward.                                                *)
Forward(p, n) == Fetch(p, TRUE, n)

(* The rows after the n-th.                                                *)
After(ks, n) == \A j \in 1..Len(ks) : ks[j] = n + j

LEMMA FetchFacts ==
  ASSUME NEW p, p.size \in Nat, NEW n \in Nat, Behind(p, n),
         NEW block \in Nat, block # 0
  PROVE  LET r == Forward(p, block) IN
         /\ Len(r.rows) \in Nat
         /\ r.rows = <<>> <=> Len(r.rows) = 0
         /\ r.rows = <<>> => n = p.size
         /\ After(r.rows, n)
         /\ r.rows # <<>> =>
              /\ n + Len(r.rows) <= p.size
              /\ \/ r.pos = n + Len(r.rows)
                 \/ n + Len(r.rows) = p.size /\ r.pos = p.size + 1
<1> DEFINE left == p.size - Least(p.pos, p.size)
           got  == Least(block, left)
           r    == Forward(p, block)
<1>1. left \in Nat /\ left = p.size - n /\ p.pos \in Nat
  BY DEF Behind, Least
<1>2. got \in Nat /\ got <= left /\ got <= block /\ (got = 0 => left = 0)
  BY <1>1 DEF Least
<1>3. /\ r.rows = [j \in 1..got |-> p.pos + j]
      /\ r.pos = IF got < block THEN p.size + 1 ELSE p.pos + got
  BY DEF Fetch, Forward
<1>4. got > 0 => p.pos = n
  BY <1>1, <1>2 DEF Behind
<1>5. got < block => got = left
  BY <1>1, <1>2 DEF Least
<1> HIDE DEF got, left, r
<1>6. Len(r.rows) = got /\ r.rows \in Seq(Int)
  <2> DEFINE t == [j \in 1..got |-> p.pos + j]
  <2>1. t \in [1..got -> Int]
    BY <1>1
  <2> HIDE DEF t
  <2>2. t \in Seq(Int) /\ Len(t) = got
    BY <1>2, <2>1
  <2> QED
    BY <1>3, <2>2 DEF t
<1>7. r.rows = <<>> <=> got = 0
  BY <1>2, <1>6
<1>8. \A j \in 1..got : r.rows[j] = n + j
  BY <1>2, <1>3, <1>4
<1>9. r.rows = <<>> => n = p.size
  BY <1>1, <1>2, <1>7
<1>10. r.rows # <<>> =>
         /\ n + got <= p.size
         /\ r.pos = n + got \/ (n + got = p.size /\ r.pos = p.size + 1)
  <2> SUFFICES ASSUME got > 0
               PROVE  /\ n + got <= p.size
                      /\ \/ r.pos = n + got
                         \/ n + got = p.size /\ r.pos = p.size + 1
    BY <1>2, <1>7
  <2>1. p.pos = n /\ n + left = p.size /\ n + got <= p.size
    BY <1>1, <1>2, <1>4
  <2>2. CASE got < block
    <3>1. r.pos = p.size + 1
      BY <1>3, <2>2
    <3>2. n + got = p.size
      BY <1>5, <2>1, <2>2
    <3> QED
      BY <2>1, <3>1, <3>2
  <2>3. CASE ~(got < block)
    <3>1. r.pos = p.pos + got
      BY <1>3, <2>3
    <3> QED
      BY <2>1, <3>1
  <2> QED
    BY <2>2, <2>3
<1> QED
  BY <1>2, <1>6, <1>7, <1>8, <1>9, <1>10 DEF r, After

LEMMA AskedFacts ==
  ASSUME NEW n \in Nat, NEW count \in Int
  PROVE  /\ Asked(n, count) \in Nat /\ Asked(n, count) <= n
         /\ \A m \in Nat : m <= n /\ (count > 0 => m <= count)
                             => m <= Asked(n, count)
         /\ count > 0 /\ count <= n => Asked(n, count) = count
         /\ count > 0 /\ n <= count => Asked(n, count) = n
         /\ count <= 0 => Asked(n, count) = n
BY DEF Asked, Least

-----------------------------------------------------------------------------
(* Items *)

LEMMA Division ==
  ASSUME NEW D \in Nat \ {0}, NEW x \in Nat
  PROVE  /\ x \div D \in Nat /\ x % D \in 0..(D - 1)
         /\ x = D * (x \div D) + (x % D)
<1>1. /\ x \div D \in Int /\ x % D \in 0..(D - 1)
      /\ x = D * (x \div D) + (x % D)
  OBVIOUS
<1>2. x \div D \in Nat
  BY <1>1
<1> QED
  BY <1>1, <1>2

LEMMA Larger ==
  ASSUME NEW D \in Nat \ {0}, NEW a \in Int, NEW b \in Int, a < b
  PROVE  D * a + D <= D * b
<1>1. D * (b - a - 1) >= 0
  OBVIOUS
<1>2. D * (b - a - 1) = D * b - D * a - D
  OBVIOUS
<1>3. D * a \in Int /\ D * b \in Int
  OBVIOUS
<1> QED
  BY <1>1, <1>2, <1>3

LEMMA QuotientsGrow ==
  ASSUME NEW D \in Nat \ {0}, NEW a \in Nat, NEW b \in Nat, a < b
  PROVE  a \div D < b \div D \/ (a \div D = b \div D /\ a % D < b % D)
<1> DEFINE p == a \div D
           q == b \div D
           r == a % D
           s == b % D
<1>1. /\ p \in Nat /\ r \in 0..(D - 1) /\ a = D * p + r
      /\ q \in Nat /\ s \in 0..(D - 1) /\ b = D * q + s
  BY Division
<1> HIDE DEF p, q, r, s
<1>2. q < p => D * q + D <= D * p
  BY <1>1, Larger
<1>3. D * p \in Int /\ D * q \in Int
  BY <1>1
<1>4. ~(q < p) /\ (p = q => r < s)
  BY <1>1, <1>2, <1>3
<1> QED
  BY <1>1, <1>4 DEF p, q, r, s

LEMMA QuotientIs ==
  ASSUME NEW D \in Nat \ {0}, NEW p \in Nat, NEW r \in 0..(D - 1),
         NEW x \in Nat, x = D * p + r
  PROVE  x \div D = p
<1> DEFINE q == x \div D
           s == x % D
<1>1. q \in Nat /\ s \in 0..(D - 1) /\ x = D * q + s
  BY Division
<1> HIDE DEF q, s
<1>2. (q < p => D * q + D <= D * p) /\ (p < q => D * p + D <= D * q)
  BY <1>1, Larger
<1>3. D * p \in Int /\ D * q \in Int
  BY <1>1
<1>4. p = q
  BY <1>1, <1>2, <1>3
<1> QED
  BY <1>4 DEF q

(* A sequence written as a function. *)
LEMMA SequenceIs ==
  ASSUME NEW S, NEW m \in Nat, NEW s \in [1..m -> S]
  PROVE  s \in Seq(S) /\ Len(s) = m
OBVIOUS

(* What plruby_build_tuple yields of n rows.                               *)
Amount(form, n, count) ==
  IF count = 1 THEN Columns ELSE IF form = "columns" THEN n * Empty ELSE n

Complete(items, form, n, count) ==
  ~(count = 1 /\ form = "described") => Len(items) = Amount(form, n, count)

LEMMA YieldsFacts ==
  ASSUME NEW form \in Forms, NEW q \in Nat, NEW n \in Nat \ {0},
         NEW count \in Int
  PROVE  LET r == Yields(form, q, n, count) IN
         /\ r \in Seq(RowRec) /\ ItemsUpTo(r, q, n)
         /\ Complete(r, form, n, count)
<1> DEFINE r == Yields(form, q, n, count)
           Goal == /\ r \in Seq(RowRec) /\ ItemsUpTo(r, q, n)
                   /\ Complete(r, form, n, count)
<1> SUFFICES Goal
  OBVIOUS
<1>1. Columns \in Nat /\ Empty \in Nat \ {0} /\ Empty = Columns + 1
      /\ Whole = 0
  BY SizesAssumption DEF Empty, Whole
<1>2. CASE count = 1 /\ form = "described"
  <2>1. r = <<>>
    BY <1>2 DEF Yields
  <2> HIDE DEF r
  <2>2. r \in Seq(RowRec) /\ Len(r) = 0
    BY <2>1
  <2> QED
    BY <1>2, <2>2 DEF ItemsUpTo, Complete
<1>3. CASE count = 1 /\ form # "described"
  <2> DEFINE t == [c \in 1..Columns |-> Item(q, 1, c)]
  <2>1. r = t
    BY <1>3 DEF Yields
  <2>2. \A c \in 1..Columns : /\ t[c] = [q |-> q, k |-> 1, part |-> c]
                              /\ t[c] \in RowRec
    BY <1>1 DEF Item, RowRec
  <2>3. t \in [1..Columns -> RowRec]
    BY <2>2
  <2> HIDE DEF t, r
  <2>4. t \in Seq(RowRec) /\ Len(t) = Columns
    BY <1>1, <2>3, SequenceIs
  <2>5. ItemsUpTo(t, q, n)
    BY <1>1, <2>2, <2>4 DEF ItemsUpTo, Before
  <2> QED
    BY <1>3, <2>1, <2>4, <2>5 DEF Amount, Complete
<1>4. CASE count # 1 /\ form = "columns"
  <2> DEFINE m == n * Empty
             d(a) == (a - 1) \div Empty
             e(a) == (a - 1) % Empty
             t == [a \in 1..m |-> Item(q, d(a) + 1, e(a) + 1)]
  <2>1. r = t
    BY <1>4, Zenon DEF Yields
  <2>2. m \in Nat
    BY <1>1
  <2>3. ASSUME NEW a \in 1..m
        PROVE  /\ d(a) \in Nat /\ e(a) \in 0..(Empty - 1)
               /\ a - 1 = Empty * d(a) + e(a) /\ a - 1 \in Nat
               /\ d(a) < n
    <3>1. a - 1 \in Nat /\ a - 1 < m
      BY <2>2
    <3>2. /\ d(a) \in Nat /\ e(a) \in 0..(Empty - 1)
          /\ a - 1 = Empty * d(a) + e(a)
      BY <1>1, <3>1, Division
    <3> DEFINE p == d(a)
               s == e(a)
    <3> HIDE DEF p, s
    <3>3. p \in Nat /\ s \in 0..(Empty - 1) /\ a - 1 = Empty * p + s
      BY <3>2 DEF p, s
    <3>4. n < p => Empty * n + Empty <= Empty * p
      BY <1>1, <3>3, Larger
    <3>5. m = Empty * n /\ Empty * p \in Int
      BY <1>1, <3>3
    <3>6. p < n
      <4>1. ~(n < p)
        BY <1>1, <3>1, <3>3, <3>4, <3>5
      <4>2. n # p
        BY <1>1, <3>1, <3>3, <3>5
      <4> QED
        BY <3>3, <4>1, <4>2
    <3> QED
      BY <3>1, <3>2, <3>6 DEF p
  <2>4. \A a \in 1..m : t[a] = [q |-> q, k |-> d(a) + 1, part |-> e(a) + 1]
    BY DEF Item
  <2>5. \A a, b \in 1..m : a < b => d(a) < d(b) \/ (d(a) = d(b) /\ e(a) < e(b))
    <3> SUFFICES ASSUME NEW a \in 1..m, NEW b \in 1..m, a < b
                 PROVE  d(a) < d(b) \/ (d(a) = d(b) /\ e(a) < e(b))
      OBVIOUS
    <3>1. a - 1 \in Nat /\ b - 1 \in Nat /\ a - 1 < b - 1
      BY <2>2
    <3> QED
      BY <1>1, <3>1, QuotientsGrow
  <2>6. \A a \in 1..m : d(a) = 0 \/ \E b \in 1..(a - 1) : b \in 1..m /\ d(b) = d(a) - 1
    <3> SUFFICES ASSUME NEW a \in 1..m, d(a) # 0
                 PROVE  \E b \in 1..(a - 1) : b \in 1..m /\ d(b) = d(a) - 1
      OBVIOUS
    <3> DEFINE p == d(a)
               s == e(a)
    <3>1. p \in Nat \ {0} /\ s \in 0..(Empty - 1) /\ a - 1 = Empty * p + s
      BY <2>3
    <3> HIDE DEF p, s, d, m
    <3>2. Empty * p = Empty * (p - 1) + Empty /\ Empty * (p - 1) \in Nat
      BY <1>1, <3>1
    <3>3. /\ a - Empty \in 1..(a - 1) /\ a - Empty \in 1..m
          /\ (a - Empty) - 1 = Empty * (p - 1) + s
          /\ (a - Empty) - 1 \in Nat
      BY <1>1, <2>2, <3>1, <3>2
    <3>4. ((a - Empty) - 1) \div Empty = p - 1
      <4>1. p - 1 \in Nat
        BY <3>1
      <4> QED
        BY <1>1, <3>1, <3>3, <4>1, QuotientIs
    <3>5. d(a - Empty) = d(a) - 1
      BY <3>4 DEF d, p
    <3> QED
      BY <3>3, <3>5
  <2>7. t \in [1..m -> RowRec]
    <3>1. \A a \in 1..m : Item(q, d(a) + 1, e(a) + 1) \in RowRec
      <4> SUFFICES ASSUME NEW a \in 1..m
                   PROVE  Item(q, d(a) + 1, e(a) + 1) \in RowRec
        OBVIOUS
      <4>1. d(a) \in Nat /\ e(a) \in 0..(Empty - 1)
        BY <2>3
      <4> HIDE DEF d, e
      <4>2. d(a) + 1 \in Int /\ e(a) + 1 \in Int
        BY <1>1, <4>1
      <4> QED
        BY <4>2 DEF Item, RowRec
    <3> HIDE DEF d, e, m
    <3> QED
      BY <3>1
  <2> HIDE DEF t, r, d, e, m
  <2>8. t \in Seq(RowRec) /\ Len(t) = m
    BY <2>2, <2>7, SequenceIs
  <2>9. \A a \in 1..m : /\ t[a].q = q /\ t[a].k = d(a) + 1 /\ t[a].part = e(a) + 1
                        /\ t[a].k \in 1..n /\ t[a].part \in 0..Empty
                        /\ d(a) \in Nat /\ e(a) \in Nat
    <3> SUFFICES ASSUME NEW a \in 1..m
                 PROVE  /\ t[a].q = q /\ t[a].k = d(a) + 1 /\ t[a].part = e(a) + 1
                        /\ t[a].k \in 1..n /\ t[a].part \in 0..Empty
                        /\ d(a) \in Nat /\ e(a) \in Nat
      OBVIOUS
    <3> DEFINE p == d(a)
               s == e(a)
    <3>1. /\ p \in Nat /\ s \in 0..(Empty - 1) /\ p < n
          /\ t[a] = [q |-> q, k |-> p + 1, part |-> s + 1]
      BY <2>3, <2>4
    <3> HIDE DEF p, s
    <3>2. p + 1 \in 1..n /\ s + 1 \in 0..Empty /\ s \in Nat
      BY <1>1, <3>1
    <3> QED
      BY <3>1, <3>2 DEF p, s
  <2>10. ItemsUpTo(t, q, n)
    <3>1. \A a, b \in 1..m : a < b => Before(t[a], t[b])
      BY <2>5, <2>9 DEF Before
    <3>2. \A a \in 1..m : t[a].k = 1 \/ \E b \in 1..(a - 1) : t[b].k = t[a].k - 1
      BY <2>6, <2>9
    <3> QED
      BY <2>8, <2>9, <3>1, <3>2 DEF ItemsUpTo
  <2> QED
    BY <1>4, <2>1, <2>8, <2>10 DEF m, Amount, Complete
<1>5. CASE count # 1 /\ form # "columns"
  <2> DEFINE x == IF form = "nothing" THEN Empty ELSE Whole
             t == [k \in 1..n |-> Item(q, k, x)]
  <2>1. r = t
    BY <1>5, Zenon DEF Yields
  <2>2. x \in 0..Empty /\ x \in Int
    BY <1>1
  <2> HIDE DEF x
  <2>3. \A k \in 1..n : /\ t[k] = [q |-> q, k |-> k, part |-> x]
                        /\ t[k] \in RowRec
    BY <2>2 DEF Item, RowRec
  <2>4. t \in [1..n -> RowRec]
    BY <2>3
  <2> HIDE DEF t, r
  <2>5. t \in Seq(RowRec) /\ Len(t) = n
    BY <2>4, SequenceIs
  <2>6. ItemsUpTo(t, q, n)
    <3>1. \A a \in 1..Len(t) :
            t[a].k = 1 \/ \E b \in 1..(a - 1) : t[b].k = t[a].k - 1
      <4> SUFFICES ASSUME NEW a \in 1..Len(t), t[a].k # 1
                   PROVE  \E b \in 1..(a - 1) : t[b].k = t[a].k - 1
        OBVIOUS
      <4>1. a \in 1..n /\ t[a].k = a
        BY <2>3, <2>5
      <4>2. a - 1 \in 1..(a - 1) /\ a - 1 \in 1..n
        BY <4>1
      <4> DEFINE b == a - 1
      <4>3. t[b] = [q |-> q, k |-> b, part |-> x]
        <5> HIDE DEF b
        <5> QED
          BY <2>3, <4>2 DEF b
      <4>4. t[b].k = b
        BY <4>3
      <4> QED
        BY <4>1, <4>2, <4>4
    <3> QED
      BY <2>2, <2>3, <2>5, <3>1 DEF ItemsUpTo, Before
  <2> QED
    BY <1>5, <2>1, <2>5, <2>6 DEF Amount, Complete
<1> QED
  BY <1>2, <1>3, <1>4, <1>5

LEMMA RowsOfFacts ==
  ASSUME NEW q \in Nat, NEW ks, Len(ks) \in Nat,
         NEW n \in Int, After(ks, n)
  PROVE  /\ RowsOf(q, ks) \in Seq(RowRec) /\ Len(RowsOf(q, ks)) = Len(ks)
         /\ \A j \in 1..Len(ks) : RowsOf(q, ks)[j] = Item(q, n + j, Whole)
<1> DEFINE m == Len(ks)
<1>1. RowsOf(q, ks) = [j \in 1..m |-> Item(q, n + j, Whole)]
  BY DEF RowsOf, After
<1> DEFINE t == [j \in 1..m |-> Item(q, n + j, Whole)]
<1>2. t \in [1..m -> RowRec]
  BY DEF RowRec, Item, Whole
<1>3. \A j \in 1..m : t[j] = Item(q, n + j, Whole)
  OBVIOUS
<1> HIDE DEF t
<1>4. t \in Seq(RowRec) /\ Len(t) = m
  BY <1>2
<1> QED
  BY <1>1, <1>3, <1>4 DEF t

-----------------------------------------------------------------------------
(* Blocks *)

LEMMA OtherPortals ==
  ASSUME NEW its, NEW qs, NEW qt, BlocksOK(its, qs),
         Len(qs) \in Nat, Len(qt) \in Nat, Len(qs) <= Len(qt),
         \A j \in 1..Len(its) :
           its[j].op = "each" =>
             /\ qt[its[j].q].kind = qs[its[j].q].kind
             /\ qt[its[j].q].size = qs[its[j].q].size
             /\ qt[its[j].q].pos = qs[its[j].q].pos
  PROVE  BlocksOK(its, qt)
<1>1. SUFFICES ASSUME NEW j \in 1..Len(its), its[j].op = "each",
                      Portioned(its[j], qs)
               PROVE  Portioned(its[j], qt)
  BY DEF BlocksOK, Right
<1> QED
  BY <1>1 DEF Portioned, OfEach, Behind

LEMMA BelowOK ==
  ASSUME NEW qs, BlocksOK(iters, qs), iters # <<>>
  PROVE  /\ BlocksOK(Below, qs)
         /\ Top \in BlockRec /\ Right(Top, qs)
         /\ Len(Below) = Len(iters) - 1 /\ Len(iters) \in Nat \ {0}
         /\ \A j \in 1..Len(Below) : Below[j] = iters[j]
         /\ \A j \in 1..Len(Below) :
              Top.op = "each" /\ Below[j].op = "each" => Below[j].q # Top.q
<1>1. iters \in Seq(BlockRec)
  BY DEF BlocksOK
<1>2. /\ Below \in Seq(BlockRec) /\ Len(Below) = Len(iters) - 1
      /\ \A j \in 1..Len(Below) : Below[j] = iters[j]
      /\ Top \in BlockRec /\ Len(iters) \in Nat \ {0}
  BY <1>1, BelowFacts DEF Below, Top
<1>3. \A j \in 1..Len(Below) : Right(Below[j], qs)
  BY <1>2 DEF BlocksOK
<1>4. Right(Top, qs)
  BY <1>2 DEF BlocksOK, Top
<1>5. \A j, k \in 1..Len(Below) :
        Below[j].op = "each" /\ Below[k].op = "each" /\ j # k
          => Below[j].q # Below[k].q
  <2>1. \A j \in 1..Len(Below) : j \in 1..Len(iters) /\ Below[j] = iters[j]
    BY <1>2
  <2> QED
    BY <2>1 DEF BlocksOK
<1>6. \A j \in 1..Len(Below) :
        Top.op = "each" /\ Below[j].op = "each" => Below[j].q # Top.q
  BY <1>2 DEF BlocksOK, Top
<1> QED
  BY <1>2, <1>3, <1>4, <1>5, <1>6 DEF BlocksOK

LEMMA PushOK ==
  ASSUME NEW rest, NEW qs, BlocksOK(rest, qs), NEW g \in BlockRec, Right(g, qs),
         \A j \in 1..Len(rest) :
           g.op = "each" /\ rest[j].op = "each" => rest[j].q # g.q
  PROVE  BlocksOK(Append(rest, g), qs)
<1>1. rest \in Seq(BlockRec)
  BY DEF BlocksOK
<1> DEFINE t == Append(rest, g)
<1>2. /\ t \in Seq(BlockRec) /\ Len(t) = Len(rest) + 1
      /\ \A i \in 1..Len(rest) : t[i] = rest[i]
      /\ t[Len(rest) + 1] = g /\ Len(rest) \in Nat
  BY <1>1, AppendFacts
<1> HIDE DEF t
<1>3. \A j \in 1..Len(t) : j \in 1..Len(rest) \/ j = Len(rest) + 1
  BY <1>2
<1>4. \A j \in 1..Len(t) : Right(t[j], qs)
  BY <1>2, <1>3 DEF BlocksOK
<1>5. \A j, k \in 1..Len(t) :
        t[j].op = "each" /\ t[k].op = "each" /\ j # k => t[j].q # t[k].q
  BY <1>2, <1>3 DEF BlocksOK
<1> QED
  BY <1>2, <1>4, <1>5 DEF BlocksOK, t

(* The next row of f.rows is given.                                        *)
Given(f) == [f EXCEPT !.i = @ + 1, !.got = @ + 1,
                      !.given = Append(@, f.rows[f.i + 1])]

LEMMA GivenIs ==
  ASSUME NEW f \in BlockRec, f.i < Len(f.rows)
  PROVE  /\ Given(f) \in BlockRec
         /\ Given(f).i = f.i + 1 /\ Given(f).got = f.got + 1
         /\ Given(f).given = Append(f.given, f.rows[f.i + 1])
         /\ Given(f).rows = f.rows /\ Given(f).q = f.q /\ Given(f).form = f.form
         /\ Given(f).op = f.op /\ Given(f).size = f.size
         /\ Given(f).count = f.count /\ Given(f).block = f.block
         /\ Given(f).tab = f.tab
         /\ f.rows[f.i + 1] \in RowRec /\ f.i + 1 \in 1..Len(f.rows)
<1>1. /\ f.rows \in Seq(RowRec) /\ f.given \in Seq(RowRec)
      /\ f.i \in Nat /\ f.got \in Nat
  BY DEF BlockRec
<1>2. f.i + 1 \in 1..Len(f.rows) /\ f.rows[f.i + 1] \in RowRec
  BY <1>1
<1>3. /\ f.i + 1 \in Nat /\ f.got + 1 \in Nat
      /\ Append(f.given, f.rows[f.i + 1]) \in Seq(RowRec)
  BY <1>1, <1>2
<1>4. Given(f) \in BlockRec
  BY <1>3 DEF Given, BlockRec
<1>5. /\ Given(f).i = f.i + 1 /\ Given(f).got = f.got + 1
      /\ Given(f).given = Append(f.given, f.rows[f.i + 1])
      /\ Given(f).rows = f.rows /\ Given(f).q = f.q /\ Given(f).form = f.form
      /\ Given(f).op = f.op /\ Given(f).size = f.size
      /\ Given(f).count = f.count /\ Given(f).block = f.block
      /\ Given(f).tab = f.tab
  BY DEF Given, BlockRec
<1> QED
  BY <1>2, <1>4, <1>5

LEMMA GivenFacts ==
  ASSUME NEW f \in BlockRec, GivenSoFar(f), f.i < Len(f.rows)
  PROVE  GivenSoFar(Given(f))
<1>1. /\ f.rows \in Seq(RowRec) /\ f.given \in Seq(RowRec)
      /\ f.i \in Nat /\ f.got \in Nat /\ f.q \in Nat
  BY DEF BlockRec
<1>2. f.i + 1 \in 1..Len(f.rows) /\ f.rows[f.i + 1] \in RowRec
  BY <1>1
<1>3. f.rows[f.i + 1] = Item(f.q, f.got + 1, Whole)
  <2>1. f.rows[f.i + 1] = Item(f.q, (f.got - f.i) + (f.i + 1), Whole)
    BY <1>2 DEF GivenSoFar
  <2>2. (f.got - f.i) + (f.i + 1) = f.got + 1
    BY <1>1
  <2> QED
    BY <2>1, <2>2, Zenon
<1>4. /\ Given(f).i = f.i + 1 /\ Given(f).got = f.got + 1
      /\ Given(f).given = Append(f.given, f.rows[f.i + 1])
      /\ Given(f).rows = f.rows /\ Given(f).q = f.q
      /\ Given(f).tab = f.tab
  BY GivenIs, Zenon
<1>5. /\ Len(Given(f).given) = f.got + 1
      /\ \A k \in 1..(f.got + 1) : Given(f).given[k] = Item(f.q, k, Whole)
  <2>1. Len(f.given) = f.got /\ \A k \in 1..f.got : f.given[k] = Item(f.q, k, Whole)
    BY DEF GivenSoFar
  <2> DEFINE x == f.rows[f.i + 1]
             t == Append(f.given, x)
  <2>2. /\ Len(t) = f.got + 1 /\ t[f.got + 1] = x
        /\ \A k \in 1..f.got : t[k] = f.given[k]
    BY <1>1, <2>1, AppendFacts
  <2> HIDE DEF t
  <2>3. \A k \in 1..(f.got + 1) : k \in 1..f.got \/ k = f.got + 1
    BY <1>1
  <2>4. \A k \in 1..(f.got + 1) : t[k] = Item(f.q, k, Whole)
    BY <1>3, <2>1, <2>2, <2>3
  <2>5. Given(f).given = t
    BY <1>4 DEF t
  <2> QED
    BY <2>2, <2>4, <2>5
<1>6. \A j \in 1..Len(f.rows) :
        f.rows[j] = Item(f.q, (Given(f).got - Given(f).i) + j, Whole)
  <2>1. Given(f).got - Given(f).i = f.got - f.i
    <3>1. Given(f).got = f.got + 1 /\ Given(f).i = f.i + 1
      BY <1>4, Zenon
    <3>2. (f.got + 1) - (f.i + 1) = f.got - f.i
      BY <1>1
    <3> QED
      BY <3>1, <3>2, Zenon
  <2> QED
    BY <2>1 DEF GivenSoFar
<1>7. /\ Given(f).i <= Len(Given(f).rows)
      /\ Given(f).i <= Given(f).got /\ Given(f).tab # NoTable
  BY <1>1, <1>2, <1>4 DEF GivenSoFar
<1>8. \A j \in 1..Len(Given(f).rows) :
        Given(f).rows[j]
          = Item(Given(f).q, (Given(f).got - Given(f).i) + j, Whole)
  BY <1>4, <1>6
<1>9. /\ Len(Given(f).given) = Given(f).got
      /\ \A k \in 1..Given(f).got : Given(f).given[k] = Item(Given(f).q, k, Whole)
  BY <1>4, <1>5
<1> QED
  BY <1>7, <1>8, <1>9 DEF GivenSoFar

(* pl_SPI_exec gives the next item.                                        *)
LEMMA ExecGives ==
  ASSUME NEW f \in BlockRec, f.op = "exec", ExecRight(f),
         f.i < Len(f.rows), NEW qs
  PROVE  Given(f) \in BlockRec /\ Right(Given(f), qs) /\ Given(f).op = "exec"
<1> DEFINE g == Given(f)
<1>1. /\ g \in BlockRec /\ g.i = f.i + 1 /\ g.got = f.got + 1
      /\ g.given = Append(f.given, f.rows[f.i + 1])
      /\ g.rows = f.rows /\ g.q = f.q /\ g.form = f.form
      /\ g.op = f.op /\ g.size = f.size /\ g.count = f.count /\ g.tab = f.tab
      /\ f.rows[f.i + 1] \in RowRec /\ f.i + 1 \in 1..Len(f.rows)
  BY GivenIs, Zenon
<1>2. /\ f.rows \in Seq(RowRec) /\ f.given \in Seq(RowRec)
      /\ f.i \in Nat /\ f.got \in Nat
  BY DEF BlockRec
<1> HIDE DEF g
<1>3. /\ Len(g.given) = g.got
      /\ \A k \in 1..g.got : g.given[k] = g.rows[k]
  <2>1. f.got = f.i /\ Len(f.given) = f.got
    BY DEF ExecRight
  <2>2. /\ Len(g.given) = f.got + 1
        /\ \A k \in 1..f.got : g.given[k] = f.given[k]
        /\ g.given[f.got + 1] = f.rows[f.got + 1]
    BY <1>1, <1>2, <2>1
  <2>3. \A k \in 1..f.got : f.given[k] = f.rows[k]
    BY DEF ExecRight
  <2>4. \A k \in 1..(f.got + 1) : k \in 1..f.got \/ k = f.got + 1
    BY <1>2
  <2> QED
    BY <1>1, <2>2, <2>3, <2>4
<1>4. g.rows = Yields(g.form, g.q, Asked(g.size, g.count), g.count)
  BY <1>1, Zenon DEF ExecRight
<1>5. /\ g.got = g.i /\ g.i <= Len(g.rows) /\ g.tab # NoTable
      /\ Asked(g.size, g.count) # 0
  BY <1>1, <1>2 DEF ExecRight
<1>6. ExecRight(g)
  BY <1>3, <1>4, <1>5, Zenon DEF ExecRight
<1> QED
  BY <1>1, <1>6 DEF Right, g

(* What exec yields, and how much it is.                                   *)
LEMMA ExecItems ==
  ASSUME SizesAssumption, NEW f \in BlockRec, f.op = "exec", ExecRight(f)
  PROVE  /\ ItemsUpTo(f.rows, f.q, Asked(f.size, f.count))
         /\ ~Dropped(f) => Len(f.rows) = Wanted(f)
<1> DEFINE m == Asked(f.size, f.count)
<1>1. /\ f.size \in Nat /\ f.count \in Int /\ f.form \in Forms /\ f.q \in Nat
  BY DEF BlockRec
<1>2. m \in Nat \ {0}
  BY <1>1, AskedFacts DEF ExecRight
<1>3. f.rows = Yields(f.form, f.q, m, f.count)
  BY Zenon DEF ExecRight
<1>4. Wanted(f) = Amount(f.form, m, f.count)
  BY DEF Wanted, Amount
<1> HIDE DEF m
<1> DEFINE x == Yields(f.form, f.q, m, f.count)
<1>5. /\ ItemsUpTo(x, f.q, m)
      /\ Complete(x, f.form, m, f.count)
  BY <1>1, <1>2, YieldsFacts
<1> HIDE DEF x
<1> QED
  BY <1>3, <1>4, <1>5 DEF Dropped, Complete, x, m

(* pl_fetch gives the next row of a portion.                               *)
LEMMA EachGives ==
  ASSUME NEW f \in BlockRec, f.op = "each", NEW qs, OfEach(f, qs),
         GivenSoFar(f), Behind(qs[f.q], (f.got - f.i) + Len(f.rows)),
         f.i < Len(f.rows), f.count > 0 => f.got < f.count
  PROVE  /\ Given(f) \in BlockRec /\ Right(Given(f), qs)
         /\ Given(f).op = "each" /\ Given(f).q = f.q
<1>1. /\ f.i \in Nat /\ f.got \in Nat /\ f.count \in Int
  BY DEF BlockRec
<1>2. /\ Given(f) \in BlockRec /\ GivenSoFar(Given(f))
      /\ Given(f).i = f.i + 1 /\ Given(f).got = f.got + 1
      /\ Given(f).op = "each" /\ Given(f).q = f.q /\ Given(f).size = f.size
      /\ Given(f).count = f.count /\ Given(f).block = f.block
      /\ Given(f).rows = f.rows
  BY GivenIs, GivenFacts, Zenon
<1> HIDE DEF Given
<1>3. Given(f).got - Given(f).i = f.got - f.i
  BY <1>1, <1>2
<1>4. /\ Given(f).got # 0
      /\ Given(f).count > 0 => Given(f).got <= Given(f).count
  BY <1>1, <1>2
<1>5. Portioned(Given(f), qs)
  BY <1>2, <1>3, <1>4 DEF Portioned, OfEach
<1> QED
  BY <1>2, <1>5 DEF Right

LEMMA SpiFacts ==
  ASSUME NEW s \in Spi, NEW t \in TableId \cup {NoTable}
  PROVE  /\ SPI_freetuptable(s, t) \in Spi
         /\ SPI_freetuptable(s, t).tuptable = s.tuptable
         /\ FreeTable \in TableId =>
              WithTable(s) \in Spi /\ WithTable(s).tuptable = FreeTable
         /\ \A b \in BOOLEAN : [s EXCEPT !.misused = b] \in Spi
BY DEF Spi, SPI_freetuptable, WithTable

(* The table of a block gives the next item.                               *)
GivesItem(f, s) ==
  [s EXCEPT !.misused = @ \/ (ReadsTable(f, f.rows[f.i + 1]) /\ ~s.tables[f.tab])]

LEMMA GivesItemFacts ==
  ASSUME NEW s \in Spi, NEW f, f.tab \in TableId
  PROVE  /\ GivesItem(f, s) \in Spi
         /\ s.tables[f.tab] => GivesItem(f, s) = s
<1> DEFINE x == ReadsTable(f, f.rows[f.i + 1]) /\ ~s.tables[f.tab]
           b == s.misused \/ x
<1>1. GivesItem(f, s) = [s EXCEPT !.misused = b]
  BY DEF GivesItem
<1>2. s.misused \in BOOLEAN /\ b \in BOOLEAN
  BY DEF Spi
<1>3. s.tables[f.tab] => b = s.misused
  BY <1>2
<1> HIDE DEF b
<1> QED
  BY <1>1, <1>2, <1>3 DEF Spi

(* A portion is over, or none was fetched yet.                             *)
Between(f, qs) ==
  /\ OfEach(f, qs)
  /\ Len(f.given) = f.got
  /\ \A k \in 1..f.got : f.given[k] = Item(f.q, k, Whole)
  /\ Behind(qs[f.q], f.got)
  /\ f.count > 0 => f.got < f.count

(* FetchPortion: the next row, or the end of the block.                    *)
LEMMA FetchPortionOK ==
  ASSUME SizesAssumption,
         NEW rest, NEW f \in BlockRec, f.op = "each", NEW qs, NEW s,
         s \in Spi, FreeTable \in TableId,
         QueriesOK(qs), BlocksOK(rest, qs), Between(f, qs),
         \A j \in 1..Len(rest) : rest[j].op = "each" => rest[j].q # f.q,
         \A q \in 1..Len(qs) :
           qs[q].kind = "each" /\ q # f.q
             => \E j \in 1..Len(rest) : rest[j].op = "each" /\ rest[j].q = q,
         GivesAsked,
         FetchPortion(rest, f, qs, s)
  PROVE  /\ QueriesOK(queries') /\ BlocksOK(iters', queries')
         /\ PortalsOK(iters', queries') /\ GivesAsked'
         /\ Len(iters') <= Len(rest) + 1 /\ spi' \in Spi
<1> DEFINE p == qs[f.q]
           r == Forward(p, f.block)
           u == WithTable(s)
           f0 == [f EXCEPT !.tab = u.tuptable, !.rows = RowsOf(f.q, r.rows),
                           !.i = 0]
<1>1. /\ f.q \in Nat /\ f.size \in Nat /\ f.count \in Int /\ f.block \in Nat
      /\ f.got \in Nat /\ f.given \in Seq(RowRec)
  BY DEF BlockRec
<1>2. /\ f.q \in 1..Len(qs) /\ p.kind = "each" /\ p.size = f.size
      /\ f.block # 0 /\ Behind(p, f.got)
      /\ DOMAIN p = {"kind", "size", "pos", "open"}
  BY DEF Between, OfEach, QueriesOK, PortalLike
<1>3. PICK P : qs \in Seq(P)
  BY DEF QueriesOK
<1> HIDE DEF p
<1>4. /\ Len(r.rows) \in Nat
      /\ r.rows = <<>> <=> Len(r.rows) = 0
      /\ r.rows = <<>> => f.got = p.size
      /\ After(r.rows, f.got)
      /\ r.rows # <<>> =>
           /\ f.got + Len(r.rows) <= p.size
           /\ \/ r.pos = f.got + Len(r.rows)
              \/ f.got + Len(r.rows) = p.size /\ r.pos = p.size + 1
  <2>1. /\ p.size \in Nat /\ f.got \in Nat /\ Behind(p, f.got)
        /\ f.block \in Nat /\ f.block # 0
    BY <1>1, <1>2
  <2> HIDE DEF p, r, f0, u
  <2> QED
    BY ONLY <2>1, FetchFacts DEF r
<1>5. CASE r.rows = <<>>
  <2>1. /\ iters' = rest /\ queries' = Closed(qs, f.q)
        /\ ended'.want = Asked(f.size, f.count) /\ ended'.given = f.got
    BY <1>5 DEF FetchPortion, EndBlock, Forward, p, Wanted
  <2> DEFINE qt == Closed(qs, f.q)
  <2>2. /\ qt \in Seq(P \cup {NoPortal}) /\ Len(qt) = Len(qs)
        /\ \A q \in 1..Len(qs) : q # f.q => qt[q] = qs[q]
        /\ qt[f.q] = NoPortal
    BY <1>2, <1>3, ExceptFacts DEF Closed
  <2> HIDE DEF qt
  <2>3. QueriesOK(qt)
    <3>1. PortalLike(NoPortal)
      BY DEF NoPortal, PortalLike
    <3>2. \A q \in 1..Len(qt) : PortalLike(qt[q])
      BY <2>2, <3>1 DEF QueriesOK
    <3> QED
      BY <2>2, <3>2 DEF QueriesOK
  <2>4. BlocksOK(rest, qt)
    <3>1. \A j \in 1..Len(rest) :
            rest[j].op = "each" => rest[j].q \in 1..Len(qs) /\ rest[j].q # f.q
      BY DEF BlocksOK, Right, Portioned, OfEach
    <3>2. Len(qs) \in Nat
      BY <1>3
    <3> QED
      BY <2>2, <3>1, <3>2, OtherPortals
  <2>5. PortalsOK(rest, qt)
    BY <2>2 DEF PortalsOK, NoPortal
  <2>6. GivesAsked'
    <3>1. f.got = f.size /\ (f.count > 0 => f.size <= f.count)
      BY <1>1, <1>2, <1>4, <1>5 DEF Between
    <3>2. Asked(f.size, f.count) = f.got
      BY <1>1, <3>1 DEF Asked, Least
    <3> QED
      BY <2>1, <3>2 DEF GivesAsked
  <2>7. spi' \in Spi
    BY <1>5, SpiFacts DEF FetchPortion, EndBlock, Forward, p
  <2>8. Len(rest) \in Nat
    BY DEF BlocksOK
  <2> QED
    BY <2>1, <2>3, <2>4, <2>5, <2>6, <2>7, <2>8 DEF qt
<1>6. CASE r.rows # <<>>
  <2>1. /\ iters' = Append(rest, Given(f0))
        /\ queries' = [qs EXCEPT ![f.q].pos = r.pos]
        /\ UNCHANGED ended
        /\ spi' = GivesItem(f0, u)
    BY <1>6 DEF FetchPortion, Yield, Given, Forward, p, GivesItem
  <2> DEFINE x == [p EXCEPT !.pos = r.pos]
             qt == [qs EXCEPT ![f.q] = x]
  <2>2. queries' = qt
    BY <2>1 DEF p
  <2>3. /\ x.kind = "each" /\ x.size = f.size /\ x.pos = r.pos
        /\ PortalLike(x)
    BY <1>1, <1>2 DEF PortalLike
  <2> HIDE DEF x
  <2>4. /\ qt \in Seq(P \cup {x}) /\ Len(qt) = Len(qs)
        /\ \A q \in 1..Len(qs) : q # f.q => qt[q] = qs[q]
        /\ qt[f.q] = x /\ Len(qs) \in Nat
    BY <1>2, <1>3, ExceptFacts
  <2> HIDE DEF qt
  <2>5. QueriesOK(qt)
    <3>1. \A q \in 1..Len(qt) : PortalLike(qt[q])
      BY <2>3, <2>4 DEF QueriesOK
    <3> QED
      BY <2>4, <3>1 DEF QueriesOK
  <2>6. BlocksOK(rest, qt)
    <3>1. \A j \in 1..Len(rest) :
            rest[j].op = "each" => rest[j].q \in 1..Len(qs) /\ rest[j].q # f.q
      BY DEF BlocksOK, Right, Portioned, OfEach
    <3> QED
      BY <2>4, <3>1, OtherPortals
  <2>7. /\ f0 \in BlockRec /\ f0.op = "each" /\ f0.q = f.q /\ f0.i = 0
        /\ f0.size = f.size /\ f0.count = f.count /\ f0.block = f.block
        /\ f0.got = f.got /\ f0.given = f.given
        /\ f0.rows = RowsOf(f.q, r.rows) /\ f0.tab = FreeTable
    <3>1. u.tuptable = FreeTable
      BY DEF WithTable
    <3>2. RowsOf(f.q, r.rows) \in Seq(RowRec)
      BY <1>1, <1>4, RowsOfFacts
    <3> HIDE DEF r, u
    <3> QED
      BY <3>1, <3>2 DEF BlockRec
  <2>8. /\ Len(f0.rows) = Len(r.rows)
        /\ \A j \in 1..Len(r.rows) : f0.rows[j] = Item(f.q, f.got + j, Whole)
    <3>1. Len(r.rows) \in Nat /\ f.q \in Nat /\ f.got \in Int
      BY <1>1, <1>4
    <3> DEFINE ks == r.rows
    <3>2. /\ Len(RowsOf(f.q, ks)) = Len(ks)
          /\ \A j \in 1..Len(ks) :
               RowsOf(f.q, ks)[j] = Item(f.q, f.got + j, Whole)
      <4>1. After(ks, f.got) /\ Len(ks) \in Nat
        BY <1>4
      <4> HIDE DEF ks
      <4> QED
        BY <3>1, <4>1, RowsOfFacts
    <3>3. f0.rows = RowsOf(f.q, ks)
      BY <2>7, Zenon
    <3> HIDE DEF f0, ks
    <3>4. Len(f0.rows) = Len(ks)
      BY <3>2, <3>3
    <3>5. \A j \in 1..Len(ks) : f0.rows[j] = Item(f.q, f.got + j, Whole)
      BY <3>2, <3>3
    <3> QED
      BY <3>4, <3>5 DEF ks
  <2> HIDE DEF f0, r
  <2>9. f0.got - f0.i = f.got
    BY <1>1, <2>7
  <2>10. GivenSoFar(f0)
    BY <1>1, <1>4, <2>7, <2>8, <2>9 DEF GivenSoFar, Between, TableId, NoTable
  <2>11. OfEach(f0, qt)
    BY <1>2, <2>3, <2>4, <2>7 DEF OfEach
  <2>12. Behind(qt[f0.q], (f0.got - f0.i) + Len(f0.rows))
    BY <1>2, <1>4, <1>6, <2>3, <2>4, <2>7, <2>8, <2>9 DEF Behind
  <2>13. f0.i < Len(f0.rows) /\ (f0.count > 0 => f0.got < f0.count)
    BY <1>4, <1>6, <2>7, <2>8 DEF Between
  <2>14. /\ Given(f0) \in BlockRec /\ Right(Given(f0), qt)
         /\ Given(f0).op = "each" /\ Given(f0).q = f.q
    BY <2>7, <2>10, <2>11, <2>12, <2>13, EachGives
  <2> HIDE DEF Given
  <2>15. BlocksOK(iters', qt)
    BY <2>1, <2>6, <2>14, PushOK
  <2>16. PortalsOK(iters', qt)
    <3>1. rest \in Seq(BlockRec)
      BY DEF BlocksOK
    <3>2. /\ Len(iters') = Len(rest) + 1 /\ iters'[Len(rest) + 1] = Given(f0)
          /\ \A j \in 1..Len(rest) : iters'[j] = rest[j]
          /\ Len(rest) \in Nat
      BY <2>1, <2>14, <3>1, AppendFacts
    <3> SUFFICES ASSUME NEW q \in 1..Len(qt), qt[q].kind = "each"
                 PROVE  \E j \in 1..Len(iters') :
                          iters'[j].op = "each" /\ iters'[j].q = q
      BY DEF PortalsOK
    <3>3. CASE q = f.q
      BY <2>14, <3>2, <3>3
    <3>4. CASE q # f.q
      BY <2>4, <3>2, <3>4
    <3> QED
      BY <3>3, <3>4
  <2>17. GivesAsked'
    BY <2>1 DEF GivesAsked
  <2>18. spi' \in Spi
    <3>1. u \in Spi /\ f0.tab \in TableId
      BY <2>7, SpiFacts
    <3> HIDE DEF u
    <3> QED
      BY <2>1, <3>1, GivesItemFacts
  <2>19. Len(iters') <= Len(rest) + 1
    <3>1. rest \in Seq(BlockRec)
      BY DEF BlocksOK
    <3> QED
      BY <2>1, <2>14, <3>1, AppendFacts
  <2> QED
    BY <2>2, <2>5, <2>15, <2>16, <2>17, <2>18, <2>19
<1> QED
  BY <1>5, <1>6

-----------------------------------------------------------------------------
(* Tables *)

(* There are more tables than places that refer to one.                    *)
LEMMA FreeTableIs ==
  ASSUME SizesAssumption, iters \in Seq(BlockRec), Len(iters) <= MaxNest
  PROVE  FreeTable \in TableId /\ FreeTable \notin InUse
<1> DEFINE L == Len(iters)
           g == [i \in 0..L |-> IF i = 0 THEN spi.tuptable ELSE iters[i].tab]
<1>1. L \in Nat /\ MaxNest \in Nat /\ L <= MaxNest /\ DOMAIN iters = 1..L
  BY DEF SizesAssumption
<1>2. \A t \in InUse : \E i \in 0..L : g[i] = t
  BY <1>1 DEF InUse
<1> HIDE DEF g, L
<1>3. SUFFICES ASSUME TableId \subseteq InUse PROVE FALSE
  BY DEF FreeTable
<1> DEFINE h == [t \in TableId |-> CHOOSE i \in 0..L : g[i] = t]
<1>4. h \in [TableId -> 0..L] /\ \A t \in TableId : g[h[t]] = t
  BY <1>2, <1>3
<1> HIDE DEF h
<1>5. IsFiniteSet(TableId) /\ Cardinality(TableId) = MaxNest + 2
  BY <1>1, FS_Interval DEF TableId
<1>6. IsFiniteSet(0..L) /\ Cardinality(0..L) = L + 1
  BY <1>1, FS_Interval
<1>7. Cardinality(0..L) < Cardinality(TableId)
  BY <1>1, <1>5, <1>6
<1>8. \E x, y \in TableId : x # y /\ h[x] = h[y]
  <2> DEFINE I == 0..L
  <2>1. /\ h \in [TableId -> I] /\ IsFiniteSet(I) /\ IsFiniteSet(TableId)
        /\ Cardinality(I) < Cardinality(TableId)
    BY <1>4, <1>5, <1>6, <1>7
  <2> HIDE DEF I
  <2> QED
    BY ONLY <2>1, FS_PigeonHole
<1> QED
  BY <1>4, <1>8

-----------------------------------------------------------------------------
(* Steps *)

LEMMA RowsInit == SizesAssumption /\ Init => RowsInv
<1> SUFFICES ASSUME SizesAssumption, Init PROVE RowsInv
  OBVIOUS
<1>1. queries = <<>> /\ iters = <<>> /\ Len(queries) = 0 /\ Len(iters) = 0
  BY DEF Init
<1>2. QueriesOK(queries)
  <2>1. queries \in Seq({})
    BY <1>1
  <2> QED
    BY <1>1, <2>1 DEF QueriesOK
<1>3. BlocksOK(iters, queries)
  BY <1>1 DEF BlocksOK
<1>4. PortalsOK(iters, queries)
  BY <1>1 DEF PortalsOK
<1>5. GivesAsked /\ spi \in Spi
  BY DEF Init, GivesAsked, Spi
<1>6. Len(iters) <= MaxNest
  BY <1>1 DEF SizesAssumption
<1> QED
  BY <1>2, <1>3, <1>4, <1>5, <1>6 DEF RowsInv, Init

(* qs is queries and a new one.                                            *)
With(qs, x) == qs = Append(queries, x)

LEMMA NewQueryFacts ==
  ASSUME RowsInv, NEW x, PortalLike(x), NEW qs, With(qs, x)
  PROVE  /\ QueriesOK(qs) /\ BlocksOK(iters, qs)
         /\ NewQuery \in 1..Len(qs) /\ qs[NewQuery] = x
         /\ \A j \in 1..Len(iters) :
              iters[j].op = "each" => iters[j].q # NewQuery
         /\ \A q \in 1..Len(qs) :
              qs[q].kind = "each" /\ q # NewQuery
                => \E j \in 1..Len(iters) :
                     iters[j].op = "each" /\ iters[j].q = q
<1>1. PICK P : queries \in Seq(P)
  BY DEF RowsInv, QueriesOK
<1>2. /\ qs \in Seq(P \cup {x}) /\ Len(qs) = Len(queries) + 1
      /\ \A q \in 1..Len(queries) : qs[q] = queries[q]
      /\ qs[Len(queries) + 1] = x /\ Len(queries) \in Nat
  BY <1>1, AppendFacts DEF With
<1>3. \A q \in 1..Len(qs) : q \in 1..Len(queries) \/ q = Len(queries) + 1
  BY <1>2
<1>4. QueriesOK(qs)
  <2>1. \A q \in 1..Len(qs) : PortalLike(qs[q])
    BY <1>2, <1>3 DEF RowsInv, QueriesOK
  <2> QED
    BY <1>2, <2>1 DEF QueriesOK
<1>5. \A j \in 1..Len(iters) :
        iters[j].op = "each" => iters[j].q \in 1..Len(queries)
  BY DEF RowsInv, BlocksOK, Right, Portioned, OfEach
<1>6. BlocksOK(iters, qs)
  <2>1. BlocksOK(iters, queries) /\ Len(queries) <= Len(qs)
    BY <1>2 DEF RowsInv
  <2>2. \A j \in 1..Len(iters) :
          iters[j].op = "each" => qs[iters[j].q] = queries[iters[j].q]
    BY <1>2, <1>5
  <2>3. Len(queries) \in Nat /\ Len(qs) \in Nat
    BY <1>2
  <2> QED
    BY <2>1, <2>2, <2>3, OtherPortals
<1>7. \A q \in 1..Len(qs) :
        qs[q].kind = "each" /\ q # NewQuery
          => \E j \in 1..Len(iters) : iters[j].op = "each" /\ iters[j].q = q
  BY <1>2, <1>3 DEF RowsInv, PortalsOK, NewQuery
<1> QED
  BY <1>2, <1>4, <1>5, <1>6, <1>7 DEF NewQuery

(* A query whose portal, if it has one, is not that of a plan.each.        *)
LEMMA AddQuery ==
  ASSUME RowsInv, NEW x, x.kind # "each", PortalLike(x),
         queries' = Append(queries, x)
  PROVE  /\ QueriesOK(queries') /\ BlocksOK(iters, queries')
         /\ PortalsOK(iters, queries')
         /\ NewQuery \in Nat /\ Len(queries) \in Nat
<1>1. Len(queries) \in Nat
  BY DEF RowsInv, QueriesOK
<1>2. /\ QueriesOK(queries') /\ BlocksOK(iters, queries')
      /\ queries'[NewQuery] = x
      /\ \A q \in 1..Len(queries') :
           queries'[q].kind = "each" /\ q # NewQuery
             => \E j \in 1..Len(iters) :
                  iters[j].op = "each" /\ iters[j].q = q
  <2>1. With(queries', x)
    BY DEF With
  <2> QED
    BY ONLY RowsInv, PortalLike(x), <2>1, NewQueryFacts, Zenon
<1> QED
  BY <1>1, <1>2 DEF PortalsOK, NewQuery

(* A cursor is moved or closed.                                            *)
LEMMA ChangeQuery ==
  ASSUME RowsInv, NEW q \in 1..Len(queries), queries[q].kind # "each",
         NEW x, x.kind # "each", PortalLike(x),
         queries' = [queries EXCEPT ![q] = x]
  PROVE  /\ QueriesOK(queries') /\ BlocksOK(iters, queries')
         /\ PortalsOK(iters, queries')
<1>1. PICK P : queries \in Seq(P)
  BY DEF RowsInv, QueriesOK
<1>2. /\ queries' \in Seq(P \cup {x}) /\ Len(queries') = Len(queries)
      /\ \A r \in 1..Len(queries) : r # q => queries'[r] = queries[r]
      /\ queries'[q] = x /\ Len(queries) \in Nat
  BY <1>1, ExceptFacts
<1>3. QueriesOK(queries')
  <2>1. \A r \in 1..Len(queries') : PortalLike(queries'[r])
    BY <1>2 DEF RowsInv, QueriesOK
  <2> QED
    BY <1>2, <2>1 DEF QueriesOK
<1>4. BlocksOK(iters, queries')
  <2>1. \A j \in 1..Len(iters) :
          iters[j].op = "each"
            => iters[j].q \in 1..Len(queries) /\ iters[j].q # q
    BY DEF RowsInv, BlocksOK, Right, Portioned, OfEach
  <2>2. BlocksOK(iters, queries) /\ Len(queries) <= Len(queries')
    BY <1>2 DEF RowsInv
  <2> QED
    BY <1>2, <2>1, <2>2, OtherPortals
<1>5. PortalsOK(iters, queries')
  BY <1>2 DEF RowsInv, PortalsOK
<1> QED
  BY <1>3, <1>4, <1>5

LEMMA CursorIs ==
  ASSUME RowsInv, NEW q \in Cursors
  PROVE  /\ q \in 1..Len(queries) /\ queries[q].kind # "each"
         /\ PortalLike(queries[q])
<1>1. PICK P : queries \in Seq(P)
  BY DEF RowsInv, QueriesOK
<1>2. q \in 1..Len(queries) /\ queries[q].kind = "cursor"
  BY <1>1 DEF Cursors
<1> QED
  BY <1>2 DEF RowsInv, QueriesOK

LEMMA MoveCursor ==
  ASSUME RowsInv, NEW q \in Cursors, NEW pos, queries' = Moved(q, pos)
  PROVE  /\ QueriesOK(queries') /\ BlocksOK(iters, queries')
         /\ PortalsOK(iters, queries')
<1> DEFINE x == [queries[q] EXCEPT !.pos = pos]
<1>1. /\ q \in 1..Len(queries) /\ queries[q].kind # "each"
      /\ PortalLike(queries[q])
  BY CursorIs
<1>2. x.kind # "each" /\ PortalLike(x)
  BY <1>1 DEF PortalLike
<1>3. queries' = [queries EXCEPT ![q] = x]
  BY DEF Moved
<1> HIDE DEF x
<1> QED
  BY <1>1, <1>2, <1>3, ChangeQuery

(* Blocks are added, changed and left.                                     *)
LEMMA PushBlock ==
  ASSUME BlocksOK(iters, queries'), PortalsOK(iters, queries'), SizesAssumption,
         MayNest, NEW g \in BlockRec, Right(g, queries'), g.op # "each",
         iters' = Append(iters, g)
  PROVE  /\ BlocksOK(iters', queries') /\ PortalsOK(iters', queries')
         /\ Len(iters') <= MaxNest
<1>1. iters \in Seq(BlockRec)
  BY DEF BlocksOK
<1>2. /\ Len(iters') = Len(iters) + 1 /\ Len(iters) \in Nat
      /\ \A j \in 1..Len(iters) : iters'[j] = iters[j]
  BY <1>1, AppendFacts
<1>3. BlocksOK(iters', queries')
  BY PushOK
<1>4. PortalsOK(iters', queries')
  BY <1>2 DEF PortalsOK
<1>5. Len(iters') <= MaxNest
  BY <1>2 DEF MayNest, SizesAssumption
<1> QED
  BY <1>3, <1>4, <1>5

LEMMA ReplaceTop ==
  ASSUME BlocksOK(iters, queries'), PortalsOK(iters, queries'), iters # <<>>,
         NEW g \in BlockRec, Right(g, queries'), g.op = Top.op, g.q = Top.q,
         iters' = Append(Below, g)
  PROVE  /\ BlocksOK(iters', queries') /\ PortalsOK(iters', queries')
         /\ Len(iters') = Len(iters)
<1>1. /\ BlocksOK(Below, queries')
      /\ Len(Below) = Len(iters) - 1 /\ Len(iters) \in Nat \ {0}
      /\ \A j \in 1..Len(Below) : Below[j] = iters[j]
      /\ \A j \in 1..Len(Below) :
           g.op = "each" /\ Below[j].op = "each" => Below[j].q # g.q
  BY BelowOK
<1>2. Below \in Seq(BlockRec)
  BY <1>1 DEF BlocksOK
<1>3. /\ Len(iters') = Len(iters) /\ iters'[Len(iters)] = g
      /\ \A j \in 1..Len(Below) : iters'[j] = iters[j]
  BY <1>1, <1>2, AppendFacts
<1>4. BlocksOK(iters', queries')
  BY <1>1, PushOK
<1>5. PortalsOK(iters', queries')
  <2> SUFFICES ASSUME NEW q \in 1..Len(queries'), queries'[q].kind = "each",
                      NEW j \in 1..Len(iters), iters[j].op = "each", iters[j].q = q
               PROVE  \E k \in 1..Len(iters') :
                        iters'[k].op = "each" /\ iters'[k].q = q
    BY DEF PortalsOK
  <2>1. CASE j = Len(iters)
    BY <1>1, <1>3, <2>1 DEF Top
  <2>2. CASE j # Len(iters)
    <3>1. j \in 1..Len(Below) /\ j \in 1..Len(iters')
      BY <1>1, <1>3, <2>2
    <3>2. iters'[j] = iters[j]
      BY <1>1, <1>3, <3>1
    <3> QED
      BY <3>1, <3>2
  <2> QED
    BY <2>1, <2>2
<1> QED
  BY <1>3, <1>4, <1>5

LEMMA PopBlock ==
  ASSUME BlocksOK(iters, queries'), PortalsOK(iters, queries'), iters # <<>>,
         Top.op # "each", iters' = Below
  PROVE  /\ BlocksOK(iters', queries') /\ PortalsOK(iters', queries')
         /\ Len(iters') <= Len(iters)
<1>1. /\ BlocksOK(Below, queries')
      /\ Len(Below) = Len(iters) - 1 /\ Len(iters) \in Nat \ {0}
      /\ \A j \in 1..Len(Below) : Below[j] = iters[j]
  BY BelowOK
<1>2. PortalsOK(iters', queries')
  <2> SUFFICES ASSUME NEW q \in 1..Len(queries'), queries'[q].kind = "each",
                      NEW j \in 1..Len(iters), iters[j].op = "each", iters[j].q = q
               PROVE  \E k \in 1..Len(iters') :
                        iters'[k].op = "each" /\ iters'[k].q = q
    BY DEF PortalsOK
  <2>1. j # Len(iters)
    BY DEF Top
  <2> QED
    BY <1>1, <2>1
<1> QED
  BY <1>1, <1>2

LEMMA NewBlockIs ==
  ASSUME NEW op \in Ops, NEW form \in Forms, NEW q \in Nat, NEW n \in Nat,
         NEW count \in Int, NEW block \in Nat
  PROVE  LET f == NewBlock(op, form, q, n, count, block) IN
         /\ f \in BlockRec
         /\ f.op = op /\ f.form = form /\ f.q = q /\ f.size = n /\ f.count = count
         /\ f.block = block /\ f.i = 0 /\ f.got = 0 /\ f.given = <<>>
         /\ f.rows = <<>> /\ f.tab = NoTable
<1>1. <<>> \in Seq(RowRec)
  OBVIOUS
<1>2. NoTable \in TableId \cup {NoTable} /\ 0 \in Nat
  OBVIOUS
<1> QED
  BY <1>1, <1>2 DEF NewBlock, BlockRec

LEMMA CursorBlockIs ==
  ASSUME NEW op \in Ops, NEW q \in Nat, NEW n \in Nat
  PROVE  /\ NewBlock(op, "row", q, n, 0, 1) \in BlockRec
         /\ NewBlock(op, "row", q, n, 0, 1).op = op
         /\ NewBlock(op, "row", q, n, 0, 1).q = q
<1>1. <<>> \in Seq(RowRec) /\ "row" \in Forms
  BY DEF Forms
<1>2. NoTable \in TableId \cup {NoTable} /\ 0 \in Nat /\ 1 \in Nat /\ 0 \in Int
  OBVIOUS
<1> QED
  BY <1>1, <1>2 DEF NewBlock, BlockRec

LEMMA ExecSteps ==
  ASSUME SizesAssumption, RowsInv,
         ExecBlock \/ ExecNext \/ ExecEnd \/ ExecRows \/ ExecOther
  PROVE  RowsInv'
<1> FreeTable \in TableId
  BY FreeTableIs DEF RowsInv, BlocksOK
<1> spi \in Spi /\ spi.tuptable \in TableId \cup {NoTable}
  BY DEF RowsInv, Spi
<1>1. CASE ExecBlock
  <2>1. PICK n \in Size, count \in {c \in Count : c >= 0}, form \in Form :
       LET q == NewQuery
           m == Asked(n, count)
           s == WithTable(spi)
           f == [NewBlock("exec", form, q, n, count, 0) EXCEPT
                   !.tab = s.tuptable, !.rows = Yields(form, q, m, count)]
       IN /\ queries' = Append(queries, NoPortal)
          /\ IF m = 0
             THEN spi' = SPI_freetuptable(s, s.tuptable) /\ UNCHANGED <<iters, ended>>
             ELSE IF f.rows = <<>>
             THEN EndBlock("complete", iters, f, SPI_freetuptable(s, s.tuptable))
             ELSE Yield(iters, f, s)
    BY <1>1 DEF ExecBlock
  <2>2. n \in Nat /\ count \in Int /\ form \in Forms
    BY DEF SizesAssumption, Forms
  <2>3. /\ QueriesOK(queries') /\ BlocksOK(iters, queries')
        /\ PortalsOK(iters, queries')
        /\ NewQuery \in Nat /\ Len(queries) \in Nat
    <3>1. NoPortal.kind # "each" /\ PortalLike(NoPortal)
      BY DEF NoPortal, PortalLike
    <3> QED
      BY <2>1, <3>1, AddQuery
  <2> DEFINE q == NewQuery
             m == Asked(n, count)
             s == WithTable(spi)
             rows == Yields(form, q, m, count)
             f == [NewBlock("exec", form, q, n, count, 0) EXCEPT
                     !.tab = s.tuptable, !.rows = rows]
             u == SPI_freetuptable(s, s.tuptable)
  <2>4. /\ s \in Spi /\ s.tuptable = FreeTable /\ s.tuptable \in TableId
        /\ u \in Spi
    BY SpiFacts
  <2>5. m \in Nat
    BY <2>2, AskedFacts
  <2>6. CASE m = 0
    <3>1. spi' = u /\ UNCHANGED <<iters, ended>>
      BY <2>1, <2>6
    <3> QED
      BY <2>3, <2>4, <3>1 DEF RowsInv, GivesAsked
  <2>7. ASSUME m # 0
        PROVE  /\ f \in BlockRec /\ f.op = "exec" /\ f.q = q /\ f.i = 0
               /\ f.got = 0 /\ f.tab = FreeTable /\ f.tab # NoTable
               /\ ExecRight(f)
    <3>1. q \in Nat /\ "exec" \in Ops
      BY <2>3 DEF Ops
    <3> HIDE DEF m, s, q
    <3>2. rows \in Seq(RowRec)
      <4>1. m \in Nat \ {0}
        BY <2>5, <2>7
      <4> QED
        BY <2>2, <3>1, <4>1, YieldsFacts
    <3> HIDE DEF rows
    <3> DEFINE b == NewBlock("exec", form, q, n, count, 0)
    <3>3. /\ b \in BlockRec /\ b.op = "exec" /\ b.q = q /\ b.i = 0 /\ b.got = 0
          /\ b.given = <<>> /\ b.size = n /\ b.count = count /\ b.form = form
      BY <2>2, <3>1, NewBlockIs
    <3>4. f = [b EXCEPT !.tab = s.tuptable, !.rows = rows]
      OBVIOUS
    <3> HIDE DEF b, f
    <3>5. /\ f \in BlockRec /\ f.op = "exec" /\ f.q = q /\ f.i = 0
          /\ f.got = 0 /\ f.given = <<>> /\ f.rows = rows
          /\ f.tab = FreeTable /\ f.size = n /\ f.count = count /\ f.form = form
      BY <2>4, <3>2, <3>3, <3>4 DEF BlockRec
    <3>6. f.tab # NoTable
      BY <3>5 DEF TableId, NoTable
    <3>7. f.rows = Yields(f.form, f.q, Asked(f.size, f.count), f.count)
      BY <3>5, Zenon DEF rows, m
    <3>8. Asked(f.size, f.count) # 0
      BY <2>7, <3>5, Zenon DEF m
    <3>9. /\ f.got = f.i /\ f.i <= Len(f.rows) /\ Len(f.given) = f.got
          /\ \A k \in 1..f.got : f.given[k] = f.rows[k]
      BY <3>2, <3>5
    <3> QED
      BY <3>5, <3>6, <3>7, <3>8, <3>9 DEF ExecRight
  <2>8. CASE m # 0 /\ f.rows = <<>>
    <3>1. EndBlock("complete", iters, f, u)
      BY <2>1, <2>8
    <3>2. /\ f \in BlockRec /\ f.op = "exec" /\ ExecRight(f) /\ f.got = 0
      BY <2>7, <2>8
    <3> HIDE DEF f, u, m
    <3>3. ~Dropped(f) => Wanted(f) = f.got
      <4>1. Len(f.rows) = 0
        BY <2>8
      <4> QED
        BY <3>2, <4>1, ExecItems
    <3>4. /\ iters' = iters /\ spi' = u
          /\ ended' = [how |-> "complete", op |-> f.op, dropped |-> Dropped(f),
                       want |-> Wanted(f), given |-> f.got]
      BY <3>1 DEF EndBlock
    <3>5. GivesAsked'
      BY <3>3, <3>4 DEF GivesAsked
    <3> QED
      BY <2>3, <2>4, <3>4, <3>5 DEF RowsInv
  <2>9. CASE m # 0 /\ f.rows # <<>>
    <3>1. Yield(iters, f, s)
      BY <2>1, <2>9
    <3>2. /\ f \in BlockRec /\ f.op = "exec" /\ ExecRight(f) /\ f.i = 0
          /\ f.tab = FreeTable
      BY <2>7, <2>9
    <3> HIDE DEF f, m, s, q
    <3>3. f.i < Len(f.rows)
      <4>1. f.rows \in Seq(RowRec) /\ f.rows # <<>>
        BY <2>9, <3>2 DEF BlockRec
      <4> QED
        BY <3>2, <4>1
    <3>4. Given(f) \in BlockRec /\ Right(Given(f), queries') /\ Given(f).op = "exec"
      BY <3>2, <3>3, ExecGives
    <3>5. /\ iters' = Append(iters, Given(f)) /\ UNCHANGED ended
          /\ spi' = GivesItem(f, s)
      BY <3>1 DEF Yield, Given, GivesItem
    <3>6. /\ BlocksOK(iters', queries') /\ PortalsOK(iters', queries')
          /\ Len(iters') <= MaxNest
      BY <1>1, <2>3, <3>4, <3>5, PushBlock DEF ExecBlock
    <3>7. spi' \in Spi
      BY <2>4, <3>2, <3>5, GivesItemFacts
    <3> QED
      BY <2>3, <3>5, <3>6, <3>7 DEF RowsInv, GivesAsked
  <2> QED
    BY <2>6, <2>8, <2>9
<1>2. CASE ExecNext
  <2>1. /\ iters # <<>> /\ Top.op = "exec" /\ Top.i < Len(Top.rows)
        /\ iters' = Append(Below, Given(Top)) /\ UNCHANGED <<queries, ended>>
        /\ spi' = GivesItem(Top, spi)
    BY <1>2 DEF ExecNext, Runs, Yield, Given, GivesItem
  <2>2. Top \in BlockRec /\ ExecRight(Top)
    BY <2>1, BelowOK DEF RowsInv, Right
  <2>3. /\ Given(Top) \in BlockRec /\ Right(Given(Top), queries')
        /\ Given(Top).op = Top.op /\ Given(Top).q = Top.q
    BY <2>1, <2>2, ExecGives, GivenIs
  <2>4. Top.tab \in TableId
    BY <2>2 DEF ExecRight, BlockRec
  <2>5. spi' \in Spi
    BY <2>1, <2>4, GivesItemFacts
  <2> HIDE DEF Given
  <2>6. /\ BlocksOK(iters', queries') /\ PortalsOK(iters', queries')
        /\ Len(iters') = Len(iters)
    BY <2>1, <2>3, ReplaceTop DEF RowsInv
  <2> QED
    BY <2>1, <2>5, <2>6 DEF RowsInv, GivesAsked
<1>3. CASE ExecEnd
  <2>1. /\ iters # <<>> /\ Top.op = "exec" /\ Top.i = Len(Top.rows)
        /\ iters' = Below /\ UNCHANGED queries
        /\ ended' = [how |-> "complete", op |-> "exec", dropped |-> Dropped(Top),
                     want |-> Wanted(Top), given |-> Top.got]
        /\ spi' = SPI_freetuptable(spi, spi.tuptable)
    BY <1>3 DEF ExecEnd, Runs, EndBlock
  <2>2. Top \in BlockRec /\ ExecRight(Top)
    BY <2>1, BelowOK DEF RowsInv, Right
  <2>3. GivesAsked'
    <3>1. ~Dropped(Top) => Wanted(Top) = Top.got
      BY <2>1, <2>2, ExecItems DEF ExecRight
    <3> QED
      BY <2>1, <3>1 DEF GivesAsked
  <2>4. /\ BlocksOK(iters', queries') /\ PortalsOK(iters', queries')
        /\ Len(iters') <= Len(iters) /\ Len(iters') <= MaxNest
    <3>1. Len(iters) <= MaxNest /\ Len(iters) \in Nat /\ MaxNest \in Nat
      BY DEF RowsInv, BlocksOK, SizesAssumption
    <3>2. /\ BlocksOK(iters', queries') /\ PortalsOK(iters', queries')
          /\ Len(iters') <= Len(iters)
      BY <2>1, PopBlock DEF RowsInv
    <3>3. Len(iters') \in Nat
      BY <3>2 DEF BlocksOK
    <3> QED
      BY <3>1, <3>2, <3>3
  <2>5. spi' \in Spi
    BY <2>1, SpiFacts
  <2> QED
    BY <2>1, <2>3, <2>4, <2>5 DEF RowsInv
<1>4. CASE ExecRows
  <2>1. spi' \in Spi
    BY <1>4, SpiFacts DEF ExecRows, Spi
  <2> QED
    BY <1>4, <2>1 DEF RowsInv, GivesAsked, ExecRows
<1>5. CASE ExecOther
  <2>1. spi' \in Spi
    BY <1>5 DEF ExecOther, WithoutTable, Spi
  <2> QED
    BY <1>5, <2>1 DEF RowsInv, GivesAsked, ExecOther
<1> QED
  BY <1>1, <1>2, <1>3, <1>4, <1>5

(* pl_close *)
LEMMA CloseTop ==
  ASSUME SizesAssumption, RowsInv, iters # <<>>, Top.op = "each",
         iters' = Below, queries' = Closed(queries, Top.q)
  PROVE  /\ QueriesOK(queries') /\ BlocksOK(iters', queries')
         /\ PortalsOK(iters', queries') /\ Len(iters') <= MaxNest
<1>1. /\ BlocksOK(Below, queries) /\ Portioned(Top, queries)
      /\ Len(Below) = Len(iters) - 1 /\ Len(iters) \in Nat \ {0}
      /\ \A j \in 1..Len(Below) : Below[j] = iters[j]
      /\ \A j \in 1..Len(Below) : Below[j].op = "each" => Below[j].q # Top.q
  BY BelowOK DEF RowsInv, Right
<1>2. PICK P : queries \in Seq(P)
  BY DEF RowsInv, QueriesOK
<1>3. Top.q \in 1..Len(queries)
  BY <1>1 DEF Portioned, OfEach
<1>4. /\ queries' \in Seq(P \cup {NoPortal}) /\ Len(queries') = Len(queries)
      /\ \A q \in 1..Len(queries) : q # Top.q => queries'[q] = queries[q]
      /\ queries'[Top.q] = NoPortal /\ Len(queries) \in Nat
  BY <1>2, <1>3, ExceptFacts DEF Closed
<1>5. QueriesOK(queries')
  <2>1. PortalLike(NoPortal)
    BY DEF NoPortal, PortalLike
  <2>2. \A q \in 1..Len(queries') : PortalLike(queries'[q])
    BY <1>4, <2>1 DEF RowsInv, QueriesOK
  <2> QED
    BY <1>4, <2>2 DEF QueriesOK
<1>6. BlocksOK(Below, queries')
  <2>1. \A j \in 1..Len(Below) :
          Below[j].op = "each"
            => Below[j].q \in 1..Len(queries) /\ Below[j].q # Top.q
    BY <1>1 DEF BlocksOK, Right, Portioned, OfEach
  <2>2. \A j \in 1..Len(Below) :
          Below[j].op = "each" => queries'[Below[j].q] = queries[Below[j].q]
    BY <1>4, <2>1
  <2>3. Len(queries) \in Nat /\ Len(queries') \in Nat /\ Len(queries) <= Len(queries')
    BY <1>4
  <2> QED
    BY <1>1, <2>2, <2>3, OtherPortals
<1>7. PortalsOK(Below, queries')
  <2> SUFFICES ASSUME NEW q \in 1..Len(queries'), queries'[q].kind = "each"
               PROVE  \E k \in 1..Len(Below) :
                        Below[k].op = "each" /\ Below[k].q = q
    BY DEF PortalsOK
  <2>1. q # Top.q
    BY <1>4 DEF NoPortal
  <2>2. PICK j \in 1..Len(iters) : iters[j].op = "each" /\ iters[j].q = q
    BY <1>4, <2>1 DEF RowsInv, PortalsOK
  <2>3. j # Len(iters)
    BY <2>1, <2>2 DEF Top
  <2>4. j \in 1..Len(Below) /\ Below[j] = iters[j]
    BY <1>1, <2>3
  <2> QED
    BY <2>2, <2>4
<1>8. Len(Below) <= MaxNest
  BY <1>1 DEF RowsInv, SizesAssumption
<1> QED
  BY <1>5, <1>6, <1>7, <1>8

LEMMA EachSteps ==
  ASSUME SizesAssumption, RowsInv, Each \/ EachNext \/ EachFetch \/ EachDone
  PROVE  RowsInv'
<1>1. FreeTable \in TableId
  BY FreeTableIs DEF RowsInv, BlocksOK
<1>2. spi \in Spi /\ WithoutTable \in Spi
  BY DEF RowsInv, Spi, WithoutTable
<1>3. CASE Each
  <2>1. PICK n \in Size, count \in Count, block \in Block :
          FetchPortion(iters, NewBlock("each", "row", NewQuery, n, count, block),
                       Query("each", n), WithoutTable)
    BY <1>3 DEF Each
  <2>2. n \in Nat /\ count \in Int /\ block \in Nat /\ block # 0
    BY DEF SizesAssumption
  <2> DEFINE x == [kind |-> "each", size |-> n, pos |-> 0, open |-> TRUE]
             qs == Query("each", n)
             f == NewBlock("each", "row", NewQuery, n, count, block)
  <2>3. x.kind = "each" /\ x.size = n /\ x.pos = 0 /\ PortalLike(x)
    BY <2>2 DEF PortalLike
  <2>4. With(qs, x)
    BY DEF Query, With
  <2> HIDE DEF x, qs
  <2>5. /\ QueriesOK(qs) /\ BlocksOK(iters, qs)
        /\ NewQuery \in 1..Len(qs) /\ qs[NewQuery] = x
        /\ \A j \in 1..Len(iters) :
             iters[j].op = "each" => iters[j].q # NewQuery
        /\ \A q \in 1..Len(qs) :
             qs[q].kind = "each" /\ q # NewQuery
               => \E j \in 1..Len(iters) :
                    iters[j].op = "each" /\ iters[j].q = q
    BY <2>3, <2>4, NewQueryFacts
  <2>6. NewQuery \in Nat /\ "each" \in Ops /\ "row" \in Forms
    BY <2>5 DEF RowsInv, QueriesOK, NewQuery, Ops, Forms
  <2>7. /\ f \in BlockRec /\ f.op = "each" /\ f.q = NewQuery /\ f.size = n
        /\ f.count = count /\ f.block = block /\ f.got = 0 /\ f.given = <<>>
    BY <2>2, <2>6, NewBlockIs
  <2> HIDE DEF f
  <2>8. Between(f, qs)
    BY <2>2, <2>3, <2>5, <2>7 DEF Between, OfEach, Behind
  <2>9. FetchPortion(iters, f, qs, WithoutTable)
    BY <2>1 DEF f, qs
  <2>10. /\ QueriesOK(queries') /\ BlocksOK(iters', queries')
         /\ PortalsOK(iters', queries') /\ GivesAsked'
         /\ Len(iters') <= Len(iters) + 1 /\ spi' \in Spi
    BY <1>1, <1>2, <2>5, <2>7, <2>8, <2>9, FetchPortionOK DEF RowsInv
  <2>11. Len(iters') <= MaxNest
    <3>1. Len(iters') \in Nat /\ Len(iters) \in Nat
      BY <2>10 DEF RowsInv, BlocksOK
    <3> QED
      BY <1>3, <2>10, <3>1 DEF Each, MayNest, SizesAssumption
  <2> QED
    BY <2>10, <2>11 DEF RowsInv
<1>4. CASE EachNext
  <2>1. /\ iters # <<>> /\ Top.op = "each" /\ HasMore(Top)
        /\ iters' = Append(Below, Given(Top)) /\ UNCHANGED <<queries, ended>>
        /\ spi' = GivesItem(Top, spi)
    BY <1>4 DEF EachNext, Runs, Yield, Given, GivesItem
  <2>2. Top \in BlockRec /\ Portioned(Top, queries)
    BY <2>1, BelowOK DEF RowsInv, Right
  <2>3. /\ Top.i < Len(Top.rows)
        /\ Top.count > 0 => Top.got < Top.count
    BY <2>1, <2>2 DEF HasMore, Portioned, BlockRec
  <2>4. /\ Given(Top) \in BlockRec /\ Right(Given(Top), queries)
        /\ Given(Top).op = "each" /\ Given(Top).q = Top.q
    BY <2>1, <2>2, <2>3, EachGives DEF Portioned
  <2>5. Top.tab \in TableId
    BY <2>2 DEF Portioned, GivenSoFar, BlockRec
  <2>6. spi' \in Spi
    BY <1>2, <2>1, <2>5, GivesItemFacts
  <2> HIDE DEF Given
  <2>7. /\ BlocksOK(iters', queries') /\ PortalsOK(iters', queries')
        /\ Len(iters') = Len(iters)
    BY <2>1, <2>4, ReplaceTop DEF RowsInv
  <2> QED
    BY <2>1, <2>6, <2>7 DEF RowsInv, GivesAsked
<1>5. CASE EachFetch
  <2>1. /\ iters # <<>> /\ Top.op = "each" /\ ~HasMore(Top) /\ ~HasAll(Top)
        /\ FetchPortion(Below, Top, queries, FreePortion(spi, Top))
    BY <1>5 DEF EachFetch, Runs
  <2>2. /\ BlocksOK(Below, queries) /\ Top \in BlockRec /\ Portioned(Top, queries)
        /\ Len(Below) = Len(iters) - 1 /\ Len(iters) \in Nat \ {0}
        /\ \A j \in 1..Len(Below) : Below[j] = iters[j]
        /\ \A j \in 1..Len(Below) : Below[j].op = "each" => Below[j].q # Top.q
    BY <2>1, BelowOK DEF RowsInv, Right
  <2>3. FreePortion(spi, Top) \in Spi
    BY <1>2, <2>2, SpiFacts DEF FreePortion, BlockRec
  <2>4. Between(Top, queries)
    <3>1. /\ Top.i \in Nat /\ Top.got \in Nat /\ Top.count \in Int
          /\ Len(Top.rows) \in Nat
      BY <2>2 DEF BlockRec
    <3>2. /\ (Top.got - Top.i) + Len(Top.rows) = Top.got
          /\ Top.count > 0 => Top.got < Top.count
      BY <2>1, <2>2, <3>1 DEF HasMore, HasAll, Portioned, GivenSoFar
    <3> QED
      BY <2>2, <3>2 DEF Between, Portioned, GivenSoFar
  <2>5. \A q \in 1..Len(queries) :
          queries[q].kind = "each" /\ q # Top.q
            => \E j \in 1..Len(Below) : Below[j].op = "each" /\ Below[j].q = q
    <3> SUFFICES ASSUME NEW q \in 1..Len(queries), queries[q].kind = "each",
                        q # Top.q
                 PROVE  \E j \in 1..Len(Below) :
                          Below[j].op = "each" /\ Below[j].q = q
      OBVIOUS
    <3>1. PICK j \in 1..Len(iters) : iters[j].op = "each" /\ iters[j].q = q
      BY DEF RowsInv, PortalsOK
    <3>2. j # Len(iters)
      BY <3>1 DEF Top
    <3> QED
      BY <2>2, <3>1, <3>2
  <2>6. /\ QueriesOK(queries') /\ BlocksOK(iters', queries')
        /\ PortalsOK(iters', queries') /\ GivesAsked'
        /\ Len(iters') <= Len(Below) + 1 /\ spi' \in Spi
    BY <1>1, <2>1, <2>2, <2>3, <2>4, <2>5, FetchPortionOK DEF RowsInv
  <2>7. Len(iters') <= MaxNest
    <3>1. Len(iters') \in Nat
      BY <2>6 DEF BlocksOK
    <3> QED
      BY <2>2, <2>6, <3>1 DEF RowsInv, SizesAssumption
  <2> QED
    BY <2>6, <2>7 DEF RowsInv
<1>6. CASE EachDone
  <2>1. /\ iters # <<>> /\ Top.op = "each" /\ HasAll(Top)
        /\ iters' = Below /\ queries' = Closed(queries, Top.q)
        /\ ended'.want = Asked(Top.size, Top.count) /\ ended'.given = Top.got
        /\ spi' = FreePortion(spi, Top)
    BY <1>6 DEF EachDone, Runs, EndBlock, Wanted
  <2>2. Top \in BlockRec /\ Portioned(Top, queries)
    BY <2>1, BelowOK DEF RowsInv, Right
  <2>3. Asked(Top.size, Top.count) = Top.got
    <3>1. /\ Top.i \in Nat /\ Top.got \in Nat /\ Top.count \in Int
          /\ Len(Top.rows) \in Nat /\ Top.size \in Nat
      BY <2>2 DEF BlockRec
    <3>2. Top.got = Top.count /\ Top.count > 0 /\ Top.got <= Top.size
      BY <2>1, <2>2, <3>1 DEF HasAll, Portioned, GivenSoFar, Behind, OfEach
    <3> QED
      BY <3>1, <3>2 DEF Asked, Least
  <2>4. spi' \in Spi
    BY <1>2, <2>1, <2>2, SpiFacts DEF FreePortion, BlockRec
  <2>5. /\ QueriesOK(queries') /\ BlocksOK(iters', queries')
        /\ PortalsOK(iters', queries') /\ Len(iters') <= MaxNest
    BY <2>1, CloseTop
  <2> QED
    BY <2>1, <2>3, <2>4, <2>5 DEF RowsInv, GivesAsked
<1> QED
  BY <1>3, <1>4, <1>5, <1>6

LEMMA AfterFetchIs ==
  ASSUME SizesAssumption, RowsInv, NEW rows
  PROVE  AfterFetch(rows) \in Spi
<1>1. FreeTable \in TableId
  BY FreeTableIs DEF RowsInv, BlocksOK
<1>2. WithTable(spi) \in Spi /\ WithTable(spi).tuptable \in TableId
  BY <1>1, SpiFacts DEF RowsInv
<1> QED
  BY <1>2, SpiFacts DEF AfterFetch

(* each and reverse_each of a cursor: the next row, or the end.            *)
LEMMA FetchRowOK ==
  ASSUME SizesAssumption, RowsInv, NEW rest, NEW f \in BlockRec,
         f.op \in {"cursor_each", "cursor_reverse_each"}, f.q \in Cursors,
         FetchRow(rest, f)
  PROVE  /\ QueriesOK(queries') /\ BlocksOK(iters, queries')
         /\ PortalsOK(iters, queries') /\ spi' \in Spi
         /\ \/ iters' = rest /\ GivesAsked'
            \/ /\ GivesAsked'
               /\ \E g \in BlockRec :
                    /\ g.op = f.op /\ g.q = f.q /\ Right(g, queries')
                    /\ iters' = Append(rest, g)
<1> DEFINE r == Fetch(queries[f.q], f.op = "cursor_each", 1)
           s == AfterFetch(r.rows)
           g == [f EXCEPT !.got = @ + 1]
<1>1. /\ queries' = Moved(f.q, r.pos)
      /\ IF r.rows = <<>>
         THEN EndBlock("complete", rest, f, s)
         ELSE iters' = Append(rest, g) /\ spi' = s /\ UNCHANGED ended
  BY DEF FetchRow
<1>2. s \in Spi
  BY AfterFetchIs
<1> HIDE DEF r, s
<1>3. /\ QueriesOK(queries') /\ BlocksOK(iters, queries')
      /\ PortalsOK(iters, queries')
  BY <1>1, MoveCursor
<1>4. CASE r.rows = <<>>
  <2>1. iters' = rest /\ spi' = s /\ ended'.op = f.op
    BY <1>1, <1>4 DEF EndBlock
  <2> QED
    BY <1>2, <1>3, <2>1 DEF GivesAsked
<1>5. CASE r.rows # <<>>
  <2>1. iters' = Append(rest, g) /\ spi' = s /\ UNCHANGED ended
    BY <1>1, <1>5
  <2>2. g \in BlockRec /\ g.op = f.op /\ g.q = f.q
    <3>1. f.got + 1 \in Nat
      BY DEF BlockRec
    <3> QED
      BY <3>1 DEF BlockRec
  <2> HIDE DEF g
  <2>3. Right(g, queries')
    BY <2>2 DEF Right
  <2>4. GivesAsked'
    BY <2>1 DEF RowsInv, GivesAsked
  <2> QED
    BY <1>2, <1>3, <2>1, <2>2, <2>3, <2>4
<1> QED
  BY <1>4, <1>5

LEMMA CursorSteps ==
  ASSUME SizesAssumption, RowsInv,
         \/ Cursor \/ CursorFetch \/ CursorMove \/ CursorRewind \/ CursorClose
         \/ CursorEach \/ CursorNext
  PROVE  RowsInv'
<1>1. WithoutTable \in Spi
  BY DEF RowsInv, Spi, WithoutTable
<1>2. CASE Cursor
  <2>1. PICK n \in Size : queries' = Query("cursor", n)
    BY <1>2 DEF Cursor
  <2> DEFINE x == [kind |-> "cursor", size |-> n, pos |-> 0, open |-> TRUE]
  <2>2. x.kind # "each" /\ PortalLike(x)
    BY DEF PortalLike, SizesAssumption
  <2>3. queries' = Append(queries, x)
    BY <2>1 DEF Query
  <2> HIDE DEF x
  <2>4. /\ QueriesOK(queries') /\ BlocksOK(iters, queries')
        /\ PortalsOK(iters, queries')
    BY <2>2, <2>3, AddQuery
  <2> QED
    BY <1>1, <1>2, <2>4 DEF RowsInv, GivesAsked, Cursor
<1>3. CASE CursorFetch
  <2>1. PICK q \in Cursors, c \in Step :
          LET r == Fetch(queries[q], c > 0, Magnitude(c)) IN
          /\ queries' = Moved(q, r.pos)
          /\ spi' = AfterFetch(r.rows)
    BY <1>3 DEF CursorFetch
  <2>2. /\ QueriesOK(queries') /\ BlocksOK(iters, queries')
        /\ PortalsOK(iters, queries')
    BY <2>1, MoveCursor
  <2>3. spi' \in Spi
    BY <2>1, AfterFetchIs
  <2> QED
    BY <1>3, <2>2, <2>3 DEF RowsInv, GivesAsked, CursorFetch
<1>4. CASE CursorMove
  <2>1. PICK q \in Cursors, c \in Step :
          queries' = Moved(q, Fetch(queries[q], c > 0, Magnitude(c)).pos)
    BY <1>4 DEF CursorMove
  <2>2. /\ QueriesOK(queries') /\ BlocksOK(iters, queries')
        /\ PortalsOK(iters, queries')
    BY <2>1, MoveCursor
  <2> QED
    BY <1>1, <1>4, <2>2 DEF RowsInv, GivesAsked, CursorMove
<1>5. CASE CursorRewind
  <2>1. PICK q \in Cursors : queries' = Moved(q, Rewound(queries[q]))
    BY <1>5 DEF CursorRewind
  <2>2. /\ QueriesOK(queries') /\ BlocksOK(iters, queries')
        /\ PortalsOK(iters, queries')
    BY <2>1, MoveCursor
  <2> QED
    BY <1>1, <1>5, <2>2 DEF RowsInv, GivesAsked, CursorRewind
<1>6. CASE CursorClose
  <2>1. PICK q \in Cursors : queries' = Closed(queries, q)
    BY <1>6 DEF CursorClose
  <2>2. NoPortal.kind # "each" /\ PortalLike(NoPortal)
    BY DEF NoPortal, PortalLike
  <2>3. /\ QueriesOK(queries') /\ BlocksOK(iters, queries')
        /\ PortalsOK(iters, queries')
    BY <2>1, <2>2, CursorIs, ChangeQuery DEF Closed
  <2> QED
    BY <1>6, <2>3 DEF RowsInv, GivesAsked, CursorClose
<1>7. CASE CursorEach
  <2>1. PICK q \in Cursors, op \in {"cursor_each", "cursor_reverse_each"} :
          FetchRow(iters, NewBlock(op, "row", q, queries[q].size, 0, 1))
    BY <1>7 DEF CursorEach
  <2> DEFINE f == NewBlock(op, "row", q, queries[q].size, 0, 1)
  <2>2. f \in BlockRec /\ f.op = op /\ f.q = q
    <3>1. /\ q \in Nat /\ queries[q].size \in Nat /\ op \in Ops
          /\ 0 \in Int /\ 1 \in Nat
      <4>1. q \in 1..Len(queries) /\ PortalLike(queries[q])
        BY CursorIs
      <4>2. Len(queries) \in Nat
        BY DEF RowsInv, QueriesOK
      <4> QED
        BY <4>1, <4>2 DEF PortalLike, Ops
    <3> DEFINE n == queries[q].size
    <3>2. /\ NewBlock(op, "row", q, n, 0, 1) \in BlockRec
          /\ NewBlock(op, "row", q, n, 0, 1).op = op
          /\ NewBlock(op, "row", q, n, 0, 1).q = q
      <4>1. n \in Nat
        BY <3>1
      <4> HIDE DEF n
      <4> QED
        BY <3>1, <4>1, CursorBlockIs, Zenon
    <3> QED
      BY <3>2
  <2>3. FetchRow(iters, f)
    BY <2>1
  <2> HIDE DEF f
  <2>4. /\ QueriesOK(queries') /\ BlocksOK(iters, queries')
        /\ PortalsOK(iters, queries') /\ spi' \in Spi
        /\ \/ iters' = iters /\ GivesAsked'
           \/ /\ GivesAsked'
              /\ \E g \in BlockRec :
                   /\ g.op = f.op /\ g.q = f.q /\ Right(g, queries')
                   /\ iters' = Append(iters, g)
    BY <2>2, <2>3, FetchRowOK
  <2>5. CASE iters' = iters /\ GivesAsked'
    BY <2>4, <2>5 DEF RowsInv
  <2>6. CASE /\ GivesAsked'
             /\ \E g \in BlockRec :
                  /\ g.op = f.op /\ g.q = f.q /\ Right(g, queries')
                  /\ iters' = Append(iters, g)
    <3>1. PICK g \in BlockRec :
            /\ g.op = f.op /\ g.q = f.q /\ Right(g, queries')
            /\ iters' = Append(iters, g)
      BY <2>6
    <3>2. /\ BlocksOK(iters', queries') /\ PortalsOK(iters', queries')
          /\ Len(iters') <= MaxNest
      BY <1>7, <2>2, <2>4, <3>1, PushBlock DEF CursorEach
    <3> QED
      BY <2>4, <2>6, <3>2 DEF RowsInv
  <2> QED
    BY <2>4, <2>5, <2>6
<1>8. CASE CursorNext
  <2>1. /\ iters # <<>> /\ Top.q \in Cursors
        /\ Top.op \in {"cursor_each", "cursor_reverse_each"}
        /\ FetchRow(Below, Top)
    BY <1>8 DEF CursorNext, Runs
  <2>2. Top \in BlockRec
    BY <2>1, BelowOK DEF RowsInv
  <2>3. /\ QueriesOK(queries') /\ BlocksOK(iters, queries')
        /\ PortalsOK(iters, queries') /\ spi' \in Spi
        /\ \/ iters' = Below /\ GivesAsked'
           \/ /\ GivesAsked'
              /\ \E g \in BlockRec :
                   /\ g.op = Top.op /\ g.q = Top.q /\ Right(g, queries')
                   /\ iters' = Append(Below, g)
    BY <2>1, <2>2, FetchRowOK
  <2>4. Len(iters) \in Nat /\ Len(iters) <= MaxNest /\ MaxNest \in Nat
    BY DEF RowsInv, BlocksOK, SizesAssumption
  <2>5. CASE iters' = Below /\ GivesAsked'
    <3>1. /\ BlocksOK(iters', queries') /\ PortalsOK(iters', queries')
          /\ Len(iters') <= Len(iters)
      BY <2>1, <2>3, <2>5, PopBlock
    <3>2. Len(iters') \in Nat
      BY <3>1 DEF BlocksOK
    <3> QED
      BY <2>3, <2>4, <2>5, <3>1, <3>2 DEF RowsInv
  <2>6. CASE /\ GivesAsked'
             /\ \E g \in BlockRec :
                  /\ g.op = Top.op /\ g.q = Top.q /\ Right(g, queries')
                  /\ iters' = Append(Below, g)
    <3>1. PICK g \in BlockRec :
            /\ g.op = Top.op /\ g.q = Top.q /\ Right(g, queries')
            /\ iters' = Append(Below, g)
      BY <2>6
    <3>2. /\ BlocksOK(iters', queries') /\ PortalsOK(iters', queries')
          /\ Len(iters') = Len(iters)
      BY <2>1, <2>3, <3>1, ReplaceTop
    <3> QED
      BY <2>3, <2>4, <2>6, <3>2 DEF RowsInv
  <2> QED
    BY <2>3, <2>5, <2>6
<1> QED
  BY <1>2, <1>3, <1>4, <1>5, <1>6, <1>7, <1>8

LEMMA LeaveStep == SizesAssumption /\ RowsInv /\ Leave => RowsInv'
<1> SUFFICES ASSUME SizesAssumption, RowsInv, Leave PROVE RowsInv'
  OBVIOUS
<1>1. /\ iters # <<>> /\ iters' = Below /\ spi' = spi
      /\ ended'.how = "left"
      /\ queries' = IF Top.op = "each" THEN Closed(queries, Top.q) ELSE queries
  BY DEF Leave, EndBlock
<1>2. GivesAsked' /\ spi' \in Spi
  BY <1>1 DEF GivesAsked, RowsInv
<1>3. CASE Top.op = "each"
  <2>1. /\ QueriesOK(queries') /\ BlocksOK(iters', queries')
        /\ PortalsOK(iters', queries') /\ Len(iters') <= MaxNest
    BY <1>1, <1>3, CloseTop
  <2> QED
    BY <1>2, <2>1 DEF RowsInv
<1>4. CASE Top.op # "each"
  <2>1. queries' = queries
    BY <1>1, <1>4
  <2>2. /\ BlocksOK(iters', queries') /\ PortalsOK(iters', queries')
        /\ Len(iters') <= Len(iters)
    BY <1>1, <1>4, <2>1, PopBlock DEF RowsInv
  <2>3. Len(iters') <= MaxNest
    <3>1. Len(iters) \in Nat /\ Len(iters') \in Nat /\ MaxNest \in Nat
      BY <2>2 DEF RowsInv, BlocksOK, SizesAssumption
    <3> QED
      BY <2>2, <3>1 DEF RowsInv
  <2> QED
    BY <1>2, <2>1, <2>2, <2>3 DEF RowsInv
<1> QED
  BY <1>3, <1>4

LEMMA RowsStep == SizesAssumption /\ RowsInv /\ [Next]_vars => RowsInv'
<1> SUFFICES ASSUME SizesAssumption, RowsInv, [Next]_vars PROVE RowsInv'
  OBVIOUS
<1>1. CASE ExecBlock \/ ExecNext \/ ExecEnd \/ ExecRows \/ ExecOther
  BY <1>1, ExecSteps
<1>2. CASE Each \/ EachNext \/ EachFetch \/ EachDone
  BY <1>2, EachSteps
<1>3. CASE \/ Cursor \/ CursorFetch \/ CursorMove \/ CursorRewind
           \/ CursorClose \/ CursorEach \/ CursorNext
  BY <1>3, CursorSteps
<1>4. CASE Leave
  BY <1>4, LeaveStep
<1>5. CASE UNCHANGED vars
  BY <1>5 DEF vars, RowsInv, GivesAsked
<1> QED
  BY <1>1, <1>2, <1>3, <1>4, <1>5 DEF Next

-----------------------------------------------------------------------------
(* The portions of pl_fetch and the rows of pl_SPI_exec: what a block was  *)
(* given so far, and that the portal of a plan.each is its own.            *)
THEOREM RowsInvariant == Spec => []RowsInv
<1>1. SizesAssumption
  BY SizesAssumption
<1>2. Init => RowsInv
  BY <1>1, RowsInit
<1>3. RowsInv /\ [Next]_vars => RowsInv'
  BY <1>1, RowsStep
<1> QED
  BY <1>2, <1>3, PTL DEF Spec

LEMMA InOrder == SizesAssumption /\ RowsInv => RowsInOrder
<1> SUFFICES ASSUME SizesAssumption, RowsInv, NEW j \in DOMAIN iters,
                    iters[j].op \in {"exec", "each"}
             PROVE  LET f == iters[j] IN
                    /\ \A a \in 1..f.got :
                         /\ f.given[a].q = f.q
                         /\ f.given[a].k <= Asked(f.size, f.count)
                    /\ \A a, b \in 1..f.got :
                         a < b => Before(f.given[a], f.given[b])
                    /\ \A a \in 1..f.got :
                         \/ f.given[a].k = 1
                         \/ \E b \in 1..f.got : f.given[b].k = f.given[a].k - 1
  BY DEF RowsInOrder
<1> DEFINE f == iters[j]
           n == Asked(f.size, f.count)
           Goal == /\ \A a \in 1..f.got : f.given[a].q = f.q /\ f.given[a].k <= n
                   /\ \A a, b \in 1..f.got :
                        a < b => Before(f.given[a], f.given[b])
                   /\ \A a \in 1..f.got :
                        \/ f.given[a].k = 1
                        \/ \E b \in 1..f.got : f.given[b].k = f.given[a].k - 1
<1>1. f \in BlockRec /\ Right(f, queries) /\ f.op \in {"exec", "each"}
  BY DEF RowsInv, BlocksOK
<1> SUFFICES Goal
  OBVIOUS
<1> HIDE DEF f
<1>2. /\ f.got \in Nat /\ f.i \in Nat /\ f.given \in Seq(RowRec)
      /\ f.q \in Nat /\ f.size \in Nat /\ f.count \in Int
      /\ f.rows \in Seq(RowRec)
  BY <1>1 DEF BlockRec
<1>3. n \in Nat
  BY <1>2, AskedFacts
<1>4. CASE f.op = "exec"
  <2>1. ExecRight(f)
    BY <1>1, <1>4 DEF Right
  <2>2. ItemsUpTo(f.rows, f.q, n)
    BY <1>1, <1>4, <2>1, ExecItems
  <2>3. /\ \A a \in 1..f.got : a \in 1..Len(f.rows) /\ f.given[a] = f.rows[a]
    BY <1>2, <2>1 DEF ExecRight
  <2> HIDE DEF n
  <2>4. \A a \in 1..f.got : f.given[a].q = f.q /\ f.given[a].k <= n
    BY <1>3, <2>2, <2>3 DEF ItemsUpTo
  <2>5. \A a, b \in 1..f.got : a < b => Before(f.given[a], f.given[b])
    BY <2>2, <2>3 DEF ItemsUpTo
  <2>6. ASSUME NEW a \in 1..f.got, f.given[a].k # 1
        PROVE  \E b \in 1..f.got : f.given[b].k = f.given[a].k - 1
    <3>1. PICK b \in 1..(a - 1) : f.rows[b].k = f.rows[a].k - 1
      BY <2>2, <2>3, <2>6 DEF ItemsUpTo
    <3>2. b \in 1..f.got
      BY <1>2, <3>1
    <3> QED
      BY <2>3, <3>1, <3>2
  <2> QED
    BY <2>4, <2>5, <2>6
<1>5. CASE f.op = "each"
  <2>1. Portioned(f, queries)
    BY <1>1, <1>5 DEF Right
  <2>2. \A a \in 1..f.got : f.given[a].q = f.q /\ f.given[a].k = a
    <3> SUFFICES ASSUME NEW a \in 1..f.got
                 PROVE  f.given[a].q = f.q /\ f.given[a].k = a
      OBVIOUS
    <3>1. f.given[a] = Item(f.q, a, Whole)
      BY <2>1 DEF Portioned, GivenSoFar
    <3> QED
      BY <3>1 DEF Item
  <2>3. f.got <= n
    <3>1. /\ f.got <= f.size /\ (f.count > 0 => f.got <= f.count)
      BY <1>2, <2>1 DEF Portioned, OfEach, GivenSoFar, Behind
    <3> QED
      BY <1>2, <3>1, AskedFacts
  <2> HIDE DEF n
  <2>4. \A a \in 1..f.got : f.given[a].q = f.q /\ f.given[a].k <= n
    BY <1>2, <1>3, <2>2, <2>3
  <2>5. \A a, b \in 1..f.got : a < b => Before(f.given[a], f.given[b])
    BY <2>2 DEF Before
  <2>6. ASSUME NEW a \in 1..f.got, f.given[a].k # 1
        PROVE  \E b \in 1..f.got : f.given[b].k = f.given[a].k - 1
    <3>1. f.given[a].k = a /\ a - 1 \in 1..f.got
      BY <1>2, <2>2, <2>6
    <3>2. f.given[a - 1].k = a - 1
      BY <2>2, <3>1
    <3> QED
      BY <3>1, <3>2
  <2> QED
    BY <2>4, <2>5, <2>6
<1> QED
  BY <1>1, <1>4, <1>5

(* A block of exec or plan.each gets the rows of its own query in order,   *)
(* or their columns, each once, with no row left out and no more than were *)
(* asked for, for every size, count, form, number of columns and block     *)
(* size, and whatever queries run in it (pl_fetch, pl_SPI_exec,            *)
(* plruby_build_tuple).                                                    *)
THEOREM InOrderAlways == Spec => []RowsInOrder
<1>1. RowsInv => RowsInOrder
  BY InOrder, SizesAssumption
<1> QED
  BY <1>1, RowsInvariant, PTL

(* A block that is not left got all of them, but the array of columns that *)
(* plruby_build_tuple returned and exec does not yield.                    *)
THEOREM AllGiven == Spec => []GivesAsked
<1>1. RowsInv => GivesAsked
  BY DEF RowsInv
<1> QED
  BY <1>1, RowsInvariant, PTL

(* No portal of plan.each outlives its block (rb_ensure in pl_plan_each).  *)
THEOREM PortalsClosed == Spec => []NoPortalLeft
<1>1. RowsInv => NoPortalLeft
  <2> SUFFICES ASSUME RowsInv, NEW q \in DOMAIN queries,
                      queries[q].kind = "each"
               PROVE  \E j \in DOMAIN iters : iters[j].q = q
    BY DEF NoPortalLeft
  <2>1. q \in 1..Len(queries) /\ DOMAIN iters = 1..Len(iters)
    BY DEF RowsInv, QueriesOK, BlocksOK
  <2> QED
    BY <2>1 DEF RowsInv, PortalsOK
<1> QED
  BY <1>1, RowsInvariant, PTL

-----------------------------------------------------------------------------
(* Tuple tables, when no block of exec runs a query that gives rows: then  *)
(* no block runs in one of exec, and the global SPI_tuptable it frees is   *)
(* its own or none.                                                        *)

HasTable(f) == f.op \in {"exec", "each"}

NoExec(its) == \A j \in 1..Len(its) : its[j].op # "exec"

(* The tables of its are live, and each is of one block.                   *)
Owned(its, s) ==
  /\ ~s.misused
  /\ \A j \in 1..Len(its) : HasTable(its[j]) => s.tables[its[j].tab]
  /\ \A j, k \in 1..Len(its) :
       HasTable(its[j]) /\ HasTable(its[k]) /\ j # k => its[j].tab # its[k].tab

TablesOK(its, s) ==
  /\ Owned(its, s)
  /\ \A j \in 1..Len(its) :
       its[j].op = "exec" => j = Len(its) /\ s.tuptable \in {its[j].tab, NoTable}

NotOf(its, t) == \A j \in 1..Len(its) : HasTable(its[j]) => its[j].tab # t

LEMMA TabIs ==
  ASSUME NEW its, NEW qs, BlocksOK(its, qs), NEW j \in 1..Len(its),
         HasTable(its[j])
  PROVE  its[j].tab \in TableId /\ its[j].tab # NoTable
<1> DEFINE f == its[j]
<1>1. f \in BlockRec /\ Right(f, qs)
  BY DEF BlocksOK
<1> HIDE DEF f
<1>2. f.tab # NoTable
  BY <1>1 DEF f, HasTable, Right, ExecRight, Portioned, GivenSoFar
<1>3. f.tab \in TableId \cup {NoTable}
  BY <1>1 DEF BlockRec
<1> QED
  BY <1>2, <1>3 DEF f

LEMMA FreeIsNew ==
  ASSUME SizesAssumption, RowsInv
  PROVE  /\ FreeTable \in TableId /\ FreeTable # NoTable
         /\ NotOf(iters, FreeTable)
<1>1. iters \in Seq(BlockRec) /\ Len(iters) <= MaxNest
  BY DEF RowsInv, BlocksOK
<1>2. FreeTable \in TableId /\ FreeTable \notin InUse
  BY <1>1, FreeTableIs
<1>3. DOMAIN iters = 1..Len(iters)
  BY <1>1
<1> QED
  BY <1>2, <1>3 DEF InUse, NotOf, TableId, NoTable

(* A new table, and the same freed.                                        *)
LEMMA NewTable ==
  ASSUME NEW its, NEW s \in Spi, Owned(its, s), NotOf(its, FreeTable),
         NEW qs, BlocksOK(its, qs), FreeTable \in TableId, FreeTable # NoTable
  PROVE  /\ Owned(its, WithTable(s)) /\ WithTable(s).tables[FreeTable]
         /\ WithTable(s).tuptable = FreeTable
         /\ Owned(its, SPI_freetuptable(WithTable(s), WithTable(s).tuptable))
<1> DEFINE u == WithTable(s)
<1>1. /\ u \in Spi /\ u.tuptable = FreeTable /\ u.tables[FreeTable]
      /\ u.misused = s.misused
      /\ \A t \in TableId : t # FreeTable => u.tables[t] = s.tables[t]
  BY DEF WithTable, Spi
<1> HIDE DEF u
<1> DEFINE v == SPI_freetuptable(u, u.tuptable)
<1>2. /\ v.misused = s.misused
      /\ \A t \in TableId : t # FreeTable => v.tables[t] = s.tables[t]
  BY <1>1 DEF SPI_freetuptable, Spi
<1> HIDE DEF v
<1>3. \A j \in 1..Len(its) :
        HasTable(its[j]) => its[j].tab \in TableId /\ its[j].tab # FreeTable
  BY TabIs DEF NotOf
<1>4. Owned(its, u)
  BY <1>1, <1>3 DEF Owned
<1>5. Owned(its, v)
  BY <1>2, <1>3 DEF Owned
<1> QED
  BY <1>1, <1>4, <1>5 DEF u, v

(* The table t of the innermost block is freed.                            *)
LEMMA FreeTab ==
  ASSUME NEW its, NEW s \in Spi, Owned(its, s), NEW qs, BlocksOK(its, qs),
         NEW t \in TableId, NotOf(its, t), s.tables[t], t # NoTable
  PROVE  Owned(its, SPI_freetuptable(s, t))
<1> DEFINE v == SPI_freetuptable(s, t)
<1>1. /\ v.misused = s.misused
      /\ \A x \in TableId : x # t => v.tables[x] = s.tables[x]
  BY DEF SPI_freetuptable, Spi
<1> HIDE DEF v
<1>2. \A j \in 1..Len(its) :
        HasTable(its[j]) => its[j].tab \in TableId /\ its[j].tab # t
  BY TabIs DEF NotOf
<1>3. Owned(its, v)
  BY <1>1, <1>2 DEF Owned
<1> QED
  BY <1>3 DEF v

LEMMA TopTables ==
  ASSUME RowsInv, TablesOK(iters, spi), iters # <<>>
  PROVE  /\ Owned(Below, spi) /\ NoExec(Below) /\ BlocksOK(Below, queries)
         /\ HasTable(Top) =>
              /\ NotOf(Below, Top.tab) /\ spi.tables[Top.tab]
              /\ Top.tab \in TableId /\ Top.tab # NoTable
         /\ Top.op = "exec" => spi.tuptable \in {Top.tab, NoTable}
<1>1. /\ BlocksOK(Below, queries) /\ Len(Below) = Len(iters) - 1
      /\ Len(iters) \in Nat \ {0}
      /\ \A j \in 1..Len(Below) : Below[j] = iters[j]
  BY BelowOK DEF RowsInv
<1>2. Len(iters) \in 1..Len(iters) /\ Top = iters[Len(iters)]
  BY <1>1 DEF Top
<1>3. \A j \in 1..Len(Below) : j \in 1..Len(iters) /\ j # Len(iters)
  BY <1>1
<1>4. Owned(Below, spi)
  <2>1. Owned(iters, spi)
    BY DEF TablesOK
  <2>2. \A j \in 1..Len(Below) : j \in 1..Len(iters) /\ Below[j] = iters[j]
    BY <1>1, <1>3
  <2> QED
    BY <2>1, <2>2 DEF Owned
<1>5. NoExec(Below)
  BY <1>1, <1>3 DEF TablesOK, NoExec
<1>6. HasTable(Top) => NotOf(Below, Top.tab) /\ spi.tables[Top.tab]
  BY <1>1, <1>2, <1>3 DEF TablesOK, Owned, NotOf
<1>7. HasTable(Top) => Top.tab \in TableId /\ Top.tab # NoTable
  BY <1>2, TabIs DEF RowsInv
<1>8. Top.op = "exec" => spi.tuptable \in {Top.tab, NoTable}
  BY <1>2 DEF TablesOK
<1> QED
  BY <1>1, <1>4, <1>5, <1>6, <1>7, <1>8

LEMMA PushTable ==
  ASSUME NEW rest \in Seq(BlockRec), NEW s, Owned(rest, s), NoExec(rest),
         NEW g \in BlockRec,
         HasTable(g) => NotOf(rest, g.tab) /\ s.tables[g.tab],
         g.op = "exec" => s.tuptable \in {g.tab, NoTable}
  PROVE  TablesOK(Append(rest, g), s)
<1> DEFINE t == Append(rest, g)
<1>1. /\ Len(t) = Len(rest) + 1 /\ t[Len(rest) + 1] = g /\ Len(rest) \in Nat
      /\ \A j \in 1..Len(rest) : t[j] = rest[j]
  BY AppendFacts
<1> HIDE DEF t
<1>2. \A j \in 1..Len(t) : j \in 1..Len(rest) \/ j = Len(rest) + 1
  BY <1>1
<1>3. Owned(t, s)
  BY <1>1, <1>2 DEF Owned, NotOf
<1>4. \A j \in 1..Len(t) :
        t[j].op = "exec" => j = Len(t) /\ s.tuptable \in {t[j].tab, NoTable}
  BY <1>1, <1>2 DEF NoExec
<1> QED
  BY <1>3, <1>4 DEF TablesOK, t

LEMMA PlainTables ==
  ASSUME NEW its, NEW s, Owned(its, s), NoExec(its)
  PROVE  TablesOK(its, s)
BY DEF TablesOK, NoExec

LEMMA NoTableOK ==
  ASSUME RowsInv, TablesOK(iters, spi)
  PROVE  TablesOK(iters, WithoutTable)
<1>1. /\ WithoutTable.misused = spi.misused /\ WithoutTable.tables = spi.tables
      /\ WithoutTable.tuptable = NoTable
  BY DEF RowsInv, Spi, WithoutTable
<1> QED
  BY <1>1 DEF TablesOK, Owned

(* A live table gives the next row.                                        *)
LEMMA NextRowTables ==
  ASSUME RowsInv, TablesOK(iters, spi), iters # <<>>, HasTable(Top),
         Top.i < Len(Top.rows), iters' = Append(Below, Given(Top)),
         spi' = GivesItem(Top, spi)
  PROVE  TablesOK(iters', spi')
<1>1. /\ Owned(Below, spi) /\ NoExec(Below) /\ BlocksOK(Below, queries)
      /\ NotOf(Below, Top.tab) /\ spi.tables[Top.tab]
      /\ Top.tab \in TableId /\ Top.tab # NoTable
      /\ Top.op = "exec" => spi.tuptable \in {Top.tab, NoTable}
  BY TopTables
<1>2. Top \in BlockRec /\ Right(Top, queries)
  BY BelowOK DEF RowsInv
<1>3. spi' = spi
  BY <1>1, GivesItemFacts DEF RowsInv
<1>4. Given(Top) \in BlockRec
  BY <1>2, GivenIs
<1>5. Given(Top).op = Top.op /\ Given(Top).tab = Top.tab
  BY <1>2, GivenIs
<1> QED
  BY <1>1, <1>3, <1>4, <1>5, PushTable DEF BlocksOK

(* The rows of a query are read, and nothing is kept of them.              *)
LEMMA PassingTable ==
  ASSUME SizesAssumption, RowsInv, Owned(iters, spi), NoExec(iters)
  PROVE  LET s == WithTable(spi) IN
         /\ TablesOK(iters, s)
         /\ TablesOK(iters, SPI_freetuptable(s, s.tuptable))
<1>1. /\ FreeTable \in TableId /\ FreeTable # NoTable
      /\ NotOf(iters, FreeTable)
  BY FreeIsNew
<1>2. spi \in Spi /\ BlocksOK(iters, queries)
  BY DEF RowsInv
<1>3. /\ Owned(iters, WithTable(spi))
      /\ Owned(iters, SPI_freetuptable(WithTable(spi), WithTable(spi).tuptable))
  BY <1>1, <1>2, NewTable
<1> QED
  BY <1>3, PlainTables

LEMMA ExecTables ==
  ASSUME SizesAssumption, ~QueryInExec, RowsInv, TablesOK(iters, spi),
         ExecBlock \/ ExecNext \/ ExecEnd \/ ExecRows \/ ExecOther
  PROVE  TablesOK(iters', spi')
<1>1. spi \in Spi /\ iters \in Seq(BlockRec) /\ BlocksOK(iters, queries)
  BY DEF RowsInv, BlocksOK
<1>2. ASSUME MayHaveRows
      PROVE  /\ Owned(iters, spi) /\ NoExec(iters)
  <2>1. DOMAIN iters = 1..Len(iters)
    BY <1>1
  <2> QED
    BY <1>2, <2>1 DEF TablesOK, NoExec, MayHaveRows
<1>3. CASE ExecBlock
  <2>1. PICK n \in Size, count \in {c \in Count : c >= 0}, form \in Form :
       LET q == NewQuery
           m == Asked(n, count)
           s == WithTable(spi)
           f == [NewBlock("exec", form, q, n, count, 0) EXCEPT
                   !.tab = s.tuptable, !.rows = Yields(form, q, m, count)]
       IN IF m = 0
          THEN spi' = SPI_freetuptable(s, s.tuptable) /\ UNCHANGED <<iters, ended>>
          ELSE IF f.rows = <<>>
          THEN EndBlock("complete", iters, f, SPI_freetuptable(s, s.tuptable))
          ELSE Yield(iters, f, s)
    BY <1>3 DEF ExecBlock
  <2> DEFINE s == WithTable(spi)
             m == Asked(n, count)
             f == [NewBlock("exec", form, NewQuery, n, count, 0) EXCEPT
                     !.tab = s.tuptable,
                     !.rows = Yields(form, NewQuery, m, count)]
  <2>2. Owned(iters, spi) /\ NoExec(iters)
    BY <1>2, <1>3 DEF ExecBlock
  <2>3. CASE m = 0 \/ f.rows = <<>>
    <3>1. spi' = SPI_freetuptable(s, s.tuptable) /\ iters' = iters
      BY <2>1, <2>3 DEF EndBlock
    <3> QED
      BY <2>2, <3>1, PassingTable
  <2>4. CASE m # 0 /\ f.rows # <<>>
    <3>1. Yield(iters, f, s)
      BY <2>1, <2>4
    <3>2. iters' = Append(iters, Given(f)) /\ spi' = GivesItem(f, s)
      BY <3>1 DEF Yield, Given, GivesItem
    <3>3. f.tab = s.tuptable /\ f.op = "exec"
      BY DEF NewBlock
    <3>4. Given(f).tab = f.tab /\ Given(f).op = f.op
      BY DEF Given, NewBlock
    <3>5. /\ FreeTable \in TableId /\ FreeTable # NoTable
          /\ NotOf(iters, FreeTable)
      BY FreeIsNew
    <3>6. /\ Owned(iters, s) /\ s.tables[FreeTable] /\ s.tuptable = FreeTable
          /\ s \in Spi
      BY <1>1, <2>2, <3>5, NewTable, SpiFacts
    <3> HIDE DEF f, s
    <3>7. spi' = s
      BY <3>2, <3>3, <3>5, <3>6, GivesItemFacts
    <3>8. Given(f) \in BlockRec
      <4>1. RowsInv'
        BY <1>3, ExecSteps
      <4>2. iters' \in Seq(BlockRec)
        BY <4>1 DEF RowsInv, BlocksOK
      <4> HIDE DEF Given
      <4>3. DOMAIN iters' = 1..(Len(iters) + 1) /\ iters'[Len(iters) + 1] = Given(f)
        BY <1>1, <3>2
      <4> QED
        BY <1>1, <4>2, <4>3
    <3> HIDE DEF Given
    <3> QED
      BY <1>1, <2>2, <3>2, <3>3, <3>4, <3>5, <3>6, <3>7, <3>8, PushTable
  <2> QED
    BY <2>3, <2>4
<1>4. CASE ExecNext
  <2>1. /\ iters # <<>> /\ Top.op = "exec" /\ Top.i < Len(Top.rows)
        /\ iters' = Append(Below, Given(Top))
        /\ spi' = GivesItem(Top, spi)
    BY <1>4 DEF ExecNext, Runs, Yield, Given, GivesItem
  <2> QED
    BY <2>1, NextRowTables DEF HasTable
<1>5. CASE ExecEnd
  <2>1. /\ iters # <<>> /\ Top.op = "exec" /\ iters' = Below
        /\ spi' = SPI_freetuptable(spi, spi.tuptable)
    BY <1>5 DEF ExecEnd, Runs, EndBlock
  <2>2. /\ Owned(Below, spi) /\ NoExec(Below) /\ BlocksOK(Below, queries)
        /\ NotOf(Below, Top.tab) /\ spi.tables[Top.tab]
        /\ Top.tab \in TableId /\ Top.tab # NoTable
        /\ spi.tuptable \in {Top.tab, NoTable}
    BY <2>1, TopTables DEF HasTable
  <2>3. Owned(Below, spi')
    <3>1. CASE spi.tuptable = NoTable
      BY <2>1, <2>2, <3>1 DEF SPI_freetuptable
    <3>2. CASE spi.tuptable = Top.tab
      BY <1>1, <2>1, <2>2, <3>2, FreeTab
    <3> QED
      BY <2>2, <3>1, <3>2
  <2> QED
    BY <2>1, <2>2, <2>3, PlainTables
<1>6. CASE ExecRows
  BY <1>2, <1>6, PassingTable DEF ExecRows
<1>7. CASE ExecOther
  BY <1>7, NoTableOK DEF ExecOther
<1> QED
  BY <1>3, <1>4, <1>5, <1>6, <1>7

(* plan.each, for the next portion.                                        *)
LEMMA PortionTables ==
  ASSUME SizesAssumption, RowsInv, RowsInv', NEW rest, NEW f, NEW qs,
         NEW s \in Spi, f.op = "each",
         DOMAIN f = {"op", "form", "q", "size", "count", "block", "tab", "rows", "i",
                     "got", "given"},
         BlocksOK(rest, queries), NotOf(rest, FreeTable),
         Owned(rest, s), NoExec(rest), FetchPortion(rest, f, qs, s)
  PROVE  TablesOK(iters', spi')
<1> DEFINE r == Fetch(qs[f.q], TRUE, f.block)
           u == WithTable(s)
           f0 == [f EXCEPT !.tab = u.tuptable, !.rows = RowsOf(f.q, r.rows),
                           !.i = 0]
<1>1. FreeTable \in TableId /\ FreeTable # NoTable
  BY FreeIsNew
<1>2. /\ Owned(rest, u) /\ u.tables[FreeTable] /\ u.tuptable = FreeTable
      /\ u \in Spi
  BY <1>1, NewTable, SpiFacts
<1>3. CASE r.rows = <<>>
  <2>1. iters' = rest /\ spi' = u
    BY <1>3 DEF FetchPortion, EndBlock
  <2> QED
    BY <1>2, <2>1, PlainTables
<1>4. CASE r.rows # <<>>
  <2>1. /\ iters' = Append(rest, Given(f0))
        /\ spi' = GivesItem(f0, u)
    BY <1>4 DEF FetchPortion, Yield, Given, GivesItem
  <2>2. Given(f0).tab = u.tuptable /\ Given(f0).op = "each" /\ f0.tab = u.tuptable
    BY DEF Given
  <2> HIDE DEF f0, u, Given
  <2>3. spi' = u
    BY <1>1, <1>2, <2>1, <2>2, GivesItemFacts
  <2>4. rest \in Seq(BlockRec)
    BY DEF BlocksOK
  <2>5. Given(f0) \in BlockRec
    <3>1. iters' \in Seq(BlockRec)
      BY DEF RowsInv, BlocksOK
    <3>2. /\ DOMAIN iters' = 1..(Len(rest) + 1) /\ Len(rest) \in Nat
          /\ iters'[Len(rest) + 1] = Given(f0)
      BY <2>1, <2>4
    <3> QED
      BY <3>1, <3>2
  <2> QED
    BY <1>2, <2>1, <2>2, <2>3, <2>4, <2>5, PushTable
<1> QED
  BY <1>3, <1>4

LEMMA EachTables ==
  ASSUME SizesAssumption, ~QueryInExec, RowsInv, TablesOK(iters, spi),
         Each \/ EachNext \/ EachFetch \/ EachDone
  PROVE  TablesOK(iters', spi')
<1>1. spi \in Spi /\ iters \in Seq(BlockRec) /\ BlocksOK(iters, queries)
  BY DEF RowsInv, BlocksOK
<1>2. RowsInv'
  BY EachSteps
<1>3. NotOf(iters, FreeTable)
  BY FreeIsNew
<1>4. CASE Each
  <2>1. PICK n \in Size, count \in Count, block \in Block :
          FetchPortion(iters, NewBlock("each", "row", NewQuery, n, count, block),
                       Query("each", n), WithoutTable)
    BY <1>4 DEF Each
  <2>2. NoExec(iters)
    BY <1>1, <1>4 DEF Each, MayHaveRows, NoExec
  <2>3. WithoutTable \in Spi /\ Owned(iters, WithoutTable)
    BY <1>1 DEF TablesOK, Owned, WithoutTable, Spi
  <2> DEFINE f == NewBlock("each", "row", NewQuery, n, count, block)
  <2>4. /\ f.op = "each"
        /\ DOMAIN f = {"op", "form", "q", "size", "count", "block", "tab", "rows", "i",
                       "got", "given"}
    BY DEF NewBlock
  <2>5. FetchPortion(iters, f, Query("each", n), WithoutTable)
    BY <2>1
  <2> HIDE DEF f
  <2> QED
    BY <1>1, <1>2, <1>3, <2>2, <2>3, <2>4, <2>5, PortionTables
<1>5. CASE EachNext
  <2>1. /\ iters # <<>> /\ Top.op = "each" /\ Top.i < Len(Top.rows)
        /\ iters' = Append(Below, Given(Top))
        /\ spi' = GivesItem(Top, spi)
    BY <1>5 DEF EachNext, Runs, Yield, Given, HasMore, GivesItem
  <2> QED
    BY <2>1, NextRowTables DEF HasTable
<1>6. ASSUME iters # <<>>, Top.op = "each"
      PROVE  /\ NoExec(Below) /\ BlocksOK(Below, queries)
             /\ NotOf(Below, FreeTable) /\ Top \in BlockRec
             /\ FreePortion(spi, Top) \in Spi /\ Owned(Below, FreePortion(spi, Top))
  <2>1. /\ Owned(Below, spi) /\ NoExec(Below) /\ BlocksOK(Below, queries)
        /\ NotOf(Below, Top.tab) /\ spi.tables[Top.tab]
        /\ Top.tab \in TableId /\ Top.tab # NoTable
    BY <1>6, TopTables DEF HasTable
  <2>2. /\ Top \in BlockRec /\ Len(Below) = Len(iters) - 1
        /\ \A j \in 1..Len(Below) : Below[j] = iters[j]
        /\ Len(iters) \in Nat \ {0}
    BY <1>1, <1>6, BelowOK
  <2>3. NotOf(Below, FreeTable)
    BY <1>3, <2>2 DEF NotOf
  <2>4. Owned(Below, FreePortion(spi, Top))
    BY <1>1, <2>1, FreeTab DEF FreePortion
  <2>5. FreePortion(spi, Top) \in Spi
    BY <1>1, <2>1, SpiFacts DEF FreePortion
  <2> QED
    BY <2>1, <2>2, <2>3, <2>4, <2>5
<1>7. CASE EachFetch
  <2>1. /\ iters # <<>> /\ Top.op = "each"
        /\ FetchPortion(Below, Top, queries, FreePortion(spi, Top))
    BY <1>7 DEF EachFetch, Runs
  <2>2. DOMAIN Top = {"op", "form", "q", "size", "count", "block", "tab", "rows", "i",
                      "got", "given"}
    BY <1>6, <2>1 DEF BlockRec
  <2> QED
    BY <1>2, <1>6, <2>1, <2>2, PortionTables
<1>8. CASE EachDone
  <2>1. /\ iters # <<>> /\ Top.op = "each" /\ iters' = Below
        /\ spi' = FreePortion(spi, Top)
    BY <1>8 DEF EachDone, Runs, EndBlock
  <2> QED
    BY <1>6, <2>1, PlainTables
<1> QED
  BY <1>4, <1>5, <1>7, <1>8

LEMMA RowTables ==
  ASSUME SizesAssumption, RowsInv, RowsInv', NEW rest \in Seq(BlockRec), NEW f,
         f.op \in {"cursor_each", "cursor_reverse_each"},
         DOMAIN f = {"op", "form", "q", "size", "count", "block", "tab", "rows", "i",
                     "got", "given"},
         NoExec(rest), \A rows : Owned(rest, AfterFetch(rows)),
         FetchRow(rest, f)
  PROVE  TablesOK(iters', spi')
<1> DEFINE r == Fetch(queries[f.q], f.op = "cursor_each", 1)
           s == AfterFetch(r.rows)
           g == [f EXCEPT !.got = @ + 1]
<1>1. IF r.rows = <<>>
      THEN EndBlock("complete", rest, f, s)
      ELSE iters' = Append(rest, g) /\ spi' = s
  BY DEF FetchRow
<1>2. Owned(rest, s)
  OBVIOUS
<1>3. CASE r.rows = <<>>
  <2>1. iters' = rest /\ spi' = s
    BY <1>1, <1>3 DEF EndBlock
  <2> QED
    BY <1>2, <2>1, PlainTables
<1>4. CASE r.rows # <<>>
  <2>1. iters' = Append(rest, g) /\ spi' = s
    BY <1>1, <1>4
  <2>2. g.op = f.op
    OBVIOUS
  <2> HIDE DEF g, s
  <2>3. g \in BlockRec
    <3>1. iters' \in Seq(BlockRec)
      BY DEF RowsInv, BlocksOK
    <3>2. /\ DOMAIN iters' = 1..(Len(rest) + 1) /\ Len(rest) \in Nat
          /\ iters'[Len(rest) + 1] = g
      BY <2>1
    <3> QED
      BY <3>1, <3>2
  <2> QED
    BY <1>2, <2>1, <2>2, <2>3, PushTable DEF HasTable
<1> QED
  BY <1>3, <1>4

LEMMA CursorTables ==
  ASSUME SizesAssumption, ~QueryInExec, RowsInv, TablesOK(iters, spi),
         \/ Cursor \/ CursorFetch \/ CursorMove \/ CursorRewind \/ CursorClose
         \/ CursorEach \/ CursorNext
  PROVE  TablesOK(iters', spi')
<1>1. spi \in Spi /\ iters \in Seq(BlockRec) /\ BlocksOK(iters, queries)
  BY DEF RowsInv, BlocksOK
<1>2. RowsInv'
  BY CursorSteps
<1>3. Owned(iters, spi)
  BY DEF TablesOK
<1>4. ASSUME NoExec(iters) PROVE \A rows : TablesOK(iters, AfterFetch(rows))
  BY <1>3, <1>4, PassingTable DEF AfterFetch
<1>5. MayHaveRows => NoExec(iters)
  BY <1>1 DEF MayHaveRows, NoExec
<1>6. CASE Cursor \/ CursorMove \/ CursorRewind
  BY <1>6, NoTableOK DEF Cursor, CursorMove, CursorRewind
<1>7. CASE CursorFetch
  BY <1>4, <1>5, <1>7 DEF CursorFetch
<1>8. CASE CursorClose
  BY <1>8 DEF CursorClose
<1>9. CASE CursorEach
  <2>1. PICK q \in Cursors, op \in {"cursor_each", "cursor_reverse_each"} :
          FetchRow(iters, NewBlock(op, "row", q, queries[q].size, 0, 1))
    BY <1>9 DEF CursorEach
  <2> DEFINE f == NewBlock(op, "row", q, queries[q].size, 0, 1)
  <2>2. /\ f.op \in {"cursor_each", "cursor_reverse_each"}
        /\ DOMAIN f = {"op", "form", "q", "size", "count", "block", "tab", "rows", "i",
                       "got", "given"}
    BY DEF NewBlock
  <2>3. NoExec(iters) /\ \A rows : Owned(iters, AfterFetch(rows))
    BY <1>4, <1>5, <1>9 DEF CursorEach, TablesOK
  <2>4. FetchRow(iters, f)
    BY <2>1
  <2> HIDE DEF f
  <2> QED
    BY <1>1, <1>2, <2>2, <2>3, <2>4, RowTables
<1>10. CASE CursorNext
  <2>1. /\ iters # <<>> /\ FetchRow(Below, Top)
        /\ Top.op \in {"cursor_each", "cursor_reverse_each"}
    BY <1>10 DEF CursorNext, Runs
  <2>2. /\ Top \in BlockRec /\ Len(Below) = Len(iters) - 1
        /\ \A j \in 1..Len(Below) : Below[j] = iters[j]
        /\ Len(iters) \in Nat \ {0} /\ Below \in Seq(BlockRec)
    BY <1>1, <2>1, BelowOK DEF BlocksOK
  <2>3. NoExec(Below)
    BY <2>1, TopTables
  <2>4. NoExec(iters)
    <3>1. \A j \in 1..Len(iters) : iters[j].op = "exec" => j = Len(iters)
      BY DEF TablesOK
    <3> QED
      BY <2>1, <3>1 DEF NoExec, Top
  <2>5. \A rows : Owned(Below, AfterFetch(rows))
    <3> SUFFICES ASSUME NEW rows PROVE Owned(Below, AfterFetch(rows))
      OBVIOUS
    <3> DEFINE s == AfterFetch(rows)
    <3>1. Owned(iters, s)
      BY <1>4, <2>4 DEF TablesOK
    <3> HIDE DEF s
    <3>2. \A j \in 1..Len(Below) : j \in 1..Len(iters)
      BY <2>2
    <3>3. Owned(Below, s)
      BY <2>2, <3>1, <3>2 DEF Owned
    <3> QED
      BY <3>3 DEF s
  <2>6. DOMAIN Top = {"op", "form", "q", "size", "count", "block", "tab", "rows", "i",
                      "got", "given"}
    BY <2>2 DEF BlockRec
  <2> QED
    BY <1>2, <2>1, <2>2, <2>3, <2>5, <2>6, RowTables
<1> QED
  BY <1>6, <1>7, <1>8, <1>9, <1>10

TablesInv == RowsInv /\ TablesOK(iters, spi)

(* No tuple table is freed twice or read after it was freed, if the block  *)
(* of exec runs no query that gives rows (pl_SPI_exec and pl_plan_execp    *)
(* free the global SPI_tuptable, pl_fetch its own).                        *)
THEOREM TablesFreedOnce == ASSUME ~QueryInExec PROVE Spec => []FreedOnce
<1>1. SizesAssumption
  BY SizesAssumption
<1>2. Init => TablesInv
  <2> SUFFICES ASSUME Init PROVE TablesInv
    OBVIOUS
  <2>1. RowsInv /\ Len(iters) = 0 /\ ~spi.misused
    BY <1>1, RowsInit DEF Init
  <2>2. TablesOK(iters, spi)
    BY <2>1 DEF TablesOK, Owned
  <2> QED
    BY <2>1, <2>2 DEF TablesInv
<1>3. TablesInv /\ [Next]_vars => TablesInv'
  <2> SUFFICES ASSUME RowsInv, TablesOK(iters, spi), [Next]_vars
               PROVE  TablesInv'
    BY DEF TablesInv
  <2>1. RowsInv'
    BY <1>1, RowsStep
  <2>2. CASE ExecBlock \/ ExecNext \/ ExecEnd \/ ExecRows \/ ExecOther
    BY <1>1, <2>1, <2>2, ExecTables DEF TablesInv
  <2>3. CASE Each \/ EachNext \/ EachFetch \/ EachDone
    BY <1>1, <2>1, <2>3, EachTables DEF TablesInv
  <2>4. CASE \/ Cursor \/ CursorFetch \/ CursorMove \/ CursorRewind
             \/ CursorClose \/ CursorEach \/ CursorNext
    BY <1>1, <2>1, <2>4, CursorTables DEF TablesInv
  <2>5. CASE Leave
    <3>1. iters # <<>> /\ iters' = Below /\ spi' = spi
      BY <2>5 DEF Leave, EndBlock
    <3>2. TablesOK(Below, spi)
      BY <3>1, TopTables, PlainTables
    <3> QED
      BY <2>1, <3>1, <3>2 DEF TablesInv
  <2>6. CASE UNCHANGED vars
    BY <2>1, <2>6 DEF vars, TablesInv
  <2> QED
    BY <2>2, <2>3, <2>4, <2>5, <2>6 DEF Next
<1>4. TablesInv => FreedOnce
  BY DEF TablesInv, TablesOK, Owned, FreedOnce
<1> QED
  BY <1>2, <1>3, <1>4, PTL DEF Spec

-----------------------------------------------------------------------------
(* Types, and the loop of rewind, whose recursive function is shown to be  *)
(* 0 everywhere: where it is not, it is not at a smaller position either.  *)
LEMMA LeastIn ==
  ASSUME NEW S, S \subseteq Nat, S # {}
  PROVE  \E x \in S : \A y \in S : x <= y
<1> DEFINE R == StrictSubsetOrdering(Nat)
           F == {0..x : x \in S}
<1>1. F \subseteq FiniteSubsetsOf(Nat) /\ F # {}
  <2> SUFFICES ASSUME NEW x \in S PROVE 0..x \in FiniteSubsetsOf(Nat)
    OBVIOUS
  <2>1. IsFiniteSet(0..x) /\ 0..x \subseteq Nat
    BY FS_Interval
  <2> QED
    BY <2>1 DEF FiniteSubsetsOf
<1>2. IsWellFoundedOn(R, FiniteSubsetsOf(Nat))
  BY FS_StrictSubsetOrderingWellFounded
<1>3. \E T \in F : \A U \in F : <<U, T>> \notin R
  <2> HIDE DEF R, F
  <2> QED
    BY <1>1, <1>2, WFMin
<1>4. PICK x \in S : \A y \in S : <<0..y, 0..x>> \notin R
  BY <1>3
<1>5. \A y \in S : x <= y
  <2> SUFFICES ASSUME NEW y \in S, y < x PROVE FALSE
    OBVIOUS
  <2>1. /\ 0..y \subseteq 0..x /\ x \in 0..x /\ x \notin 0..y
        /\ 0..y \subseteq Nat /\ 0..x \subseteq Nat
    OBVIOUS
  <2>2. 0..y # 0..x
    BY <2>1
  <2>3. <<0..y, 0..x>> \in R
    BY <2>1, <2>2 DEF StrictSubsetOrdering
  <2> QED
    BY <1>4, <2>3
<1> QED
  BY <1>5

(* Portals of cursors and of plan.each, as TypeOK has them.                *)
Portal == [kind : {"each", "cursor"}, size : Size, pos : Nat, open : {TRUE}]

Inside == {p \in Portal \cup {NoPortal} : p.pos <= p.size + 1}

(* A fetch stays between the two ends of the portal.                       *)
LEMMA FetchInside ==
  ASSUME SizesAssumption, NEW p \in Portal, p.pos <= p.size + 1,
         NEW forward \in BOOLEAN, NEW n \in Nat
  PROVE  LET r == Fetch(p, forward, n) IN
         /\ r.pos \in 0..(p.size + 1)
         /\ ~forward /\ n # 0 =>
              IF r.rows = <<>> THEN r.pos = 0 ELSE r.pos < p.pos
<1> DEFINE left == IF forward THEN p.size - Least(p.pos, p.size)
                   ELSE IF p.pos = 0 THEN 0 ELSE p.pos - 1
           got  == Least(n, left)
           r    == Fetch(p, forward, n)
<1>1. p.size \in Nat /\ p.pos \in Nat
  BY DEF Portal, SizesAssumption
<1>2. /\ left \in Nat
      /\ forward => p.pos + left <= p.size \/ left = 0
      /\ ~forward => left <= p.pos /\ (p.pos # 0 => left < p.pos)
  BY <1>1 DEF Least
<1>3. got \in Nat /\ got <= left /\ got <= n
  BY <1>2 DEF Least
<1>4. r.pos = IF forward THEN IF got < n THEN p.size + 1 ELSE p.pos + got
              ELSE IF got < n THEN 0 ELSE p.pos - got
  BY DEF Fetch
<1>5. ~forward => r.rows = [j \in 1..got |-> p.pos - j]
  BY DEF Fetch
<1> HIDE DEF got, left, r
<1>6. ~forward => (r.rows = <<>> <=> got = 0)
  <2> SUFFICES ASSUME ~forward PROVE r.rows = <<>> <=> got = 0
    OBVIOUS
  <2> DEFINE t == [j \in 1..got |-> p.pos - j]
  <2>1. t \in [1..got -> Int] /\ r.rows = t
    BY <1>1, <1>5
  <2> HIDE DEF t
  <2>2. t \in Seq(Int) /\ Len(t) = got
    BY <1>3, <2>1
  <2> QED
    BY <1>3, <2>1, <2>2
<1>7. r.pos \in 0..(p.size + 1)
  BY <1>1, <1>2, <1>3, <1>4
<1>8. ~forward /\ n # 0 => IF r.rows = <<>> THEN r.pos = 0 ELSE r.pos < p.pos
  BY <1>1, <1>2, <1>3, <1>4, <1>6
<1> QED
  BY <1>7, <1>8 DEF r

(* The loop of rewind.  That it ends follows from the position, which goes *)
(* back as long as there are rows.                                         *)
LEMMA RewoundIs ==
  ASSUME SizesAssumption, NEW p \in Portal, p.pos <= p.size + 1
  PROVE  Rewound(p) = 0
<1> DEFINE D == 0..(p.size + 1)
           r(pos) == Fetch([p EXCEPT !.pos = pos], FALSE, Portion)
           F(g) == [pos \in D |-> IF r(pos).rows = <<>> THEN r(pos).pos
                                  ELSE g[r(pos).pos]]
           after == CHOOSE g : g = F(g)
<1>1. Rewound(p) = after[p.pos]
  BY Zenon DEF Rewound
<1>2. p.size \in Nat /\ p.pos \in D
  <2>1. p.size \in Nat /\ p.pos \in Nat
    BY DEF Portal, SizesAssumption
  <2> QED
    BY <2>1
<1>3. ASSUME NEW pos \in D
      PROVE  /\ r(pos).pos \in D
             /\ IF r(pos).rows = <<>> THEN r(pos).pos = 0 ELSE r(pos).pos < pos
  <2> DEFINE x == [p EXCEPT !.pos = pos]
  <2>1. pos \in Nat /\ pos <= p.size + 1
    BY <1>2
  <2>2. x \in Portal /\ x.pos = pos /\ x.size = p.size
    BY <2>1 DEF Portal
  <2>3. Portion \in Nat /\ Portion # 0
    BY DEF SizesAssumption
  <2> HIDE DEF x
  <2>4. /\ Fetch(x, FALSE, Portion).pos \in 0..(x.size + 1)
        /\ IF Fetch(x, FALSE, Portion).rows = <<>>
           THEN Fetch(x, FALSE, Portion).pos = 0
           ELSE Fetch(x, FALSE, Portion).pos < x.pos
    BY <2>1, <2>2, <2>3, FetchInside
  <2> QED
    BY <2>2, <2>4 DEF x
<1> HIDE DEF r
<1>4. after = F(after)
  <2> DEFINE g == [pos \in D |-> 0]
  <2>1. g = F(g)
    BY <1>3
  <2> HIDE DEF g, F
  <2> QED
    BY <2>1
<1> HIDE DEF after
<1>5. \A pos \in D : after[pos] = IF r(pos).rows = <<>> THEN r(pos).pos
                                  ELSE after[r(pos).pos]
  BY <1>4
<1>6. \A pos \in D : after[pos] = 0
  <2> DEFINE S == {pos \in D : after[pos] # 0}
  <2> SUFFICES ASSUME S # {} PROVE FALSE
    OBVIOUS
  <2>1. S \subseteq Nat
    OBVIOUS
  <2>2. PICK pos \in S : \A y \in S : pos <= y
    BY <2>1, LeastIn
  <2>3. pos \in D /\ pos \in Nat
    OBVIOUS
  <2>4. /\ r(pos).pos \in D
        /\ IF r(pos).rows = <<>> THEN r(pos).pos = 0 ELSE r(pos).pos < pos
    BY <1>3, <2>3
  <2>5. r(pos).rows # <<>>
    BY <1>5, <2>3, <2>4
  <2>6. r(pos).pos < pos /\ r(pos).pos \in Nat
    BY <2>4, <2>5
  <2>7. after[r(pos).pos] = 0
    BY <2>2, <2>3, <2>4, <2>6
  <2> QED
    BY <1>5, <2>3, <2>5, <2>7
<1> QED
  BY <1>1, <1>2, <1>6

-----------------------------------------------------------------------------
(* TypeOK, with what it needs of blocks of cursors: they keep no rows.     *)
QueriesTyped(qs) == qs \in Seq(Inside) /\ Len(qs) <= MaxQueries

BlockTyped(f, n) ==
  /\ f.q \in 1..n
  /\ f.op \in {"cursor_each", "cursor_reverse_each"}
       => f.given = <<>> /\ f.rows = <<>> /\ f.i = 0

BlocksTyped(its, n) == \A j \in 1..Len(its) : BlockTyped(its[j], n)

TypesInv ==
  /\ RowsInv
  /\ QueriesTyped(queries) /\ BlocksTyped(iters, Len(queries))

LEMMA NewTyped ==
  ASSUME SizesAssumption, TypesInv, Len(queries) < MaxQueries, NEW x \in Inside
  PROVE  LET qs == Append(queries, x) IN
         /\ QueriesTyped(qs) /\ Len(qs) = Len(queries) + 1
         /\ NewQuery \in 1..Len(qs) /\ qs[NewQuery] = x
<1>1. queries \in Seq(Inside) /\ Len(queries) \in Nat /\ MaxQueries \in Nat
  BY DEF TypesInv, QueriesTyped, SizesAssumption
<1>2. /\ Append(queries, x) \in Seq(Inside)
      /\ Len(Append(queries, x)) = Len(queries) + 1
      /\ Append(queries, x)[Len(queries) + 1] = x
  BY <1>1, AppendFacts
<1> QED
  BY <1>1, <1>2 DEF QueriesTyped, NewQuery

LEMMA ChangeTyped ==
  ASSUME NEW qs, QueriesTyped(qs), NEW q \in 1..Len(qs), NEW x \in Inside
  PROVE  /\ QueriesTyped([qs EXCEPT ![q] = x])
         /\ Len([qs EXCEPT ![q] = x]) = Len(qs)
<1>1. qs \in Seq(Inside)
  BY DEF QueriesTyped
<1>2. /\ [qs EXCEPT ![q] = x] \in Seq(Inside \cup {x})
      /\ Len([qs EXCEPT ![q] = x]) = Len(qs)
  BY <1>1, ExceptFacts
<1>3. Inside \cup {x} = Inside
  OBVIOUS
<1> QED
  BY <1>2, <1>3 DEF QueriesTyped

LEMMA PortalsInside ==
  ASSUME SizesAssumption
  PROVE  /\ NoPortal \in Inside
         /\ \A n \in Size, kind \in {"each", "cursor"} :
              [kind |-> kind, size |-> n, pos |-> 0, open |-> TRUE] \in Inside
         /\ \A p \in Inside : p.kind # "none" =>
              /\ p \in Portal /\ p.pos <= p.size + 1
              /\ \A pos \in 0..(p.size + 1) : [p EXCEPT !.pos = pos] \in Inside
<1>1. NoPortal \in Inside
  BY DEF Inside, NoPortal
<1>2. ASSUME NEW n \in Size, NEW kind \in {"each", "cursor"}
      PROVE  [kind |-> kind, size |-> n, pos |-> 0, open |-> TRUE] \in Inside
  BY DEF Inside, Portal, SizesAssumption
<1>3. ASSUME NEW p \in Inside, p.kind # "none"
      PROVE  /\ p \in Portal /\ p.pos <= p.size + 1
             /\ \A pos \in 0..(p.size + 1) : [p EXCEPT !.pos = pos] \in Inside
  <2>1. p \in Portal /\ p.pos <= p.size + 1
    BY <1>3 DEF Inside, NoPortal
  <2>2. p.size \in Nat
    BY <2>1 DEF Portal, SizesAssumption
  <2>3. ASSUME NEW pos \in 0..(p.size + 1)
        PROVE  [p EXCEPT !.pos = pos] \in Inside
    <3>1. pos \in Nat /\ pos <= p.size + 1
      BY <2>2
    <3>2. /\ [p EXCEPT !.pos = pos] \in Portal
          /\ [p EXCEPT !.pos = pos].pos = pos
          /\ [p EXCEPT !.pos = pos].size = p.size
      BY <2>1, <3>1 DEF Portal
    <3> QED
      BY <3>1, <3>2 DEF Inside
  <2> QED
    BY <2>1, <2>3
<1> QED
  BY <1>1, <1>2, <1>3

(* What an action makes of the blocks.                                     *)
LEMMA TypedAfter ==
  ASSUME TypesInv, RowsInv', QueriesTyped(queries'),
         Len(queries) <= Len(queries'),
         \/ iters' = iters
         \/ iters # <<>> /\ iters' = Below
         \/ \E g : /\ BlockTyped(g, Len(queries'))
                  /\ iters' = Append(iters, g)
         \/ \E g : /\ BlockTyped(g, Len(queries'))
                  /\ iters # <<>> /\ iters' = Append(Below, g)
  PROVE  TypesInv'
<1>1. /\ iters \in Seq(BlockRec) /\ BlocksTyped(iters, Len(queries))
      /\ Len(queries) \in Nat /\ Len(queries') \in Nat
  BY DEF TypesInv, RowsInv, BlocksOK, QueriesTyped
<1>2. BlocksTyped(iters, Len(queries'))
  BY <1>1 DEF BlocksTyped, BlockTyped
<1>3. iters # <<>> =>
        /\ Below \in Seq(BlockRec) /\ Len(Below) = Len(iters) - 1
        /\ \A j \in 1..Len(Below) : Below[j] = iters[j]
  BY <1>1, BelowFacts DEF Below
<1>4. iters # <<>> => BlocksTyped(Below, Len(queries'))
  BY <1>1, <1>2, <1>3 DEF BlocksTyped
<1>5. ASSUME NEW its \in Seq(BlockRec), BlocksTyped(its, Len(queries')),
             NEW g, BlockTyped(g, Len(queries')),
             iters' = Append(its, g)
      PROVE  BlocksTyped(iters', Len(queries'))
  <2>1. /\ Len(iters') = Len(its) + 1 /\ iters'[Len(its) + 1] = g
        /\ \A j \in 1..Len(its) : iters'[j] = its[j]
        /\ Len(its) \in Nat
    BY <1>5, AppendFacts
  <2>2. \A j \in 1..Len(iters') : j \in 1..Len(its) \/ j = Len(its) + 1
    BY <2>1
  <2> QED
    BY <1>5, <2>1, <2>2 DEF BlocksTyped
<1>6. BlocksTyped(iters', Len(queries'))
  BY <1>1, <1>2, <1>3, <1>4, <1>5
<1> QED
  BY <1>6 DEF TypesInv


LEMMA TypedBasics ==
  ASSUME SizesAssumption, TypesInv
  PROVE  /\ queries \in Seq(Inside) /\ Len(queries) \in Nat
         /\ Len(queries) <= MaxQueries
         /\ iters \in Seq(BlockRec)
         /\ iters # <<>> => Top \in BlockRec /\ BlockTyped(Top, Len(queries))
         /\ \A q \in 1..Len(queries) : queries[q] \in Inside
         /\ \A q \in Cursors : /\ q \in 1..Len(queries)
                               /\ queries[q].kind # "none"
<1>1. queries \in Seq(Inside) /\ Len(queries) <= MaxQueries
  BY DEF TypesInv, QueriesTyped
<1>2. iters \in Seq(BlockRec) /\ BlocksTyped(iters, Len(queries))
  BY DEF TypesInv, RowsInv, BlocksOK
<1>3. ASSUME iters # <<>>
      PROVE  Top \in BlockRec /\ BlockTyped(Top, Len(queries))
  <2>1. Len(iters) \in 1..Len(iters) /\ Top \in BlockRec
    BY <1>2, <1>3, BelowFacts DEF Top
  <2> QED
    BY <1>2, <2>1 DEF BlocksTyped, Top
<1>4. \A q \in Cursors : q \in 1..Len(queries) /\ queries[q].kind # "none"
  BY <1>1 DEF Cursors
<1> QED
  BY <1>1, <1>2, <1>3, <1>4

(* A portal is moved by a fetch of n rows.                                 *)
Fetched(qs, q, forward, n) ==
  [qs EXCEPT ![q].pos = Fetch(qs[q], forward, n).pos]

LEMMA FetchTyped ==
  ASSUME SizesAssumption, NEW qs, QueriesTyped(qs), NEW q \in 1..Len(qs),
         qs[q].kind # "none", NEW forward \in BOOLEAN, NEW n \in Nat
  PROVE  /\ QueriesTyped(Fetched(qs, q, forward, n))
         /\ Len(Fetched(qs, q, forward, n)) = Len(qs)
<1> DEFINE p == qs[q]
           x == [p EXCEPT !.pos = Fetch(p, forward, n).pos]
<1>1. p \in Inside /\ p.kind # "none"
  BY DEF QueriesTyped
<1>2. p \in Portal /\ p.pos <= p.size + 1
  BY <1>1, PortalsInside
<1>3. Fetch(p, forward, n).pos \in 0..(p.size + 1)
  <2> HIDE DEF p
  <2> QED
    BY <1>2, FetchInside
<1>4. x \in Inside
  <2> HIDE DEF p
  <2> QED
    BY <1>1, <1>3, PortalsInside
<1>5. Fetched(qs, q, forward, n) = [qs EXCEPT ![q] = x]
  BY DEF Fetched
<1> HIDE DEF x, p
<1>6. /\ QueriesTyped([qs EXCEPT ![q] = x])
      /\ Len([qs EXCEPT ![q] = x]) = Len(qs)
  BY <1>4, ChangeTyped
<1> QED
  BY <1>5, <1>6

LEMMA PortionTyped ==
  ASSUME SizesAssumption, NEW rest, NEW f \in BlockRec, f.op = "each",
         NEW qs, QueriesTyped(qs), f.q \in 1..Len(qs), qs[f.q].kind # "none",
         NEW s, FetchPortion(rest, f, qs, s)
  PROVE  /\ QueriesTyped(queries') /\ Len(queries') = Len(qs)
         /\ \/ iters' = rest
            \/ \E g : BlockTyped(g, Len(qs)) /\ iters' = Append(rest, g)
<1> DEFINE r == Fetch(qs[f.q], TRUE, f.block)
           u == WithTable(s)
           f0 == [f EXCEPT !.tab = u.tuptable, !.rows = RowsOf(f.q, r.rows),
                           !.i = 0]
<1>1. \/ queries' = Closed(qs, f.q) /\ iters' = rest
      \/ /\ queries' = [qs EXCEPT ![f.q].pos = r.pos]
         /\ iters' = Append(rest, Given(f0))
  BY DEF FetchPortion, EndBlock, Yield, Given
<1>2. Given(f0).op = "each" /\ Given(f0).q = f.q
  BY DEF Given, BlockRec
<1> HIDE DEF f0
<1>3. BlockTyped(Given(f0), Len(qs))
  BY <1>2 DEF BlockTyped
<1>4. CASE queries' = Closed(qs, f.q) /\ iters' = rest
  <2>1. queries' = [qs EXCEPT ![f.q] = NoPortal]
    BY <1>4 DEF Closed
  <2>2. NoPortal \in Inside
    BY PortalsInside
  <2>3. QueriesTyped(queries') /\ Len(queries') = Len(qs)
    BY <2>1, <2>2, ChangeTyped
  <2> QED
    BY <1>4, <2>3
<1>5. CASE /\ queries' = [qs EXCEPT ![f.q].pos = r.pos]
           /\ iters' = Append(rest, Given(f0))
  <2>1. f.block \in Nat
    BY DEF BlockRec
  <2>2. QueriesTyped(queries') /\ Len(queries') = Len(qs)
    <3> DEFINE n == f.block
               forward == TRUE
    <3>1. n \in Nat /\ forward \in BOOLEAN
      BY <2>1
    <3>2. queries' = Fetched(qs, f.q, forward, n)
      BY <1>5 DEF Fetched
    <3> HIDE DEF n, forward
    <3> QED
      BY <3>1, <3>2, FetchTyped
  <2> QED
    BY <1>3, <1>5, <2>2
<1> QED
  BY <1>1, <1>4, <1>5

LEMMA TypesStep ==
  ASSUME SizesAssumption, TypesInv, [Next]_vars
  PROVE  TypesInv'
<1> DEFINE Typed == /\ QueriesTyped(queries')
                    /\ Len(queries) <= Len(queries')
<1>1. /\ queries \in Seq(Inside) /\ Len(queries) \in Nat
      /\ Len(queries) <= MaxQueries
      /\ iters \in Seq(BlockRec)
      /\ iters # <<>> => Top \in BlockRec /\ BlockTyped(Top, Len(queries))
      /\ \A q \in 1..Len(queries) : queries[q] \in Inside
      /\ \A q \in Cursors : /\ q \in 1..Len(queries)
                            /\ queries[q].kind # "none"
  BY TypedBasics
<1>2. RowsInv /\ RowsInv'
  BY RowsStep DEF TypesInv
<1>3. QueriesTyped(queries)
  BY DEF TypesInv
<1>4. ASSUME queries' = queries PROVE Typed
  BY <1>1, <1>3, <1>4
<1>5. ASSUME NEW x \in Inside, queries' = Append(queries, x),
             Len(queries) < MaxQueries
      PROVE  Typed /\ NewQuery \in 1..Len(queries')
  BY <1>1, <1>5, NewTyped
<1>6. ASSUME NEW q \in Cursors, NEW x \in Inside,
             queries' = [queries EXCEPT ![q] = x]
      PROVE  Typed
  <2>1. q \in 1..Len(queries)
    BY <1>1
  <2>2. QueriesTyped(queries') /\ Len(queries') = Len(queries)
    BY <1>3, <1>6, <2>1, ChangeTyped
  <2> QED
    BY <1>1, <2>2
<1>7. ASSUME NEW q \in Cursors, NEW forward \in BOOLEAN, NEW n \in Nat,
             queries' = Moved(q, Fetch(queries[q], forward, n).pos)
      PROVE  Typed
  <2>1. q \in 1..Len(queries) /\ queries[q].kind # "none"
    BY <1>1
  <2>2. queries' = Fetched(queries, q, forward, n)
    BY <1>7 DEF Moved, Fetched
  <2>3. QueriesTyped(queries') /\ Len(queries') = Len(queries)
    BY <1>3, <2>1, <2>2, FetchTyped
  <2> QED
    BY <1>1, <2>3
<1> HIDE DEF Typed
<1>8. ASSUME Typed,
             \/ iters' = iters
             \/ iters # <<>> /\ iters' = Below
             \/ \E g : /\ BlockTyped(g, Len(queries'))
                       /\ iters' = Append(iters, g)
             \/ \E g : /\ BlockTyped(g, Len(queries'))
                       /\ iters # <<>> /\ iters' = Append(Below, g)
      PROVE  TypesInv'
  BY <1>2, <1>8, TypedAfter DEF Typed
<1>9. CASE ExecBlock
  <2>1. PICK n \in Size, count \in Count, form \in Form :
       LET f == [NewBlock("exec", form, NewQuery, n, count, 0) EXCEPT
                   !.tab = WithTable(spi).tuptable,
                   !.rows = Yields(form, NewQuery, Asked(n, count), count)]
       IN /\ queries' = Append(queries, NoPortal)
          /\ iters' = iters \/ iters' = Append(iters, Given(f))
    <3>1. PICK n \in Size, count \in {c \in Count : c >= 0}, form \in Form :
            LET q == NewQuery
                m == Asked(n, count)
                s == WithTable(spi)
                f == [NewBlock("exec", form, q, n, count, 0) EXCEPT
                        !.tab = s.tuptable, !.rows = Yields(form, q, m, count)]
            IN /\ queries' = Append(queries, NoPortal)
               /\ IF m = 0
                  THEN /\ spi' = SPI_freetuptable(s, s.tuptable)
                       /\ UNCHANGED <<iters, ended>>
                  ELSE IF f.rows = <<>>
                  THEN EndBlock("complete", iters, f,
                                SPI_freetuptable(s, s.tuptable))
                  ELSE Yield(iters, f, s)
      BY <1>9 DEF ExecBlock
    <3> DEFINE f == [NewBlock("exec", form, NewQuery, n, count, 0) EXCEPT
                       !.tab = WithTable(spi).tuptable,
                       !.rows = Yields(form, NewQuery, Asked(n, count), count)]
    <3>2. iters' = iters \/ iters' = Append(iters, Given(f))
      BY <3>1 DEF EndBlock, Yield, Given
    <3> QED
      BY <3>1, <3>2
  <2> DEFINE f == [NewBlock("exec", form, NewQuery, n, count, 0) EXCEPT
                     !.tab = WithTable(spi).tuptable,
                     !.rows = Yields(form, NewQuery, Asked(n, count), count)]
  <2>2. Typed /\ NewQuery \in 1..Len(queries')
    <3>1. NoPortal \in Inside /\ Len(queries) < MaxQueries
      BY <1>9, PortalsInside DEF ExecBlock, MayQuery
    <3> QED
      BY <1>5, <2>1, <3>1
  <2>3. Given(f).op = "exec" /\ Given(f).q = NewQuery
    BY DEF Given, NewBlock
  <2>4. BlockTyped(Given(f), Len(queries'))
    <3> HIDE DEF f
    <3> QED
      BY <2>2, <2>3 DEF BlockTyped
  <2> HIDE DEF f
  <2> QED
    BY <1>8, <2>1, <2>2, <2>4 DEF f
<1>10. CASE ExecNext \/ EachNext
  <2>1. /\ iters # <<>> /\ Top.op \in {"exec", "each"}
        /\ iters' = Append(Below, Given(Top)) /\ queries' = queries
    BY <1>10 DEF ExecNext, EachNext, Runs, Yield, Given
  <2>2. Top \in BlockRec /\ BlockTyped(Top, Len(queries))
    BY <1>1, <2>1
  <2>3. Given(Top).op = Top.op /\ Given(Top).q = Top.q
    BY <2>2 DEF Given, BlockRec
  <2> HIDE DEF Given
  <2>4. BlockTyped(Given(Top), Len(queries'))
    BY <2>1, <2>2, <2>3 DEF BlockTyped
  <2> QED
    BY <1>4, <1>8, <2>1, <2>4
<1>11. CASE ExecEnd
  <2>1. iters # <<>> /\ iters' = Below /\ queries' = queries
    BY <1>11 DEF ExecEnd, Runs, EndBlock
  <2> QED
    BY <1>4, <1>8, <2>1
<1>12. CASE ExecRows \/ ExecOther \/ UNCHANGED vars
  <2>1. iters' = iters /\ queries' = queries
    BY <1>12 DEF ExecRows, ExecOther, vars
  <2> QED
    BY <1>4, <1>8, <2>1
<1>13. CASE Each
  <2>1. PICK n \in Size, count \in Count, block \in Block :
          FetchPortion(iters, NewBlock("each", "row", NewQuery, n, count, block),
                       Query("each", n), WithoutTable)
    BY <1>13 DEF Each
  <2> DEFINE x == [kind |-> "each", size |-> n, pos |-> 0, open |-> TRUE]
             qs == Append(queries, x)
             f == NewBlock("each", "row", NewQuery, n, count, block)
  <2>2. x \in Inside /\ x.kind # "none" /\ Len(queries) < MaxQueries
    BY <1>13, PortalsInside DEF Each, MayQuery
  <2>3. FetchPortion(iters, f, qs, WithoutTable)
    BY <2>1 DEF Query
  <2> HIDE DEF x
  <2>4. /\ QueriesTyped(qs) /\ Len(qs) = Len(queries) + 1
        /\ NewQuery \in 1..Len(qs) /\ qs[NewQuery] = x
    BY <2>2, NewTyped
  <2>5. f \in BlockRec /\ f.op = "each" /\ f.q = NewQuery
    <3>1. /\ "each" \in Ops /\ NewQuery \in Nat /\ n \in Nat /\ count \in Int
          /\ block \in Nat /\ "row" \in Forms
      <4>1. "each" \in Ops /\ "row" \in Forms
        BY DEF Ops, Forms
      <4>2. NewQuery \in Nat
        BY <1>1 DEF NewQuery
      <4>3. n \in Nat /\ count \in Int /\ block \in Nat
        BY DEF SizesAssumption
      <4> QED
        BY <4>1, <4>2, <4>3
    <3> QED
      BY <3>1, NewBlockIs
  <2> HIDE DEF f, qs
  <2>6. /\ QueriesTyped(queries') /\ Len(queries') = Len(qs)
        /\ \/ iters' = iters
           \/ \E g : BlockTyped(g, Len(qs)) /\ iters' = Append(iters, g)
    BY <2>2, <2>3, <2>4, <2>5, PortionTyped
  <2>7. Typed
    BY <1>1, <2>4, <2>6 DEF Typed
  <2> QED
    BY <1>8, <2>6, <2>7
<1>14. CASE EachFetch
  <2>1. /\ iters # <<>> /\ Top.op = "each"
        /\ FetchPortion(Below, Top, queries, FreePortion(spi, Top))
    BY <1>14 DEF EachFetch, Runs
  <2>2. Top \in BlockRec /\ Top.q \in 1..Len(queries)
    BY <1>1, <2>1 DEF BlockTyped
  <2>3. queries[Top.q].kind = "each"
    BY <1>2, <2>1, BelowOK DEF RowsInv, Right, Portioned, OfEach
  <2>4. /\ QueriesTyped(queries') /\ Len(queries') = Len(queries)
        /\ \/ iters' = Below
           \/ \E g : /\ BlockTyped(g, Len(queries))
                     /\ iters' = Append(Below, g)
    BY <1>3, <2>1, <2>2, <2>3, PortionTyped
  <2>5. Typed
    BY <1>1, <2>4 DEF Typed
  <2> QED
    BY <1>8, <2>1, <2>4, <2>5
<1>15. CASE EachDone \/ Leave
  <2>1. /\ iters # <<>> /\ iters' = Below
        /\ queries' = Closed(queries, Top.q) \/ queries' = queries
    BY <1>15 DEF EachDone, Leave, Runs, EndBlock
  <2>2. Typed
    <3>1. Top.q \in 1..Len(queries) /\ NoPortal \in Inside
      BY <1>1, <2>1, PortalsInside DEF BlockTyped
    <3>2. CASE queries' = Closed(queries, Top.q)
      <4>1. queries' = [queries EXCEPT ![Top.q] = NoPortal]
        BY <3>2 DEF Closed
      <4>2. QueriesTyped(queries') /\ Len(queries') = Len(queries)
        BY <1>3, <3>1, <4>1, ChangeTyped
      <4> QED
        BY <1>1, <4>2 DEF Typed
    <3> QED
      BY <1>4, <2>1, <3>2
  <2> QED
    BY <1>8, <2>1, <2>2
<1>16. CASE Cursor
  <2>1. PICK n \in Size : queries' = Query("cursor", n)
    BY <1>16 DEF Cursor
  <2> DEFINE x == [kind |-> "cursor", size |-> n, pos |-> 0, open |-> TRUE]
  <2>2. x \in Inside /\ Len(queries) < MaxQueries
    BY <1>16, PortalsInside DEF Cursor, MayQuery
  <2>3. queries' = Append(queries, x)
    BY <2>1 DEF Query
  <2> HIDE DEF x
  <2>4. Typed
    BY <1>5, <2>2, <2>3
  <2> QED
    BY <1>8, <1>16, <2>4 DEF Cursor
<1>17. CASE CursorFetch \/ CursorMove
  <2>1. /\ iters' = iters
        /\ \E q \in Cursors, c \in Step :
             queries' = Moved(q, Fetch(queries[q], c > 0, Magnitude(c)).pos)
    BY <1>17 DEF CursorFetch, CursorMove
  <2>2. PICK q \in Cursors, c \in Step :
          queries' = Moved(q, Fetch(queries[q], c > 0, Magnitude(c)).pos)
    BY <2>1
  <2>3. (c > 0) \in BOOLEAN /\ Magnitude(c) \in Nat
    BY DEF Magnitude, SizesAssumption
  <2>4. Typed
    <3> DEFINE forward == c > 0
               n == Magnitude(c)
    <3>1. /\ forward \in BOOLEAN /\ n \in Nat
          /\ queries' = Moved(q, Fetch(queries[q], forward, n).pos)
      BY <2>2, <2>3
    <3> HIDE DEF forward, n
    <3> QED
      BY <1>7, <3>1
  <2> QED
    BY <1>8, <2>1, <2>4
<1>18. CASE CursorRewind
  <2>1. PICK q \in Cursors : queries' = Moved(q, Rewound(queries[q]))
    BY <1>18 DEF CursorRewind
  <2> DEFINE p == queries[q]
             x == [p EXCEPT !.pos = 0]
  <2>2. p \in Inside /\ p.kind # "none"
    BY <1>1
  <2>3. queries' = [queries EXCEPT ![q] = [p EXCEPT !.pos = Rewound(p)]]
    BY <2>1 DEF Moved
  <2> HIDE DEF p
  <2>4. p \in Portal /\ p.pos <= p.size + 1
    BY <2>2, PortalsInside
  <2>5. Rewound(p) = 0 /\ 0 \in 0..(p.size + 1)
    <3>1. p.size \in Nat
      BY <2>4 DEF Portal, SizesAssumption
    <3> QED
      BY <2>4, <3>1, RewoundIs
  <2>6. x \in Inside
    BY <2>2, <2>5, PortalsInside
  <2>7. queries' = [queries EXCEPT ![q] = x]
    BY <2>3, <2>5
  <2> HIDE DEF x
  <2>8. Typed
    BY <1>6, <2>6, <2>7
  <2> QED
    BY <1>8, <1>18, <2>8 DEF CursorRewind
<1>19. CASE CursorClose
  <2>1. PICK q \in Cursors : queries' = [queries EXCEPT ![q] = NoPortal]
    BY <1>19 DEF CursorClose, Closed
  <2>2. NoPortal \in Inside
    BY PortalsInside
  <2>3. Typed
    BY <1>6, <2>1, <2>2
  <2> QED
    BY <1>8, <1>19, <2>3 DEF CursorClose
<1>20. ASSUME NEW rest, NEW f \in BlockRec, f.q \in Cursors,
              BlockTyped(f, Len(queries)), FetchRow(rest, f)
       PROVE  /\ Typed
              /\ \/ iters' = rest
                 \/ \E g : /\ BlockTyped(g, Len(queries'))
                           /\ iters' = Append(rest, g)
  <2> DEFINE forward == f.op = "cursor_each"
             n == 1
             g == [f EXCEPT !.got = @ + 1]
  <2>1. /\ queries' = Moved(f.q, Fetch(queries[f.q], forward, n).pos)
        /\ iters' = rest \/ iters' = Append(rest, g)
    BY <1>20 DEF FetchRow, EndBlock
  <2>2. forward \in BOOLEAN /\ n \in Nat
    OBVIOUS
  <2>3. Typed
    <3> HIDE DEF forward, n
    <3> QED
      BY <1>7, <1>20, <2>1, <2>2
  <2>4. /\ g.op = f.op /\ g.q = f.q /\ g.given = f.given /\ g.rows = f.rows
        /\ g.i = f.i
    BY DEF BlockRec
  <2> HIDE DEF g
  <2>5. BlockTyped(g, Len(queries'))
    <3>1. /\ Len(queries) <= Len(queries') /\ f.q \in 1..Len(queries)
          /\ Len(queries') \in Nat
      BY <1>20, <2>3 DEF Typed, QueriesTyped, BlockTyped
    <3>2. g.q \in 1..Len(queries')
      BY <1>1, <2>4, <3>1
    <3> QED
      BY <1>20, <2>4, <3>2 DEF BlockTyped
  <2> QED
    BY <2>1, <2>3, <2>5
<1>21. CASE CursorEach
  <2>1. PICK q \in Cursors, op \in {"cursor_each", "cursor_reverse_each"} :
          FetchRow(iters, NewBlock(op, "row", q, queries[q].size, 0, 1))
    BY <1>21 DEF CursorEach
  <2> DEFINE f == NewBlock(op, "row", q, queries[q].size, 0, 1)
  <2>2. q \in 1..Len(queries) /\ queries[q].size \in Nat /\ op \in Ops
    <3>1. queries[q] \in Portal /\ q \in 1..Len(queries)
      BY <1>1, PortalsInside
    <3> QED
      BY <3>1 DEF Portal, SizesAssumption, Ops
  <2>3. /\ f \in BlockRec /\ f.q = q /\ f.given = <<>> /\ f.rows = <<>>
        /\ f.i = 0
    <3>1. f.given = <<>> /\ f.rows = <<>> /\ f.i = 0
      BY DEF NewBlock
    <3> DEFINE n == queries[q].size
    <3>2. /\ NewBlock(op, "row", q, n, 0, 1) \in BlockRec
          /\ NewBlock(op, "row", q, n, 0, 1).q = q
      <4>1. n \in Nat /\ q \in Nat
        BY <1>1, <2>2
      <4> HIDE DEF n, f
      <4> QED
        BY <2>2, <4>1, CursorBlockIs, Zenon
    <3> QED
      BY <3>1, <3>2
  <2>4. FetchRow(iters, f)
    BY <2>1
  <2> HIDE DEF f
  <2>5. BlockTyped(f, Len(queries))
    BY <2>2, <2>3 DEF BlockTyped
  <2> QED
    BY <1>8, <1>20, <2>3, <2>4, <2>5
<1>22. CASE CursorNext
  <2>1. iters # <<>> /\ Top.q \in Cursors /\ FetchRow(Below, Top)
    BY <1>22 DEF CursorNext, Runs
  <2> QED
    BY <1>1, <1>8, <1>20, <2>1
<1> QED
  BY <1>9, <1>10, <1>11, <1>12, <1>13, <1>14, <1>15, <1>16, <1>17, <1>18,
     <1>19, <1>21, <1>22 DEF Next

LEMMA TypesAlways == Spec => []TypesInv
<1>1. SizesAssumption
  BY SizesAssumption
<1>2. Init => TypesInv
  <2> SUFFICES ASSUME Init PROVE TypesInv
    OBVIOUS
  <2>1. queries = <<>> /\ iters = <<>>
    BY DEF Init
  <2>2. QueriesTyped(queries) /\ BlocksTyped(iters, Len(queries))
    BY <1>1, <2>1 DEF QueriesTyped, BlocksTyped, SizesAssumption
  <2> QED
    BY <1>1, <2>2, RowsInit DEF TypesInv
<1>3. TypesInv /\ [Next]_vars => TypesInv'
  BY <1>1, TypesStep
<1> QED
  BY <1>2, <1>3, PTL DEF Spec

LEMMA TypesAre == SizesAssumption /\ TypesInv => TypeOK
<1> SUFFICES ASSUME SizesAssumption, TypesInv PROVE TypeOK
  OBVIOUS
<1>1. /\ queries \in Seq(Inside) /\ Len(queries) \in Nat
      /\ Len(queries) <= MaxQueries /\ iters \in Seq(BlockRec)
      /\ BlocksTyped(iters, Len(queries)) /\ spi \in Spi
  BY TypedBasics DEF TypesInv, RowsInv
<1>2. \A q \in DOMAIN queries :
        /\ queries[q] \in Portal \cup {NoPortal}
        /\ queries[q].pos <= queries[q].size + 1
  <2>1. \A q \in DOMAIN queries : queries[q] \in Inside
    BY <1>1
  <2> QED
    BY <2>1 DEF Inside
<1>3. ASSUME NEW j \in DOMAIN iters
      PROVE  /\ iters[j].op \in Ops /\ iters[j].q \in DOMAIN queries
             /\ iters[j].tab \in TableId \cup {NoTable}
             /\ iters[j].i \in 0..Len(iters[j].rows)
             /\ iters[j].got \in Nat /\ iters[j].given \in Seq(Items)
  <2> DEFINE f == iters[j]
  <2>1. j \in 1..Len(iters) /\ f \in BlockRec /\ BlockTyped(f, Len(queries))
    BY <1>1 DEF BlocksTyped
  <2>2. Right(f, queries)
    BY <2>1 DEF TypesInv, RowsInv, BlocksOK
  <2> HIDE DEF f
  <2>3. /\ f.op \in Ops /\ f.tab \in TableId \cup {NoTable} /\ f.i \in Nat
        /\ f.got \in Nat /\ f.rows \in Seq(RowRec) /\ f.given \in Seq(RowRec)
    BY <2>1 DEF BlockRec
  <2>4. f.q \in DOMAIN queries /\ f.q \in 1..MaxQueries
    BY <1>1, <2>1 DEF BlockTyped, SizesAssumption
  <2>5. CASE f.op \in {"exec", "each"}
    <3>1. f.i \in 0..Len(f.rows) /\ Len(f.given) = f.got
      BY <2>2, <2>3, <2>5 DEF Right, ExecRight, Portioned, GivenSoFar
    <3>2. Empty \in Nat /\ Whole \in 0..Empty
      BY DEF SizesAssumption, Empty, Whole
    <3>3. \A k \in 1..Len(f.given) : f.given[k] \in Items
      <4> SUFFICES ASSUME NEW k \in 1..Len(f.given) PROVE f.given[k] \in Items
        OBVIOUS
      <4>1. f.given[k] \in RowRec
        BY <2>3
      <4>2. /\ f.given[k].q = f.q /\ f.given[k].k \in Nat \ {0}
            /\ f.given[k].part \in 0..Empty
        <5>1. CASE f.op = "exec"
          <6>1. ExecRight(f)
            BY <2>2, <5>1 DEF Right
          <6>2. ItemsUpTo(f.rows, f.q, Asked(f.size, f.count))
            BY <2>1, <5>1, <6>1, ExecItems
          <6>3. f.given[k] = f.rows[k] /\ k \in 1..Len(f.rows)
            BY <2>3, <3>1, <6>1 DEF ExecRight
          <6>4. Asked(f.size, f.count) \in Nat
            <7>1. f.size \in Nat /\ f.count \in Int
              BY <2>1 DEF BlockRec
            <7> QED
              BY <7>1, AskedFacts
          <6> QED
            BY <6>2, <6>3, <6>4 DEF ItemsUpTo
        <5>2. CASE f.op = "each"
          <6>1. f.given[k] = Item(f.q, k, Whole) /\ k \in Nat \ {0}
            BY <2>2, <2>3, <3>1, <5>2 DEF Right, Portioned, GivenSoFar
          <6> QED
            BY <3>2, <6>1 DEF Item
        <5> QED
          BY <2>5, <5>1, <5>2
      <4> QED
        BY <2>4, <4>1, <4>2 DEF Items, RowRec
    <3>4. f.given \in Seq(Items)
      BY <2>3, <3>3
    <3> QED
      BY <2>3, <2>4, <3>1, <3>4 DEF f
  <2>6. CASE f.op \in {"cursor_each", "cursor_reverse_each"}
    <3>1. f.given = <<>> /\ f.rows = <<>> /\ f.i = 0
      BY <2>1, <2>6 DEF BlockTyped
    <3>2. f.given \in Seq(Items) /\ f.i \in 0..Len(f.rows)
      BY <3>1
    <3> QED
      BY <2>3, <2>4, <3>2 DEF f
  <2> QED
    BY <2>3, <2>5, <2>6 DEF Ops
<1> QED
  BY <1>1, <1>2, <1>3 DEF TypeOK, Portal, Spi

(* Every portal stays between its ends, for every size and every sequence  *)
(* of fetches and moves; blocks have their queries and rows.               *)
THEOREM RowsTyped == Spec => []TypeOK
<1>1. TypesInv => TypeOK
  BY SizesAssumption, TypesAre
<1> QED
  BY <1>1, TypesAlways, PTL

(* rewind reaches the beginning from everywhere, whatever the number of    *)
(* rows it moves over at once.                                             *)
THEOREM RewindEnds == Spec => RewindReachesStart
<1>1. SizesAssumption
  BY SizesAssumption
<1>2. TypesInv /\ [Next]_vars
        => [CursorRewind => \E q \in Cursors : queries' = Moved(q, 0)]_vars
  <2> SUFFICES ASSUME TypesInv, CursorRewind
               PROVE  \E q \in Cursors : queries' = Moved(q, 0)
    OBVIOUS
  <2>1. PICK q \in Cursors : queries' = Moved(q, Rewound(queries[q]))
    BY DEF CursorRewind
  <2> DEFINE p == queries[q]
  <2>2. p \in Inside /\ p.kind # "none"
    BY <1>1, TypedBasics
  <2>3. queries' = Moved(q, Rewound(p))
    BY <2>1
  <2> HIDE DEF p
  <2>4. p \in Portal /\ p.pos <= p.size + 1
    BY <1>1, <2>2, PortalsInside
  <2>5. Rewound(p) = 0
    BY <1>1, <2>4, RewoundIs
  <2> QED
    BY <2>3, <2>5
<1> QED
  BY <1>2, TypesAlways, PTL DEF Spec, RewindReachesStart

=============================================================================
