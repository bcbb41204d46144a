------------------------------- MODULE PlRows -------------------------------
(***************************************************************************)
(* The rows of queries in one call of a function: PL.exec and plan.exec    *)
(* with and without a block, plan.each, and cursors (src/plpl.c and        *)
(* src/plplan.c), over the backend's portals and its global SPI_tuptable.  *)
(*                                                                         *)
(* The Ruby program is arbitrary; an action is the C code between two      *)
(* callbacks into it, and iters holds the blocks that are running.         *)
(* SPI_processed is read at once wherever it is read.  All cursors scroll. *)
(*                                                                         *)
(* Bounds: MaxQueries queries, MaxNest blocks in each other, and MaxGiven  *)
(* rows given to one block of a cursor, which may move it back.            *)
(***************************************************************************)
EXTENDS Integers, Sequences

CONSTANTS
  Size,     \* numbers of rows of a query
  Count,    \* values of "count"; 0 when it is not given
  Block,    \* rows plan.each fetches at once: the option "block", plus 1
  Step,     \* arguments of fetch and move
  Portion,  \* rows rewind moves over at once: 12
  Columns,  \* columns of a row
  Form,     \* forms in which rows are asked for: plruby_build_tuple's type_ret
  QueryInExec,  \* a block of exec may run a query that gives rows
  Kind,     \* kinds of queries the program makes: "exec", "each", "cursor"
  MaxQueries, MaxNest, MaxGiven

ASSUME SizesAssumption ==
  /\ Size \subseteq Nat /\ Count \subseteq Int /\ Step \subseteq Int \ {0}
  /\ Block \subseteq Nat \ {0} /\ Portion \in Nat \ {0}
  /\ Columns \in Nat /\ Form \subseteq {"row", "columns", "described", "nothing"}
  /\ QueryInExec \in BOOLEAN /\ Kind \subseteq {"exec", "each", "cursor"}
  /\ MaxQueries \in Nat /\ MaxNest \in Nat /\ MaxGiven \in Nat

VARIABLES
  queries,  \* the queries so far; of a cursor or plan.each, the portal
  spi,      \* the tuple tables that are live, SPI_tuptable, and whether one
            \* was freed twice or read after that
  iters,    \* blocks that run, innermost last
  ended     \* the last block that ended, and how

vars == <<queries, spi, iters, ended>>

-----------------------------------------------------------------------------
(* The backend *)

TableId == 1..(MaxNest + 2)

NoTable == 0

Least(a, b) == IF a < b THEN a ELSE b

InUse == {spi.tuptable} \cup {iters[i].tab : i \in DOMAIN iters}

(* A query leaves its rows in a new table.  The tables nobody can reach    *)
(* any more go with the connection; their numbers are used again.          *)
FreeTable == CHOOSE t \in TableId : t \notin InUse

WithTable(s) ==
  [s EXCEPT !.tables[FreeTable] = TRUE, !.tuptable = FreeTable]

WithoutTable == [spi EXCEPT !.tuptable = NoTable]

SPI_freetuptable(s, t) ==
  IF t = NoTable THEN s
  ELSE IF s.tables[t] THEN [s EXCEPT !.tables[t] = FALSE]
  ELSE [s EXCEPT !.misused = TRUE]

(* PortalRunFetch.  A portal is before row 1 at 0, after the last row at   *)
(* size + 1.                                                               *)
Fetch(p, forward, n) ==
  LET left == IF forward THEN p.size - Least(p.pos, p.size)
              ELSE IF p.pos = 0 THEN 0 ELSE p.pos - 1
      got  == Least(n, left)
  IN  IF forward
      THEN [rows |-> [j \in 1..got |-> p.pos + j],
            pos  |-> IF got < n THEN p.size + 1 ELSE p.pos + got]
      ELSE [rows |-> [j \in 1..got |-> p.pos - j],
            pos  |-> IF got < n THEN 0 ELSE p.pos - got]

(* The counts of fetch and move are given to SPI without their sign.       *)
Magnitude_none(c) == c  \* mutant

Magnitude(c) == IF c > 0 THEN c ELSE -c

Moved(q, pos) == [queries EXCEPT ![q].pos = pos]

-----------------------------------------------------------------------------
Init ==
  /\ queries = <<>>
  /\ spi = [tables |-> [t \in TableId |-> FALSE], tuptable |-> NoTable,
            misused |-> FALSE]
  /\ iters = <<>>
  /\ ended = [how |-> "none", op |-> "none", dropped |-> FALSE,
              want |-> 0, given |-> 0]

Top == iters[Len(iters)]

Below == SubSeq(iters, 1, Len(iters) - 1)

NewQuery == Len(queries) + 1

NoPortal == [kind |-> "none", size |-> 0, pos |-> 0, open |-> FALSE]

Query(kind, n) ==
  Append(queries, [kind |-> kind, size |-> n, pos |-> 0, open |-> TRUE])

(* What a block is given: of row k of query q the whole row (part 0), one  *)
(* column, or after the columns, or instead of them, an empty value.       *)
Item(q, k, part) == [q |-> q, k |-> k, part |-> part]

Whole == 0

Empty == Columns + 1

RowsOf(q, ks) == [j \in 1..Len(ks) |-> Item(q, ks[j], Whole)]

(* What exec yields of n rows.  The forms are those of type_ret: a hash or *)
(* an array of values ("row"); RET_DESC with a hash, for which             *)
(* plruby_build_tuple itself yields each column and returns an empty hash  *)
(* ("columns"); RET_DESC with an array of the columns ("described"); and 0 *)
(* ("nothing"), for PL.exec with a hash of options but no "output".  With  *)
(* a count of 1 what plruby_build_tuple returns is not yielded.            *)
Yields(form, q, n, count) ==
  IF count = 1
  THEN IF form = "described" THEN <<>>
       ELSE [c \in 1..Columns |-> Item(q, 1, c)]
  ELSE IF form = "columns"
  THEN [j \in 1..(n * Empty) |->
          Item(q, ((j - 1) \div Empty) + 1, ((j - 1) % Empty) + 1)]
  ELSE [k \in 1..n |-> Item(q, k, IF form = "nothing" THEN Empty ELSE Whole)]

Asked(n, count) == IF count <= 0 THEN n ELSE Least(n, count)

(* What a block is to be given: rows, or the columns of the first one.     *)
Wanted(f) ==
  IF f.op # "exec" THEN Asked(f.size, f.count)
  ELSE IF f.count = 1 THEN Columns
  ELSE IF f.form = "columns" THEN Asked(f.size, f.count) * Empty
  ELSE Asked(f.size, f.count)

(* The array of columns that plruby_build_tuple returned is not yielded.   *)
Dropped(f) == f.op = "exec" /\ f.count = 1 /\ f.form = "described"

(* The empty hash after the columns needs nothing of the table.            *)
ReadsTable(f, item) == ~(f.form = "columns" /\ item.part = Empty)

(* A table gives an item to the block of f, which runs inside those of     *)
(* rest.                                                                   *)
Yield(rest, f, s) ==
  LET item == f.rows[f.i + 1] IN
  /\ iters' = Append(rest, [f EXCEPT !.i = @ + 1, !.got = @ + 1,
                                     !.given = Append(@, item)])
  /\ spi' = [s EXCEPT !.misused = @ \/ (ReadsTable(f, item) /\ ~s.tables[f.tab])]
  /\ UNCHANGED ended

EndBlock(how, rest, f, s) ==
  /\ iters' = rest
  /\ ended' = [how |-> how, op |-> f.op, dropped |-> Dropped(f),
               want |-> Wanted(f), given |-> f.got]
  /\ spi' = s

NewBlock(op, form, q, n, count, block) ==
  [op |-> op, form |-> form, q |-> q, size |-> n, count |-> count, block |-> block,
   tab |-> NoTable, rows |-> <<>>, i |-> 0, got |-> 0, given |-> <<>>]

Runs(ops) == iters # <<>> /\ Top.op \in ops

(* What Ruby code may do next: that of the program or of a block.          *)
MayQuery(kind) == kind \in Kind /\ Len(queries) < MaxQueries

MayNest == Len(iters) < MaxNest

MayHaveRows == QueryInExec \/ \A i \in DOMAIN iters : iters[i].op # "exec"

-----------------------------------------------------------------------------
(* pl_SPI_exec and pl_plan_execp with a block, up to its first item.       *)
ExecBlock ==
  /\ MayQuery("exec") /\ MayNest /\ MayHaveRows
  /\ \E n \in Size, count \in {c \in Count : c >= 0}, form \in Form :
       LET q == NewQuery
           m == Asked(n, count)
           s == WithTable(spi)
           f == [NewBlock("exec", form, q, n, count, 0) EXCEPT
                   !.tab = s.tuptable, !.rows = Yields(form, q, m, count)]
       IN /\ queries' = Append(queries, NoPortal)
          /\ IF m = 0
             THEN spi' = SPI_freetuptable(s, s.tuptable) /\ UNCHANGED <<iters, ended>>
             ELSE IF f.rows = <<>>
             THEN EndBlock("complete", iters, f, SPI_freetuptable(s, s.tuptable))
             ELSE Yield(iters, f, s)

ExecNext ==
  /\ Runs({"exec"}) /\ Top.i < Len(Top.rows)
  /\ Yield(Below, Top, spi)
  /\ UNCHANGED queries

ExecEnd ==
  /\ Runs({"exec"}) /\ Top.i = Len(Top.rows)
  /\ EndBlock("complete", Below, Top, SPI_freetuptable(spi, spi.tuptable))
  /\ UNCHANGED queries

(* The same functions without a block.  There is nothing to yield to when  *)
(* plruby_build_tuple yields the columns: it raises, and the table stays.  *)
ExecRows ==
  /\ MayHaveRows
  /\ LET s == WithTable(spi)
     IN  \/ spi' = SPI_freetuptable(s, s.tuptable)
         \/ "columns" \in Form /\ spi' = s
  /\ UNCHANGED <<queries, iters, ended>>

(* A query without rows, or one that fails.                                *)
ExecOther ==
  /\ spi' = WithoutTable
  /\ UNCHANGED <<queries, iters, ended>>

-----------------------------------------------------------------------------
(* plan.each: pl_fetch from one row to the next, and pl_close at its end.  *)
HasMore_portion(f) == f.i < Len(f.rows)  \* mutant: every portion to its end

HasMore(f) == f.i < Len(f.rows) /\ f.got # f.count

HasAll_always(f) == FALSE  \* mutant: count is looked at within a portion only

HasAll(f) == f.count # 0 /\ f.got = f.count

Closed_none(qs, q) == qs  \* mutant: no rb_ensure

Closed(qs, q) == [qs EXCEPT ![q] = NoPortal]

FreePortion_global(s, f) == SPI_freetuptable(s, s.tuptable)
  \* mutant: what pl_SPI_exec frees

FreePortion(s, f) == SPI_freetuptable(s, f.tab)

(* The next portion, and its first row.                                    *)
FetchPortion(rest, f, qs, s) ==
  LET r == Fetch(qs[f.q], TRUE, f.block)
      u == WithTable(s)
  IN  IF r.rows = <<>>
      THEN EndBlock("complete", rest, f, u) /\ queries' = Closed(qs, f.q)
      ELSE /\ Yield(rest, [f EXCEPT !.tab = u.tuptable, !.rows = RowsOf(f.q, r.rows),
                                !.i = 0], u)
           /\ queries' = [qs EXCEPT ![f.q].pos = r.pos]

(* pl_plan_each opens a portal, which nobody else has.                     *)
Each ==
  /\ MayQuery("each") /\ MayNest /\ MayHaveRows
  /\ \E n \in Size, count \in Count, block \in Block :
       FetchPortion(iters, NewBlock("each", "row", NewQuery, n, count, block),
                    Query("each", n), WithoutTable)

EachNext ==
  /\ Runs({"each"}) /\ HasMore(Top)
  /\ Yield(Below, Top, spi)
  /\ UNCHANGED queries

EachFetch ==
  /\ Runs({"each"}) /\ ~HasMore(Top) /\ ~HasAll(Top)
  /\ FetchPortion(Below, Top, queries, FreePortion(spi, Top))

EachDone ==
  /\ Runs({"each"}) /\ ~HasMore(Top) /\ HasAll(Top)
  /\ EndBlock("complete", Below, Top, FreePortion(spi, Top))
  /\ queries' = Closed(queries, Top.q)

-----------------------------------------------------------------------------
(* Cursors *)

Cursors == {q \in DOMAIN queries : queries[q].kind = "cursor" /\ queries[q].open}

Cursor ==
  /\ MayQuery("cursor")
  /\ \E n \in Size : queries' = Query("cursor", n)
  /\ spi' = WithoutTable
  /\ UNCHANGED <<iters, ended>>

(* fetch keeps its own table, and frees it unless it is empty.             *)
AfterFetch(rows) ==
  LET s == WithTable(spi)
  IN  IF rows = <<>> THEN s ELSE SPI_freetuptable(s, s.tuptable)

CursorFetch ==
  /\ MayHaveRows
  /\ \E q \in Cursors, c \in Step :
       LET r == Fetch(queries[q], c > 0, Magnitude(c)) IN
       /\ queries' = Moved(q, r.pos)
       /\ spi' = AfterFetch(r.rows)
  /\ UNCHANGED <<iters, ended>>

CursorMove ==
  /\ \E q \in Cursors, c \in Step :
       queries' = Moved(q, Fetch(queries[q], c > 0, Magnitude(c)).pos)
  /\ spi' = WithoutTable
  /\ UNCHANGED <<iters, ended>>

(* rewind moves back until it has not moved over any row.                  *)
Rewound_once(p) == Fetch(p, FALSE, Portion).pos  \* mutant: no loop

Rewound(p) ==
  LET after[pos \in 0..(p.size + 1)] ==
        LET r == Fetch([p EXCEPT !.pos = pos], FALSE, Portion)
        IN  IF r.rows = <<>> THEN r.pos ELSE after[r.pos]
  IN  after[p.pos]

CursorRewind ==
  /\ \E q \in Cursors : queries' = Moved(q, Rewound(queries[q]))
  /\ spi' = WithoutTable
  /\ UNCHANGED <<iters, ended>>

CursorClose ==
  /\ \E q \in Cursors : queries' = Closed(queries, q)
  /\ UNCHANGED <<spi, iters, ended>>

(* each and reverse_each of a cursor call its fetch for every row.         *)
FetchRow(rest, f) ==
  LET r == Fetch(queries[f.q], f.op = "cursor_each", 1)
      s == AfterFetch(r.rows)
  IN  /\ queries' = Moved(f.q, r.pos)
      /\ IF r.rows = <<>>
         THEN EndBlock("complete", rest, f, s)
         ELSE /\ iters' = Append(rest, [f EXCEPT !.got = @ + 1])
              /\ spi' = s
              /\ UNCHANGED ended

CursorEach ==
  /\ MayNest /\ MayHaveRows
  /\ \E q \in Cursors, op \in {"cursor_each", "cursor_reverse_each"} :
       FetchRow(iters, NewBlock(op, "row", q, queries[q].size, 0, 1))

CursorNext ==
  /\ Runs({"cursor_each", "cursor_reverse_each"}) /\ Top.q \in Cursors
  /\ Top.got < MaxGiven
  /\ FetchRow(Below, Top)

-----------------------------------------------------------------------------
(* An exception or a break leaves the innermost block.                     *)
Leave ==
  /\ iters # <<>>
  /\ EndBlock("left", Below, Top, spi)
  /\ queries' = IF Top.op = "each" THEN Closed(queries, Top.q) ELSE queries

Next ==
  \/ ExecBlock \/ ExecNext \/ ExecEnd \/ ExecRows \/ ExecOther
  \/ Each \/ EachNext \/ EachFetch \/ EachDone
  \/ Cursor \/ CursorFetch \/ CursorMove \/ CursorRewind \/ CursorClose
  \/ CursorEach \/ CursorNext
  \/ Leave

Spec == Init /\ [][Next]_vars

-----------------------------------------------------------------------------
(* Properties *)

Ops == {"exec", "each", "cursor_each", "cursor_reverse_each"}

Items == [q : 1..MaxQueries, k : Nat \ {0}, part : 0..Empty]

(* Type invariant: portals stay between 0 and size + 1.                    *)
TypeOK ==
  /\ \A q \in DOMAIN queries :
       queries[q] \in [kind : {"each", "cursor"}, size : Size, pos : Nat, open : {TRUE}]
                      \cup {NoPortal}
  /\ \A q \in DOMAIN queries : queries[q].pos <= queries[q].size + 1
  /\ spi.tuptable \in TableId \cup {NoTable}
  /\ spi.tables \in [TableId -> BOOLEAN] /\ spi.misused \in BOOLEAN
  /\ \A j \in DOMAIN iters :
       /\ iters[j].op \in Ops /\ iters[j].q \in DOMAIN queries
       /\ iters[j].tab \in TableId \cup {NoTable}
       /\ iters[j].i \in 0..Len(iters[j].rows)
       /\ iters[j].got \in Nat /\ iters[j].given \in Seq(Items)

(* What comes first of two items of a query.                               *)
Before(x, y) == x.k < y.k \/ (x.k = y.k /\ x.part < y.part)

(* A block of exec or plan.each is given rows of its own query in order,   *)
(* with the columns of a row in order when it is given columns, nothing    *)
(* twice, no row left out, and no row beyond those asked for, whatever     *)
(* portions they come in and whatever queries run in it (pl_fetch,         *)
(* pl_SPI_exec, plruby_build_tuple).                                       *)
RowsInOrder ==
  \A j \in DOMAIN iters :
    LET f == iters[j] IN
    f.op \in {"exec", "each"} =>
      /\ \A a \in 1..f.got :
           f.given[a].q = f.q /\ f.given[a].k <= Asked(f.size, f.count)
      /\ \A a, b \in 1..f.got : a < b => Before(f.given[a], f.given[b])
      /\ \A a \in 1..f.got :
           f.given[a].k = 1 \/ \E b \in 1..f.got : f.given[b].k = f.given[a].k - 1

(* No tuple table is freed twice or read after it was freed.               *)
FreedOnce == ~spi.misused

(* The portal of plan.each is closed when its block is over, however it    *)
(* ends (rb_ensure in pl_plan_each).                                       *)
NoPortalLeft ==
  \A q \in DOMAIN queries :
    queries[q].kind = "each" /\ queries[q].open
      => \E j \in DOMAIN iters : iters[j].q = q

(* rewind reaches the beginning from everywhere.                           *)
RewindReachesStart ==
  [][CursorRewind => \E q \in Cursors : queries' = Moved(q, 0)]_vars

(* A block of exec or plan.each that is not left gets all the items asked  *)
(* for: rows, or the columns of the first row when the count is 1, unless  *)
(* they were asked for in an array (plan.exec, or PL.exec with options).   *)
GivesAsked ==
  ended.how = "complete" /\ ended.op \in {"exec", "each"} /\ ~ended.dropped
    => ended.given = ended.want

(* "The same as described for PL#exec happens for the loop-body"           *)
(* (plruby.rd:720-722): with a count of 1 the block is called for each     *)
(* column of the first row, in each form (plruby.rd:626-656).              *)
FirstRowGiven ==
  ended.how = "complete" /\ ended.op = "exec" => ended.given = ended.want

(* Iterate over all rows: each and reverse_each of a cursor, when they are *)
(* not left, give every row.                                               *)
CursorGivesAll ==
  ended.how = "complete" /\ ended.op \in {"cursor_each", "cursor_reverse_each"}
    => ended.given = ended.want

=============================================================================
