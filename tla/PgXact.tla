------------------------------ MODULE PgXact ------------------------------
(***************************************************************************)
(* The two stacks of the PostgreSQL backend that src/pltrans.c works on:   *)
(* the stack of (sub)transactions of access/transam/xact.c and the SPI     *)
(* connection stack of executor/spi.c.  The backend is not part of this    *)
(* repository; it is modelled from the way pltrans.c, plpl.c and plruby.c  *)
(* call it.                                                                *)
(*                                                                         *)
(* A backend state is a record                                             *)
(*   lvl   stack of transaction levels, lvl[1] the client's transaction,   *)
(*         each with its savepoint name and the rows written in it;        *)
(*   conn  stack of SPI connections, each with the depth of lvl at which   *)
(*         SPI_connect was called  (_SPI_connected + 1 = Len(conn));       *)
(*   cur   _SPI_curid + 1.                                                 *)
(***************************************************************************)
EXTENDS Integers, Sequences

NoName == <<"none", 0>>

Depth(p) == Len(p.lvl)

IsSubTransaction(p) == Depth(p) > 1

AllRows(p) == UNION {p.lvl[i].rows : i \in 1..Depth(p)}

-----------------------------------------------------------------------------
(* SPI *)

(* _SPI_begin_call: the caller is the owner of the top connection. *)
SPI_usable(p) == p.cur + 1 = Len(p.conn)

SPI_may_connect(p) == p.cur = Len(p.conn)

SPI_connect(p) == [p EXCEPT !.conn = Append(@, Depth(p))]

(* SPI_finish of a usable stack: _SPI_begin_call raises _SPI_curid, then   *)
(* both _SPI_connected and _SPI_curid go down by one.                      *)
SPI_finish(p) == [p EXCEPT !.conn = SubSeq(@, 1, Len(@) - 1)]

SPI_push(p) == [p EXCEPT !.cur = @ + 1]

SPI_pop(p) == [p EXCEPT !.cur = @ - 1]

(* An ERROR raised inside an SPI call skips _SPI_end_call: _SPI_curid      *)
(* stays raised.                                                           *)
SPI_interrupted(p) == [p EXCEPT !.cur = @ + 1]

(* AtEOSubXact_SPI: the connections made above depth d are popped, and if  *)
(* one was, _SPI_curid becomes _SPI_connected.                             *)
Popped(p, d) ==
  LET n == Len(p.conn) IN
  CHOOSE j \in 0..n : /\ j = n \/ p.conn[n - j] <= d
                      /\ \A i \in 0..(j - 1) : p.conn[n - i] > d

AtEOSubXact(p, d) ==
  LET j == Popped(p, d)
      k == Len(p.conn) - j
  IN  [p EXCEPT !.conn = SubSeq(@, 1, k), !.cur = IF j = 0 THEN @ ELSE k]

-----------------------------------------------------------------------------
(* Subtransactions *)

(* BeginInternalSubTransaction (no name), DefineSavepoint followed by      *)
(* CommitTransactionCommand (a name).                                      *)
BeginSub(p, name) ==
  [p EXCEPT !.lvl = Append(@, [name |-> name, rows |-> {}])]

Write(p, r) == [p EXCEPT !.lvl[Depth(p)].rows = @ \cup {r}]

(* The levels i, i+1, ... are committed into level i-1. *)
ReleaseFrom(p, i) ==
  LET kept == [p.lvl[i - 1] EXCEPT
                 !.rows = UNION {p.lvl[j].rows : j \in (i - 1)..Depth(p)}]
  IN  AtEOSubXact([p EXCEPT !.lvl = Append(SubSeq(@, 1, i - 2), kept)], i - 1)

(* The levels i, i+1, ... are rolled back and gone. *)
AbortFrom(p, i) ==
  AtEOSubXact([p EXCEPT !.lvl = SubSeq(@, 1, i - 1)], i - 1)

ReleaseCurrentSubTransaction(p) == ReleaseFrom(p, Depth(p))

RollbackAndReleaseCurrentSubTransaction(p) == AbortFrom(p, Depth(p))

(* The levels a savepoint name designates; the innermost one is meant. *)
Named(p, name) == {i \in 2..Depth(p) : p.lvl[i].name = name}

Innermost(p, name) ==
  CHOOSE i \in Named(p, name) : \A j \in Named(p, name) : j <= i

(* ReleaseSavepoint and CommitTransactionCommand. *)
ReleaseSavepoint(p, name) == ReleaseFrom(p, Innermost(p, name))

(* RollbackToSavepoint and CommitTransactionCommand: the savepoint is      *)
(* defined again, empty, after the rollback.                               *)
RollbackToSavepoint(p, name) ==
  BeginSub(AbortFrom(p, Innermost(p, name)), name)

=============================================================================
