------------------------------ MODULE PlReturn ------------------------------
(***************************************************************************)
(* One use of a function in a query, from the executor's first call to the *)
(* last: what plruby_return_value (src/plpl.c) does with what the Ruby     *)
(* method yields and returns.                                              *)
(*                                                                         *)
(* A place is where the query has the function: in FROM, or in the select  *)
(* list of a backend up to 8.3 ("list") or from 8.4 on ("list84").  A row  *)
(* is a name for an array of Ruby values: "row1" and "row2" fit the result *)
(* type, "nils" has a nil in it, "short" has too few columns.              *)
(* Bounds: MaxRows rows.                                                   *)
(***************************************************************************)
EXTENDS Integers, Sequences

CONSTANTS
  Places,          \* "from", "list", "list84"
  Kinds,           \* result types: "base", "row", "refcursor", "set_of_base",
                   \* "set_of_row"
  MaxRows

ASSUME ReturnAssumption ==
  /\ Places \subseteq {"from", "list", "list84"}
  /\ Kinds \subseteq {"base", "row", "refcursor", "set_of_base", "set_of_row"}
  /\ MaxRows \in Nat

VARIABLES
  place, kind,
  phase,     \* "idle": in the executor; "body": the method runs; "query": the
             \* plan over the String it returned; "tail": SPI_finish is next
  firstCall, \* SRF_IS_FIRSTCALL
  retary,    \* rows collected for later calls, and whether the array is alive
  cntr,      \* funcctx->call_cntr
  out,       \* tpl->out: the tuplestore, once there is one
  conn,      \* the SPI connection of the call
  c,         \* what the method returned
  given,     \* the rows the executor has
  yielded,   \* the rows the program gave, or its query
  lost,      \* history: those still to be given when retary was collected
  outcome    \* "running", "null", "value", "done" or "error"

vars == <<place, kind, phase, firstCall, retary, cntr, out, conn, c, given,
          yielded, lost, outcome>>

-----------------------------------------------------------------------------
IsSet == kind \in {"set_of_base", "set_of_row"}

(* ReturnSetInfo: the backend's execQual.c, for a set.                     *)
ExpectedDesc == place # "list"

Materialize == place # "list"

(* The branch plruby_return_value takes.  With these backends none is left *)
(* for ExprMultipleResult, a description without SFRM_Materialize.         *)
Branch ==
  IF ~IsSet THEN "single"
  ELSE IF ~ExpectedDesc THEN "srf"
  ELSE IF Materialize THEN "materialize" ELSE "multi"

NoArray == [rows |-> <<>>, alive |-> FALSE]

NoStore == [made |-> FALSE, rows |-> <<>>]

Init ==
  /\ place \in Places /\ kind \in Kinds
  /\ phase = "idle" /\ firstCall = TRUE
  /\ retary = NoArray /\ cntr = 0 /\ out = NoStore
  /\ conn = FALSE /\ c = "none"
  /\ given = <<>> /\ yielded = <<>> /\ lost = {}
  /\ outcome = "running"

Fail ==
  /\ outcome' = "error" /\ phase' = "idle"

(* get_call_result_type: a set in the list has to be of rows.              *)
SetFits == kind = "set_of_row"

(* The executor calls; SPI_connect; the method runs, but not in the later  *)
(* calls of a set in the select list.                                      *)
Call ==
  /\ outcome = "running" /\ phase = "idle"
  /\ conn' = TRUE
  /\ \/ /\ Branch = "srf" /\ firstCall /\ ~SetFits
        /\ Fail
        /\ UNCHANGED <<firstCall, retary>>
     \/ /\ Branch = "srf" => firstCall /\ SetFits
        /\ phase' = "body"
        /\ IF Branch = "srf"
           THEN /\ firstCall' = FALSE
                /\ retary' = [rows |-> <<>>, alive |-> TRUE]
           ELSE UNCHANGED <<firstCall, retary>>
        /\ UNCHANGED outcome
     \/ /\ Branch = "srf" /\ ~firstCall
        /\ phase' = "tail"
        /\ UNCHANGED <<firstCall, retary, outcome>>
  /\ UNCHANGED <<place, kind, cntr, out, c, given, yielded, lost>>

(* pl_tuple_heap refuses an array of another length.                       *)
Fits(row) == row # "short"

(* pl_tuple_put *)
TuplePut(store, row) == [made |-> TRUE, rows |-> Append(store.rows, row)]

Row == {"row1", "row2", "nils", "short"}

(* The method yields a row, or plan.each does for its query.               *)
Yield ==
  /\ phase \in {"body", "query"} /\ Branch \in {"srf", "materialize"}
  /\ Len(yielded) < MaxRows
  /\ \E row \in (IF phase = "query" THEN {"row1", "nils"} ELSE Row) :
       IF Branch = "srf"
       THEN /\ retary' = [retary EXCEPT !.rows = Append(@, row)]
            /\ yielded' = Append(yielded, row)
            /\ UNCHANGED <<out, phase, outcome>>
       ELSE /\ UNCHANGED retary
            /\ IF Fits(row)
               THEN /\ out' = TuplePut(out, row)
                    /\ yielded' = Append(yielded, row)
                    /\ UNCHANGED <<phase, outcome>>
               ELSE Fail /\ UNCHANGED <<out, yielded>>
  /\ UNCHANGED <<place, kind, firstCall, cntr, conn, c, given, lost>>

(* Nothing is yielded by a method that returns a query.                    *)
Returns ==
  /\ phase = "body"
  /\ \E value \in {"nil", "query", "other"} :
       /\ value = "query" => yielded = <<>>
       /\ c' = value
  /\ phase' = "tail"
  /\ UNCHANGED <<place, kind, firstCall, retary, cntr, out, conn, given,
                 yielded, outcome, lost>>

(* The method raises, or a row of retary cannot be converted.              *)
Raises ==
  /\ phase \in {"body", "query"} \/ (phase = "tail" /\ Branch = "srf")
  /\ Fail
  /\ UNCHANGED <<place, kind, firstCall, retary, cntr, out, conn, c, given,
                 yielded, lost>>

-----------------------------------------------------------------------------
(* What plruby_return_value does after the method *)

SPI_finish_none(branch) == conn' = (branch # "srf")

SPI_finish(branch) == conn' = FALSE

(* The String the method returned is run by plan.each, which returns nil.  *)
RunQuery ==
  /\ phase = "tail" /\ Branch = "materialize" /\ ~out.made /\ c = "query"
  /\ phase' = "query"
  /\ UNCHANGED <<place, kind, firstCall, retary, cntr, out, conn, c, given,
                 yielded, outcome, lost>>

EachResult_plan == "query"

(* plan.each gives no result, which ends the loop of plpl.c:1498.          *)
EachResult == "nil"

QueryEnds ==
  /\ phase = "query"
  /\ c' = EachResult /\ phase' = "tail"
  /\ UNCHANGED <<place, kind, firstCall, retary, cntr, out, conn, given,
                 yielded, outcome, lost>>

(* The tuplestore is the result; nil without one makes an empty one.       *)
GiveStore ==
  /\ phase = "tail" /\ Branch = "materialize"
  /\ out.made \/ c = "nil"
  /\ out' = [out EXCEPT !.made = TRUE]
  /\ given' = out'.rows
  /\ SPI_finish("materialize")
  /\ outcome' = "done" /\ phase' = "idle"
  /\ UNCHANGED <<place, kind, firstCall, retary, cntr, c, yielded, lost>>

RefuseSet ==
  /\ phase = "tail" /\ Branch = "materialize" /\ ~out.made /\ c = "other"
  /\ Fail
  /\ UNCHANGED <<place, kind, firstCall, retary, cntr, out, conn, c, given,
                 yielded, lost>>

(* BuildTupleFromCStrings: a nil is the empty string, the columns that are *)
(* missing are read beyond the end of values.                              *)
FromCStrings(row) ==
  CASE row = "nils" -> "empties" [] row = "short" -> "wild" [] OTHER -> row

MaxCalls_first(rows) == IF rows = <<>> THEN 0 ELSE 1

(* funcctx->max_calls *)
MaxCalls(rows) == Len(rows)

(* One row of retary for each call: SRF_RETURN_NEXT, SRF_RETURN_DONE.      *)
GiveRow ==
  /\ phase = "tail" /\ Branch = "srf"
  /\ IF cntr < MaxCalls(retary.rows)
     THEN LET row == retary.rows[cntr + 1] IN
          /\ given' = Append(given, IF retary.alive THEN FromCStrings(row)
                                    ELSE "freed")
          /\ cntr' = cntr + 1
          /\ UNCHANGED outcome
     ELSE /\ outcome' = "done"
          /\ UNCHANGED <<given, cntr>>
  /\ SPI_finish("srf")
  /\ phase' = "idle"
  /\ UNCHANGED <<place, kind, firstCall, retary, out, c, yielded, lost>>

(* resultinfo is there for every function in FROM.                         *)
GiveValue ==
  /\ phase = "tail" /\ Branch = "single"
  /\ SPI_finish("single")
  /\ phase' = "idle"
  /\ outcome' = IF c = "nil" THEN "null"
                ELSE IF place = "from" /\ kind = "refcursor" THEN "error"
                ELSE "value"
  /\ UNCHANGED <<place, kind, firstCall, retary, cntr, out, c, given, yielded,
                 lost>>

(* Only funcctx->user_fctx, which Ruby does not scan, refers to retary     *)
(* while the executor runs; and nothing does once the set is over.         *)
Collect ==
  /\ phase = "idle" /\ retary.alive
  /\ retary' = [retary EXCEPT !.alive = FALSE]
  /\ lost' = lost \cup (cntr + 1)..Len(retary.rows)
  /\ UNCHANGED <<place, kind, phase, firstCall, cntr, out, conn, c, given,
                 yielded, outcome>>

(* A query that needs no more rows stops asking.                           *)
Next ==
  \/ Call \/ Yield \/ Returns \/ Raises
  \/ RunQuery \/ QueryEnds \/ GiveStore \/ RefuseSet \/ GiveRow \/ GiveValue
  \/ Collect

Spec == Init /\ [][Next]_vars

(* The executor asks until the set is over, the C code goes on, and the    *)
(* method ends; no method has to yield or to return a query.               *)
Fairness ==
  /\ WF_vars(Call)
  /\ WF_vars(Returns \/ Raises)
  /\ WF_vars(RunQuery \/ QueryEnds \/ GiveStore \/ RefuseSet \/ GiveRow
             \/ GiveValue)

FairSpec == Spec /\ Fairness

-----------------------------------------------------------------------------
(* plruby.rd:162-163: the rows the method yields, or those of the query it *)
(* returns, are the rows of the set: all, in order, once.  In the branch   *)
(* that lives across calls of the executor a query is not run, and a row   *)
(* is another one if it has nils or too few columns, or if retary was      *)
(* collected before it was given; there are as many rows all the same.     *)
RowsAsYielded ==
  outcome = "done" =>
    /\ Len(given) = Len(yielded)
    /\ \A k \in DOMAIN given : given[k] # yielded[k] =>
         Branch = "srf" /\ (k \in lost \/ yielded[k] \in {"nils", "short"})
    /\ c = "query" => Branch = "srf"

(* A call that did not fail has ended its SPI connection: three places     *)
(* return from it, each with an SPI_finish of its own (plpl.c:1468, 1599). *)
ConnectionEnds == phase = "idle" /\ outcome # "error" => ~conn

(* A use of the function ends, though it takes a call for each row.        *)
SetEnds == <>(outcome # "running")

=============================================================================
