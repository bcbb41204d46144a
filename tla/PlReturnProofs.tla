---------------------------- MODULE PlReturnProofs ----------------------------
(***************************************************************************)
(* Proofs about PlReturn, for every number of rows.                        *)
(*                                                                         *)
(* ConnectionEnds is inductive.  RowsAsYielded needs, for a set in the     *)
(* select list, that the executor has a prefix of retary, as long as       *)
(* call_cntr says, and that all it does not have yet is lost once retary   *)
(* was collected (ListInv), and for a set that is materialized that the    *)
(* tuplestore has what was yielded and that a query which was returned is  *)
(* looked at only when nothing was (StoreInv).                             *)
(***************************************************************************)
EXTENDS PlReturn, TLAPS

(* plpl.c:1468, 1535, 1599: each way back to the executor but an error     *)
(* ends the connection of the call.                                        *)
THEOREM ConnectionsEnd == Spec => []ConnectionEnds
<1>1. Init => ConnectionEnds
  BY DEF Init, ConnectionEnds
<1>2. ConnectionEnds /\ [Next]_vars => ConnectionEnds'
  BY DEF ConnectionEnds, Next, vars, Call, Yield, Returns, Raises, RunQuery,
         QueryEnds, GiveStore, RefuseSet, GiveRow, GiveValue, Collect, Fail,
         SPI_finish
<1> QED
  BY <1>1, <1>2, PTL DEF Spec

-----------------------------------------------------------------------------
(* The method runs, and C code of the call, only while the set is not over. *)
PhaseInv ==
  /\ phase \in {"idle", "body", "query", "tail"}
  /\ phase # "idle" => outcome = "running"
  /\ yielded \in Seq(Row)

(* A set in the select list, of a backend up to 8.3.                       *)
Given == Row \cup {"empties", "wild", "freed"}

(* The row may be another one than the one yielded.                        *)
MayDiffer(k) == k \in lost \/ yielded[k] \in {"nils", "short"}

ListInv ==
  Branch = "srf" =>
    /\ phase # "query"
    /\ DOMAIN retary = {"rows", "alive"}
    /\ retary.rows = yielded
    /\ cntr \in 0..Len(yielded)
    /\ given \in Seq(Given) /\ Len(given) = cntr
    /\ \A k \in 1..cntr : given[k] # yielded[k] => MayDiffer(k)
    /\ firstCall => yielded = <<>> /\ phase = "idle"
    /\ ~firstCall /\ ~retary.alive =>
         \A k \in cntr+1..Len(yielded) : k \in lost
    /\ phase = "body" => cntr = 0 /\ retary.alive
    /\ outcome = "done" => cntr = Len(yielded)

(* A set that is materialized.                                             *)
StoreInv ==
  Branch = "materialize" =>
    /\ DOMAIN out = {"made", "rows"} /\ out.rows = yielded
    /\ outcome = "running" => (out.made <=> yielded # <<>>)
    /\ phase \in {"idle", "body"} /\ outcome = "running" => c = "none"
    /\ c = "query" => phase = "query" \/ outcome = "error" \/ yielded = <<>>
    /\ outcome = "done" => given = yielded /\ c # "query"

(* No set at all, or one no place asks for.                                *)
SingleInv == Branch \in {"single", "multi"} => outcome # "done"

IInv == PhaseInv /\ ListInv /\ StoreInv /\ SingleInv

LEMMA InitInv == Init => IInv
BY DEF Init, IInv, PhaseInv, ListInv, StoreInv, SingleInv, NoArray, NoStore

LEMMA Branches == Branch \in {"single", "srf", "materialize", "multi"}
BY DEF Branch

(* A branch is that of the place and of the type, for the whole use.       *)
LEMMA SameBranch == UNCHANGED <<place, kind>> => Branch' = Branch
BY DEF Branch, IsSet, ExpectedDesc, Materialize

LEMMA CallInv == ASSUME IInv, Call PROVE IInv'
<1>1. Branch' = Branch
  BY SameBranch DEF Call
<1>2. PhaseInv'
  BY DEF IInv, Call, Fail, PhaseInv
<1>3. ListInv'
  <2>1. UNCHANGED <<cntr, given, yielded, lost>>
    BY DEF Call
  <2>2. \A k : MayDiffer(k)' <=> MayDiffer(k)
    BY <2>1 DEF MayDiffer
  <2> QED
    BY <1>1, <2>1, <2>2, Branches DEF IInv, PhaseInv, Call, Fail, ListInv
<1>4. StoreInv'
  BY <1>1 DEF IInv, PhaseInv, Call, Fail, StoreInv
<1>5. SingleInv'
  BY <1>1 DEF IInv, Call, Fail, SingleInv
<1> QED
  BY <1>2, <1>3, <1>4, <1>5 DEF IInv

LEMMA YieldInv == ASSUME IInv, Yield PROVE IInv'
<1>1. Branch' = Branch
  BY SameBranch DEF Yield
<1>2. /\ Branch \in {"srf", "materialize"}
      /\ phase \in {"body", "query"} /\ outcome = "running"
  BY DEF IInv, PhaseInv, Yield
<1>3. CASE Branch = "srf"
  <2>1. PICK row \in Row :
          /\ retary' = [retary EXCEPT !.rows = Append(@, row)]
          /\ yielded' = Append(yielded, row)
          /\ UNCHANGED <<out, phase, outcome, firstCall, cntr, c, given>>
    BY <1>3 DEF Yield, Row
  <2>2. PhaseInv'
    BY <2>1 DEF IInv, PhaseInv, Row
  <2>3. cntr = 0 /\ retary.alive /\ phase = "body" /\ lost' = lost
    BY <1>2, <1>3 DEF IInv, ListInv, Yield
  <2>4. ListInv'
    BY <1>1, <1>2, <1>3, <2>1, <2>3 DEF IInv, PhaseInv, ListInv
  <2> QED
    BY <1>1, <1>3, <2>2, <2>4 DEF IInv, StoreInv, SingleInv
<1>4. CASE Branch = "materialize"
  <2>1. PICK row \in Row :
          IF Fits(row)
          THEN /\ out' = TuplePut(out, row) /\ yielded' = Append(yielded, row)
               /\ UNCHANGED <<phase, outcome, c, given>>
          ELSE Fail /\ UNCHANGED <<out, yielded, c, given>>
    BY <1>4 DEF Yield, Row
  <2>2. PhaseInv'
    BY <2>1 DEF IInv, PhaseInv, Row, Fail
  <2>3. StoreInv'
    <3>1. CASE Fits(row)
      <4>1. /\ out' = [made |-> TRUE, rows |-> Append(out.rows, row)]
            /\ yielded' = Append(yielded, row) /\ yielded' # <<>>
            /\ UNCHANGED <<phase, outcome, c, given>>
        BY <2>1, <3>1 DEF TuplePut, IInv, PhaseInv
      <4> QED
        BY <1>1, <1>2, <1>4, <4>1 DEF IInv, StoreInv
    <3>2. CASE ~Fits(row)
      BY <1>1, <1>2, <1>4, <2>1, <3>2 DEF IInv, StoreInv, Fail
    <3> QED
      BY <3>1, <3>2
  <2> QED
    BY <1>1, <1>4, <2>2, <2>3 DEF IInv, ListInv, SingleInv
<1> QED
  BY <1>2, <1>3, <1>4

LEMMA BodyInv ==
  ASSUME IInv, Returns \/ Raises \/ RunQuery \/ QueryEnds \/ RefuseSet
  PROVE  IInv'
<1>1. Branch' = Branch
  BY SameBranch DEF Returns, Raises, RunQuery, QueryEnds, RefuseSet
<1>2. PhaseInv' /\ SingleInv'
  BY <1>1 DEF IInv, PhaseInv, SingleInv, Returns, Raises, RunQuery, QueryEnds,
              RefuseSet, Fail
<1>3. ListInv'
  <2> SUFFICES ASSUME Branch = "srf" PROVE ListInv'
    BY <1>1 DEF ListInv
  <2> QED
    BY <1>1 DEF IInv, ListInv, MayDiffer, Returns, Raises, RunQuery, QueryEnds,
                RefuseSet, Fail
<1>4. StoreInv'
  BY <1>1 DEF IInv, PhaseInv, StoreInv, Returns, Raises, RunQuery, QueryEnds,
              RefuseSet, Fail, EachResult
<1> QED
  BY <1>2, <1>3, <1>4 DEF IInv

LEMMA GiveInv ==
  ASSUME IInv, GiveStore \/ GiveValue
  PROVE  IInv'
<1>1. Branch' = Branch
  BY SameBranch DEF GiveStore, GiveValue
<1>2. CASE GiveStore
  <2>1. StoreInv'
    BY <1>1, <1>2 DEF IInv, PhaseInv, StoreInv, GiveStore
  <2> QED
    BY <1>1, <1>2, <2>1
       DEF IInv, PhaseInv, ListInv, SingleInv, GiveStore
<1>3. CASE GiveValue
  BY <1>1, <1>3 DEF IInv, PhaseInv, ListInv, StoreInv, SingleInv, GiveValue
<1> QED
  BY <1>2, <1>3

(* The row that is given is the next one of retary.                        *)
LEMMA GiveRowInv == ASSUME IInv, GiveRow PROVE IInv'
<1>1. Branch' = Branch /\ Branch = "srf"
  BY SameBranch DEF GiveRow
<1>2. outcome = "running" /\ phase = "tail" /\ ListInv
  BY DEF IInv, PhaseInv, GiveRow
<1>3. CASE cntr < Len(retary.rows)
  <2> DEFINE row == IF retary.alive THEN FromCStrings(yielded[cntr + 1])
                    ELSE "freed"
  <2>1. /\ given' = Append(given, row) /\ cntr' = cntr + 1
        /\ phase' = "idle" /\ outcome' = "running"
        /\ UNCHANGED <<c, retary, yielded, lost, firstCall>>
    BY <1>1, <1>2, <1>3 DEF ListInv, GiveRow, MaxCalls
  <2>2. yielded[cntr + 1] \in Row /\ cntr + 1 \in 1..Len(yielded)
    BY <1>1, <1>2, <1>3 DEF IInv, PhaseInv, ListInv
  <2>3. /\ row \in Given
        /\ row # yielded[cntr + 1] => MayDiffer(cntr + 1)
    BY <1>1, <1>2, <2>2 DEF ListInv, FromCStrings, MayDiffer, Row, Given
  <2> HIDE DEF row
  <2>4. ListInv'
    <3>1. /\ given \in Seq(Given) /\ Len(given) = cntr /\ cntr \in Nat
          /\ \A k \in 1..cntr : given[k] # yielded[k] => MayDiffer(k)
      BY <1>1, <1>2 DEF ListInv
    <3>2. /\ given' \in Seq(Given) /\ Len(given') = cntr'
          /\ given'[cntr + 1] = row
          /\ \A k \in 1..cntr : given'[k] = given[k]
      BY <2>1, <2>3, <3>1
    <3>3. \A k \in 1..cntr' : given'[k] # yielded'[k] => MayDiffer(k)'
      BY <2>1, <2>3, <3>1, <3>2 DEF MayDiffer
    <3> QED
      BY <1>1, <1>2, <2>1, <2>2, <3>1, <3>2, <3>3 DEF ListInv
  <2> QED
    BY <1>1, <2>1, <2>4 DEF IInv, PhaseInv, StoreInv, SingleInv
<1>4. CASE ~(cntr < Len(retary.rows))
  <2>1. /\ UNCHANGED <<cntr, given, yielded, retary, lost, firstCall, c>>
        /\ outcome' = "done" /\ phase' = "idle"
    BY <1>1, <1>2, <1>4 DEF ListInv, GiveRow, MaxCalls
  <2>2. \A k : MayDiffer(k)' <=> MayDiffer(k)
    BY <2>1 DEF MayDiffer
  <2>3. ListInv'
    BY <1>1, <1>2, <1>4, <2>1, <2>2 DEF ListInv
  <2> QED
    BY <1>1, <2>1, <2>3 DEF IInv, PhaseInv, StoreInv, SingleInv
<1> QED
  BY <1>3, <1>4

LEMMA CollectInv == ASSUME IInv, Collect PROVE IInv'
<1>1. Branch' = Branch
  BY SameBranch DEF Collect
<1> QED
  BY <1>1 DEF IInv, PhaseInv, ListInv, StoreInv, MayDiffer, SingleInv, Collect

LEMMA NextInv == IInv /\ [Next]_vars => IInv'
<1> SUFFICES ASSUME IInv, [Next]_vars PROVE IInv'
  OBVIOUS
<1>1. ASSUME UNCHANGED vars PROVE IInv'
  <2>1. \A k : MayDiffer(k)' <=> MayDiffer(k)
    BY <1>1 DEF vars, MayDiffer
  <2> QED
    BY <1>1, <2>1, SameBranch
       DEF vars, IInv, PhaseInv, ListInv, StoreInv, SingleInv
<1> QED
  BY <1>1, CallInv, YieldInv, BodyInv, GiveInv, GiveRowInv, CollectInv DEF Next

(* plruby.rd:162-163: however many rows there are, in however many calls,  *)
(* and whatever is collected between them, the executor gets as many as    *)
(* were yielded or queried, in order, and each as it was but for those     *)
(* that RowsAsYielded names.                                               *)
THEOREM GivesWhatIsYielded == Spec => []RowsAsYielded
<1>1. IInv => RowsAsYielded
  <2> SUFFICES ASSUME IInv, outcome = "done" PROVE RowsAsYielded
    BY DEF RowsAsYielded
  <2>1. CASE Branch = "srf"
    BY <2>1 DEF IInv, ListInv, MayDiffer, RowsAsYielded
  <2>2. CASE Branch = "materialize"
    BY <2>2 DEF IInv, StoreInv, RowsAsYielded
  <2> QED
    BY <2>1, <2>2, Branches DEF IInv, SingleInv
<1> QED
  BY <1>1, InitInv, NextInv, PTL DEF Spec

=============================================================================
