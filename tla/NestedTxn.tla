----------------------------- MODULE NestedTxn -----------------------------
(***************************************************************************)
(* What transaction {|txn| ...}, commit and abort promise to a PL/Ruby     *)
(* function (plruby.rd, "transaction" and "class PL::Transaction"): nested *)
(* transactions over a set of rows.  Ending a block by commit gives its    *)
(* rows to the block around it, ending it by abort drops them, and a call  *)
(* that succeeds has ended every block.  A call the backend can no longer  *)
(* let succeed, after an ERROR or a timeout, is doomed: it may still run,  *)
(* but only to fail.                                                       *)
(***************************************************************************)
EXTENDS Integers, Sequences

CONSTANT Row

VARIABLES
  blocks,  \* blocks[1] the rows of the call outside any block, then one
           \* set of rows per open block
  open,    \* number of open blocks
  status

nvars == <<blocks, open, status>>

NInit == blocks = <<{}>> /\ open = 0 /\ status = "running"

Innermost == Len(blocks)

Below == SubSeq(blocks, 1, Innermost - 1)

Begin ==
  /\ status = "running"
  /\ blocks' = Append(blocks, {})
  /\ open' = open + 1
  /\ UNCHANGED status

WriteRow ==
  /\ status = "running"
  /\ \E r \in Row : blocks' = [blocks EXCEPT ![Innermost] = @ \cup {r}]
  /\ UNCHANGED <<open, status>>

Commit ==
  /\ status = "running" /\ open > 0
  /\ blocks' = [Below EXCEPT ![open] = @ \cup blocks[Innermost]]
  /\ open' = open - 1
  /\ UNCHANGED status

Abort ==
  /\ status = "running" /\ open > 0
  /\ blocks' = Below
  /\ open' = open - 1
  /\ UNCHANGED status

(* Nothing a doomed call leaves in its blocks matters. *)
Doom ==
  /\ status = "running"
  /\ status' = "doomed" /\ blocks' = <<>> /\ open' = 0

Succeed ==
  /\ status = "running" /\ open = 0
  /\ status' = "ok"
  /\ UNCHANGED <<blocks, open>>

FailCall ==
  /\ status \in {"running", "doomed"}
  /\ status' = "failed" /\ blocks' = <<>> /\ open' = 0

NNext == \/ Begin \/ WriteRow \/ Commit \/ Abort
         \/ Doom \/ Succeed \/ FailCall

NSpec == NInit /\ [][NNext]_nvars

=============================================================================
