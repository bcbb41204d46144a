----------------------------- MODULE MCPlTrans -----------------------------
(***************************************************************************)
(* PlTrans for TLC, and its refinement of NestedTxn.                       *)
(***************************************************************************)
EXTENDS PlTrans

(* The call can only fail: the timer has fired, or an ERROR left the SPI   *)
(* stack in a state in which SPI_finish fails.                             *)
Doomed == interrupted \/ ~SPI_usable(pg)

Lost == outcome = "failed" \/ (outcome = "running" /\ Doomed)

(* The levels of the client are one block, the call's; every level above   *)
(* is a block.                                                             *)
BlockRows ==
  [i \in 1..(Depth(pg) - ClientDepth) |->
     IF i = 1 THEN UNION {pg.lvl[j].rows : j \in 1..(ClientDepth + 1)}
              ELSE pg.lvl[ClientDepth + i].rows]

Nested == INSTANCE NestedTxn WITH
  Row    <- 1..MaxRow,
  blocks <- IF Lost THEN <<>> ELSE BlockRows,
  open   <- IF Lost THEN 0 ELSE Len(frames),
  status <- IF outcome = "running" /\ Doomed THEN "doomed" ELSE outcome

(* The blocks of a program that lets exceptions leave its blocks, and uses *)
(* no savepoint of its own, are nested transactions.                       *)
ImplementsNestedTxn == Nested!NSpec

=============================================================================
