------------------------------ MODULE PlTrans ------------------------------
(***************************************************************************)
(* src/pltrans.c: transaction {|txn| ...}, PL::Transaction#commit, #abort, *)
(* savepoint, release_savepoint and rollback_to_savepoint, used by one     *)
(* call of a PL/Ruby function at call level 0.                             *)
(*                                                                         *)
(* The Ruby program is arbitrary: at each point it may do any of the       *)
(* operations below, leave a block normally, by break, by return, by throw *)
(* or by an exception, and rescue an exception.  The C functions of        *)
(* pltrans.c hold the interpreter lock from one callback into Ruby to the  *)
(* next, so each action is the code run between two such callbacks.        *)
(*                                                                         *)
(* Bounds: MaxTxn transaction blocks are entered, MaxRow rows are written, *)
(* MaxDepth transaction levels are open.                                   *)
(***************************************************************************)
EXTENDS PgXact

CONSTANTS
  MaxTxn, MaxRow, MaxDepth,
  ClientDepth,    \* savepoints the client had open when it made the call
  SavepointNames, \* names the program gives to savepoint(); {} : not used
  RescueInBlock,  \* the program may rescue an exception inside a block
  PrepareErrors,  \* the program may prepare a statement in error
  Timeout         \* the extension was built with --with-timeout

ASSUME BoundsAssumption ==
  MaxTxn \in Nat /\ MaxRow \in Nat /\ MaxDepth \in Nat /\ ClientDepth \in Nat

ASSUME ProgramAssumption ==
  /\ SavepointNames \subseteq Nat
  /\ RescueInBlock \in BOOLEAN /\ PrepareErrors \in BOOLEAN
  /\ Timeout \in BOOLEAN

VARIABLES
  pg,           \* the backend's transaction and SPI stacks
  frames,       \* activations of pl_transaction, innermost last
  seq,          \* pl_in_transaction
  ctl,          \* what the Ruby interpreter is doing
  bang,         \* class of the exception in $!
  interrupted,  \* plruby_interrupted
  outcome,      \* of the function call
  rows, bad,    \* number of rows written; those of failed statements
  txns          \* number of transaction blocks entered

vars == <<pg, frames, seq, ctl, bang, interrupted, outcome, rows, bad, txns>>

-----------------------------------------------------------------------------
PlName_unnumbered(n) == <<"plruby", 0>>  \* mutant: pl_in_transaction is not used

PlName(n)   == <<"plruby", n>>    \* "__plruby__%d__"
UserName(n) == <<"user", n>>
ClientName  == <<"client", 0>>

Names == {"none", "client", "plruby", "user"} \X Nat

(* What the interpreter does: run the innermost Ruby code, or unwind it    *)
(* for a throw of the tag "__plruby__transaction__", for a break or        *)
(* return, or for an exception: "catch" is PL::Catch (an ERROR of the      *)
(* backend), "error" any other class.                                      *)
Plain(k) == [k |-> k, commit |-> FALSE, txn |-> 0]

Running == Plain("run")

Exceptions == {"error", "catch"}

Throwing(commit, txn) == [k |-> "throw", commit |-> commit, txn |-> txn]

Top == frames[Len(frames)]

InBlock == frames # <<>>

Outer == SubSeq(frames, 1, Len(frames) - 1)

(* $! is put back when a rescue clause ends. *)
BangOutside == IF InBlock THEN Top.bang ELSE "nil"

Raise(k) == ctl' = Plain(k) /\ bang' = k

CanRun == outcome = "running" /\ ctl = Running

Init ==
  /\ pg = [lvl  |-> [i \in 1..(ClientDepth + 1) |->
                       [name |-> IF i = 1 THEN NoName ELSE ClientName,
                        rows |-> {}]],
           conn |-> <<ClientDepth + 1>>,
           cur  |-> 0]
  /\ frames = <<>> /\ seq = 0
  /\ ctl = Running /\ bang = "nil" /\ interrupted = FALSE
  /\ outcome = "running"
  /\ rows = 0 /\ bad = {} /\ txns = 0

-----------------------------------------------------------------------------
(* The helpers that end a transaction.  A result is the backend state, the *)
(* struct pl_trans and the class of the exception raised ("no": none).     *)

Result(p, f, exc) == [pg |-> p, fr |-> f, exc |-> exc]

Committed(f) == [f EXCEPT !.commit = TRUE]

Unnamed(f) == [f EXCEPT !.commit = TRUE, !.name = NoName]

(* The if (NIL_P(trans->name)) of pl_intern_commit and pl_intern_abort;    *)
(* the flag is set before the backend is called.  ended is what the        *)
(* backend makes of p when it does not raise.                              *)
EndInternal(p, f, ended) ==
  CASE f.commit                             -> Result(p, f, "no")
    [] ~f.commit /\ ~SPI_usable(p)          -> Result(p, Committed(f), "catch")
    [] ~f.commit /\ SPI_usable(p)
                 /\ ~IsSubTransaction(p)    -> Result(SPI_finish(p), Committed(f), "catch")
    [] ~f.commit /\ SPI_usable(p)
                 /\ IsSubTransaction(p)     -> Result(ended, Committed(f), "no")

EndNamed_forgotten(p, f, ended) ==  \* mutant: the backend is not called
  Result(p, Unnamed(f), IF Named(p, f.name) = {} THEN "catch" ELSE "no")

EndNamed(p, f, ended) ==
  IF Named(p, f.name) = {} THEN Result(p, Unnamed(f), "catch")
                           ELSE Result(ended, Unnamed(f), "no")

InternCommit(p, f) ==
  IF interrupted THEN Result(p, f, "error")
  ELSE IF f.name = NoName
  THEN EndInternal(p, f, ReleaseCurrentSubTransaction(SPI_finish(p)))
  ELSE EndNamed(p, f, ReleaseSavepoint(p, f.name))

InternAbort_kept(p, f) ==  \* mutant: the savepoint is not destroyed
  IF interrupted \/ ~IsSubTransaction(p) THEN Result(p, f, "error")
  ELSE IF f.name = NoName
  THEN EndInternal(p, f, RollbackAndReleaseCurrentSubTransaction(SPI_finish(p)))
  ELSE EndNamed(p, f, RollbackToSavepoint(p, f.name))

InternAbort_current(p, f) ==  \* mutant: whatever is current is rolled back
  IF interrupted \/ ~IsSubTransaction(p) THEN Result(p, f, "error")
  ELSE IF f.name = NoName
  THEN EndInternal(p, f, RollbackAndReleaseCurrentSubTransaction(SPI_finish(p)))
  ELSE EndNamed(p, f, RollbackAndReleaseCurrentSubTransaction(p))

InternAbort_swapped(p, f) ==  \* mutant: release where rollback is meant
  IF interrupted \/ ~IsSubTransaction(p) THEN Result(p, f, "error")
  ELSE IF f.name = NoName
  THEN EndInternal(p, f, ReleaseCurrentSubTransaction(SPI_finish(p)))
  ELSE EndNamed(p, f, RollbackAndReleaseCurrentSubTransaction(
                        RollbackToSavepoint(p, f.name)))

InternAbort(p, f) ==
  IF interrupted \/ ~IsSubTransaction(p) THEN Result(p, f, "error")
  ELSE IF f.name = NoName
  THEN EndInternal(p, f, RollbackAndReleaseCurrentSubTransaction(SPI_finish(p)))
  ELSE EndNamed(p, f, RollbackAndReleaseCurrentSubTransaction(
                        RollbackToSavepoint(p, f.name)))

InternError(p, f) ==
  IF interrupted \/ ~IsSubTransaction(p) THEN Result(p, f, "error")
  ELSE Result(RollbackAndReleaseCurrentSubTransaction(p), Committed(f), "no")

-----------------------------------------------------------------------------
(* The end of pl_transaction. *)

(* SPI_pop, when this activation did SPI_push. *)
PopOwn_any(p, f) == SPI_pop(p)  \* mutant: every activation pops

PopOwn(p, f) == IF f.begin THEN SPI_pop(p) ELSE p

(* rb_protect(pl_catch) returned a state: an exception, a break, a return  *)
(* or a throw goes on, c.  $! tells the path, b is its class.  What the    *)
(* protected pl_intern_* raises replaces the exception that goes on.       *)
Leave(p, f, c, b) ==
  LET isCatch == f.begin /\ b = "catch"
      r == IF f.commit  THEN Result(p, f, "no")
           ELSE IF isCatch THEN InternError(p, f)
           ELSE InternAbort(p, f)
      raised == r.exc # "no"
  IN  /\ pg' = IF isCatch THEN r.pg ELSE PopOwn(r.pg, f)
      /\ bang' = IF raised THEN r.exc ELSE b
      /\ ctl' = CASE c.k = "break" -> Running
                  [] c.k \in Exceptions /\ raised -> Plain(r.exc)
                  [] OTHER -> c
      /\ frames' = Outer

(* rb_protect(pl_catch) returned normally. *)
Finish(p, f) ==
  LET r == IF f.begin /\ ~f.commit THEN InternCommit(p, f)
                                   ELSE Result(p, f, "no")
  IN  /\ pg' = PopOwn(r.pg, f)
      /\ frames' = Outer
      /\ ctl' = Running
      /\ bang' = BangOutside

UnchangedByBlocks == UNCHANGED <<seq, interrupted, outcome, rows, bad, txns>>

(* The block ran to its end: pl_catch calls pl_intern_commit. *)
EndBlock ==
  /\ CanRun /\ InBlock
  /\ LET r == InternCommit(pg, Top) IN
       IF r.exc = "no" THEN Finish(r.pg, r.fr)
                       ELSE Leave(r.pg, r.fr, Plain(r.exc), r.exc)
  /\ UnchangedByBlocks

(* pl_catch receives the throw of a commit or abort; when it is meant for  *)
(* another transaction it throws again, which raises if no block is left.  *)
CatchThrow ==
  /\ outcome = "running" /\ ctl.k = "throw" /\ InBlock
  /\ LET r == IF ctl.commit THEN InternCommit(pg, Top) ELSE InternAbort(pg, Top)
     IN  IF r.exc # "no" THEN Leave(r.pg, r.fr, Plain(r.exc), r.exc)
         ELSE IF ctl.txn = Top.txn THEN Finish(r.pg, r.fr)
         ELSE IF Len(frames) = 1 THEN Leave(r.pg, r.fr, Plain("error"), "error")
         ELSE Leave(r.pg, r.fr, ctl, bang)
  /\ UnchangedByBlocks

(* An exception, a break or a return leaves the block. *)
LeaveBlock ==
  /\ outcome = "running" /\ ctl.k \in Exceptions \cup {"break", "return"}
  /\ InBlock
  /\ Leave(pg, Top, ctl, bang)
  /\ UnchangedByBlocks

-----------------------------------------------------------------------------
(* What the program does. *)

(* transaction { ... }.  With no subtransaction open it begins an internal *)
(* one with an SPI connection of its own, else a savepoint.                *)
Transaction ==
  /\ CanRun /\ txns < MaxTxn /\ Depth(pg) < MaxDepth
  /\ UNCHANGED <<interrupted, outcome, rows, bad>>
  /\ \/ /\ interrupted
        /\ Raise("error")
        /\ UNCHANGED <<pg, frames, seq, txns>>
     \/ /\ ~interrupted /\ IsSubTransaction(pg)
        /\ pg' = BeginSub(pg, PlName(seq))
        /\ frames' = Append(frames, [txn |-> txns + 1, begin |-> FALSE,
                                     name |-> PlName(seq), commit |-> FALSE,
                                     bang |-> bang, mark |-> rows])
        /\ seq' = seq + 1
        /\ txns' = txns + 1
        /\ UNCHANGED <<ctl, bang>>
     \/ /\ ~interrupted /\ ~IsSubTransaction(pg)
        /\ seq' = 0
        /\ txns' = txns + 1
        /\ LET p == BeginSub(SPI_push(pg), NoName) IN
             IF SPI_may_connect(p)
             THEN /\ pg' = SPI_connect(p)
                  /\ frames' = Append(frames, [txn |-> txns + 1, begin |-> TRUE,
                                               name |-> NoName, commit |-> FALSE,
                                               bang |-> bang, mark |-> rows])
                  /\ UNCHANGED <<ctl, bang>>
             ELSE /\ pg' = p
                  /\ Raise("catch")
                  /\ UNCHANGED frames

(* txn.commit and txn.abort, on any transaction object the program has,    *)
(* also one whose block is over.  Without a block around, the throw finds  *)
(* no catch.                                                               *)
ThrowAtCatch(commit) ==
  /\ CanRun
  /\ \E t \in 1..txns :
       IF IsSubTransaction(pg) /\ InBlock
       THEN ctl' = Throwing(commit, t) /\ UNCHANGED bang
       ELSE Raise("error")
  /\ UNCHANGED <<pg, frames>> /\ UnchangedByBlocks

Commit == ThrowAtCatch(TRUE)

Abort == ThrowAtCatch(FALSE)

(* PL.exec of a statement that writes a row. *)
Exec ==
  /\ CanRun /\ rows < MaxRow
  /\ UNCHANGED <<frames, seq, interrupted, outcome, txns>>
  /\ \/ /\ interrupted \/ ~SPI_usable(pg)
        /\ Raise("error")
        /\ UNCHANGED <<pg, rows, bad>>
     \/ /\ ~interrupted /\ SPI_usable(pg)
        /\ rows' = rows + 1
        /\ pg' = Write(pg, rows + 1)
        /\ UNCHANGED <<ctl, bang, bad>>
     \/ /\ ~interrupted /\ SPI_usable(pg)     \* it fails half way
        /\ rows' = rows + 1
        /\ bad' = bad \cup {rows + 1}
        /\ pg' = SPI_interrupted(Write(pg, rows + 1))
        /\ Raise("catch")

(* PL::Plan.new of a statement that SPI_prepare refuses: PG_CATCH takes    *)
(* the ERROR, and PL::Error, not PL::Catch, is raised for it.              *)
PrepareFails ==
  /\ PrepareErrors
  /\ CanRun /\ SPI_usable(pg)
  /\ pg' = SPI_interrupted(pg)
  /\ Raise("error")
  /\ UNCHANGED frames /\ UnchangedByBlocks

(* An ERROR of the backend outside SPI: an input function called by a      *)
(* conversion.                                                             *)
ConversionFails ==
  /\ CanRun /\ ~interrupted
  /\ Raise("catch")
  /\ UNCHANGED <<pg, frames>> /\ UnchangedByBlocks

RaiseError ==
  /\ CanRun
  /\ Raise("error")
  /\ UNCHANGED <<pg, frames>> /\ UnchangedByBlocks

BreakOrReturn ==
  /\ CanRun /\ InBlock
  /\ \E k \in {"break", "return"} : ctl' = Plain(k)
  /\ UNCHANGED <<pg, frames, bang>> /\ UnchangedByBlocks

Rescue ==
  /\ outcome = "running" /\ ctl.k \in Exceptions
  /\ InBlock => RescueInBlock
  /\ ctl' = Running
  /\ UNCHANGED <<pg, frames, bang>> /\ UnchangedByBlocks

EndRescue ==
  /\ CanRun /\ bang # BangOutside
  /\ bang' = BangOutside
  /\ UNCHANGED <<pg, frames, ctl>> /\ UnchangedByBlocks

-----------------------------------------------------------------------------
(* The savepoint functions, which the program may call inside a            *)
(* subtransaction.                                                         *)

OnSavepoint(may, q) ==
  /\ CanRun
  /\ UNCHANGED frames /\ UnchangedByBlocks
  /\ IF ~IsSubTransaction(pg) \/ interrupted
     THEN Raise("error") /\ UNCHANGED pg
     ELSE IF may THEN pg' = q /\ UNCHANGED <<ctl, bang>>
     ELSE Raise("catch") /\ UNCHANGED pg

Savepoint ==
  \E n \in SavepointNames :
    /\ Depth(pg) < MaxDepth
    /\ OnSavepoint(TRUE, BeginSub(pg, UserName(n)))

ReleaseUser ==
  \E n \in SavepointNames :
    OnSavepoint(Named(pg, UserName(n)) # {}, ReleaseSavepoint(pg, UserName(n)))

(* The savepoint that RollbackToSavepoint defines again is destroyed. *)
RollbackUser ==
  \E n \in SavepointNames :
    OnSavepoint(Named(pg, UserName(n)) # {},
                RollbackAndReleaseCurrentSubTransaction(
                  RollbackToSavepoint(pg, UserName(n))))

-----------------------------------------------------------------------------
(* pl_timer: the time is over.  It raises in the thread of the function    *)
(* again and again, whenever the thread is in Ruby code.                   *)
TimeIsOver ==
  /\ Timeout /\ ~interrupted /\ outcome = "running"
  /\ interrupted' = TRUE
  /\ UNCHANGED <<pg, frames, seq, ctl, bang, outcome, rows, bad, txns>>

TimerRaises ==
  /\ CanRun /\ interrupted
  /\ Raise("error")
  /\ UNCHANGED <<pg, frames>> /\ UnchangedByBlocks

(* The end of the call: plruby_return_value calls SPI_finish, which fails  *)
(* the call when the SPI stack is not as it was, or the exception reaches  *)
(* the handler, which gives it to the backend as an ERROR.                 *)
Refused_unchecked == interrupted   \* mutant: SPI_finish is not checked

Refused == interrupted \/ ~SPI_usable(pg)

Return ==
  /\ outcome = "running" /\ ~InBlock /\ ctl.k \in {"run", "return"}
  /\ IF Refused
     THEN outcome' = "failed" /\ UNCHANGED pg
     ELSE outcome' = "ok" /\ pg' = SPI_finish(pg)
  /\ UNCHANGED <<frames, seq, ctl, bang, interrupted, rows, bad, txns>>

Fail ==
  /\ outcome = "running" /\ ~InBlock /\ ctl.k \in Exceptions
  /\ outcome' = "failed"
  /\ UNCHANGED <<pg, frames, seq, ctl, bang, interrupted, rows, bad, txns>>

Next ==
  \/ EndBlock \/ CatchThrow \/ LeaveBlock
  \/ Transaction \/ Commit \/ Abort \/ Exec \/ PrepareFails \/ ConversionFails \/ RaiseError
  \/ BreakOrReturn \/ Rescue \/ EndRescue
  \/ Savepoint \/ ReleaseUser \/ RollbackUser
  \/ TimeIsOver \/ TimerRaises
  \/ Return \/ Fail

Spec == Init /\ [][Next]_vars

-----------------------------------------------------------------------------
(* Properties *)

Level == [name : Names, rows : SUBSET Nat]

Frame == [txn : Nat, begin : BOOLEAN, name : Names, commit : BOOLEAN,
          bang : {"nil"} \cup Exceptions, mark : Nat]

(* Type invariant: the backend stacks and the activations of              *)
(* pl_transaction keep their shape.                                        *)
TypeOK ==
  /\ pg \in [lvl : Seq(Level), conn : Seq(Nat), cur : Nat]
  /\ frames \in Seq(Frame)
  /\ seq \in Nat
  /\ ctl \in [k : {"run", "throw", "break", "return"} \cup Exceptions,
              commit : BOOLEAN, txn : Nat]
  /\ bang \in {"nil"} \cup Exceptions
  /\ interrupted \in BOOLEAN
  /\ outcome \in {"running", "ok", "failed"}
  /\ rows \in Nat /\ bad \in SUBSET Nat /\ txns \in Nat

(* A call that succeeds leaves the backend's two stacks as it found them:  *)
(* no subtransaction of its transaction blocks is still open.              *)
CleanReturn ==
  outcome = "ok" => /\ Depth(pg) = ClientDepth + 1
                    /\ pg.conn = <<>> /\ pg.cur = 0

(* A call that succeeds keeps no row of a statement that failed half way:  *)
(* an ERROR the program rescued is rolled back or fails the call.          *)
NoHalfStatement == outcome = "ok" => AllRows(pg) \cap bad = {}

(* txn.abort, when it has reached the block of txn, leaves none of the     *)
(* rows written since that block was entered, unless the time is over or   *)
(* the program has itself released an outer savepoint, and the block's     *)
(* with it (pl_catch, pl_intern_abort).                                    *)
AbortReaches ==
  /\ CatchThrow /\ ~ctl.commit /\ ctl.txn = Top.txn /\ ~interrupted
  /\ Top.name = NoName \/ Named(pg, Top.name) # {}

AbortDiscards ==
  [][AbortReaches => \A r \in AllRows(pg)' : r <= Top.mark]_vars

(* The savepoint names pl_transaction makes are never open twice, so a     *)
(* block ends its own savepoint (pl_in_transaction).                       *)
OwnSavepoint ==
  \A n \in 0..MaxTxn : \A i, j \in Named(pg, PlName(n)) : i = j

=============================================================================
