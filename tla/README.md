# PL/Ruby in TLA+

PL/Ruby is a procedural language for PostgreSQL: a C extension that runs the
body of an SQL function in a Ruby interpreter inside the backend. This
directory holds TLA+ models of it, TLC configurations that check them, and
TLAPS proofs. File names below are relative to the repository; the C files are
in `src/`.

## The system

| Component | State it keeps | Operations | What makes it correct |
|---|---|---|---|
| Transactions (`pltrans.c`) | `pl_in_transaction`, one `struct pl_trans` per block; the backend's subtransaction stack and SPI stack | `transaction`, `commit`, `abort`, `savepoint`, `release_savepoint`, `rollback_to_savepoint` | a block is a nested transaction, however it is left; a successful call has ended all of them |
| Call handler and timer (`plruby.c`, macros of `plruby.h`) | `plruby_in_progress`, `plruby_interrupted`, `pl_call_level`, the thread local `__functype__`, `PG_exception_stack`, the SPI stack, three Ruby threads | a call at level 0, a nested call, an error at either, the timer | an error goes to the backend at level 0 and to Ruby above; the timer ends a call, and never unwinds the backend |
| Function cache (`pl_compile`, validator) | `PLruby_hash`, the methods of `PLtemp` | compile, reuse, replace | the method that runs is the current body |
| Triggers (`pl_trigger_handler`) | none between calls; of one row, the tuples of the event and the hash of the method | build `new`, `old`, `tg`; apply the result | the row written is the one the methods asked for |
| `PL.exec` and results (`plpl.c`) | the global `SPI_tuptable`, `SPI_processed` | exec, the output forms, iteration with a block | a result is read from its own table and freed once |
| Arguments and return values (`plpl.c`) | per call; for a set in the select list an array of rows from call to call | datum to Ruby and back, arrays, tuples, sets | each row of a set is returned once; a value comes back as it was meant |
| Plans and cursors (`plplan.c`) | `struct pl_plan`, `struct PLportal`, the backend's plans and portals | prepare, save, release, exec, fetch, each, cursor moves | nothing is used after its end; saved plans stay |
| Conversions (`conversions/*`) | the C struct of each object | basic types, bit strings, dates, geometry, network addresses | they agree with the backend's values and read inside of their objects |

The components call each other: the handler runs a Ruby method; that method
calls `PL.exec`, a plan or `transaction`; these call the backend between
`PLRUBY_BEGIN_PROTECT` and `PLRUBY_END_PROTECT`; and a query in the backend
may call a PL/Ruby function again. Errors travel both ways: `PG_CATCH` turns
an ERROR of the backend into the Ruby exception `PL::Catch`, and the handler
turns a Ruby exception into an ERROR, or, at a level above 0, raises it again
in the Ruby code around the query. They share `plruby_in_progress`,
`plruby_interrupted`, the SPI stack and the transaction stack.

What is hard: Ruby exceptions, throws and backend longjmps that skip the end of
a protected region; Ruby objects that outlive what they point to; the order of a
flag and the call it stands for; a result of `rb_protect` that nobody looks at;
the timer thread; and "current" things of the backend (`SPI_tuptable`, the
current subtransaction, the top SPI connection) that another operation has
changed meanwhile. `PROJECT.json` lists these hazards at their lines.

## Modules

### PgXact: the backend's two stacks

Operators on a record `[lvl, conn, cur]`: the transaction levels with their
savepoint names and the rows written in each, the SPI connections with the
level each was made at, and `_SPI_curid`. The backend is external code; the
operators say what `pltrans.c`, `plpl.c` and `plruby.c` rely on. Two facts
matter: an ERROR inside an SPI call leaves `_SPI_curid` raised, and the end of
a subtransaction pops the connections made in it and sets `_SPI_curid` only
if it has popped one.

### PlTrans: `pltrans.c` in one call of level 0

| Variable | Code |
|---|---|
| `pg` | the stacks of `PgXact` |
| `frames` | activations of `pl_transaction`, with `name` and `commit` of their `struct pl_trans`, `begin_sub`, and `$!` at entry; `mark` is the number of rows then |
| `seq` | `pl_in_transaction` |
| `ctl`, `bang` | what the interpreter unwinds for, and `$!` |
| `interrupted` | `plruby_interrupted` |
| `outcome` | how the call ended |
| `rows`, `bad`, `txns` | rows written, those of failed statements, blocks entered |

The Ruby program is arbitrary. `pltrans.c` holds the interpreter lock between
two callbacks into Ruby, so an action is the C code from one callback to the
next: `Transaction` is `pl_transaction` up to the `rb_protect`; `EndBlock`,
`CatchThrow` and `LeaveBlock` are the rest of `pl_catch` and of
`pl_transaction`, for a block that ran to its end, for the throw of a commit or
abort, and for an exception, break or return. `InternCommit`, `InternAbort` and
`InternError` are the functions of those names; their result carries the
exception they raise. `$!` is kept because `pl_transaction` decides by it
whether to call `pl_intern_error` or `pl_intern_abort` and `SPI_pop`.

`NestedTxn` is the promise of the documentation: blocks of rows that a commit
gives to the block around and an abort drops. `MCPlTrans` maps `PlTrans` to it.
A call that can only fail (interrupted, or the SPI stack out of balance) is
`doomed`: the code does not care what its blocks hold, since the ERROR at its
end aborts the client's transaction.

### PlCall: the call handler, the timer and nested calls

| Variable | Code |
|---|---|
| `stack` | activations in the worker thread: of a function, of a `PL.exec` whose query runs (`exec`) or whose result is converted (`convert`); each with the `in_progress` local of its macro and the `PG_exception_stack` it saved |
| `ctl`, `skipped` | the exception on its way up, and whether it left a `PLRUBY_END_PROTECT` out |
| `in_progress`, `interrupted`, `call_level`, `functype` | the globals and the thread local of those names |
| `eh` | `PG_exception_stack` |
| `conn`, `cur` | the SPI stack |
| `main`, `worker`, `timer` | the three kinds of threads |
| `abandoned` | history: a query of this call never reached its end |
| `lost` | history: the program rescued, in this call, an exception that had left one out |

Actions: `StartCall`, `WorkerJoined`, `KillTimer`, `EndCall` are
`pl_internal_call_handler` at level 0; `QueryCalls` and `HandlerEnds` are it
above level 0; `Exec`, `ExecEnds`, `ExecFails` are `pl_SPI_exec` with its
macros; `FunctionEnds` is `plruby_return_value`; `TimeIsOver`, `TimerSeesDead`,
`TimerRaises` are `pl_timer`. `RaiseOutOfExec` is the `rb_raise` that leaves a
nested handler together with the `PL.exec` around it: it leaves
`PLRUBY_END_PROTECT` of that query out, so a program that rescues it runs on
with the flags of a query that is gone. The conversion of a result does the same
without any nested function: `plruby_build_tuple` opens a region of its own
(`plpl.c:1161-1205`; `ExecEnds`, when the query gave a value), and in it
`from_datum` may raise, or the macros of `pl_convert_arg`, and the outer
`PLRUBY_END_PROTECT` is left out (`ConvertRaises`; `ConvertEnds` and
`ConvertFails` are its ordinary ends). When the program rescues such an
exception `lost` is set, and the properties that need those flags end there.
`PL.exec` has no block here; `PlRows` is about that.

### PlCompile: the function cache

| Variable | Code |
|---|---|
| `hash` | `PLruby_hash`: for each function the `fn_xmin`, `fn_cmin` and types of its `pl_proc_desc`, or `NoDesc` |
| `method` | the body behind the singleton method `proc_<oid>` of `PLtemp` |
| `catalog`, `committed` | the rows of `pg_proc` the transaction sees, and those it rolls back to |
| `xid`, `cid` | the transaction and its command counter, which stamp a new row |
| `stack` | the functions that run, each with the row, the types and the body it started with |
| `odd` | history: types were refused, a timeout came late, rows were frozen |

`Call` is `pl_func_handler` (or `pl_trigger_handler`) up to the call of the
method, with all of `pl_compile`; `Late` says where a timeout may raise in it:
before the new method exists or after both tables have it. A raise before the
first of them changes is no step. `Replace` is `CREATE OR REPLACE FUNCTION`,
also from inside a running function; a transaction commits or rolls back
between calls of level 0. A trigger is a function with one type of argument:
its cache entry has its own name and only `xmin` and `cmin` are compared.

### PlRows: rows of queries, plan.each and cursors

| Variable | Code |
|---|---|
| `spi` | the tuple tables of the connection that are live, the global `SPI_tuptable`, and `misused`: one was freed twice or read after that |
| `queries` | the portals behind plan.each and cursors: size of the result, position, open |
| `iters` | activations of `pl_SPI_exec` / `pl_plan_execp` with a block (`exec`), of `pl_fetch` (`each`) and of `cursor_i_fetch` / `cursor_r_fetch`; their locals `tuptab`, `i`, `count`, `pcount`, what is still to be yielded (`rows`), and the items given so far |
| `ended` | history: the last block that ended, and how |

An action is the C code from one callback into Ruby to the next: `EachFetch`
frees the portion that is over, fetches the next and yields its first row. What
a block of `exec` is given depends on the count and on the output form
(`Yields`): with a count of 1 the columns of the first row, one by one, and what
`plruby_build_tuple` returns is dropped; otherwise each row; with `RET_DESC` and
a hash, the columns of every row with an empty hash after them. An item is the
row or one of its columns. `ExecBlock` and `ExecEnd` free what `SPI_tuptable`
names at that time, `pl_fetch` what its own local names. `Leave` is an
exception, break, throw or timeout that leaves the innermost block; plan.each
closes its portal then (`rb_ensure`), exec frees nothing. `Portion` is the 12
rows of `rewind`. All cursors of the model scroll backward.

### PlPlan: how long plans and cursors live

| Variable | Code |
|---|---|
| `plans` | for each Ruby object its `qdesc->plan` (`null`, `live`, `stale` or `freed`) and the activation whose SPI connection owns the plan, 0 for the session |
| `cursors` | `portal->portal`, the transaction level it was opened at, and the activation in whose memory the argument values are |
| `stack` | calls, blocks of transaction, executions of a plan, blocks of plan.each |
| `ctl` | a Ruby exception or an ERROR on its way |
| `orphans` | where the argument values of unreachable portals are |
| `saved`, `refused` | plans saved and not released, and those of them whose second save was refused |
| `touched` | history: the last memory used was live, stale or freed |

`GetPlan` and `GetPortal` (`plruby.h:268-282`) know NULL only. A pointer is
`stale` when the connection, the transaction block or the client's transaction
that owned the thing ended, and `freed` when this code gave it back itself; C
can tell neither from `live`. Programs use their objects as they like: one that
uses a stale object touches memory that is gone, which nobody promises it
cannot, and the model lets it go on; `NothingFreedIsUsed` is about the memory
`plplan.c` itself has to look after. Each use is an action (`Exec`, `Each`,
`OpenCursor`, `SavePlan`, `SaveRefused`, `ReleasePlan`, `UseCursor`,
`CloseCursor`), and so is each end (`EndCall`, `EndBlock`, `EndTransaction`,
`ExecEnds`, `EachEnds`). `SaveRefused` is `pl_plan_save` when `SPI_saveplan`
returns NULL for a plan that is saved already, as 8.3 and 8.4 do: `SPI_freeplan`
has freed the plan by then. Older backends copy it once more (`SavedTwice` says
which of the two a backend does). `Collect` is the garbage collector that meets
a portal object: `portal_free` (`plplan.c:372-382`) sets `nargs` to 0 before it
calls `free_args`, without which the values of arguments that went with their
call would be freed again (the mutant `NoArgs_kept`).

### PlReturn: one use of a function in a query

From the executor's first call to the last, through all branches of
`plruby_return_value`: a value (`GiveValue`), a set in a tuplestore (`Yield`,
`RunQuery`, `GiveStore`, `RefuseSet`), and a set in the select list of a
backend up to 8.3, whose rows wait in a Ruby array, `retary`, for the calls
to come (`GiveRow`). Nothing that Ruby scans refers to that array, so `Collect`
may take it between any two calls; `lost` has the rows that were still in it.
`conn` is the connection of the call, `given` what the executor has, `yielded`
what the program gave. The branch for `ExprMultipleResult` is not taken: no
backend of those the build knows gives an expected description without allowing
a tuplestore.

### PlTrigger: one row through its triggers

`Fire` is `pl_trigger_handler` up to the call of the method, on the hash it
was asked to work on (`new`, `old` or one of its own); `Assign` and `Delete`
are the method; `ReturnOK`, `ReturnSkip`, `ReturnOther` and `ReturnHash` are
what the handler makes of its result, `ReturnHash` with `for_numvals` and
`SPI_modifytuple`. `meant` is the row the hash stands for and `asked` the row
the methods so far asked for. Rows have dropped columns.

### PlValues: a value to Ruby and back

`PlValues` composes the operators of four modules: `PlArrays` (`create_array`,
`plruby_return_array`), `ConvBasic` (integers, times, intervals, with integer
timestamps; scaled: 8 values of an `int2`, 4 "microseconds" in a second),
`ConvBits` (bit strings, 2 bits to a byte) and `ConvGeo` (paths with their size
header, boxes). The operators are recursive functions and folds. An argument is
converted (`Init`), the method works on the object (an action per operation), a
block of `each` may run, and `Give` converts it back. `meant` is the value the
object stands for, by the mathematics of its type: that is the reference
definition the code is compared with.

Where the code is known not to agree with it, the kind of data or of operation
has a name, and `Odd` is the set of them. A value that met none must come back
as meant; with any kind dropped from `Odd`, `GivenAsMeant` or `ReadsInside`
fails, so the table says what these conversions do:

| Kind | Code | What happens |
|---|---|---|
| `wide` | `plruby_basic.c:39-65` | an Integer too wide for `int2` keeps its low bits |
| `early` | `plruby_basic.c:265` | a time before the epoch with a fraction: the negative remainder, as an unsigned number, is a RangeError |
| `fraction` | `plruby_basic.c:270-331`, `plpl.c:443-459` | there is no conversion to `timestamptz`: the text of the Time is parsed, which has whole seconds |
| `zoned` | `plruby_basic.c:191-268` | `time` and `timestamp` are read as UTC and written in the session's time zone |
| `months` | `plruby_basic.c:190-209` | an `interval` is a number of seconds, a month 30 days; its days are left out, and nothing comes back as months |
| `tinterval` | `plruby_datetime.c:67-91` | microseconds are given to `Time.at` as seconds; the Array that results has no way back |
| `bit_reference` | `plruby_bitstring.c:418-446` | `a[i]` shifts the byte in the string |
| `bit_assign` | `plruby_bitstring.c:507-532` | after `a[i] = bit` the string is that bit |
| `bit_length` | `plruby_bitstring.c:64-83` | a string of another length is cut or filled, as by a cast, where the backend refuses it |
| `each_empty` | `plruby_bitstring.c:315-335` | `each` of an empty string reads a byte behind it |
| `each_change` | `plruby_bitstring.c:313-335` | a block that changes the string: `each` goes on in memory that was freed |
| `new_path` | `plruby_geometry.c:1181-1227` | `Path.new` leaves the size 0, and copies of it take 0 bytes (backends up to 8.2) or the backend reads 0 |
| `concat` | `plruby_geometry.c:1318-1335` | `concat` hands the other path to `path_add_pt`, which takes a point |
| `null_item` | `plpl.c:1050-1062`, `499-508` | a NULL in an array is read as data; nil goes back as the empty string |
| `ragged` | `plpl.c:490-526` | rows of different lengths: as many values are read as the first ones promise |
| `empty` | `plpl.c:475-489` | the first item of an empty Array is read |
| `deep` | `plpl.c:480-486` | an array of `MAXDIM` dimensions is refused |
| `bounds` | `plpl.c:478` | lower bounds other than 1 become 1 |
| `row_change` | `plpl.c:422-460` | a changed row argument goes back as its `@plruby_tuple`, without the change |
| `dropped` | `plpl.c:1096-1099` | a record without its dropped columns has too few fields |
| `packed` | `plpl.c:407-418` | from 8.3 on, a short datum of a table has a header of one byte, which is not detoasted |

## Runs

| Run | Shows | Bounds |
|---|---|---|
| `trans_core` | blocks of well-behaved programs are nested transactions (`ImplementsNestedTxn`), a successful call ends them all (`CleanReturn`) and keeps no half statement; no savepoint name is open twice though `pl_in_transaction` starts again at 0 (`OwnSavepoint`) | 3 blocks, 3 rows, 5 levels: two levels of savepoints in the internal subtransaction, and a row in each |
| `trans_full` | the same stacks for every program inside a savepoint of the client: `OwnSavepoint`, `NoHalfStatement`, `AbortDiscards` | 3 blocks, 1 row, 5 levels, 1 name of the program |
| `trans_rescued_abort` | finding 1 | 1 block |
| `calls` | for every program: the flags, the level, `__functype__` and the timers are those of the activation that runs, a result is given; and unless what a nested function or the conversion of a result raised was rescued, a timed-out call ends and a live handler gets every ERROR | 2 calls of level 0, 6 activations, any number of rescues |
| `timeout_nested` | finding 2 | 1 call, 4 activations, no values to convert |
| `compile_current` | a call runs the current body (`RunsCurrent`), with refused types, timeouts in `pl_compile` and `VACUUM FREEZE`; a body that does not compile does not stop a later good one (`GoodCallStarts`) | 2 functions, 3 types, 3 bodies, 2 transactions, 2 nested calls |
| `compile_lost` | finding 3 | 1 function, no replacement |
| `rows` | blocks of plan.each and exec get the rows asked for, or the columns of the first, in order, once (`RowsInOrder`, `GivesAsked`); no table is freed twice (`FreedOnce`), no portal is left (`NoPortalLeft`), and `rewind` of a cursor used from blocks reaches its beginning (`RewindReachesStart`) | 2 queries or cursors of 0 or 3 rows in each other, portions of 2, 2 columns, 4 output forms, counts inside, at the end of and beyond a portion, and negative; `fetch` by 1 and by -2, 2 rows to a block of a cursor |
| `plans` | no plan, portal or argument is used after the code gave it back (`NothingFreedIsUsed`) and a saved plan stays (`SavedStays`) | 2 plans, 1 cursor, 4 activations: a call, a block in it, an execution, a call in that |
| `returns` | rows of a set are as many as were yielded or queried, and the same but for the cases the property names (`RowsAsYielded`), every connection ends (`ConnectionEnds`) and the set does (`SetEnds`) | all places and result types, 3 rows |
| `triggers` | the row written is the one asked for (`RowAsAsked`) | 2 triggers, 2 columns and a dropped one, 2 values |
| `values` | `GivenAsMeant`, `EachGivesBits`, `ReadsInside` but for the kinds of `Odd` | 15 types, strings of 5 bits, arrays up to 3 dimensions, 2 operations |

Two calls of level 0 are what an old timer needs to meet a new call; 6
activations are three functions in each other, or one that queries again after
a nested failure. Three transaction blocks let a throw pass a block in the
middle. For the cache, three bodies and two transactions are what two
replacements in one transaction, its rollback and a replacement in the next one
need; two types make a polymorphic function compile twice. Two triggers are what
a row needs to be handed on, and three rows of a set what it needs to have a
middle. Two bits to a byte and strings of five give two whole bytes and a part
of one. Deadlock is not checked where the program or the bounds may end the
behaviour: the call of `PlTrans`, the bounds of `PlCall` and `PlCompile`, the
last row or trigger, the datum given back.

Fairness. `PlCall!Fairness`: the main thread, the timer, the end of a query
and the unwinding of an exception are weakly fair, for Ruby's scheduler gives
every thread its turn and the C code between two switches ends. Neither Ruby
code nor the timer's sleep is fair: a function may run for ever. The two
properties about timeouts assume `RescuesEnd`, that the program does not rescue
for ever: the timer raises again every 50 ms, and a program that rescues each
timeout in a loop never ends (`plruby.c:401-407`).
`PlReturn!Fairness`: the executor asks for the next row, the code after the
method goes on, and the method ends; that it ends is an assumption on the
program, without which no set need end.

## Findings

1. `trans_rescued_abort`: after the program rescues an ERROR of `PL.exec`
   inside the outermost block, `SPI_finish` in `pl_intern_abort` fails
   (`pltrans.c:130`) with `trans->commit` set already: `abort` raises
   `PL::Catch` and nothing rolls the block's rows back.
2. `timeout_nested`: a program that rescues what a nested function raised runs
   on with `plruby_in_progress` set (`plruby.c:633`), and the timer, which waits
   for that flag, never raises in it again.
3. `compile_lost`: a call of a known polymorphic function with a type
   `pl_compile` refuses (`plruby.c:1043`) removes the method
   (`plruby.c:919`) and leaves the entry of `PLruby_hash`. From then on a call
   with the old types meets an undefined method, and one with other types fails
   in `rb_remove_method`, until the session ends. The same follows a timeout
   between the two places; `odd` keeps both out of `GoodCallStarts`.

Other places where code and documentation part, met while modelling and not
kept as runs:

- A program that rescues what the conversion of a value raised
  (`plpl.c:1161-1205`) is never interrupted again either, without any nested
  function: the exception of `from_datum` (1024) or of the inner region (1034)
  leaves the outer `PLRUBY_END_PROTECT` out (`EveryTimeoutEnds` with
  `GivesValues` TRUE and 2 activations). `PG_exception_stack` names a frame that
  is gone, too.
- With a block, a count of 1 and the output "hash" or "array", `plan.exec` never
  calls its block (`plplan.c:534-540`): `plruby_build_tuple` fills an array with
  the columns (`plpl.c:1223-1228`), which is dropped. `plruby.rd:720-722` says
  that the same happens as for `PL.exec`, which yields each column
  (`plruby.rd:626-656`; `FirstRowGiven` of `PlRows`).
- `pl_plan_save` frees the plan before it looks at the result of `SPI_saveplan`
  (`plplan.c:46`): where a second save is refused, the saved plan is lost, though
  `plruby.rd:805-808` saves it "for later execution" (`SavedForLater` of
  `PlPlan`).
- `abort` of the outermost block rolls back "the current subtransaction"
  (`pltrans.c:134`). After `savepoint` in that block the savepoint is current:
  the rows written before it stay (`AbortDiscards` at `ClientDepth` 0 with
  `SavepointNames` not empty), though `plruby.rd:846-847` says that `abort`
  aborts the transaction.
- `each` and `reverse_each` of a cursor go on from where the cursor is
  (`plplan.c:789-823`): `reverse_each` of a new cursor gives no row, a second
  `each` none, though `plruby.rd:818-835` iterates "over all rows"
  (`CursorGivesAll` of `PlRows`).
- With `RescueInBlock` a call may return success with an open subtransaction
  (`CleanReturn` and `NoHalfStatement` fail at `ClientDepth` 0), and with
  `PrepareErrors` too, because `plplan.c:209` swallows the ERROR without ending
  the SPI call.
- Once a failure of a nested function is rescued, the outer function's
  `SPI_finish` (`plpl.c:1599`) ends the connection of the nested one and refuses
  nothing. The connection of the outer one is left over, and later calls run
  with it below theirs.
- `StackIsCurrent` of `PlCompile` fails after `VACUUM FREEZE`: it gives the old
  and the new row the same `xmin`, and two definitions that were each the first
  command of a transaction have the same `cmin`; `pl_compile` does not compare
  the row's `ctid` and runs the old body.
- `FreedOnce` fails with `QueryInExec` TRUE: `pl_SPI_exec` and `pl_plan_execp`
  free `SPI_tuptable` after their block (`plpl.c:984`, `plplan.c:560`), and a
  SELECT run by the block has put a table there that it has freed itself. In
  the backends the regression tests name (7.3 to 8.4) that is a second
  `MemoryContextDelete` of one context.
- A plan that was not saved and a cursor are `stale` in `PlPlan` once their
  connection, transaction block or transaction is over, and so is what an
  execution uses after its own query released or saved its plan: `GetPlan` and
  `GetPortal` let a program use them.
- `PlReturn` gives other rows than were yielded in the select list of a backend
  up to 8.3, as `RowsAsYielded` says: `plpl.c:1429` keeps the array where Ruby
  does not look for it, a nil becomes the empty string, a short row reads past
  `values`; a returned query is not run there. `SystemKeys` of `PlTrigger`
  violates `RowAsAsked` (`attrs[-1]` and below are read).
- `PL.exec` with a hash of options and no "output" asks for no form at all
  (`plpl.c:890-893`): its rows are nil. `PL.exec` with "hash" or "array" and no
  block raises a LocalJumpError, for `plruby_build_tuple` yields the columns
  itself, and its table stays until the call ends (`ExecRows`).
- A set is complete when the method ends; it is not "called until it returns
  nil" (`plruby.rd:208-212`). A function that returns `refcursor` fails in FROM.
- `PG_CATCH` without `FlushErrorState` (`plruby.h:119-125`) leaves an entry on
  the backend's error stack for every ERROR a program rescues; it holds 5.
- `PL.context` is kept by value (`plpl.c:302-339`): two calls with equal keys
  share it. `query_free` never frees the backend's part of a saved plan.
- In the conversions: `Circle.new(Point, r)` tests the wrong variable
  (`plruby_geometry.c:1793`), `Circle#to_box` uses `poly_box` (1998),
  `box_diagonal` takes the object for its class (1049), distances between two
  segments or a box and a segment use the first one twice, `tinterval` from a
  string writes into its argument (`plruby_datetime.c:22`), marshalling writes
  `VARHDRSZ` bytes too many (`convcommon.h:27`).

## Proofs

Eight modules hold theorems. Each proves a safety property that a run checks for
small constants, for every value of them that the named assumptions allow. Every
invariant and every action property of the passing runs is proved, and so is the
refinement of `NestedTxn`. Where a property needs a class of programs, the
theorem has it as an assumption, and the text below names it.

`PlCallProofs`, from `BoundsAssumption` alone: `TypeOK`, `NoRaiseInBackend`,
`LevelIsDepth`, `OwnFunctype`, `OwnTimer`. None of them is inductive. `IInv`
adds: `Shape`, the stack is a function, a query, a function, ... and is empty
exactly when no worker runs, and nothing is above a conversion; `Curid`,
`_SPI_curid` is at least the number of queries on the stack, so it never goes
below 0; `Flag`, each query saved the value of `plruby_in_progress` of the Ruby
code around it, and each nested function saved 1; `Functype`, each function
saved the thread local of the one around it; `Timers`, no timer but that of the
current call is left once a call has begun. The proof has a step per action and
under it one per conjunct the action disturbs.

Its second part is about calls in which no exception was rescued that had left a
`PLRUBY_END_PROTECT` out: `RubyCanBeInterrupted`, `HandlerIsLive`,
`NothingAbandoned`. `CleanInv` adds to `IInv`: `Saved`, each activation saved
the `PG_exception_stack` of the one below it, and each query the flag 0; `Own`,
unless an exception has just left a nested function or a conversion, the globals
are those of the innermost activation; `Balance`, `_SPI_curid` and the
connections differ by what was abandoned, so that `SPI_finish` succeeds only if
nothing was. Such an exception breaks `Own` until it reaches the outermost one;
rescuing it sets `lost`, which ends all claims.

`PlCompileProofs` proves `RunsCurrent` for every set of functions and types and
every bound. Its `IInv` holds until rows are frozen and says why `xmin` and
`cmin` are enough: `Past`, every row was written by a command before the one
that comes next, so no stamp is used twice; `Distinct`, a function's current and
committed rows with the same stamp are the same row; `Cached`, a description was
made in the past, and where it matches the current or the committed row, the
method, if there is one, is that row's body. The committed row is in it because
a rollback makes it current again. `TypeOK` needs the bounds of what is on the
stack, and holds in every state, after a freeze too. `GoodCallStarts` rests on
`MethodsInv`: until a type is refused or a timeout comes late, a function that
`PLruby_hash` knows has its method, because the two places of `pl_compile` that
change one of them without the other are those `odd` remembers.

`PlPlanProofs` proves `SavedStays` and `NothingFreedIsUsed`, both for every
program, every number of plans, cursors and activations, and backends of either
kind. The invariant of the second has `PlansNotFreed` (no pointer is left to
what `plplan.c` freed), `Homes` (the connection that owns a live plan is still
there) and `Executions` (a query runs on a live plan whose connection is around
it, unless the query itself took the plan away), so that no end of a connection
can take a plan from under a query.

`PlReturnProofs` proves `ConnectionEnds` and `RowsAsYielded`, both for every
program and with the array collected between any two calls. Its invariant has a
part for each branch; for rows given one by one it says that `given` is the
beginning of `retary`, as far as `call_cntr`, but for the rows in `lost` and
those `FromCStrings` changes.

`PlTriggerProofs` proves `TypeOK`, and `RowAsAsked` if no method uses the name
of a system column. The invariant ties the hash to `meant`: every key that is a
column has the value of that column, and a column without key is NULL there,
which is what `modnulls` makes of it.

`PlRowsProofs` proves `RowsInOrder`, `GivesAsked` and `NoPortalLeft` for every
query, count, output form and size of a portion (`RowsInv`): what a block of
`exec` still has to be given is the rest of `Yields`; the portion of a
`plan.each` begins where the rows already given end, the portal stands behind
it, and no two blocks have the same portal, so a block inside another one moves
only its own. `FreedOnce` is proved under `~QueryInExec`, whose negation refutes
it: then a block of `exec` is always the innermost one, and every table that is
not freed belongs to one block (`TablesOK`). `TypeOK` needs `TypesInv`: a portal
stays between its two ends, though `RowsInv` does not care where a cursor is,
and the block of a cursor keeps no portion. For `RewindReachesStart` the loop of
`rewind` is a recursive function, and it is 0 everywhere: a function that
satisfies the recursive definition is shown, so that the definition has a
meaning, and the least position where it is not 0 would have been left for one
below it.

`PlTransProofs` first proves five properties of `PlTrans`, two of them for two
classes of programs. `TypeOK` holds for every program; the part of it that could
go wrong is that `_SPI_curid` stays above -1, for the end of a block takes one
from it that the end of a subtransaction may have taken before. Inside a
savepoint of the client no block has an SPI connection and nothing is taken. At
the top level `CurInv` says that only the outermost block has one, that the
second level is not a named savepoint, so that no name can end it under the
block, and that the connection of the call itself is never popped: `_SPI_curid`
is then set to a number that is large enough (`AtLeast`). `OwnSavepoint` holds
for every program, because `pl_in_transaction` is behind every number that is in
use (`NamesInv`). `NoHalfStatement` and `AbortDiscards` hold for every program
that is called inside a savepoint of the client (`ClientDepth > 0`), and for
every program that uses no savepoint of its own, rescues nothing inside a block
and prepares nothing that fails (the core); `CleanReturn` for the core. For the
first class `HalfInv` is enough: either nothing has failed half way, or the SPI
connection is raised for good and the call cannot succeed. For the core,
`CoreInv` says of every state that it is `Good` (one subtransaction to a block,
one connection to a level), `Unwinds` (an exception leaves the blocks one by one
and each ends its own) or `Hopeless` (the ERROR can only leave the call).
`AbortDiscards` speaks of a block and the rows written since: `BlocksInv` has
`Marked`, the rows in the levels beneath the one a block opened are no younger
than the block, so that ending its level leaves none of those written since.
Outside both classes `AbortDiscards` is what the run `trans_rescued_abort`
refutes.

Its last part proves that `PlTrans` implements `NestedTxn`, for the core and
every number of blocks, rows and levels. A call that runs and is not doomed is
`Good`, so each block has a level and `Blocks` maps one to the other. Of a block
that ends, the rows went to the level beneath (`Merged`), which is the commit of
`NestedTxn`, or are gone (`Dropped`), which is its abort; a row that is written
goes to the innermost block; and a call that is doomed stays so (`DoomedStays`),
which `NestedTxn` allows at any time and never takes back. All other steps
change nothing there.

`PlValuesProofs` proves the three properties of `PlValues`, each under the
assumption that the kinds which refute it are in `Odd`: `GivenAsMeant` needs
`GivenKinds`, the 17 kinds that lose a value; `EachGivesBits` the three of
`WalkKinds`; `ReadsInside` the eight of `TouchKinds`. These assumptions are no
stronger than they have to be: with any one kind of the set taken from `Odd`,
TLC refutes the property, but for `deep` and `bounds` of `TouchKinds`, which are
there because the invariant describes neither arrays of `MAXDIM` dimensions nor
those that do not start at 1. The invariant
says of each type how the object stands for what is meant: a string is the bits
(`BitsInv`), and while a block of `each` runs, it got those up to `walk.i` and
`x` still holds the rest of the byte (`Walked`); an array is the nesting of the
items along the dimensions (`Nested`), or empty (`Hollow`); a date is its
midnight, an interval its seconds, a path one that the backend made, and so on
(`ValueInv`). It is inductive because a kind that was met stays met.

What the operators compute is proved first, for more than the run's data:
`create_array` nests, and `plruby_return_array` finds again, the dimensions and
items of an array with any number of rows and columns (`CreateArrayIs`,
`ReturnArrayIs`); `each` finds every bit of a string of any length, for any size
of a byte (`EachStep`); a date survives any time zone (`MidnightIs`); an `int2`
any even number of values (`Int2Fits`). They are folds and recursive functions,
whose definitions choose a function and say nothing by themselves. That there is
one (`FoldExists`, `IterExists`), and that it computes what is claimed, is
proved by induction in the form of a set: a set of numbers with 0 and with the
next number of each is all of them (`SetInduction`), for the least number
outside would have one before it. Three assumptions on the constants are the
proofs' own: half of `ULong` holds a second's microseconds, as 2^63 does a
million; `MAXDIM` is at least 2 (the backend's is 6); and no value of an element
type is a sequence of such values, without which `Array#flatten` has no meaning
(`LeavesAssumption`).

`FairSpec` adds fairness to `PlCall` and `PlReturn`; `EndsAfterTimeout`,
`ResultIsGiven` and `SetEnds` are liveness and stay with TLC. The kinds of data
a conversion gets, the sets of `Datums`, are small in the theorems as in the
run, but for those whose size is a constant: strings up to `Column`, times up to
a day. Only the lemmas named above speak of all data.

## Plan

1. `PgXact`, `PlTrans` with its proofs, `NestedTxn`; `PlCall` with its proofs:
   done.
2. `PlCompile` with its proofs: done, but for the validator.
3. `PlRows`, `PlPlan`, `PlReturn`, `PlTrigger`: done, with proofs.
4. `PlArrays`, `ConvBasic`, `ConvBits`, `ConvGeo` with `PlValues`: done for the
   operations named there.
5. Left: a composition of `PlTrans` and `PlCall`, transactions in nested calls;
   the autoload threads of `plruby.c:128-253` and `pl_load_singleton`.
6. Proofs: done for every invariant and action property of the runs.

The runs are kept few, so that all of them can be repeated after every change:
a later module adds its questions to one run of its own, and runs whose
properties are proved by then are joined.

## Not modelled

- The threads that load the singleton methods and `PLtemp` in the background
  (`plruby.c:128-253`) and `pl_load_singleton` (`plruby.c:1438-1568`), whose
  methods are loaded on the first call and kept for the session.
- The validator, which compiles the function of its own `fcinfo`
  (`plruby.c:829`), and so no function a program calls.
- The backend's error stack, whose depth depends on how the backend itself
  reports errors.
- `plruby_spi_context` (`plruby.c:544`), which a nested call overwrites: the
  trigger handler may then switch to the context of a nested call that is over
  (`plruby.c:1360`), but `SPI_finish`, the next thing it calls, switches to the
  one its own connection saved.
- Of the conversions: everything that computes in floating point (most of
  geometry), the comparisons, shifts and logical operators handed to functions of
  the backend, parsing and formatting.
- What the description of a column holds (`RET_DESC`), `PL.context`,
  `PL.quote`, `PL.warn`.
- The build scripts have no state at run time. Memory contexts other than those
  of `PlPlan`, formatting and error messages are left out. `PrepareFails`,
  `Exec` and the conversions stand for every operation that calls the backend in
  the same way.
