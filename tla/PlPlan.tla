------------------------------- MODULE PlPlan -------------------------------
(***************************************************************************)
(* The plans and the portals behind the Ruby objects PL::Plan and          *)
(* PL::Cursor (src/plplan.c): who keeps them, and for how long.            *)
(*                                                                         *)
(* The Ruby objects are kept in global variables of the interpreter, so    *)
(* they outlive the call and the transaction that made them; what they     *)
(* point to belongs to an SPI connection, to the session or, for a portal, *)
(* to a (sub)transaction.  A pointer to what has ended with its owner is   *)
(* "stale", one to what this code gave back is "freed": the code can tell  *)
(* neither from "live", no more than C can.  What a program does to its    *)
(* plans is not limited; when it uses something stale, the model goes on   *)
(* as if nothing had happened.                                             *)
(*                                                                         *)
(* stack holds what is active, innermost last: calls of functions, blocks  *)
(* of transaction, executions of a plan and blocks of plan.each.  Programs *)
(* rescue Ruby exceptions, but let an ERROR of the backend end the call.   *)
(* Every plan has arguments.  Bounds: MaxDepth activations.                *)
(***************************************************************************)
EXTENDS Integers, Sequences

CONSTANTS
  Plans, Cursors,   \* Ruby objects
  MaxDepth,
  SavedTwice        \* what SPI_saveplan does with a plan that is saved: it
                    \* is "copied", or "refused" (8.3 and 8.4)

ASSUME PlanAssumption ==
  /\ MaxDepth \in Nat \ {0}
  /\ Plans \cap Cursors = {}
  /\ SavedTwice \subseteq {"copied", "refused"}

VARIABLES
  plans,    \* qdesc->plan, and the activation whose connection owns it
  cursors,  \* portal->portal, the level it was opened at, and the activation
            \* in whose memory the values of the arguments are, if any
  stack,    \* activations
  ctl,      \* an exception on its way: "ruby", or "error" of the backend
  orphans,  \* where the argument values of portals the program cannot reach
            \* any more are; they wait for the garbage collector
  saved,    \* plans that were saved and not released
  refused,  \* of those, the ones saved again and refused
  touched   \* history: what the last memory used was

vars == <<plans, cursors, stack, ctl, orphans, saved, refused, touched>>

-----------------------------------------------------------------------------
(* The backend: connections, transaction levels, the memory of a call *)

Session == 0    \* the owner of a saved plan
Nowhere == -1   \* the place of memory that was given back

Frames(kinds) == {i \in DOMAIN stack : stack[i].kind \in kinds}

Innermost(kinds) ==
  CHOOSE i \in Frames(kinds) : \A j \in Frames(kinds) : j <= i

(* Only the outermost block of transaction makes an SPI connection.        *)
Connected(i) ==
  /\ stack[i].kind \in {"call", "block"}
  /\ stack[i].kind = "block" =>
       \A j \in DOMAIN stack : j < i => stack[j].kind # "block"

(* The innermost connection: it owns what is prepared and converted.       *)
Connection ==
  {i \in DOMAIN stack :
     Connected(i) /\ \A j \in DOMAIN stack : Connected(j) => j <= i}

Level == LET Blocks == Frames({"block"}) IN
         IF Blocks = {} THEN 0 ELSE Innermost({"block"})

Pop(s) == SubSeq(s, 1, Len(s) - 1)

Top == stack[Len(stack)]

(* Ruby code runs, of a function or of a block.                            *)
Running ==
  /\ ctl = "run" /\ stack # <<>>
  /\ Top.kind \in {"call", "block", "each"}

Push(frame) ==
  /\ Len(stack) < MaxDepth
  /\ stack' = Append(stack, frame)

(* What is left of plans and of memory when activation i is over.          *)
PlansAfter(i) ==
  [p \in Plans |-> IF plans[p].ptr = "live" /\ plans[p].home = i
                   THEN [plans[p] EXCEPT !.ptr = "stale"] ELSE plans[p]]

Memory(place, i) == IF place = i THEN Nowhere ELSE place

MemoryAfter(places, i) == {Memory(place, i) : place \in places}

(* Portals of level i and above are dropped, or given to the level below.  *)
OpenedIn(c, i) == cursors[c].level >= i

PortalsAfter(i, commit) ==
  [c \in Cursors |->
    IF ~OpenedIn(c, i) THEN cursors[c]
    ELSE IF commit
    THEN [cursors[c] EXCEPT !.level =
            LET Below == {j \in Frames({"block"}) : j < i} IN
            IF Below = {} THEN 0
            ELSE CHOOSE j \in Below : \A k \in Below : k <= j]
    ELSE [cursors[c] EXCEPT
            !.ptr = IF @ = "live" THEN "stale" ELSE @, !.level = 0]]

-----------------------------------------------------------------------------
(* PL::Plan *)

NoPlan == [ptr |-> "null", home |-> Session]

NoCursor == [ptr |-> "null", level |-> 0, args |-> {}]

Init ==
  /\ plans = [p \in Plans |-> NoPlan]
  /\ cursors = [c \in Cursors |-> NoCursor]
  /\ stack = <<>> /\ ctl = "run"
  /\ orphans = {} /\ saved = {} /\ refused = {}
  /\ touched = "live"

Raise(kind) == ctl' = kind

(* The last memory used; what is stale was left so by the program.         *)
Use(thing) == touched' = thing.ptr

(* SPI_saveplan copies the plan, SPI_freeplan frees the one it was.        *)
Copied(plan) == [plan EXCEPT !.home = Session]

(* An execution of p that still runs when the memory of p is freed: what   *)
(* it uses from then on, its own query took away.                          *)
Freed(p) ==
  [i \in DOMAIN stack |->
    IF stack[i].kind = "exec" /\ stack[i].plan = p
    THEN [stack[i] EXCEPT !.sound = FALSE] ELSE stack[i]]

Executing(p) == \E i \in Frames({"exec"}) : stack[i].plan = p

SaveAsked_none(save) == FALSE

SaveAsked(save) == save

(* PL::Plan.new, or with save PL.prepare: the types of the arguments are   *)
(* looked up and the query is parsed.  The object that was in the variable *)
(* is dropped; no execution of it is left then, for a running method keeps *)
(* its object.                                                             *)
NewPlan(p, save) ==
  /\ Running
  /\ ~Executing(p)
  /\ \E owner \in Connection :
       LET plan == [ptr |-> "live", home |-> owner] IN
       plans' = [plans EXCEPT ![p] =
                   IF SaveAsked(save) THEN Copied(plan) ELSE plan]
  /\ saved' = IF save THEN saved \cup {p} ELSE saved \ {p}
  /\ refused' = refused \ {p}
  /\ UNCHANGED <<cursors, stack, ctl, orphans, touched>>

(* A type does not exist ("error": PLRUBY_END_PROTECT), or the query does  *)
(* not parse: PL::Error, the ERROR was swallowed.                          *)
PrepareFails ==
  /\ Running
  /\ \E kind \in {"ruby", "error"} : Raise(kind)
  /\ UNCHANGED <<plans, cursors, stack, orphans, saved, refused, touched>>

(* GetPlan: only a pointer that is NULL is told from one that is good.     *)
Dropped(p) == plans[p].ptr = "null"

PlanIsDropped(p) ==
  /\ Running
  /\ Dropped(p)
  /\ Raise("ruby")
  /\ UNCHANGED <<plans, cursors, stack, orphans, saved, refused, touched>>

SavePlan(p) ==
  /\ Running
  /\ ~Dropped(p)
  /\ plans[p].home # Session \/ "copied" \in SavedTwice
  /\ Use(plans[p])
  /\ plans' = [plans EXCEPT ![p] = Copied(@)]
  /\ stack' = Freed(p)
  /\ saved' = IF plans[p].ptr = "live" THEN saved \cup {p} ELSE saved
  /\ UNCHANGED <<cursors, ctl, orphans, refused>>

(* SPI_saveplan returns NULL; SPI_freeplan has freed the plan all the same *)
(* when pl_plan_save looks at the result.                                  *)
SaveRefused(p) ==
  /\ Running
  /\ ~Dropped(p)
  /\ plans[p].home = Session /\ "refused" \in SavedTwice
  /\ Use(plans[p])
  /\ plans' = [plans EXCEPT ![p] = NoPlan]
  /\ stack' = Freed(p)
  /\ refused' = refused \cup {p}
  /\ Raise("ruby")
  /\ UNCHANGED <<cursors, orphans, saved>>

Released_kept(plan) == [plan EXCEPT !.ptr = "freed"]

Released(plan) == NoPlan

ReleasePlan(p) ==
  /\ Running
  /\ ~Dropped(p)
  /\ Use(plans[p])
  /\ plans' = [plans EXCEPT ![p] = Released(@)]
  /\ stack' = Freed(p)
  /\ saved' = saved \ {p}
  /\ UNCHANGED <<cursors, ctl, orphans, refused>>

-----------------------------------------------------------------------------
(* Arguments: process_args converts them in the memory of the connection.  *)

(* The values of the first arguments are converted when a later one fails, *)
(* or when their number is wrong there is none.                            *)
ArgumentsFail(p) ==
  /\ Running
  /\ ~Dropped(p)
  /\ \E kind \in {"ruby", "error"} : Raise(kind)
  /\ orphans' = orphans \cup Connection
  /\ UNCHANGED <<plans, cursors, stack, saved, refused, touched>>

(* free_args gives the values back, where the portal has arguments.        *)
FreeArgs(nargs, args) == IF nargs = 0 THEN {} ELSE {args}

NoArgs_kept(nargs) == nargs

(* portal_free sets nargs to 0 before it calls free_args, so that what the *)
(* values were in does not matter.                                         *)
NoArgs(nargs) == 0

PortalFree(args) == FreeArgs(NoArgs(1), args)

(* The garbage collector meets a portal object nobody refers to.           *)
Collect ==
  /\ \E args \in orphans :
       /\ orphans' = orphans \ {args}
       /\ touched' = IF Nowhere \in PortalFree(args)
                     THEN "freed" ELSE touched
  /\ UNCHANGED <<plans, cursors, stack, ctl, saved, refused>>

(* plan.exec: SPI_execp runs the query.                                    *)
Exec(p) ==
  /\ Running
  /\ ~Dropped(p)
  /\ Use(plans[p])
  /\ Push([kind |-> "exec", plan |-> p, sound |-> plans[p].ptr = "live"])
  /\ UNCHANGED <<plans, cursors, ctl, orphans, saved, refused>>

(* The query is over: SPI reads the plan to its end.  free_args gives the  *)
(* values back and leaves nargs.                                           *)
ExecEnds ==
  /\ ctl = "run" /\ stack # <<>> /\ Top.kind = "exec"
  /\ touched' = IF ~Top.sound THEN "stale"
                ELSE IF plans[Top.plan].ptr = "live" THEN "live" ELSE "freed"
  /\ stack' = Pop(stack)
  /\ orphans' = orphans \cup {Nowhere}
  /\ UNCHANGED <<plans, cursors, ctl, saved, refused>>

(* The query fails, in the backend or in a function it called: the values  *)
(* of its arguments are left to the garbage collector.                     *)
ExecFails ==
  /\ stack # <<>> /\ Top.kind = "exec"
  /\ Raise("error")
  /\ stack' = Pop(stack)
  /\ orphans' = orphans \cup Connection
  /\ UNCHANGED <<plans, cursors, saved, refused, touched>>

-----------------------------------------------------------------------------
(* plan.each and PL::Cursor *)

(* SPI_cursor_open copies what it needs of the plan.                       *)
Each(p) ==
  /\ Running
  /\ ~Dropped(p)
  /\ Use(plans[p])
  /\ Push([kind |-> "each"])
  /\ orphans' = orphans \cup {Nowhere}
  /\ UNCHANGED <<plans, cursors, ctl, saved, refused>>

(* No row is left, or an exception leaves the block: pl_close (rb_ensure). *)
(* The portal is there: it is of the level that runs, or of one around it. *)
EachEnds ==
  /\ stack # <<>> /\ Top.kind = "each"
  /\ stack' = Pop(stack)
  /\ UNCHANGED <<plans, cursors, ctl, orphans, saved, refused, touched>>

(* plan.cursor; the object that was in the variable is garbage.  Its       *)
(* portal stays open.                                                      *)
OpenCursor(c, p) ==
  /\ Running
  /\ ~Dropped(p)
  /\ Use(plans[p])
  /\ orphans' = orphans \cup cursors[c].args
  /\ cursors' = [cursors EXCEPT
       ![c] = [ptr |-> "live", level |-> Level, args |-> Connection]]
  /\ UNCHANGED <<plans, stack, ctl, saved, refused>>

(* GetPortal *)
CursorIsClosed(c) ==
  /\ Running
  /\ cursors[c].ptr = "null"
  /\ Raise("ruby")
  /\ UNCHANGED <<plans, cursors, stack, orphans, saved, refused, touched>>

(* fetch, move, rewind, each, portal_name.                                 *)
UseCursor(c) ==
  /\ Running
  /\ cursors[c].ptr # "null"
  /\ Use(cursors[c])
  /\ UNCHANGED <<plans, cursors, stack, ctl, orphans, saved, refused>>

Closed(cursor) == [cursor EXCEPT !.ptr = "null"]

CloseCursor(c) ==
  /\ Running
  /\ cursors[c].ptr # "null"
  /\ Use(cursors[c])
  /\ cursors' = [cursors EXCEPT ![c] = Closed(@)]
  /\ UNCHANGED <<plans, stack, ctl, orphans, saved, refused>>

-----------------------------------------------------------------------------
(* Calls, blocks of transaction, exceptions *)

(* The client calls a function, or a query that runs does.                 *)
BeginCall ==
  /\ ctl = "run"
  /\ stack # <<>> => Top.kind = "exec"
  /\ Push([kind |-> "call"])
  /\ UNCHANGED <<plans, cursors, ctl, orphans, saved, refused, touched>>

ArgsAfter(cursor, i) == [cursor EXCEPT !.args = MemoryAfter(@, i)]

(* A call of level 0 that fails takes the client's transaction with it.    *)
EndCall ==
  /\ stack # <<>> /\ Top.kind = "call"
  /\ LET i == Len(stack)
         aborts == i = 1 /\ ctl # "run" IN
     /\ stack' = Pop(stack)
     /\ plans' = PlansAfter(i)
     /\ orphans' = MemoryAfter(orphans, i)
     /\ ctl' = IF i = 1 \/ ctl = "run" THEN "run" ELSE "error"
     /\ cursors' = [c \in Cursors |->
          [ArgsAfter(cursors[c], i) EXCEPT
             !.ptr = IF aborts /\ @ = "live" THEN "stale" ELSE @]]
  /\ UNCHANGED <<saved, refused, touched>>

Transaction ==
  /\ Running
  /\ Push([kind |-> "block"])
  /\ UNCHANGED <<plans, cursors, ctl, orphans, saved, refused, touched>>

(* The block ends: its subtransaction is kept, or rolled back.             *)
EndBlock ==
  /\ stack # <<>> /\ Top.kind = "block"
  /\ LET i == Len(stack) IN
     \E commit \in BOOLEAN :
       /\ commit => ctl = "run"
       /\ stack' = Pop(stack)
       /\ IF Connected(i)
          THEN /\ plans' = PlansAfter(i)
               /\ orphans' = MemoryAfter(orphans, i)
               /\ cursors' = [c \in Cursors |->
                                ArgsAfter(PortalsAfter(i, commit)[c], i)]
          ELSE /\ cursors' = PortalsAfter(i, commit)
               /\ UNCHANGED <<plans, orphans>>
  /\ UNCHANGED <<ctl, saved, refused, touched>>

(* The client's transaction ends; so do its portals.                       *)
EndTransaction ==
  /\ stack = <<>>
  /\ cursors' = [c \in Cursors |->
       [cursors[c] EXCEPT !.ptr = IF @ = "live" THEN "stale" ELSE @]]
  /\ UNCHANGED <<plans, stack, ctl, orphans, saved, refused, touched>>

ProgramRaises ==
  /\ Running
  /\ Raise("ruby")
  /\ UNCHANGED <<plans, cursors, stack, orphans, saved, refused, touched>>

Rescue ==
  /\ ctl = "ruby" /\ Top.kind \in {"call", "block", "each"}
  /\ ctl' = "run"
  /\ UNCHANGED <<plans, cursors, stack, orphans, saved, refused, touched>>

Next ==
  \/ \E p \in Plans :
       \/ \E save \in BOOLEAN : NewPlan(p, save)
       \/ PlanIsDropped(p) \/ SavePlan(p) \/ SaveRefused(p) \/ ReleasePlan(p)
       \/ ArgumentsFail(p) \/ Exec(p) \/ Each(p)
       \/ \E c \in Cursors : OpenCursor(c, p)
  \/ \E c \in Cursors : CursorIsClosed(c) \/ UseCursor(c) \/ CloseCursor(c)
  \/ PrepareFails \/ Collect \/ ExecEnds \/ ExecFails \/ EachEnds
  \/ BeginCall \/ EndCall \/ Transaction \/ EndBlock \/ EndTransaction
  \/ ProgramRaises \/ Rescue

Spec == Init /\ [][Next]_vars

-----------------------------------------------------------------------------
Pointers == {"null", "live", "stale", "freed"}

(* plruby.h:268-282 and plplan.c:372-382: whatever a program does, the     *)
(* code uses no plan and no portal it has given back itself, a query runs  *)
(* to its end on a plan that is there unless the query took it away, and   *)
(* the garbage collector does not free the values of arguments that went   *)
(* with their connection.                                                  *)
NothingFreedIsUsed == touched # "freed"

(* plplan.c:35-68: a plan that was saved is good in every later call,      *)
(* whatever blocks and calls it was saved in, until it is released, or     *)
(* saved again and refused.                                                *)
SavedStays ==
  \A p \in saved \ refused : plans[p] = [ptr |-> "live", home |-> Session]

(* plruby.rd:805-808: a plan that was saved is there for later executions. *)
SavedForLater ==
  \A p \in saved : plans[p] = [ptr |-> "live", home |-> Session]

=============================================================================
