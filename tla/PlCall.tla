------------------------------- MODULE PlCall -------------------------------
(***************************************************************************)
(* Calls of PL/Ruby functions in one backend built with --with-timeout:    *)
(* pl_internal_call_handler, pl_real_handler and pl_protect of             *)
(* src/plruby.c, the timer pl_timer, and the PLRUBY_BEGIN and PLRUBY_END   *)
(* macros of src/plruby.h, for functions that call PL.exec, whose queries  *)
(* may call PL/Ruby functions again and whose rows plruby_build_tuple of   *)
(* src/plpl.c converts.  PL.exec has no block here (PlRows).               *)
(*                                                                         *)
(* Three Ruby threads run: the main one, which waits for a worker, the     *)
(* worker, which runs the function, and the timer.  They share the         *)
(* interpreter lock, which is given up in Ruby code and in rb_funcall, so  *)
(* an action is the C code between two such points.                        *)
(*                                                                         *)
(* Bounds: MaxCalls calls of level 0, MaxAct activations of a function or  *)
(* of PL.exec in all.                                                      *)
(***************************************************************************)
EXTENDS Integers, Sequences

CONSTANTS
  MaxCalls, MaxAct,
  GivesValues  \* some queries give rows, with values to convert

ASSUME BoundsAssumption ==
  MaxCalls \in Nat /\ MaxAct \in Nat /\ GivesValues \in BOOLEAN

VARIABLES
  stack,        \* activations in the worker, innermost last
  ctl,          \* "run", "returned", or the class of the exception going up
  skipped,      \* the exception going up left a PLRUBY_END_PROTECT out
  in_progress,  \* plruby_in_progress
  interrupted,  \* plruby_interrupted
  call_level,   \* pl_call_level
  functype,     \* thread local "__functype__": whose it is, 0 nil
  eh,           \* PG_exception_stack: the activation it longjmps to, 0 the backend's
  conn, cur,    \* _SPI_connected + 1, _SPI_curid + 1
  abandoned,    \* a query of this call was left without an end
  main,         \* "idle", "waiting", "killing"
  worker,       \* "none", "running", "ok", "failed"
  timer,        \* of each call: "none", "sleeping", "polling"
  calls, acts,
  lost          \* history: an exception that had skipped one was rescued

vars == <<stack, ctl, skipped, in_progress, interrupted, call_level, functype,
          eh, conn, cur, abandoned, main, worker, timer, calls, acts, lost>>

spi     == <<conn, cur>>
threads == <<main, worker, timer>>
count   == <<calls, acts, lost>>

-----------------------------------------------------------------------------
Exceptions == {"error", "catch"}

(* An activation: of a function ("call") with the functype it found and    *)
(* the one it set, of PL.exec while its query runs ("exec"), or of PL.exec *)
(* while plruby_build_tuple converts what the query gave ("convert").      *)
(* Each keeps the plruby_in_progress and PG_exception_stack it found.      *)
Activation(kind, found, mine) ==
  [id |-> acts + 1, kind |-> kind, in_progress |-> in_progress, eh |-> eh,
   found |-> found, mine |-> mine]

Top == stack[Len(stack)]

Below(n) == SubSeq(stack, 1, Len(stack) - n)

InRuby == worker = "running" /\ stack # <<>> /\ Top.kind = "call"

InBackend == worker = "running" /\ stack # <<>> /\ Top.kind # "call"

InQuery == InBackend /\ Top.kind = "exec"

InConversion == InBackend /\ Top.kind = "convert"

Level0 == Len(stack) = 1

SPI_usable == cur + 1 = conn

Alive == {c \in 1..MaxCalls : timer[c] # "none"}

Init ==
  /\ stack = <<>> /\ ctl = "run" /\ skipped = FALSE
  /\ in_progress = 0 /\ interrupted = FALSE /\ call_level = 0
  /\ functype = 0 /\ eh = 0 /\ conn = 0 /\ cur = 0 /\ abandoned = FALSE
  /\ main = "idle" /\ worker = "none"
  /\ timer = [c \in 1..MaxCalls |-> "none"]
  /\ calls = 0 /\ acts = 0 /\ lost = FALSE

(* PLRUBY_END puts back the plruby_in_progress that PLRUBY_BEGIN found. *)
EndRegion_none == UNCHANGED in_progress  \* mutant: no PLRUBY_END

EndRegion == in_progress' = Top.in_progress

(* PG_END_TRY and PG_CATCH put back the PG_exception_stack. *)
EndTry_none == UNCHANGED eh  \* mutant: no PG_END_TRY

EndTry == eh' = Top.eh

LeaveLevel_twice == call_level' = call_level - 2  \* mutant

LeaveLevel_success ==  \* mutant: an exception skips it
  call_level' = IF ctl = "returned" THEN call_level - 1 ELSE call_level

LeaveLevel == call_level' = call_level - 1

RestoreFunctype_success ==  \* mutant: an exception skips it
  functype' = IF ctl = "returned" THEN Top.found ELSE functype

RestoreFunctype == functype' = Top.found

-----------------------------------------------------------------------------
(* The main thread *)

(* pl_internal_call_handler at level 0: SPI_connect, and a worker that     *)
(* creates its timer before it runs the function.                          *)
StartCall ==
  /\ main = "idle" /\ calls < MaxCalls /\ acts < MaxAct
  /\ cur = conn /\ conn' = conn + 1
  /\ interrupted' = FALSE /\ in_progress' = 0
  /\ call_level' = call_level + 1
  /\ main' = "waiting" /\ worker' = "running"
  /\ timer' = [timer EXCEPT ![calls + 1] = "sleeping"]
  /\ \E mine \in {0, acts + 1} :
       /\ stack' = <<Activation("call", 0, mine)>>
       /\ functype' = mine
  /\ eh' = acts + 1
  /\ ctl' = "run" /\ skipped' = FALSE /\ abandoned' = FALSE
  /\ calls' = calls + 1 /\ acts' = acts + 1 /\ lost' = FALSE
  /\ UNCHANGED cur

WorkerOver_ok == worker = "ok"  \* mutant: a failed worker is not joined

WorkerOver == worker \in {"ok", "failed"}

(* pl_thread_value gave the result: the flags are reset, and the threads   *)
(* left are killed with plruby_in_progress set.                            *)
WorkerJoined ==
  /\ main = "waiting" /\ WorkerOver
  /\ main' = "killing"
  /\ interrupted' = FALSE /\ in_progress' = 1 /\ call_level' = 0
  /\ UNCHANGED <<stack, ctl, skipped, functype, eh, abandoned, worker, timer>>
  /\ UNCHANGED <<spi, count>>

KillTimer ==
  /\ main = "killing"
  /\ \E c \in Alive : timer' = [timer EXCEPT ![c] = "none"]
  /\ UNCHANGED <<stack, ctl, skipped, in_progress, interrupted, call_level,
                 functype, eh, abandoned, main, worker>>
  /\ UNCHANGED <<spi, count>>

NoThreadLeft_unchecked == TRUE  \* mutant: the threads are not killed

NoThreadLeft == Alive = {}

(* The result is returned, or an ERROR aborts the client's transaction,    *)
(* and with it the SPI stack.                                              *)
EndCall ==
  /\ main = "killing" /\ NoThreadLeft
  /\ main' = "idle" /\ in_progress' = 0 /\ worker' = "none"
  /\ IF worker = "failed" THEN conn' = 0 /\ cur' = 0 ELSE UNCHANGED spi
  /\ UNCHANGED <<stack, ctl, skipped, interrupted, call_level, functype, eh,
                 abandoned, timer>>
  /\ UNCHANGED count

-----------------------------------------------------------------------------
(* The timer *)

TimeIsOver ==
  /\ \E c \in Alive :
       timer[c] = "sleeping" /\ timer' = [timer EXCEPT ![c] = "polling"]
  /\ interrupted' = TRUE
  /\ UNCHANGED <<stack, ctl, skipped, in_progress, call_level, functype, eh,
                 abandoned, main, worker>>
  /\ UNCHANGED <<spi, count>>

(* Every 50 ms: end when the worker is dead, else raise "timeout" in it if *)
(* plruby_in_progress is not set.                                          *)
TimerSeesDead ==
  /\ \E c \in Alive :
       /\ timer[c] = "polling" /\ ~(c = calls /\ worker = "running")
       /\ timer' = [timer EXCEPT ![c] = "none"]
  /\ UNCHANGED <<stack, ctl, skipped, in_progress, interrupted, call_level,
                 functype, eh, abandoned, main, worker>>
  /\ UNCHANGED <<spi, count>>

TimerRaises_once ==  \* mutant: the timer ends after it has raised
  /\ worker = "running" /\ timer[calls] = "polling"
  /\ in_progress = 0 /\ ctl = "run"
  /\ ctl' = "error" /\ skipped' = FALSE
  /\ timer' = [timer EXCEPT ![calls] = "none"]
  /\ UNCHANGED <<stack, in_progress, interrupted, call_level, functype, eh,
                 abandoned, main, worker>>
  /\ UNCHANGED <<spi, count>>

TimerRaises ==
  /\ worker = "running" /\ timer[calls] = "polling"
  /\ in_progress = 0 /\ ctl = "run"
  /\ ctl' = "error" /\ skipped' = FALSE
  /\ UNCHANGED <<stack, in_progress, interrupted, call_level, functype, eh,
                 abandoned, threads>>
  /\ UNCHANGED <<spi, count>>

-----------------------------------------------------------------------------
(* PL.exec *)

(* PLRUBY_BEGIN_PROTECT(1) and SPI_exec; SPI_ERROR_UNCONNECTED is raised   *)
(* when the call does not own the SPI stack.                               *)
Exec ==
  /\ InRuby /\ ctl = "run"
  /\ UNCHANGED <<interrupted, call_level, functype, abandoned, threads>>
  /\ UNCHANGED <<conn, calls, lost>>
  /\ IF interrupted \/ ~SPI_usable
     THEN /\ ctl' = "error" /\ skipped' = FALSE
          /\ UNCHANGED <<stack, in_progress, eh, cur, acts>>
     ELSE /\ acts < MaxAct
          /\ stack' = Append(stack, Activation("exec", functype, functype))
          /\ acts' = acts + 1
          /\ in_progress' = 1 /\ eh' = acts + 1 /\ cur' = cur + 1
          /\ UNCHANGED <<ctl, skipped>>

(* PLRUBY_END_PROTECT: PL.exec is left, or raises "timeout".               *)
EndProtect ==
  /\ stack' = Below(1)
  /\ EndRegion /\ EndTry
  /\ IF interrupted THEN ctl' = "error" /\ skipped' = FALSE
                    ELSE UNCHANGED <<ctl, skipped>>

(* The query ends.  When it gave a value, plruby_build_tuple begins a      *)
(* region of its own at once, for which PL.exec finds the same flags.      *)
ExecEnds ==
  /\ InQuery /\ ctl = "run"
  /\ cur' = cur - 1
  /\ \/ EndProtect
     \/ /\ ~interrupted /\ GivesValues
        /\ stack' = [stack EXCEPT ![Len(stack)].kind = "convert"]
        /\ UNCHANGED <<ctl, skipped, in_progress, eh>>
  /\ UNCHANGED <<interrupted, call_level, functype, conn, abandoned, threads>>
  /\ UNCHANGED count

(* PG_CATCH turns an ERROR of the backend into PL::Catch. *)
CatchError ==
  /\ stack' = Below(1)
  /\ EndRegion /\ EndTry
  /\ ctl' = "catch" /\ skipped' = FALSE

(* The query fails; the SPI call is not ended. *)
ExecFails ==
  /\ InQuery /\ ctl = "run"
  /\ CatchError
  /\ abandoned' = TRUE
  /\ UNCHANGED <<interrupted, call_level, functype, spi, threads>>
  /\ UNCHANGED count

(* The values are converted: the outer PLRUBY_END_PROTECT. *)
ConvertEnds ==
  /\ InConversion /\ ctl = "run"
  /\ EndProtect
  /\ UNCHANGED <<interrupted, call_level, functype, spi, abandoned, threads>>
  /\ UNCHANGED count

(* The backend raises an ERROR between the outer macros, outside of the    *)
(* inner ones.                                                             *)
ConvertFails ==
  /\ InConversion /\ ctl = "run"
  /\ CatchError
  /\ UNCHANGED <<interrupted, call_level, functype, spi, abandoned, threads>>
  /\ UNCHANGED count

(* from_datum raises, or the macros around the output function raise       *)
(* "timeout" or PL::Catch: the outer PLRUBY_END_PROTECT is left out.  The  *)
(* inner macros put back what the outer PLRUBY_BEGIN_PROTECT had set.      *)
ConvertRaises ==
  /\ InConversion /\ ctl = "run"
  /\ stack' = Below(1)
  /\ ctl' \in Exceptions /\ skipped' = TRUE
  /\ UNCHANGED <<in_progress, interrupted, call_level, functype, eh, spi,
                 abandoned, threads>>
  /\ UNCHANGED count

(* rb_raise out of the handler of a nested call: it leaves the handler and *)
(* the PL.exec whose query called it without PLRUBY_END_PROTECT.           *)
RaiseOutOfExec(n, k) ==
  /\ stack' = Below(n)
  /\ ctl' = k /\ skipped' = TRUE /\ abandoned' = TRUE

(* The query calls a PL/Ruby function: pl_internal_call_handler at a       *)
(* level above 0, in the same thread.                                      *)
QueryCalls ==
  /\ InQuery /\ ctl = "run" /\ acts < MaxAct
  /\ cur = conn /\ conn' = conn + 1
  /\ UNCHANGED <<interrupted, cur, threads, calls, lost>>
  /\ IF interrupted
     THEN /\ functype' = 0
          /\ RaiseOutOfExec(1, "error")
          /\ UNCHANGED <<in_progress, call_level, eh, acts>>
     ELSE /\ \E mine \in {0, acts + 1} :
               /\ stack' = Append(stack, Activation("call", functype, mine))
               /\ functype' = mine
          /\ in_progress' = 0 /\ eh' = acts + 1
          /\ call_level' = call_level + 1
          /\ acts' = acts + 1
          /\ UNCHANGED <<ctl, skipped, abandoned>>

-----------------------------------------------------------------------------
(* The function *)

Raise ==
  /\ InRuby /\ ctl = "run"
  /\ ctl' = "error" /\ skipped' = FALSE
  /\ UNCHANGED <<stack, in_progress, interrupted, call_level, functype, eh,
                 abandoned, threads>>
  /\ UNCHANGED <<spi, count>>

Rescue ==
  /\ InRuby /\ ctl \in Exceptions
  /\ lost' = (lost \/ skipped)
  /\ ctl' = "run" /\ skipped' = FALSE
  /\ UNCHANGED <<stack, in_progress, interrupted, call_level, functype, eh,
                 abandoned, threads>>
  /\ UNCHANGED <<spi, calls, acts>>

FinishRefused_unchecked == FALSE  \* mutant: SPI_finish is not checked

FinishRefused == ~SPI_usable

(* The function is over: plruby_return_value calls SPI_finish between      *)
(* PLRUBY_BEGIN_PROTECT and PLRUBY_END_PROTECT.                            *)
FunctionEnds ==
  /\ InRuby /\ ctl = "run"
  /\ IF interrupted THEN ctl' = "error" /\ UNCHANGED conn
     ELSE IF FinishRefused THEN ctl' = "catch" /\ UNCHANGED conn
     ELSE ctl' = "returned" /\ conn' = conn - 1
  /\ skipped' = FALSE
  /\ UNCHANGED <<stack, in_progress, interrupted, call_level, functype, eh,
                 cur, abandoned, threads>>
  /\ UNCHANGED count

(* The end of pl_real_handler and of pl_internal_call_handler.  At level 0 *)
(* the worker is over; above, PLRUBY_END gives back plruby_in_progress and *)
(* may raise "timeout", and a failed result is raised again.               *)
HandlerEnds ==
  /\ InRuby /\ ctl \in Exceptions \cup {"returned"}
  /\ LeaveLevel /\ EndTry
  /\ IF Level0
     THEN /\ worker' = IF ctl = "returned" THEN "ok" ELSE "failed"
          /\ stack' = <<>> /\ functype' = 0 /\ ctl' = "run" /\ skipped' = FALSE
          /\ UNCHANGED <<in_progress, abandoned>>
     ELSE /\ EndRegion
          /\ UNCHANGED worker
          /\ IF interrupted
             THEN RaiseOutOfExec(2, "error") /\ UNCHANGED functype
             ELSE /\ RestoreFunctype
                  /\ IF ctl = "returned"
                     THEN /\ stack' = Below(1) /\ ctl' = "run"
                          /\ UNCHANGED <<skipped, abandoned>>
                     ELSE RaiseOutOfExec(2, ctl)
  /\ UNCHANGED <<interrupted, main, timer>>
  /\ UNCHANGED <<spi, count>>

Next ==
  \/ StartCall \/ WorkerJoined \/ KillTimer \/ EndCall
  \/ TimeIsOver \/ TimerSeesDead \/ TimerRaises
  \/ Exec \/ ExecEnds \/ ExecFails \/ QueryCalls
  \/ ConvertEnds \/ ConvertFails \/ ConvertRaises
  \/ Raise \/ Rescue \/ FunctionEnds \/ HandlerEnds

(* The threads take turns, so what a thread can do without the program's   *)
(* help it does: queries end, exceptions go up, the main thread and the    *)
(* timer go on.  Ruby code may run for ever.                               *)
Fairness ==
  /\ WF_vars(WorkerJoined) /\ WF_vars(KillTimer) /\ WF_vars(EndCall)
  /\ WF_vars(TimerSeesDead) /\ WF_vars(TimerRaises)
  /\ WF_vars(ExecEnds) /\ WF_vars(ConvertEnds) /\ WF_vars(HandlerEnds)

Spec == Init /\ [][Next]_vars

FairSpec == Spec /\ Fairness

-----------------------------------------------------------------------------
(* Properties *)

Ids == 0..MaxAct

(* Type invariant: the flags, the stack of activations and the threads     *)
(* keep their shape.                                                       *)
TypeOK ==
  /\ stack \in Seq([id : Ids, kind : {"call", "exec", "convert"},
                    in_progress : {0, 1}, eh : Ids, found : Ids, mine : Ids])
  /\ ctl \in Exceptions \cup {"run", "returned"} /\ skipped \in BOOLEAN
  /\ in_progress \in {0, 1} /\ interrupted \in BOOLEAN
  /\ call_level \in Nat /\ functype \in Ids /\ eh \in Ids
  /\ conn \in Nat /\ cur \in Nat /\ abandoned \in BOOLEAN
  /\ main \in {"idle", "waiting", "killing"}
  /\ worker \in {"none", "running", "ok", "failed"}
  /\ timer \in [1..MaxCalls -> {"none", "sleeping", "polling"}]
  /\ calls \in Nat /\ acts \in Nat /\ lost \in BOOLEAN

(* The timer raises in the worker only when it runs Ruby code: an          *)
(* exception never unwinds a query in the backend.                         *)
NoRaiseInBackend == InBackend => in_progress = 1

(* Ruby code can be interrupted at every level, unless the program has     *)
(* rescued an exception that left a PLRUBY_END_PROTECT out: one raised by  *)
(* a nested function, or by the conversion of a value.                     *)
RubyCanBeInterrupted == InRuby /\ ctl = "run" /\ ~lost => in_progress = 0

(* pl_call_level counts the functions that are active: at level 0 an error *)
(* is given to the backend and never raised past it.                       *)
LevelIsDepth ==
  worker = "running" =>
    /\ \A i \in 1..Len(stack) : stack[i].kind = "call" <=> i % 2 = 1
    /\ call_level = (Len(stack) + 1) \div 2

(* A function sees its own "__functype__" after a nested call, however     *)
(* that call ended.                                                        *)
OwnFunctype == InRuby /\ ctl = "run" /\ ~interrupted => functype = Top.mine

(* While a function or a query runs, an ERROR of the backend longjmps to a *)
(* frame that still exists, that of the innermost activation, with the     *)
(* same exception.                                                         *)
HandlerIsLive == worker = "running" /\ ctl = "run" /\ ~lost => eh = Top.id

(* A call that succeeds has ended every query it began, and leaves no SPI  *)
(* connection of its own: SPI_finish refuses it otherwise.  Once a failure *)
(* of a nested function is rescued, the SPI_finish of the outer function   *)
(* ends the connection of the nested one and refuses nothing; conn and cur *)
(* may be above 0 when such a call came before.                            *)
NothingAbandoned == worker = "ok" /\ ~lost => ~abandoned /\ conn = cur

(* plruby_interrupted is set during a call only by its own timer, never by *)
(* one of an earlier call.                                                 *)
OwnTimer == worker = "running" /\ interrupted => timer[calls] = "polling"

(* The program does not rescue for ever.  One that rescues each "timeout"  *)
(* in a loop never ends: the timer raises another 50 ms later.             *)
RescuesEnd == <>[][~Rescue]_vars

(* "Sets the timeout for each function call" (README.markdown:66-68): once *)
(* the time is over the call ends, though its Ruby code never would.       *)
EveryTimeoutEnds ==
  RescuesEnd => (interrupted /\ worker = "running" ~> worker # "running")

(* It does unless the program has rescued an exception that left a         *)
(* PLRUBY_END_PROTECT out.                                                 *)
EndsAfterTimeout ==
  RescuesEnd =>
    (interrupted /\ worker = "running" ~> worker # "running" \/ lost)

(* The handler gives its result back once the worker is over.              *)
ResultIsGiven == worker \in {"ok", "failed"} ~> main = "idle"

=============================================================================
