---------------------------- MODULE PlCallProofs ----------------------------
(***************************************************************************)
(* PlCall for every program and every bound: the type invariant, and what  *)
(* holds of the flags that the handler and PL.exec save and put back.      *)
(***************************************************************************)
EXTENDS PlCall, TLAPS

Entry == [id : Ids, kind : {"call", "exec", "convert"},
          in_progress : {0, 1}, eh : Ids, found : Ids, mine : Ids]

TimerStates == {"none", "sleeping", "polling"}

(* TypeOK, in parts, with the bound on activations. *)
StackOK == stack \in Seq(Entry)

BoolOK ==
  /\ skipped \in BOOLEAN /\ interrupted \in BOOLEAN
  /\ abandoned \in BOOLEAN /\ lost \in BOOLEAN

CtlOK == ctl \in Exceptions \cup {"run", "returned"}

NumOK ==
  /\ in_progress \in {0, 1}
  /\ call_level \in Nat /\ conn \in Nat /\ cur \in Nat
  /\ functype \in Ids /\ eh \in Ids
  /\ calls \in Nat /\ acts \in Ids

ThreadOK ==
  /\ main \in {"idle", "waiting", "killing"}
  /\ worker \in {"none", "running", "ok", "failed"}
  /\ timer \in [1..MaxCalls -> TimerStates]

Types == StackOK /\ BoolOK /\ CtlOK /\ NumOK /\ ThreadOK

(* Functions and queries alternate, no two levels are counted twice, and   *)
(* nothing runs above a conversion.                                        *)
Shape ==
  /\ worker = "running" => stack # <<>> /\ main = "waiting"
  /\ main # "waiting" => call_level = 0
  /\ LevelIsDepth
  /\ worker = "running" /\ InBackend => ctl = "run"
  /\ worker = "running" => \A i \in 1..Len(stack) - 1 : stack[i].kind # "convert"

(* Every query that is active has raised _SPI_curid: those below the top   *)
(* are, and the one at the top until its values are converted.             *)
Curid ==
  worker = "running" =>
    /\ cur >= (Len(stack) - 1) \div 2
    /\ Top.kind # "convert" => cur >= Len(stack) \div 2

(* A nested function has found the flag set by the query that called it.   *)
Flag ==
  /\ InBackend => in_progress = 1
  /\ worker = "running" =>
       \A i \in 2..Len(stack) : stack[i].kind = "call" => stack[i].in_progress = 1

(* What a nested function found is what the function around it had set. *)
Functype ==
  worker = "running" =>
    /\ ~interrupted => functype = Top.mine
    /\ \A i \in 2..Len(stack) :
         IF stack[i].kind = "call" THEN stack[i].found = stack[i - 1].mine
                                   ELSE stack[i].mine = stack[i - 1].mine

(* Only the timer of the present call may be alive. *)
Timers ==
  /\ OwnTimer
  /\ main = "idle" => Alive = {}
  /\ \A c \in 1..MaxCalls : c # calls => timer[c] = "none"
  /\ worker = "running" => calls \in 1..MaxCalls

IInv == Types /\ Shape /\ Curid /\ Flag /\ Functype /\ Timers

-----------------------------------------------------------------------------
(* What pushing and popping an activation leaves. *)

LEMMA PushFacts ==
  ASSUME NEW s \in Seq(Entry), NEW e \in Entry
  PROVE  /\ Append(s, e) \in Seq(Entry)
         /\ Len(Append(s, e)) = Len(s) + 1
         /\ Append(s, e)[Len(s) + 1] = e
         /\ \A i \in 1..Len(s) : Append(s, e)[i] = s[i]
  OBVIOUS

LEMMA PopFacts ==
  ASSUME NEW s \in Seq(Entry), NEW n \in {1, 2}, Len(s) >= n
  PROVE  LET r == SubSeq(s, 1, Len(s) - n) IN
         /\ r \in Seq(Entry)
         /\ Len(r) = Len(s) - n
         /\ \A i \in 1..Len(r) : r[i] = s[i]
  OBVIOUS

LEMMA TopFacts ==
  ASSUME NEW s \in Seq(Entry), s # <<>>
  PROVE  Len(s) \in Nat \ {0} /\ s[Len(s)] \in Entry
  OBVIOUS

LEMMA InitIInv == Init => IInv
<1> SUFFICES ASSUME Init PROVE IInv
  OBVIOUS
<1> USE DEF Init
<1>1. Types
  <2>1. StackOK
    BY DEF StackOK
  <2>2. BoolOK
    BY DEF BoolOK
  <2>3. CtlOK
    BY DEF CtlOK, Exceptions
  <2>4. NumOK
    BY BoundsAssumption DEF NumOK, Ids
  <2>5. ThreadOK
    BY DEF ThreadOK, TimerStates
  <2> QED
    BY <2>1, <2>2, <2>3, <2>4, <2>5 DEF Types
<1>2. Shape /\ Curid /\ Flag /\ Functype /\ Timers
  BY DEF Shape, Curid, Flag, Functype, Timers, LevelIsDepth, OwnTimer, InBackend, Alive
<1> QED
  BY <1>1, <1>2 DEF IInv

-----------------------------------------------------------------------------
(* Steps that only change what Ruby does, and steps after which no worker  *)
(* runs.                                                                   *)

LEMMA CtlStep ==
  ASSUME IInv, InRuby, BoolOK', CtlOK', NumOK',
         UNCHANGED <<stack, in_progress, interrupted, call_level, functype,
                     cur, threads, calls>>
  PROVE  IInv'
<1>1. Types'
  BY DEF IInv, Types, StackOK, ThreadOK, threads
<1>2. Shape'
  BY DEF IInv, Shape, LevelIsDepth, InBackend, InRuby, Top, threads
<1>3. Curid' /\ Flag' /\ Functype'
  BY DEF IInv, Curid, Flag, Functype, InBackend, Top, threads
<1>4. Timers'
  BY DEF IInv, Timers, OwnTimer, Alive, threads
<1> QED
  BY <1>1, <1>2, <1>3, <1>4 DEF IInv

LEMMA IdleStep ==
  ASSUME Types', worker' # "running", main' # "waiting" => call_level' = 0,
         main' = "idle" => Alive' = {},
         \A c \in 1..MaxCalls : c # calls' => timer'[c] = "none"
  PROVE  IInv'
<1>1. Shape'
  BY DEF Shape, LevelIsDepth
<1>2. Curid' /\ Flag' /\ Functype'
  BY DEF Curid, Flag, Functype, InBackend
<1>3. Timers'
  BY DEF Timers, OwnTimer
<1> QED
  BY <1>1, <1>2, <1>3 DEF IInv

-----------------------------------------------------------------------------
(* One lemma per action that changes the stack or the flags. *)

LEMMA StartCallIInv == IInv /\ StartCall => IInv'
<1> SUFFICES ASSUME IInv, StartCall PROVE IInv'
  OBVIOUS
<1> PICK mine \in {0, acts + 1} :
      stack' = <<Activation("call", 0, mine)>> /\ functype' = mine
  BY DEF StartCall
<1> DEFINE e == Activation("call", 0, mine)
<1>0. NumOK /\ acts + 1 \in Ids /\ 0 \in Ids /\ mine \in Ids
  BY BoundsAssumption DEF IInv, Types, NumOK, Ids, StartCall
<1>1. e \in Entry /\ e.kind = "call" /\ e.mine = mine
  BY <1>0 DEF NumOK, Activation, Entry
<1>2. stack' \in Seq(Entry) /\ Len(stack') = 1 /\ stack'[1] = e /\ stack' # <<>>
  BY <1>1
<1>3. Types'
  <2>1. StackOK'
    BY <1>2 DEF StackOK
  <2>2. BoolOK'
    BY DEF BoolOK, StartCall
  <2>3. CtlOK'
    BY DEF CtlOK, StartCall
  <2>4. NumOK'
    BY <1>0 DEF NumOK, StartCall
  <2>5. ThreadOK'
    BY DEF StartCall, IInv, Types, ThreadOK, TimerStates
  <2> QED
    BY <2>1, <2>2, <2>3, <2>4, <2>5 DEF Types
<1>4. Shape'
  <2>1. call_level' = 1
    BY <1>0 DEF StartCall, IInv, Shape
  <2> QED
    BY <1>1, <1>2, <2>1 DEF StartCall, Shape, LevelIsDepth, InBackend, Top
<1>5. Flag' /\ Curid'
  <2>1. Len(stack') \div 2 = 0 /\ (Len(stack') - 1) \div 2 = 0
    BY <1>2
  <2> QED
    BY <1>0, <1>1, <1>2, <2>1 DEF Flag, InBackend, Top, Curid, NumOK, StartCall
<1>6. Functype'
  BY <1>1, <1>2 DEF Functype, Top
<1>7. Timers'
  <2>1. calls' \in 1..MaxCalls /\ main' # "idle" /\ OwnTimer'
    BY <1>0, BoundsAssumption DEF StartCall, NumOK, OwnTimer
  <2>2. \A c \in 1..MaxCalls : c # calls' => timer'[c] = "none"
    BY <1>0 DEF StartCall, IInv, Timers, Alive, Types, ThreadOK
  <2> QED
    BY <2>1, <2>2 DEF Timers
<1> QED
  BY <1>3, <1>4, <1>5, <1>6, <1>7 DEF IInv

LEMMA MainIInv == IInv /\ (WorkerJoined \/ KillTimer \/ EndCall) => IInv'
<1> SUFFICES ASSUME IInv, WorkerJoined \/ KillTimer \/ EndCall PROVE IInv'
  OBVIOUS
<1> USE DEF WorkerJoined, KillTimer, EndCall, WorkerOver, NoThreadLeft, spi, count
<1>1. Types'
  <2>1. StackOK' /\ CtlOK'
    BY DEF IInv, Types, StackOK, CtlOK
  <2>2. BoolOK'
    BY DEF IInv, Types, BoolOK
  <2>3. NumOK'
    BY DEF IInv, Types, NumOK
  <2>4. ThreadOK'
    <3>1. timer' \in [1..MaxCalls -> TimerStates]
      BY DEF IInv, Types, ThreadOK, TimerStates
    <3>2. main' \in {"idle", "waiting", "killing"}
      BY DEF IInv, Types, ThreadOK
    <3>3. worker' \in {"none", "running", "ok", "failed"}
      BY DEF IInv, Types, ThreadOK
    <3> QED
      BY <3>1, <3>2, <3>3 DEF ThreadOK
  <2> QED
    BY <2>1, <2>2, <2>3, <2>4 DEF Types
<1>2. /\ worker' # "running"
      /\ main' = "idle" => Alive' = {}
      /\ main' # "waiting" => call_level' = 0
  <2>1. CASE WorkerJoined
    BY <2>1
  <2>2. CASE KillTimer
    <3>1. /\ main = "killing" /\ main' = main
          /\ worker' = worker /\ call_level' = call_level
      BY <2>2
    <3>2. worker # "running" /\ call_level = 0
      BY <3>1 DEF IInv, Shape
    <3> QED
      BY <3>1, <3>2
  <2>3. CASE EndCall
    BY <2>3 DEF IInv, Shape, Alive
  <2> QED
    BY <2>1, <2>2, <2>3
<1>3. \A c \in 1..MaxCalls : c # calls' => timer'[c] = "none"
  BY DEF IInv, Timers, Types, ThreadOK, Alive
<1> QED
  BY ONLY <1>1, <1>2, <1>3, IdleStep

LEMMA TimerIInv == IInv /\ (TimeIsOver \/ TimerSeesDead) => IInv'
<1> SUFFICES ASSUME IInv, TimeIsOver \/ TimerSeesDead PROVE IInv'
  OBVIOUS
<1> USE DEF TimeIsOver, TimerSeesDead, spi, count
<1>1. Types'
  <2>1. StackOK' /\ CtlOK'
    BY DEF IInv, Types, StackOK, CtlOK
  <2>2. BoolOK'
    BY DEF IInv, Types, BoolOK
  <2>3. NumOK'
    BY DEF IInv, Types, NumOK
  <2>4. ThreadOK'
    BY DEF IInv, Types, ThreadOK, TimerStates, Alive
  <2> QED
    BY <2>1, <2>2, <2>3, <2>4 DEF Types
<1>2. Shape' /\ Curid'
  BY DEF IInv, Shape, Curid, LevelIsDepth, InBackend, Top
<1>3. Flag'
  BY DEF IInv, Flag, InBackend, Top
<1>4. Functype'
  <2>1. interrupted' \/ interrupted' = interrupted
    OBVIOUS
  <2> QED
    BY <2>1 DEF IInv, Functype, Top
<1>5. Timers'
  <2>1. PICK c \in Alive : /\ c \in 1..MaxCalls /\ c = calls
                          /\ timer[c] # "none"
                          /\ \/ interrupted' /\ timer' = [timer EXCEPT ![c] = "polling"]
                             \/ worker # "running" /\ timer' = [timer EXCEPT ![c] = "none"]
    BY DEF IInv, Timers, Alive
  <2>2. main # "idle"
    BY <2>1 DEF IInv, Timers
  <2>3. \A d \in 1..MaxCalls : d # calls' => timer'[d] = "none"
    BY <2>1 DEF IInv, Types, ThreadOK, Timers
  <2>4. worker = "running" => timer'[calls] = "polling"
    BY <2>1 DEF IInv, Types, ThreadOK, Timers
  <2> QED
    BY <2>2, <2>3, <2>4 DEF IInv, Timers, OwnTimer
<1> QED
  BY <1>1, <1>2, <1>3, <1>4, <1>5 DEF IInv

(* The worker is in Ruby code when plruby_in_progress is not set. *)
LEMMA TimerRaisesIInv == IInv /\ TimerRaises => IInv'
<1> SUFFICES ASSUME IInv, TimerRaises PROVE IInv'
  OBVIOUS
<1>1. InRuby
  <2>1. worker = "running" /\ ~InBackend /\ stack # <<>>
    BY DEF IInv, TimerRaises, Flag, Shape
  <2>2. Top.kind \in {"call", "exec", "convert"}
    BY <2>1, TopFacts DEF IInv, Types, StackOK, Top, Entry
  <2> QED
    BY <2>1, <2>2 DEF InRuby, InBackend
<1>2. BoolOK' /\ CtlOK' /\ NumOK'
  BY DEF IInv, Types, TimerRaises, BoolOK, CtlOK, NumOK, Exceptions, spi, count
<1> QED
  BY <1>1, <1>2, CtlStep DEF TimerRaises, spi, count

LEMMA RubyIInv == IInv /\ (Raise \/ Rescue \/ FunctionEnds) => IInv'
<1> SUFFICES ASSUME IInv, Raise \/ Rescue \/ FunctionEnds PROVE IInv'
  OBVIOUS
<1> USE DEF Raise, Rescue, FunctionEnds, FinishRefused, SPI_usable, spi, count
<1>1. BoolOK'
  BY DEF IInv, Types, BoolOK
<1>2. CtlOK'
  BY DEF IInv, Types, CtlOK, Exceptions
<1>3. NumOK'
  BY DEF IInv, Types, NumOK
<1> QED
  BY <1>1, <1>2, <1>3, CtlStep

-----------------------------------------------------------------------------
(* Steps that push or pop activations. *)

(* What is left after activations were popped, the last a query's or a     *)
(* function's, keeps its shape and its records.                            *)
LEMMA PopStep ==
  ASSUME IInv, worker = "running", NEW n \in {1, 2}, n < Len(stack),
         stack' = Below(n)
  PROVE  /\ stack' \in Seq(Entry) /\ stack' # <<>>
         /\ Len(stack') = Len(stack) - n
         /\ Top' = stack[Len(stack) - n]
         /\ \A i \in 1..Len(stack') : stack'[i].kind = "call" <=> i % 2 = 1
         /\ \A i \in 1..Len(stack') : stack'[i].kind # "convert"
         /\ \A i \in 2..Len(stack') :
              stack'[i].kind = "call" => stack'[i].in_progress = 1
         /\ \A i \in 2..Len(stack') :
              IF stack'[i].kind = "call" THEN stack'[i].found = stack'[i - 1].mine
                                         ELSE stack'[i].mine = stack'[i - 1].mine
<1>1. stack \in Seq(Entry) /\ Len(stack) \in Nat
  BY DEF IInv, Types, StackOK
<1>2. /\ stack' \in Seq(Entry)
      /\ Len(stack') = Len(stack) - n
      /\ \A i \in 1..Len(stack') : stack'[i] = stack[i]
  BY <1>1, PopFacts DEF Below
<1>3. stack' # <<>> /\ Top' = stack[Len(stack) - n]
  BY <1>1, <1>2 DEF Top
<1>4. \A i \in 1..Len(stack') : stack'[i].kind = "call" <=> i % 2 = 1
  BY <1>1, <1>2 DEF IInv, Shape, LevelIsDepth
<1>7. \A i \in 1..Len(stack') : stack'[i].kind # "convert"
  <2> TAKE i \in 1..Len(stack')
  <2>1. stack'[i] = stack[i] /\ i \in 1..Len(stack) - 1
    BY <1>1, <1>2
  <2> QED
    BY <2>1 DEF IInv, Shape
<1>5. \A i \in 2..Len(stack') :
        stack'[i].kind = "call" => stack'[i].in_progress = 1
  BY <1>1, <1>2 DEF IInv, Flag
<1>6. \A i \in 2..Len(stack') :
        IF stack'[i].kind = "call" THEN stack'[i].found = stack'[i - 1].mine
                                   ELSE stack'[i].mine = stack'[i - 1].mine
  <2> TAKE i \in 2..Len(stack')
  <2>1. stack'[i] = stack[i] /\ stack'[i - 1] = stack[i - 1] /\ i \in 2..Len(stack)
    BY <1>1, <1>2
  <2> QED
    BY <2>1 DEF IInv, Functype
<1> QED
  BY <1>2, <1>3, <1>4, <1>5, <1>6, <1>7

(* A pop that leaves the worker in the Ruby code of a function. *)
LEMMA LandInRuby ==
  ASSUME IInv, worker = "running", NEW n \in {1, 2}, n < Len(stack),
         stack' = Below(n), (Len(stack) - n) % 2 = 1,
         call_level' = (Len(stack) - n + 1) \div 2, cur' >= (Len(stack) - n) \div 2,
         ~interrupted => functype' = stack[Len(stack) - n].mine,
         UNCHANGED <<interrupted, threads, calls>>,
         BoolOK', CtlOK', NumOK'
  PROVE  IInv'
<1>1. /\ stack' \in Seq(Entry) /\ stack' # <<>>
      /\ Len(stack') = Len(stack) - n
      /\ Top' = stack[Len(stack) - n]
      /\ \A i \in 1..Len(stack') : stack'[i].kind = "call" <=> i % 2 = 1
      /\ \A i \in 1..Len(stack') : stack'[i].kind # "convert"
      /\ \A i \in 2..Len(stack') :
           stack'[i].kind = "call" => stack'[i].in_progress = 1
      /\ \A i \in 2..Len(stack') :
           IF stack'[i].kind = "call" THEN stack'[i].found = stack'[i - 1].mine
                                      ELSE stack'[i].mine = stack'[i - 1].mine
  BY PopStep
<1>2. worker' = "running" /\ main' = "waiting"
  BY DEF IInv, Shape, threads
<1>3. Top'.kind = "call"
  <2>1. Len(stack') \in 1..Len(stack') /\ Top' = stack'[Len(stack')]
    BY <1>1 DEF Top
  <2> QED
    BY <1>1, <2>1
<1>4. Types'
  BY <1>1 DEF IInv, Types, StackOK, ThreadOK, threads
<1>5. Shape'
  <2>1. \A i \in 1..Len(stack') - 1 : stack'[i].kind # "convert"
    BY <1>1
  <2> QED
    BY <1>1, <1>2, <1>3, <2>1 DEF Shape, LevelIsDepth, InBackend
<1>6. Flag' /\ Curid'
  <2>1. Curid'
    <3>1. Len(stack') \in Nat /\ cur' \in Nat /\ cur' >= Len(stack') \div 2
      BY <1>1 DEF NumOK
    <3>2. cur' >= (Len(stack') - 1) \div 2
      BY <3>1
    <3> QED
      BY <3>1, <3>2 DEF Curid
  <2> QED
    BY <1>1, <1>3, <2>1 DEF Flag, InBackend
<1>7. Functype'
  BY <1>1 DEF Functype
<1>8. Timers'
  BY DEF IInv, Timers, OwnTimer, Alive, threads
<1> QED
  BY <1>4, <1>5, <1>6, <1>7, <1>8 DEF IInv

(* In the backend the stack is even, and the query's function below it. *)
LEMMA BackendFacts ==
  ASSUME IInv, InBackend
  PROVE  /\ worker = "running" /\ ctl = "run" /\ in_progress = 1
         /\ stack \in Seq(Entry) /\ Len(stack) \in Nat /\ Len(stack) > 1
         /\ Len(stack) % 2 = 0
         /\ call_level = Len(stack) \div 2
         /\ cur \in Nat /\ cur >= (Len(stack) - 1) \div 2
         /\ InQuery => cur > 0 /\ cur >= Len(stack) \div 2
         /\ Top \in Entry /\ Top.kind # "call"
         /\ Top.mine = stack[Len(stack) - 1].mine
<1>1. worker = "running" /\ stack # <<>> /\ Top.kind # "call"
  BY DEF InBackend
<1>2. stack \in Seq(Entry) /\ Len(stack) \in Nat \ {0} /\ Top \in Entry
  BY <1>1, TopFacts DEF IInv, Types, StackOK, Top
<1>3. Len(stack) % 2 = 0 /\ call_level = Len(stack) \div 2
  <2>1. Len(stack) \in 1..Len(stack)
    BY <1>2
  <2>2. Len(stack) % 2 # 1 /\ call_level = (Len(stack) + 1) \div 2
    BY <1>1, <2>1 DEF IInv, Shape, LevelIsDepth, Top
  <2> QED
    BY <1>2, <2>2
<1>4. Len(stack) > 1
  BY <1>2, <1>3
<1>7. cur \in Nat /\ cur >= (Len(stack) - 1) \div 2
  BY <1>1, <1>2, <1>4 DEF IInv, Types, NumOK, Curid
<1>8. InQuery => cur > 0 /\ cur >= Len(stack) \div 2
  <2> SUFFICES ASSUME InQuery PROVE cur > 0 /\ cur >= Len(stack) \div 2
    OBVIOUS
  <2>1. cur >= Len(stack) \div 2
    BY <1>1 DEF InQuery, IInv, Curid
  <2> QED
    BY <1>2, <1>4, <1>7, <2>1
<1>5. Top.mine = stack[Len(stack) - 1].mine
  <2>1. Len(stack) \in 2..Len(stack)
    BY <1>2, <1>4
  <2> QED
    BY <1>1, <2>1 DEF IInv, Functype, Top
<1>6. ctl = "run" /\ in_progress = 1
  BY <1>1 DEF IInv, Shape, Flag, InBackend
<1> QED
  BY <1>1, <1>2, <1>3, <1>4, <1>5, <1>6, <1>7, <1>8

(* PL.exec is left: its function goes on. *)
LeavesExec ==
  /\ InBackend /\ stack' = Below(1)
  /\ in_progress' \in {in_progress, Top.in_progress}
  /\ eh' \in {eh, Top.eh}
  /\ cur' = cur \/ (InQuery /\ cur' = cur - 1)
  /\ ctl' \in Exceptions \cup {ctl} /\ skipped' \in BOOLEAN
  /\ abandoned' \in BOOLEAN
  /\ UNCHANGED <<interrupted, call_level, functype, threads, conn, count>>

LEMMA LeavesExecIInv == IInv /\ LeavesExec => IInv'
<1> SUFFICES ASSUME IInv, LeavesExec PROVE IInv'
  OBVIOUS
<1>1. /\ InBackend /\ stack' = Below(1)
      /\ UNCHANGED <<interrupted, call_level, functype, threads, calls>>
  BY DEF LeavesExec, count
<1>2. BoolOK'
  BY DEF IInv, Types, BoolOK, LeavesExec, count
<1>3. CtlOK'
  BY DEF IInv, Types, CtlOK, LeavesExec
<1>4. NumOK'
  <2>1. cur' \in Nat
    BY <1>1, BackendFacts DEF LeavesExec
  <2> QED
    BY <1>1, <2>1, BackendFacts DEF IInv, Types, NumOK, Entry, LeavesExec, count
<1>5. /\ call_level' = (Len(stack) - 1 + 1) \div 2
      /\ (Len(stack) - 1) % 2 = 1 /\ 1 < Len(stack) /\ worker = "running"
  BY <1>1, BackendFacts
<1>7. cur' >= (Len(stack) - 1) \div 2
  <2>1. CASE cur' = cur
    BY <1>1, <2>1, BackendFacts
  <2>2. CASE InQuery /\ cur' = cur - 1
    BY <1>1, <2>2, BackendFacts
  <2> QED
    BY <2>1, <2>2 DEF LeavesExec
<1>6. ~interrupted => functype' = stack[Len(stack) - 1].mine
  BY <1>1, BackendFacts DEF IInv, Functype
<1> QED
  BY <1>1, <1>2, <1>3, <1>4, <1>5, <1>6, <1>7, LandInRuby

(* The query is over, and its values are converted next. *)
StartsConversion ==
  /\ InQuery /\ ctl = "run"
  /\ stack' = [stack EXCEPT ![Len(stack)].kind = "convert"]
  /\ cur' = cur - 1
  /\ UNCHANGED <<ctl, skipped, in_progress, eh, interrupted, call_level,
                 functype, conn, abandoned, threads, count>>

(* Only the kind of the innermost activation changes. *)
LEMMA ConversionFacts ==
  ASSUME IInv, StartsConversion
  PROVE  /\ stack' \in Seq(Entry) /\ stack' # <<>> /\ Len(stack') = Len(stack)
         /\ \A i \in 1..Len(stack) - 1 : stack'[i] = stack[i]
         /\ \A i \in 1..Len(stack) :
              /\ stack'[i].id = stack[i].id /\ stack'[i].eh = stack[i].eh
              /\ stack'[i].in_progress = stack[i].in_progress
              /\ stack'[i].mine = stack[i].mine
              /\ stack'[i].found = stack[i].found
              /\ stack'[i].kind = "call" <=> stack[i].kind = "call"
         /\ Top'.kind = "convert" /\ Top'.id = Top.id /\ Top'.mine = Top.mine
         /\ InBackend /\ InBackend' /\ ~InQuery'
<1>1. InBackend /\ InQuery /\ worker' = worker
  BY DEF StartsConversion, InQuery, threads
<1>2. /\ stack \in Seq(Entry) /\ Len(stack) \in Nat /\ Len(stack) > 1
      /\ Top \in Entry /\ Top.kind # "call" /\ worker = "running"
  BY <1>1, BackendFacts
<1> DEFINE e == [Top EXCEPT !.kind = "convert"]
<1>3. /\ e \in Entry /\ e.kind = "convert" /\ e.id = Top.id /\ e.eh = Top.eh
      /\ e.in_progress = Top.in_progress /\ e.mine = Top.mine
      /\ e.found = Top.found
  BY <1>2 DEF Entry
<1>4. stack' = [stack EXCEPT ![Len(stack)] = e]
  BY DEF StartsConversion, Top
<1> HIDE DEF e
<1>5. /\ stack' \in Seq(Entry) /\ Len(stack') = Len(stack)
      /\ \A i \in 1..Len(stack) - 1 : stack'[i] = stack[i]
      /\ stack'[Len(stack)] = e
  BY <1>2, <1>3, <1>4
<1>6. stack' # <<>> /\ Top' = e
  BY <1>2, <1>5 DEF Top
<1>7. \A i \in 1..Len(stack) :
        /\ stack'[i].id = stack[i].id /\ stack'[i].eh = stack[i].eh
        /\ stack'[i].in_progress = stack[i].in_progress
        /\ stack'[i].mine = stack[i].mine
        /\ stack'[i].found = stack[i].found
        /\ stack'[i].kind = "call" <=> stack[i].kind = "call"
  <2> TAKE i \in 1..Len(stack)
  <2>1. CASE i = Len(stack)
    BY <1>2, <1>3, <1>5, <2>1 DEF Top
  <2>2. CASE i \in 1..Len(stack) - 1
    BY <1>5, <2>2
  <2> QED
    BY <1>2, <2>1, <2>2
<1>8. InBackend' /\ ~InQuery'
  BY <1>1, <1>2, <1>3, <1>6 DEF InBackend, InQuery
<1> QED
  BY <1>1, <1>3, <1>5, <1>6, <1>7, <1>8

LEMMA StartsConversionIInv == IInv /\ StartsConversion => IInv'
<1> SUFFICES ASSUME IInv, StartsConversion PROVE IInv'
  OBVIOUS
<1>1. /\ worker = "running" /\ worker' = worker /\ main' = main
      /\ UNCHANGED <<ctl, in_progress, interrupted, call_level, functype, calls>>
  BY DEF StartsConversion, InQuery, InBackend, threads, count
<1>2. /\ stack \in Seq(Entry) /\ Len(stack) \in Nat /\ Len(stack) > 1
      /\ cur \in Nat /\ cur >= Len(stack) \div 2 /\ Len(stack) % 2 = 0
      /\ ctl = "run" /\ in_progress = 1
  BY BackendFacts, ConversionFacts DEF StartsConversion
<1>3. cur' = cur - 1 /\ cur' \in Nat /\ cur' >= (Len(stack) - 1) \div 2
  BY <1>2 DEF StartsConversion
<1>4. Types'
  <2>1. NumOK'
    BY <1>3 DEF IInv, Types, NumOK, StartsConversion, count
  <2> QED
    BY <2>1, ConversionFacts
       DEF IInv, Types, StackOK, BoolOK, CtlOK, ThreadOK, StartsConversion,
           threads, count
<1>5. Shape'
  <2>1. LevelIsDepth'
    <3>1. \A i \in 1..Len(stack') : stack'[i].kind = "call" <=> i % 2 = 1
      BY <1>1, ConversionFacts DEF IInv, Shape, LevelIsDepth
    <3>2. call_level' = (Len(stack') + 1) \div 2
      BY <1>1, ConversionFacts DEF IInv, Shape, LevelIsDepth
    <3> QED
      BY <3>1, <3>2 DEF LevelIsDepth
  <2>2. \A i \in 1..Len(stack') - 1 : stack'[i].kind # "convert"
    <3> TAKE i \in 1..Len(stack') - 1
    <3>1. i \in 1..Len(stack) - 1 /\ stack'[i] = stack[i]
      BY ConversionFacts
    <3> QED
      BY <1>1, <3>1 DEF IInv, Shape
  <2> QED
    BY <1>1, <1>2, <2>1, <2>2, ConversionFacts DEF IInv, Shape
<1>6. Curid'
  BY <1>3, ConversionFacts DEF Curid
<1>7. Flag'
  <2>1. \A i \in 2..Len(stack') :
          stack'[i].kind = "call" => stack'[i].in_progress = 1
    <3> TAKE i \in 2..Len(stack')
    <3>1. i \in 1..Len(stack) /\ i \in 2..Len(stack)
      BY ConversionFacts
    <3> QED
      BY <1>1, <3>1, ConversionFacts DEF IInv, Flag
  <2> QED
    BY <1>1, <1>2, <2>1 DEF Flag
<1>8. Functype'
  <2>1. \A i \in 2..Len(stack') :
          IF stack'[i].kind = "call" THEN stack'[i].found = stack'[i - 1].mine
                                     ELSE stack'[i].mine = stack'[i - 1].mine
    <3> TAKE i \in 2..Len(stack')
    <3>1. i \in 1..Len(stack) /\ i - 1 \in 1..Len(stack) /\ i \in 2..Len(stack)
      BY ConversionFacts
    <3>2. IF stack[i].kind = "call" THEN stack[i].found = stack[i - 1].mine
                                    ELSE stack[i].mine = stack[i - 1].mine
      BY <1>1, <3>1 DEF IInv, Functype
    <3> QED
      BY <3>1, <3>2, ConversionFacts
  <2>2. ~interrupted' => functype' = Top'.mine
    BY <1>1, ConversionFacts DEF IInv, Functype
  <2> QED
    BY <2>1, <2>2 DEF Functype
<1>9. Timers'
  BY DEF StartsConversion, IInv, Timers, OwnTimer, Alive, threads, count
<1> QED
  BY <1>4, <1>5, <1>6, <1>7, <1>8, <1>9 DEF IInv

(* What PL.exec does in the backend is one of the two. *)
LEMMA ExecSteps ==
  ASSUME IInv, ExecEnds \/ ExecFails \/ ConvertEnds \/ ConvertFails \/ ConvertRaises
  PROVE  LeavesExec \/ StartsConversion
<1>1. abandoned \in BOOLEAN /\ skipped \in BOOLEAN
  BY DEF IInv, Types, BoolOK
<1>2. CASE ExecEnds
  <2>1. CASE EndProtect
    BY <1>1, <1>2, <2>1
       DEF ExecEnds, EndProtect, EndRegion, EndTry, LeavesExec, InQuery, Exceptions
  <2>2. CASE ~EndProtect
    BY <1>2, <2>2 DEF ExecEnds, StartsConversion
  <2> QED
    BY <2>1, <2>2
<1>3. CASE ExecFails
  BY <1>1, <1>3
     DEF ExecFails, CatchError, EndRegion, EndTry, LeavesExec, InQuery,
         Exceptions, spi
<1>4. CASE ConvertEnds
  BY <1>1, <1>4
     DEF ConvertEnds, EndProtect, EndRegion, EndTry, LeavesExec, InConversion,
         Exceptions, spi
<1>5. CASE ConvertFails
  BY <1>1, <1>5
     DEF ConvertFails, CatchError, EndRegion, EndTry, LeavesExec, InConversion,
         Exceptions, spi
<1>6. CASE ConvertRaises
  BY <1>1, <1>6 DEF ConvertRaises, LeavesExec, InConversion, spi
<1> QED
  BY <1>2, <1>3, <1>4, <1>5, <1>6

(* In Ruby code the stack is odd. *)
LEMMA RubyFacts ==
  ASSUME IInv, InRuby
  PROVE  /\ worker = "running"
         /\ stack \in Seq(Entry) /\ Len(stack) \in Nat /\ Len(stack) > 0
         /\ Len(stack) % 2 = 1
         /\ call_level = (Len(stack) + 1) \div 2
         /\ Top \in Entry /\ Top.kind = "call"
<1>1. worker = "running" /\ stack # <<>> /\ Top.kind = "call"
  BY DEF InRuby
<1>2. stack \in Seq(Entry) /\ Len(stack) \in Nat \ {0} /\ Top \in Entry
  BY <1>1, TopFacts DEF IInv, Types, StackOK, Top
<1>3. Len(stack) \in 1..Len(stack)
  BY <1>2
<1>4. Len(stack) % 2 = 1 /\ call_level = (Len(stack) + 1) \div 2
  BY <1>1, <1>3 DEF IInv, Shape, LevelIsDepth, Top
<1> QED
  BY <1>1, <1>2, <1>4

(* A push keeps the invariant when the activation is the other kind, and   *)
(* the flags are set for it.                                               *)
LEMMA PushStep ==
  ASSUME IInv, worker = "running", NEW e \in Entry, stack' = Append(stack, e),
         Top.kind # "convert", e.kind # "convert",
         e.kind = "call" <=> (Len(stack) + 1) % 2 = 1,
         call_level' = (Len(stack) + 2) \div 2,
         cur' >= (Len(stack) + 1) \div 2,
         IF e.kind = "call" THEN e.in_progress = 1 /\ e.found = Top.mine
                            ELSE in_progress' = 1 /\ ctl' = "run" /\ e.mine = Top.mine,
         functype' = e.mine,
         UNCHANGED <<interrupted, threads, calls>>,
         BoolOK', CtlOK', NumOK'
  PROVE  IInv'
<1>1. stack \in Seq(Entry) /\ Len(stack) \in Nat \ {0}
  BY TopFacts DEF IInv, Types, StackOK, Shape
<1>2. /\ stack' \in Seq(Entry) /\ stack' # <<>> /\ Top' = e
      /\ Len(stack') = Len(stack) + 1 /\ stack'[Len(stack) + 1] = e
      /\ \A i \in 1..Len(stack) : stack'[i] = stack[i]
  BY <1>1, PushFacts DEF Top
<1>3. worker' = "running" /\ main' = "waiting"
  BY DEF IInv, Shape, threads
<1>4. Types'
  BY <1>2 DEF IInv, Types, StackOK, ThreadOK, threads
<1>5. Shape'
  <2>1. \A i \in 1..Len(stack') : stack'[i].kind = "call" <=> i % 2 = 1
    <3> TAKE i \in 1..Len(stack')
    <3>1. CASE i = Len(stack) + 1
      BY <1>2, <3>1
    <3>2. CASE i \in 1..Len(stack)
      BY <1>2, <3>2 DEF IInv, Shape, LevelIsDepth
    <3> QED
      BY <1>1, <1>2, <3>1, <3>2
  <2>2. call_level' = (Len(stack') + 1) \div 2
    BY <1>1, <1>2
  <2>3. InBackend' => ctl' = "run"
    BY <1>2 DEF InBackend
  <2>4. \A i \in 1..Len(stack') - 1 : stack'[i].kind # "convert"
    <3> TAKE i \in 1..Len(stack') - 1
    <3>1. stack'[i] = stack[i] /\ (i = Len(stack) \/ i \in 1..Len(stack) - 1)
      BY <1>1, <1>2
    <3> QED
      BY <3>1 DEF IInv, Shape, Top
  <2> QED
    BY <1>2, <1>3, <2>1, <2>2, <2>3, <2>4 DEF Shape, LevelIsDepth
<1>6. Flag'
  <2>1. InBackend' => in_progress' = 1
    BY <1>2 DEF InBackend
  <2>2. \A i \in 2..Len(stack') : stack'[i].kind = "call" => stack'[i].in_progress = 1
    <3> TAKE i \in 2..Len(stack')
    <3>1. CASE i = Len(stack) + 1
      BY <1>2, <3>1
    <3>2. CASE i \in 2..Len(stack)
      BY <1>2, <3>2 DEF IInv, Flag
    <3> QED
      BY <1>1, <1>2, <3>1, <3>2
  <2> QED
    BY <2>1, <2>2 DEF Flag
<1>7. Functype'
  <2>1. functype' = Top'.mine
    BY <1>2
  <2>2. \A i \in 2..Len(stack') :
          IF stack'[i].kind = "call" THEN stack'[i].found = stack'[i - 1].mine
                                     ELSE stack'[i].mine = stack'[i - 1].mine
    <3> TAKE i \in 2..Len(stack')
    <3>1. CASE i = Len(stack) + 1
      BY <1>1, <1>2, <3>1 DEF Top
    <3>2. CASE i \in 2..Len(stack)
      <4>1. stack'[i] = stack[i] /\ stack'[i - 1] = stack[i - 1]
        BY <1>1, <1>2, <3>2
      <4> QED
        BY <3>2, <4>1 DEF IInv, Functype
    <3> QED
      BY <1>1, <1>2, <3>1, <3>2
  <2> QED
    BY <2>1, <2>2 DEF Functype
<1>8. Timers'
  BY DEF IInv, Timers, OwnTimer, Alive, threads
<1>9. Curid'
  <2>1. cur' \in Nat /\ cur' >= Len(stack') \div 2 /\ Len(stack') \in Nat
    BY <1>1, <1>2 DEF NumOK
  <2>2. cur' >= (Len(stack') - 1) \div 2
    BY <2>1
  <2> QED
    BY <2>1, <2>2 DEF Curid
<1> QED
  BY <1>4, <1>5, <1>6, <1>7, <1>8, <1>9 DEF IInv

LEMMA ExecIInv == IInv /\ Exec => IInv'
<1> SUFFICES ASSUME IInv, Exec PROVE IInv'
  OBVIOUS
<1>1. InRuby /\ BoolOK' /\ CtlOK'
  BY DEF IInv, Types, BoolOK, CtlOK, Exceptions, Exec
<1>2. CASE interrupted \/ ~SPI_usable
  <2>1. NumOK'
    BY <1>2 DEF IInv, Types, NumOK, Exec
  <2> QED
    BY <1>1, <1>2, <2>1, CtlStep DEF Exec, threads
<1>3. CASE ~(interrupted \/ ~SPI_usable)
  <2> DEFINE e == Activation("exec", functype, functype)
  <2>1. /\ ~interrupted /\ stack' = Append(stack, e) /\ in_progress' = 1
        /\ ctl = "run" /\ ctl' = ctl
        /\ UNCHANGED <<interrupted, call_level, functype, threads, calls>>
    BY <1>3 DEF Exec
  <2>0. acts + 1 \in Ids
    BY <1>3, BoundsAssumption DEF IInv, Types, NumOK, Ids, Exec
  <2>2. NumOK'
    BY <1>3, <2>0 DEF IInv, Types, NumOK, Exec
  <2>3. functype = Top.mine
    BY <1>1, <2>1, RubyFacts DEF IInv, Functype
  <2>4. e \in Entry /\ e.kind = "exec" /\ e.mine = functype
    BY <2>0 DEF IInv, Types, NumOK, Activation, Entry
  <2>5. /\ worker = "running" /\ (Len(stack) + 1) % 2 # 1
        /\ call_level' = (Len(stack) + 2) \div 2
    BY <1>1, <2>1, RubyFacts
  <2>6. cur' >= (Len(stack) + 1) \div 2
    BY <1>1, <1>3, RubyFacts DEF IInv, Types, NumOK, Curid, Exec
  <2>7. Top.kind # "convert"
    BY <1>1, RubyFacts
  <2> HIDE DEF e
  <2> QED
    BY <1>1, <2>1, <2>2, <2>3, <2>4, <2>5, <2>6, <2>7, PushStep
<1> QED
  BY <1>2, <1>3

LEMMA QueryCallsIInv == IInv /\ QueryCalls => IInv'
<1> SUFFICES ASSUME IInv, QueryCalls PROVE IInv'
  OBVIOUS
<1>1. /\ InBackend /\ InQuery /\ Top.kind = "exec" /\ CtlOK' /\ BoolOK'
      /\ UNCHANGED <<interrupted, threads, calls>>
  BY DEF IInv, Types, BoolOK, CtlOK, Exceptions, QueryCalls, RaiseOutOfExec, InQuery
<1>2. CASE interrupted
  <2>1. stack' = Below(1) /\ call_level' = call_level
    BY <1>2 DEF QueryCalls, RaiseOutOfExec
  <2>2. NumOK'
    BY <1>2, BoundsAssumption DEF IInv, Types, NumOK, QueryCalls, Ids
  <2>3. /\ call_level' = (Len(stack) - 1 + 1) \div 2
        /\ (Len(stack) - 1) % 2 = 1 /\ 1 < Len(stack) /\ worker = "running"
        /\ cur' >= (Len(stack) - 1) \div 2
    BY <1>1, <2>1, BackendFacts DEF QueryCalls
  <2> QED
    BY <1>1, <1>2, <2>1, <2>2, <2>3, LandInRuby
<1>3. CASE ~interrupted
  <2>1. PICK mine \in {0, acts + 1} :
          /\ stack' = Append(stack, Activation("call", functype, mine))
          /\ functype' = mine
    BY <1>3 DEF QueryCalls
  <2> DEFINE e == Activation("call", functype, mine)
  <2>2. mine \in Ids /\ acts + 1 \in Ids /\ call_level' = call_level + 1
    BY <1>3, BoundsAssumption DEF IInv, Types, NumOK, QueryCalls, Ids
  <2>3. NumOK'
    BY <1>3, <2>1, <2>2 DEF IInv, Types, NumOK, QueryCalls
  <2>4. /\ e \in Entry /\ e.kind = "call" /\ e.mine = mine
        /\ e.found = functype /\ e.in_progress = in_progress
    BY <2>2 DEF IInv, Types, NumOK, Activation, Entry
  <2>5. e.found = Top.mine /\ e.in_progress = 1
    BY <1>1, <1>3, <2>4, BackendFacts DEF IInv, Functype
  <2>6. /\ worker = "running" /\ (Len(stack) + 1) % 2 = 1
        /\ call_level' = (Len(stack) + 2) \div 2
    BY <1>1, <2>2, BackendFacts
  <2>7. cur' >= (Len(stack) + 1) \div 2
    BY <1>1, BackendFacts DEF IInv, Curid, QueryCalls
  <2> HIDE DEF e
  <2> QED
    BY <1>1, <2>1, <2>3, <2>4, <2>5, <2>6, <2>7, PushStep DEF e
<1> QED
  BY <1>2, <1>3

(* An odd depth other than one is at least three. *)
LEMMA OddAboveOne == \A n \in Nat : n > 0 /\ n % 2 = 1 /\ ~(n = 1) => n > 2
  BY ONLY Z3

(* Above level 0 a function was called by a query, and the query by a      *)
(* function.                                                               *)
LEMMA NestedFacts ==
  ASSUME IInv, InRuby, ~Level0
  PROVE  /\ Len(stack) > 2
         /\ Top.in_progress = 1
         /\ Top.found = stack[Len(stack) - 1].mine
         /\ stack[Len(stack) - 1].kind = "exec"
         /\ stack[Len(stack) - 1].mine = stack[Len(stack) - 2].mine
<1>1. Len(stack) \in Nat /\ Len(stack) > 2
  <2>1. ~(Len(stack) = 1)
    BY DEF Level0
  <2>2. Len(stack) \in Nat /\ Len(stack) > 0 /\ Len(stack) % 2 = 1
    BY RubyFacts
  <2> QED
    BY <2>1, <2>2, OddAboveOne, ZenonT(30)
<1>2. Len(stack) \in 2..Len(stack) /\ Len(stack) - 1 \in 2..Len(stack)
  BY <1>1
<1>3. stack[Len(stack)].kind = "call" /\ stack[Len(stack) - 1].kind # "call"
  BY <1>1, <1>2, RubyFacts DEF IInv, Shape, LevelIsDepth, Top
<1>4. stack[Len(stack) - 1].kind = "exec"
  <2>1. /\ stack \in Seq(Entry) /\ Len(stack) - 1 \in 1..Len(stack)
        /\ Len(stack) - 1 \in 1..Len(stack) - 1 /\ worker = "running"
    BY <1>1, RubyFacts
  <2>2. stack[Len(stack) - 1] \in Entry
    BY <2>1
  <2>3. stack[Len(stack) - 1].kind # "convert"
    BY <2>1 DEF IInv, Shape
  <2> QED
    BY <1>3, <2>2, <2>3 DEF Entry
<1>5. Top.in_progress = 1
  BY <1>2, <1>3, RubyFacts DEF IInv, Flag, Top
<1>6. Top.found = stack[Len(stack) - 1].mine
  BY <1>2, <1>3, RubyFacts DEF IInv, Functype, Top
<1>7. stack[Len(stack) - 1].mine = stack[Len(stack) - 1 - 1].mine
  BY <1>2, <1>3, RubyFacts DEF IInv, Functype
<1> QED
  BY <1>1, <1>4, <1>5, <1>6, <1>7

(* A nested function returns into the query that called it. *)
LEMMA ReturnToQuery ==
  ASSUME IInv, InRuby, ~Level0, stack' = Below(1), ctl' = "run",
         in_progress' = Top.in_progress, functype' = Top.found,
         call_level' = call_level - 1,
         UNCHANGED <<interrupted, threads, calls, cur>>,
         BoolOK', CtlOK', NumOK'
  PROVE  IInv'
<1>1. /\ worker = "running" /\ Len(stack) \in Nat /\ Len(stack) > 2
      /\ Len(stack) % 2 = 1 /\ call_level = (Len(stack) + 1) \div 2
  BY RubyFacts, NestedFacts
<1>2. /\ stack' \in Seq(Entry) /\ stack' # <<>>
      /\ Len(stack') = Len(stack) - 1
      /\ Top' = stack[Len(stack) - 1]
      /\ \A i \in 1..Len(stack') : stack'[i].kind = "call" <=> i % 2 = 1
      /\ \A i \in 1..Len(stack') : stack'[i].kind # "convert"
      /\ \A i \in 2..Len(stack') :
           stack'[i].kind = "call" => stack'[i].in_progress = 1
      /\ \A i \in 2..Len(stack') :
           IF stack'[i].kind = "call" THEN stack'[i].found = stack'[i - 1].mine
                                      ELSE stack'[i].mine = stack'[i - 1].mine
  BY <1>1, PopStep
<1>3. worker' = "running" /\ main' = "waiting"
  BY <1>1 DEF IInv, Shape, threads
<1>4. Types'
  BY <1>2 DEF IInv, Types, StackOK, ThreadOK, threads
<1>5. Shape'
  <2>1. call_level' = (Len(stack') + 1) \div 2
    BY <1>1, <1>2
  <2>2. \A i \in 1..Len(stack') - 1 : stack'[i].kind # "convert"
    BY <1>2
  <2>3. LevelIsDepth'
    BY <1>2, <2>1 DEF LevelIsDepth
  <2> QED
    BY <1>2, <1>3, <2>2, <2>3 DEF Shape
<1>6. Flag' /\ Curid'
  <2>1. Flag'
    BY <1>2, NestedFacts DEF IInv, Types, NumOK, Flag
  <2>2. cur >= (Len(stack) - 1) \div 2 /\ cur \in Nat
    BY <1>1 DEF IInv, Types, NumOK, Curid
  <2>3. cur' >= Len(stack') \div 2 /\ cur' >= (Len(stack') - 1) \div 2
    BY <1>1, <1>2, <2>2
  <2> QED
    BY <2>1, <2>3 DEF Curid
<1>7. Functype'
  BY <1>2, NestedFacts DEF Functype
<1>8. Timers'
  BY DEF IInv, Timers, OwnTimer, Alive, threads
<1> QED
  BY <1>4, <1>5, <1>6, <1>7, <1>8 DEF IInv

LEMMA HandlerEndsIInv == IInv /\ HandlerEnds => IInv'
<1> SUFFICES ASSUME IInv, HandlerEnds PROVE IInv'
  OBVIOUS
<1>1. /\ InRuby /\ call_level' = call_level - 1
      /\ UNCHANGED <<interrupted, main, timer, calls, cur>> /\ cur \in Nat
  BY DEF HandlerEnds, LeaveLevel, count, spi, IInv, Types, NumOK
<1>2. BoolOK'
  BY DEF IInv, Types, BoolOK, HandlerEnds, RaiseOutOfExec, count
<1>3. CtlOK'
  BY DEF IInv, Types, CtlOK, Exceptions, HandlerEnds, RaiseOutOfExec
<1>4. NumOK'
  <2>1. Top \in Entry /\ 0 \in Ids /\ call_level > 0
    BY <1>1, RubyFacts, BoundsAssumption DEF Ids
  <2>2. /\ in_progress' \in {in_progress, Top.in_progress}
        /\ functype' \in {functype, 0, Top.found}
        /\ eh' = Top.eh /\ call_level' = call_level - 1
        /\ UNCHANGED <<conn, cur, calls, acts>>
    BY DEF HandlerEnds, LeaveLevel, EndTry, EndRegion, RestoreFunctype, spi, count
  <2> QED
    BY <2>1, <2>2 DEF IInv, Types, NumOK, Entry
<1>5. CASE Level0
  <2>1. worker' \in {"ok", "failed"} /\ stack' = <<>>
    BY <1>5 DEF HandlerEnds
  <2>2. main = "waiting" /\ \A c \in 1..MaxCalls : c # calls => timer[c] = "none"
    BY <1>1, RubyFacts DEF IInv, Shape, Timers
  <2>3. StackOK' /\ ThreadOK'
    BY <1>1, <2>1 DEF IInv, Types, StackOK, ThreadOK
  <2>4. Types' /\ worker' # "running"
    BY <1>2, <1>3, <1>4, <2>1, <2>3 DEF Types
  <2> QED
    BY <1>1, <2>2, <2>4, IdleStep
<1>6. CASE ~Level0
  <2>1. /\ UNCHANGED <<interrupted, threads, calls>> /\ worker = "running"
        /\ in_progress' = Top.in_progress
    BY <1>1, <1>6, RubyFacts DEF HandlerEnds, EndRegion, threads
  <2>2. Len(stack) > 2 /\ (Len(stack) - 2) % 2 = 1
        /\ call_level' = (Len(stack) - 2 + 1) \div 2
        /\ cur' >= (Len(stack) - 2) \div 2
    <3>1. cur >= (Len(stack) - 1) \div 2
      BY <2>1 DEF IInv, Curid
    <3> QED
      BY <1>1, <1>6, <3>1, RubyFacts, NestedFacts
  <2>3. CASE interrupted
    <3>1. stack' = Below(2)
      BY <1>6, <2>3 DEF HandlerEnds, RaiseOutOfExec
    <3> QED
      BY <1>2, <1>3, <1>4, <2>1, <2>2, <2>3, <3>1, LandInRuby
  <2>4. CASE ~interrupted /\ ctl = "returned"
    <3>1. stack' = Below(1) /\ ctl' = "run" /\ functype' = Top.found
      BY <1>6, <2>4 DEF HandlerEnds, RestoreFunctype
    <3> QED
      BY <1>1, <1>2, <1>3, <1>4, <1>6, <2>1, <3>1, ReturnToQuery
  <2>5. CASE ~interrupted /\ ctl # "returned"
    <3>1. stack' = Below(2) /\ functype' = Top.found
      BY <1>6, <2>5 DEF HandlerEnds, RaiseOutOfExec, RestoreFunctype
    <3>2. functype' = stack[Len(stack) - 2].mine
      BY <1>1, <1>6, <3>1, NestedFacts
    <3> QED
      BY <1>2, <1>3, <1>4, <2>1, <2>2, <3>1, <3>2, LandInRuby
  <2> QED
    BY <2>3, <2>4, <2>5
<1> QED
  BY <1>5, <1>6

-----------------------------------------------------------------------------
LEMMA NextIInv == IInv /\ [Next]_vars => IInv'
<1> SUFFICES ASSUME IInv, [Next]_vars PROVE IInv'
  OBVIOUS
<1>1. CASE UNCHANGED vars
  <2>1. Types'
    BY <1>1 DEF vars, IInv, Types, StackOK, BoolOK, CtlOK, NumOK, ThreadOK
  <2>2. Shape' /\ Curid'
    BY <1>1 DEF vars, IInv, Shape, Curid, LevelIsDepth, InBackend, Top
  <2>3. Flag' /\ Functype'
    BY <1>1 DEF vars, IInv, Flag, Functype, InBackend, Top
  <2>4. Timers'
    BY <1>1 DEF vars, IInv, Timers, OwnTimer, Alive
  <2> QED
    BY <2>1, <2>2, <2>3, <2>4 DEF IInv
<1>2. CASE Next
  BY <1>2, StartCallIInv, MainIInv, TimerIInv, TimerRaisesIInv, RubyIInv,
     ExecIInv, ExecSteps, LeavesExecIInv, StartsConversionIInv, QueryCallsIInv,
     HandlerEndsIInv DEF Next
<1> QED
  BY <1>1, <1>2

(* The inductive invariant, for every program, every number of calls and   *)
(* every depth of nesting.                                                 *)
THEOREM Inductive == Spec => []IInv
<1>1. Init => IInv
  BY InitIInv
<1>2. IInv /\ [Next]_vars => IInv'
  BY NextIInv
<1> QED
  BY <1>1, <1>2, PTL DEF Spec

(* Every flag, identity and counter keeps its type. *)
THEOREM TypeCorrect == Spec => []TypeOK
<1>1. IInv => TypeOK
  BY DEF IInv, Types, StackOK, BoolOK, CtlOK, NumOK, ThreadOK, TimerStates,
         Entry, Ids, TypeOK
<1> QED
  BY <1>1, Inductive, PTL

(* The timer never raises an exception through a query of the backend      *)
(* (plruby_in_progress, PLRUBY_BEGIN and PLRUBY_END).                      *)
THEOREM TimerSparesBackend == Spec => []NoRaiseInBackend
<1>1. IInv => NoRaiseInBackend
  BY DEF IInv, Flag, NoRaiseInBackend
<1> QED
  BY <1>1, Inductive, PTL

(* pl_call_level is the depth of the nesting, however calls end, so an     *)
(* error becomes a Ruby exception exactly when a function is active below. *)
THEOREM CallLevel == Spec => []LevelIsDepth
<1>1. IInv => LevelIsDepth
  BY DEF IInv, Shape
<1> QED
  BY <1>1, Inductive, PTL

(* A function finds its own "__functype__" again after a nested call.      *)
THEOREM FunctypeRestored == Spec => []OwnFunctype
<1>1. IInv => OwnFunctype
  BY DEF IInv, Functype, OwnFunctype, InRuby
<1> QED
  BY <1>1, Inductive, PTL

(* No timer of an earlier call sets plruby_interrupted in a later one.     *)
THEOREM TimerOfOwnCall == Spec => []OwnTimer
<1>1. IInv => OwnTimer
  BY DEF IInv, Timers
<1> QED
  BY <1>1, Inductive, PTL

-----------------------------------------------------------------------------
(* Calls in which no exception that had left a PLRUBY_END_PROTECT out was  *)
(* rescued (~lost): Ruby code can be interrupted, the handler of ERRORs is *)
(* live, and a call that succeeds has ended its queries.  While such an    *)
(* exception goes up (skipped) the flags are wrong, and they stay wrong    *)
(* once it is rescued.                                                     *)

(* What the activations have to give back.                                 *)
Saved ==
  worker = "running" /\ ~lost =>
    \A i \in 2..Len(stack) :
      /\ stack[i].eh = stack[i - 1].id
      /\ stack[i].kind # "call" => stack[i].in_progress = 0

(* A query that was left without an end leaves _SPI_curid too high for the *)
(* function that made it, until that function is over.                     *)
Balance ==
  IF InQuery \/ ctl = "returned" THEN cur = conn /\ ~abandoned
  ELSE cur + 1 # conn \/ ~abandoned

(* The flags are those of the innermost activation.                        *)
Own ==
  worker = "running" /\ ~lost /\ ~skipped =>
    /\ eh = Top.id
    /\ InRuby => in_progress = 0
    /\ Balance

Skipped == skipped => ctl \in Exceptions

CleanInv == Saved /\ Own /\ Skipped /\ NothingAbandoned

LEMMA CleanInit == Init => CleanInv
BY DEF Init, CleanInv, Saved, Own, Skipped, NothingAbandoned

-----------------------------------------------------------------------------
LEMMA CleanStart == ASSUME IInv, StartCall PROVE CleanInv'
<1>1. PICK mine : stack' = <<Activation("call", 0, mine)>>
  BY DEF StartCall
<1>2. Len(stack') = 1 /\ Top'.id = acts + 1 /\ Top'.kind = "call"
  BY <1>1 DEF Top, Activation
<1>3. /\ worker' = "running" /\ eh' = acts + 1 /\ in_progress' = 0
      /\ ctl' = "run" /\ ~skipped' /\ ~abandoned'
  BY DEF StartCall
<1>4. Saved'
  BY <1>2 DEF Saved
<1> QED
  BY <1>2, <1>3, <1>4
     DEF CleanInv, Own, Balance, InQuery, InBackend, InRuby, Skipped, NothingAbandoned

(* No worker runs, or only the timer does something.                       *)
LEMMA CleanThreads ==
  ASSUME IInv, CleanInv,
         WorkerJoined \/ KillTimer \/ EndCall \/ TimeIsOver \/ TimerSeesDead
  PROVE  CleanInv'
<1>1. CASE WorkerJoined \/ KillTimer \/ EndCall
  <2>1. worker' # "running" /\ UNCHANGED <<lost, skipped, ctl, abandoned>>
    BY <1>1 DEF WorkerJoined, WorkerOver, KillTimer, EndCall, IInv, Shape,
                count, spi
  <2>2. worker' = "ok" => worker = "ok" /\ UNCHANGED spi
    BY <1>1 DEF WorkerJoined, KillTimer, EndCall, spi
  <2> QED
    BY <2>1, <2>2
       DEF CleanInv, Saved, Own, Skipped, NothingAbandoned, spi
<1>2. CASE TimeIsOver \/ TimerSeesDead
  BY <1>2
     DEF TimeIsOver, TimerSeesDead, CleanInv, Saved, Own, Balance, InQuery, InBackend,
         InRuby, Top, Skipped, NothingAbandoned, spi, count
<1> QED
  BY <1>1, <1>2

(* What Ruby code does to ctl.                                             *)
LEMMA CleanRuby ==
  ASSUME IInv, CleanInv, TimerRaises \/ Raise \/ Rescue \/ FunctionEnds
  PROVE  CleanInv'
<1>1. /\ worker = "running" /\ worker' = worker
      /\ UNCHANGED <<stack, in_progress, eh, cur, abandoned>>
  BY DEF TimerRaises, Raise, Rescue, FunctionEnds, InRuby, threads, spi
<1>2. lost' = (lost \/ (Rescue /\ skipped)) /\ ~skipped'
  BY DEF TimerRaises, Raise, Rescue, FunctionEnds, count, IInv, Types, BoolOK
<1>3. InQuery' = InQuery /\ InRuby' = InRuby /\ Top' = Top
  BY <1>1 DEF InQuery, InBackend, InRuby, Top
<1>4. ~lost' => ~lost /\ (skipped => ~Rescue)
  BY <1>2 DEF IInv, Types, BoolOK
<1>5. ~lost' => ~skipped
  BY <1>4 DEF TimerRaises, Raise, Rescue, FunctionEnds, CleanInv, Skipped,
              Exceptions
<1>6. ~lost' => Balance'
  <2> SUFFICES ASSUME ~lost' PROVE Balance'
    OBVIOUS
  <2>1. Balance /\ ~lost /\ ~skipped
    BY <1>1, <1>4, <1>5 DEF CleanInv, Own
  <2>2. CASE TimerRaises \/ Raise \/ Rescue
    <3>1. ctl # "returned" /\ ctl' # "returned" /\ conn' = conn
      BY <2>2 DEF TimerRaises, Raise, Rescue, Exceptions, spi
    <3> QED
      BY <1>1, <1>3, <2>1, <3>1 DEF Balance
  <2>3. CASE FunctionEnds
    <3>1. InRuby /\ ctl = "run" /\ ~InQuery
      BY <2>3 DEF FunctionEnds, InRuby, InQuery, InBackend
    <3>2. CASE ctl' = "returned"
      <4>1. SPI_usable /\ conn' = conn - 1
        BY <2>3, <3>2 DEF FunctionEnds, FinishRefused
      <4>2. cur \in Nat /\ conn \in Nat
        BY DEF IInv, Types, NumOK
      <4> QED
        BY <1>1, <2>1, <3>1, <3>2, <4>1, <4>2 DEF Balance, SPI_usable
    <3>3. CASE ctl' # "returned"
      <4>1. conn' = conn
        BY <2>3, <3>3 DEF FunctionEnds
      <4> QED
        BY <1>1, <1>3, <2>1, <3>1, <3>3, <4>1 DEF Balance
    <3> QED
      BY <3>2, <3>3
  <2> QED
    BY <2>2, <2>3
<1>7. Saved'
  BY <1>1, <1>4 DEF CleanInv, Saved
<1>8. Own'
  BY <1>1, <1>3, <1>4, <1>5, <1>6 DEF CleanInv, Own
<1> QED
  BY <1>1, <1>2, <1>7, <1>8 DEF CleanInv, Skipped, NothingAbandoned

-----------------------------------------------------------------------------
(* A new activation saves the flags of the one below it.                   *)
LEMMA CleanPush ==
  ASSUME IInv, CleanInv, worker = "running", ctl = "run",
         NEW kind \in {"call", "exec"}, NEW found \in Ids, NEW mine \in Ids,
         acts + 1 \in Ids,
         stack' = Append(stack, Activation(kind, found, mine)),
         kind = "call" => InQuery, kind = "exec" => InRuby,
         eh' = acts + 1, kind = "call" => in_progress' = 0,
         kind = "exec" => cur' = conn' /\ (~lost => ~abandoned),
         UNCHANGED <<worker, ctl, skipped, lost, abandoned>>
  PROVE  CleanInv'
<1> DEFINE e == Activation(kind, found, mine)
<1>1. stack \in Seq(Entry) /\ Len(stack) \in Nat \ {0} /\ stack # <<>>
  BY TopFacts DEF IInv, Types, StackOK, Shape
<1>2. e \in Entry /\ e.kind = kind /\ e.id = acts + 1 /\ e.eh = eh
      /\ e.in_progress = in_progress
  BY DEF IInv, Types, NumOK, Activation, Entry
<1> HIDE DEF e
<1>3. /\ Len(stack') = Len(stack) + 1 /\ stack'[Len(stack) + 1] = e
      /\ \A i \in 1..Len(stack) : stack'[i] = stack[i]
      /\ Top' = e /\ stack' # <<>>
  BY <1>1, <1>2, PushFacts DEF Top, e
<1>4. ~skipped
  BY DEF CleanInv, Skipped, Exceptions
<1>5. Saved'
  <2> SUFFICES ASSUME ~lost, NEW i \in 2..Len(stack')
               PROVE  /\ stack'[i].eh = stack'[i - 1].id
                      /\ stack'[i].kind # "call" => stack'[i].in_progress = 0
    BY DEF Saved
  <2>1. CASE i = Len(stack) + 1
    BY <1>1, <1>2, <1>3, <1>4, <2>1 DEF CleanInv, Own, Top
  <2>2. CASE i \in 2..Len(stack)
    <3>1. stack'[i] = stack[i] /\ stack'[i - 1] = stack[i - 1]
      BY <1>1, <1>3, <2>2
    <3> QED
      BY <2>2, <3>1 DEF CleanInv, Saved
  <2>3. i = Len(stack) + 1 \/ i \in 2..Len(stack)
    BY <1>1, <1>3
  <2> QED
    BY <2>1, <2>2, <2>3
<1>6. Own'
  <2>1. CASE kind = "exec"
    BY <1>2, <1>3, <2>1 DEF Own, Balance, InQuery, InBackend, InRuby
  <2>2. CASE kind = "call"
    <3>1. ~lost => ~abandoned
      BY <1>4, <2>2 DEF CleanInv, Own, Balance
    <3> QED
      BY <1>2, <1>3, <2>2, <3>1 DEF Own, Balance, InQuery, InBackend, InRuby
  <2> QED
    BY <2>1, <2>2
<1> QED
  BY <1>5, <1>6 DEF CleanInv, Skipped, NothingAbandoned

LEMMA CleanExec == ASSUME IInv, CleanInv, Exec PROVE CleanInv'
<1>1. InRuby /\ ctl = "run" /\ ~InQuery
  BY DEF Exec, InRuby, InQuery, InBackend
<1>2. CASE interrupted \/ ~SPI_usable
  <2>1. /\ ctl' = "error" /\ ~skipped'
        /\ UNCHANGED <<stack, in_progress, eh, cur, conn, abandoned, worker, lost>>
    BY <1>2 DEF Exec, threads
  <2>2. InQuery' = InQuery /\ InRuby' = InRuby /\ Top' = Top /\ ~skipped
    BY <1>1, <2>1 DEF InQuery, InBackend, InRuby, Top, CleanInv, Skipped, Exceptions
  <2> QED
    BY <1>1, <2>1, <2>2
       DEF CleanInv, Saved, Own, Balance, Skipped, NothingAbandoned, Exceptions
<1>3. CASE ~(interrupted \/ ~SPI_usable)
  <2>1. /\ stack' = Append(stack, Activation("exec", functype, functype))
        /\ eh' = acts + 1 /\ cur' = conn' /\ acts + 1 \in Ids
        /\ UNCHANGED <<worker, ctl, skipped, lost, abandoned>>
    BY <1>3, BoundsAssumption
       DEF Exec, SPI_usable, threads, IInv, Types, NumOK, Ids
  <2>2. worker = "running" /\ functype \in Ids
    BY <1>1 DEF InRuby, IInv, Types, NumOK
  <2>3. ~lost => ~abandoned
    BY <1>1, <1>3, <2>2
       DEF SPI_usable, CleanInv, Own, Balance, Skipped, Exceptions
  <2> QED
    BY <1>1, <2>1, <2>2, <2>3, CleanPush
<1> QED
  BY <1>2, <1>3

(* An activation ends and gives back what it saved: the one below it finds *)
(* the flags it had.                                                       *)
LEMMA CleanPop ==
  ASSUME IInv, CleanInv, worker = "running", Len(stack) > 1,
         stack' = Below(1), eh' = Top.eh, in_progress' = Top.in_progress,
         UNCHANGED <<worker, lost>>, ~skipped',
         ~lost' => Balance'
  PROVE  CleanInv'
<1>1. stack \in Seq(Entry) /\ Len(stack) \in Nat
  BY DEF IInv, Types, StackOK
<1>2. /\ Len(stack') = Len(stack) - 1
      /\ \A i \in 1..Len(stack') : stack'[i] = stack[i]
      /\ stack' # <<>> /\ Top' = stack[Len(stack) - 1]
  <2>1. /\ Len(stack') = Len(stack) - 1
        /\ \A i \in 1..Len(stack') : stack'[i] = stack[i]
        /\ stack' \in Seq(Entry)
    <3>1. 1 \in 0..Len(stack)
      BY <1>1
    <3> QED
      BY <1>1, <3>1, PopFacts DEF Below
  <2>2. stack' # <<>> /\ Top' = stack'[Len(stack')]
    BY <1>1, <2>1 DEF Top
  <2> QED
    BY <1>1, <2>1, <2>2
<1>3. Saved'
  <2> SUFFICES ASSUME ~lost, NEW i \in 2..Len(stack')
               PROVE  /\ stack'[i].eh = stack'[i - 1].id
                      /\ stack'[i].kind # "call" => stack'[i].in_progress = 0
    BY DEF Saved
  <2>1. /\ stack'[i] = stack[i] /\ stack'[i - 1] = stack[i - 1]
        /\ i \in 2..Len(stack)
    BY <1>1, <1>2
  <2> QED
    BY <2>1 DEF CleanInv, Saved
<1>4. Own'
  <2> SUFFICES ASSUME ~lost PROVE eh' = Top'.id /\ (InRuby' => in_progress' = 0)
    BY DEF Own
  <2>1. /\ Top.eh = stack[Len(stack) - 1].id
        /\ Top.kind # "call" => Top.in_progress = 0
    BY <1>1 DEF CleanInv, Saved, Top
  <2>2. InRuby' => Top.kind # "call"
    <3> SUFFICES ASSUME InRuby' PROVE Top.kind # "call"
      OBVIOUS
    <3>1. stack[Len(stack) - 1].kind = "call"
      BY <1>2 DEF InRuby
    <3>2. (Len(stack) - 1) % 2 = 1
      BY <1>1, <3>1 DEF IInv, Shape, LevelIsDepth
    <3>3. Len(stack) \in 1..Len(stack) /\ Len(stack) % 2 # 1
      BY <1>1, <3>2
    <3> QED
      BY <1>1, <3>3 DEF IInv, Shape, LevelIsDepth, Top
  <2> QED
    BY <1>2, <2>1, <2>2
<1> QED
  BY <1>3, <1>4 DEF CleanInv, Skipped, NothingAbandoned

(* A query ends, or fails and leaves _SPI_curid raised; its values are     *)
(* converted, or an ERROR stops the conversion.                            *)
LEMMA CleanExecPop ==
  ASSUME IInv, CleanInv, InBackend, ctl = "run", stack' = Below(1),
         eh' = Top.eh, in_progress' = Top.in_progress,
         UNCHANGED <<conn, worker, lost>>, ~skipped', ctl' # "returned",
         \/ InQuery /\ cur' = cur - 1 /\ abandoned' = abandoned
         \/ InQuery /\ cur' = cur
         \/ ~InQuery /\ cur' = cur /\ abandoned' = abandoned
  PROVE  CleanInv'
<1>2. worker = "running" /\ Len(stack) > 1 /\ cur \in Nat /\ (InQuery => cur > 0)
  BY BackendFacts
<1>3. ~skipped
  BY DEF CleanInv, Skipped, Exceptions
<1>4. ~InQuery'
  <2>1. /\ stack \in Seq(Entry) /\ Len(stack) \in Nat /\ Len(stack) % 2 = 0
    BY BackendFacts
  <2>2. Top' = stack[Len(stack) - 1] /\ Len(stack) - 1 \in 1..Len(stack)
    BY <1>2, <2>1, PopFacts DEF Below, Top
  <2>3. (Len(stack) - 1) % 2 = 1
    BY <2>1
  <2>4. Top'.kind = "call"
    BY <1>2, <2>2, <2>3 DEF IInv, Shape, LevelIsDepth
  <2> QED
    BY <2>4 DEF InQuery
<1>5. ~lost' => Balance'
  <2> SUFFICES ASSUME ~lost' PROVE Balance'
    OBVIOUS
  <2>1. Balance
    BY <1>2, <1>3 DEF CleanInv, Own
  <2>2. CASE InQuery /\ cur' = cur - 1 /\ abandoned' = abandoned
    BY <1>4, <2>1, <2>2 DEF Balance
  <2>3. CASE InQuery /\ cur' = cur
    BY <1>2, <1>4, <2>1, <2>3 DEF Balance
  <2>4. CASE ~InQuery /\ cur' = cur /\ abandoned' = abandoned
    BY <1>4, <2>1, <2>4 DEF Balance
  <2> QED
    BY <2>2, <2>3, <2>4
<1> QED
  BY <1>2, <1>5, CleanPop

(* The flags the query found are kept for the conversion.                  *)
LEMMA CleanConversion == ASSUME IInv, CleanInv, StartsConversion PROVE CleanInv'
<1>1. /\ InQuery /\ ctl = "run" /\ ctl' = "run" /\ cur' = cur - 1 /\ cur \in Nat
      /\ cur > 0 /\ worker = "running"
      /\ UNCHANGED <<skipped, in_progress, eh, conn, abandoned, worker, lost>>
  BY ConversionFacts, BackendFacts DEF StartsConversion, threads, count
<1>2. Top'.kind # "call" /\ Top'.id = Top.id /\ ~InQuery'
  BY ConversionFacts
<1>3. ~skipped
  BY <1>1 DEF CleanInv, Skipped, Exceptions
<1>4. Saved'
  <2> SUFFICES ASSUME ~lost, NEW i \in 2..Len(stack')
               PROVE  /\ stack'[i].eh = stack'[i - 1].id
                      /\ stack'[i].kind # "call" => stack'[i].in_progress = 0
    BY <1>1 DEF Saved
  <2>1. i \in 1..Len(stack) /\ i - 1 \in 1..Len(stack) /\ i \in 2..Len(stack)
    BY ConversionFacts
  <2>2. /\ stack[i].eh = stack[i - 1].id
        /\ stack[i].kind # "call" => stack[i].in_progress = 0
    BY <1>1, <2>1 DEF CleanInv, Saved
  <2> QED
    BY <2>1, <2>2, ConversionFacts
<1>5. Own'
  <2> SUFFICES ASSUME ~lost PROVE eh' = Top'.id /\ ~InRuby' /\ Balance'
    BY <1>1 DEF Own
  <2>1. eh = Top.id /\ Balance
    BY <1>1, <1>3 DEF CleanInv, Own
  <2>2. Balance'
    BY <1>1, <1>2, <2>1 DEF Balance
  <2> QED
    BY <1>1, <1>2, <2>1, <2>2 DEF InRuby
<1> QED
  BY <1>1, <1>3, <1>4, <1>5 DEF CleanInv, Skipped, NothingAbandoned

(* An exception leaves activations without giving back what they saved.    *)
LEMMA CleanRaiseOut ==
  ASSUME IInv, CleanInv, worker = "running", NEW n \in {1, 2}, n < Len(stack),
         stack' = Below(n), ctl' \in Exceptions, skipped',
         UNCHANGED <<worker, lost>>
  PROVE  CleanInv'
<1>1. stack \in Seq(Entry) /\ Len(stack) \in Nat
  BY DEF IInv, Types, StackOK
<1>2. /\ Len(stack') = Len(stack) - n
      /\ \A i \in 1..Len(stack') : stack'[i] = stack[i]
  BY <1>1, PopFacts DEF Below
<1>3. Saved'
  <2> SUFFICES ASSUME ~lost, NEW i \in 2..Len(stack')
               PROVE  /\ stack'[i].eh = stack'[i - 1].id
                      /\ stack'[i].kind # "call" => stack'[i].in_progress = 0
    BY DEF Saved
  <2>1. /\ stack'[i] = stack[i] /\ stack'[i - 1] = stack[i - 1]
        /\ i \in 2..Len(stack)
    BY <1>1, <1>2
  <2> QED
    BY <2>1 DEF CleanInv, Saved
<1> QED
  BY <1>1, <1>3 DEF CleanInv, Own, Skipped, NothingAbandoned

LEMMA CleanExecSteps ==
  ASSUME IInv, CleanInv,
         ExecEnds \/ ExecFails \/ ConvertEnds \/ ConvertFails \/ ConvertRaises
  PROVE  CleanInv'
<1>1. InBackend /\ ctl = "run" /\ UNCHANGED <<conn, worker, lost>>
  BY DEF ExecEnds, ExecFails, ConvertEnds, ConvertFails, ConvertRaises, InQuery,
         InConversion, spi, threads, count
<1>2. ~skipped /\ worker = "running" /\ 1 < Len(stack)
  BY <1>1, BackendFacts DEF CleanInv, Skipped, Exceptions
<1>3. CASE ExecEnds /\ ~EndProtect
  BY <1>3, CleanConversion DEF ExecEnds, StartsConversion
<1>4. CASE ConvertRaises
  BY <1>1, <1>2, <1>4, CleanRaiseOut DEF ConvertRaises
<1>5. CASE (ExecEnds /\ EndProtect) \/ ExecFails \/ ConvertEnds \/ ConvertFails
  <2>1. /\ stack' = Below(1) /\ eh' = Top.eh /\ in_progress' = Top.in_progress
        /\ ~skipped' /\ ctl' # "returned"
    BY <1>1, <1>2, <1>5
       DEF ExecFails, ConvertEnds, ConvertFails, EndProtect, CatchError,
           EndRegion, EndTry
  <2>2. \/ InQuery /\ cur' = cur - 1 /\ abandoned' = abandoned
        \/ InQuery /\ cur' = cur
        \/ ~InQuery /\ cur' = cur /\ abandoned' = abandoned
    BY <1>5 DEF ExecEnds, ExecFails, ConvertEnds, ConvertFails, InConversion,
                InQuery, spi
  <2> QED
    BY <1>1, <2>1, <2>2, CleanExecPop
<1> QED
  BY <1>3, <1>4, <1>5

LEMMA CleanQueryCalls == ASSUME IInv, CleanInv, QueryCalls PROVE CleanInv'
<1>1. /\ InQuery /\ InBackend /\ worker = "running" /\ Len(stack) > 1
      /\ 1 < Len(stack) /\ ctl = "run"
  BY BackendFacts DEF QueryCalls, InQuery
<1>2. UNCHANGED <<worker, lost>>
  BY DEF QueryCalls, threads
<1>3. CASE interrupted
  BY <1>1, <1>2, <1>3, CleanRaiseOut DEF QueryCalls, RaiseOutOfExec, Exceptions
<1>4. CASE ~interrupted
  <2>1. PICK mine \in {0, acts + 1} :
          stack' = Append(stack, Activation("call", functype, mine))
    BY <1>4 DEF QueryCalls
  <2>2. mine \in Ids /\ acts + 1 \in Ids /\ functype \in Ids
    BY BoundsAssumption DEF IInv, Types, NumOK, QueryCalls, Ids
  <2>3. /\ in_progress' = 0 /\ eh' = acts + 1
        /\ UNCHANGED <<ctl, skipped, abandoned>>
    BY <1>4 DEF QueryCalls
  <2> QED
    BY <1>1, <1>2, <2>1, <2>2, <2>3, CleanPush
<1> QED
  BY <1>3, <1>4

LEMMA CleanHandlerEnds == ASSUME IInv, CleanInv, HandlerEnds PROVE CleanInv'
<1>1. InRuby /\ worker = "running" /\ ctl \in Exceptions \cup {"returned"}
  BY DEF HandlerEnds, InRuby
<1>2. UNCHANGED <<cur, conn, lost>>
  BY DEF HandlerEnds, spi, count
<1>3. CASE Level0
  <2>1. /\ worker' = IF ctl = "returned" THEN "ok" ELSE "failed"
        /\ ~skipped' /\ UNCHANGED abandoned
    BY <1>3 DEF HandlerEnds
  <2>2. ctl = "returned" /\ ~lost => ~abandoned /\ conn = cur
    BY <1>1 DEF CleanInv, Own, Balance, Skipped, Exceptions
  <2> QED
    BY <1>2, <2>1, <2>2 DEF CleanInv, Saved, Own, Skipped, NothingAbandoned
<1>4. CASE ~Level0
  <2>1. Len(stack) > 2 /\ UNCHANGED worker
    BY <1>1, <1>4, NestedFacts DEF HandlerEnds
  <2>2. CASE interrupted \/ ctl # "returned"
    <3>1. PICK k \in Exceptions : RaiseOutOfExec(2, k)
      BY <1>1, <1>4, <2>2 DEF HandlerEnds, Exceptions
    <3>2. 2 < Len(stack)
      BY <2>1
    <3> QED
      BY <1>1, <1>2, <2>1, <3>1, <3>2, CleanRaiseOut DEF RaiseOutOfExec
  <2>3. CASE ~interrupted /\ ctl = "returned"
    <3>1. /\ stack' = Below(1) /\ ctl' = "run" /\ UNCHANGED <<skipped, abandoned>>
          /\ eh' = Top.eh /\ in_progress' = Top.in_progress
      BY <1>4, <2>3 DEF HandlerEnds, EndTry, EndRegion
    <3>2. ~skipped
      BY <2>3 DEF CleanInv, Skipped, Exceptions
    <3>3. ~lost' => Balance'
      BY <1>1, <1>2, <2>3, <3>1, <3>2 DEF CleanInv, Own, Balance
    <3>4. Len(stack) > 1
      BY <2>1, RubyFacts, <1>1
    <3> QED
      BY <1>1, <1>2, <2>1, <3>1, <3>2, <3>3, <3>4, CleanPop
  <2> QED
    BY <2>2, <2>3
<1> QED
  BY <1>3, <1>4

LEMMA CleanNext == IInv /\ CleanInv /\ [Next]_vars => CleanInv'
<1> SUFFICES ASSUME IInv, CleanInv, [Next]_vars PROVE CleanInv'
  OBVIOUS
<1>1. ASSUME UNCHANGED vars PROVE CleanInv'
  BY <1>1
     DEF vars, CleanInv, Saved, Own, Balance, InQuery, InBackend, InRuby, Top, Skipped,
         NothingAbandoned
<1> QED
  BY <1>1, CleanStart, CleanThreads, CleanRuby, CleanExec, CleanExecSteps,
     CleanQueryCalls, CleanHandlerEnds DEF Next

-----------------------------------------------------------------------------
THEOREM CleanInductive == Spec => []CleanInv
<1>1. IInv /\ CleanInv /\ [Next]_vars => CleanInv'
  BY CleanNext
<1> QED
  BY <1>1, CleanInit, Inductive, PTL DEF Spec

(* PLRUBY_END_PROTECT, plruby.h:119-131: after a query, however it ended,  *)
(* Ruby code runs with plruby_in_progress off, at every level.             *)
THEOREM Interruptible == Spec => []RubyCanBeInterrupted
<1>1. CleanInv => RubyCanBeInterrupted
  BY DEF CleanInv, Own, Skipped, Exceptions, RubyCanBeInterrupted, InRuby
<1> QED
  BY <1>1, CleanInductive, PTL

(* PG_exception_stack names the frame of the innermost activation, which   *)
(* is still there.                                                         *)
THEOREM LiveHandler == Spec => []HandlerIsLive
<1>1. CleanInv => HandlerIsLive
  BY DEF CleanInv, Own, Skipped, Exceptions, HandlerIsLive
<1> QED
  BY <1>1, CleanInductive, PTL

(* SPI_finish in plruby_return_value (plpl.c:1598-1601) is enough: a call  *)
(* that gives a result has ended every query it began.                     *)
THEOREM SuccessAbandonsNothing == Spec => []NothingAbandoned
<1>1. CleanInv => NothingAbandoned
  BY DEF CleanInv
<1> QED
  BY <1>1, CleanInductive, PTL

=============================================================================
