----------------------------- MODULE PlPlanProofs -----------------------------
(***************************************************************************)
(* Proofs about PlPlan, for every set of plans and cursors and every depth *)
(* of calls, blocks and executions.                                        *)
(*                                                                         *)
(* SavedStays is inductive once plans are known to be records: all that    *)
(* ends with an activation has that activation for its home, and the       *)
(* session, the home of saved plans, is none.  NothingFreedIsUsed needs    *)
(* Executions (what runs, runs on a plan whose connection is around it)    *)
(* and Homes (the connection of a live plan is there).                     *)
(***************************************************************************)
EXTENDS PlPlan, TLAPS

Frame == [kind : {"call", "block", "each"}]
         \cup [kind : {"exec"}, plan : Plans, sound : BOOLEAN]

(* Plans and cursors are records, the stack is a sequence of activations.  *)
PlanShape ==
  /\ DOMAIN plans = Plans
  /\ \A p \in Plans : /\ DOMAIN plans[p] = {"ptr", "home"}
                      /\ plans[p].ptr \in Pointers
                      /\ plans[p].home \in Nat

CursorShape ==
  /\ DOMAIN cursors = Cursors
  /\ \A c \in Cursors : /\ DOMAIN cursors[c] = {"ptr", "level", "args"}
                        /\ cursors[c].ptr \in Pointers

StackShape == stack \in Seq(Frame)

Shape == PlanShape /\ CursorShape /\ StackShape

-----------------------------------------------------------------------------
(* What ends with an activation *)

(* Plans of an activation are lost with it, and only those.                *)
LEMMA PlansAfterLemma ==
  ASSUME PlanShape, NEW i \in Nat \ {0}, plans' = PlansAfter(i)
  PROVE  /\ PlanShape'
         /\ \A p \in Plans : plans[p] = [ptr |-> "live", home |-> Session] =>
                               plans'[p] = plans[p]
         /\ \A p \in Plans : plans'[p].ptr = "freed" => plans[p].ptr = "freed"
         /\ \A p \in Plans : plans[p].home # i => plans'[p] = plans[p]
         /\ \A p \in Plans : plans'[p].ptr = "live" =>
              plans'[p] = plans[p] /\ plans[p].home # i
BY DEF PlanShape, Pointers, PlansAfter, Session

(* Portals that end are not given back by this code.                       *)
NoneFreed == \A c \in Cursors : cursors[c].ptr # "freed"

LEMMA PortalsAfterLemma ==
  ASSUME CursorShape, NoneFreed, NEW i, NEW commit \in BOOLEAN,
         \/ cursors' = PortalsAfter(i, commit)
         \/ cursors' = [c \in Cursors |->
                          ArgsAfter(PortalsAfter(i, commit)[c], i)]
  PROVE  CursorShape' /\ NoneFreed'
<1> DEFINE Kept(c) == [cursors[c] EXCEPT !.level =
                        LET Below == {j \in Frames({"block"}) : j < i} IN
                        IF Below = {} THEN 0
                        ELSE CHOOSE j \in Below : \A k \in Below : k <= j]
           Lost(c) == [cursors[c] EXCEPT
                        !.ptr = IF @ = "live" THEN "stale" ELSE @, !.level = 0]
           Portals == PortalsAfter(i, commit)
<1>1. \A c \in Cursors :
        Portals[c] = IF ~OpenedIn(c, i) THEN cursors[c]
                     ELSE IF commit THEN Kept(c) ELSE Lost(c)
  BY DEF PortalsAfter
<1>2. ASSUME NEW c \in Cursors
      PROVE  /\ DOMAIN Kept(c) = {"ptr", "level", "args"}
             /\ Kept(c).ptr = cursors[c].ptr
             /\ DOMAIN Lost(c) = {"ptr", "level", "args"}
             /\ Lost(c).ptr \in Pointers \ {"freed"}
  BY DEF CursorShape, Pointers, NoneFreed
<1>3. DOMAIN Portals = Cursors
  BY DEF PortalsAfter
<1> HIDE DEF Kept, Lost
<1>4. \A c \in Cursors : /\ DOMAIN Portals[c] = {"ptr", "level", "args"}
                         /\ Portals[c].ptr \in Pointers \ {"freed"}
  BY <1>1, <1>2 DEF CursorShape, NoneFreed
<1> HIDE DEF Portals
<1>5. \A c \in Cursors : /\ DOMAIN ArgsAfter(Portals[c], i) = DOMAIN Portals[c]
                         /\ ArgsAfter(Portals[c], i).ptr = Portals[c].ptr
  BY <1>4 DEF ArgsAfter
<1>6. CASE cursors' = Portals
  BY <1>3, <1>4, <1>6 DEF CursorShape, NoneFreed
<1>7. CASE cursors' = [c \in Cursors |-> ArgsAfter(Portals[c], i)]
  BY <1>4, <1>5, <1>7 DEF CursorShape, NoneFreed
<1> QED
  BY <1>6, <1>7 DEF Portals

(* The plan of an execution may be freed; the stack stays one.             *)
LEMMA FreedLemma ==
  ASSUME StackShape, NEW p, stack' = Freed(p)
  PROVE  /\ StackShape' /\ DOMAIN stack' = DOMAIN stack
         /\ \A i \in DOMAIN stack :
              /\ stack'[i].kind = stack[i].kind
              /\ stack[i].kind = "exec" => stack'[i].plan = stack[i].plan
              /\ stack[i].kind = "exec" /\ stack'[i].sound =>
                   stack[i].plan # p /\ stack[i].sound
<1>1. /\ Len(stack) \in Nat /\ DOMAIN stack = 1..Len(stack)
      /\ \A i \in DOMAIN stack : stack[i] \in Frame
  BY DEF StackShape
<1>2. \A i \in DOMAIN stack :
        /\ stack'[i] \in Frame
        /\ stack'[i].kind = stack[i].kind
        /\ stack[i].kind = "exec" => stack'[i].plan = stack[i].plan
        /\ stack[i].kind = "exec" /\ stack'[i].sound =>
             stack[i].plan # p /\ stack[i].sound
  BY <1>1 DEF Freed, Frame
<1>3. DOMAIN stack' = 1..Len(stack)
  BY <1>1 DEF Freed
<1>4. stack' = [i \in 1..Len(stack) |-> stack'[i]]
  BY <1>1, <1>3 DEF Freed
<1>5. StackShape'
  BY <1>1, <1>2, <1>4 DEF StackShape
<1> QED
  BY <1>1, <1>2, <1>3, <1>5

LEMMA PopLemma ==
  ASSUME StackShape, stack # <<>>, stack' = Pop(stack)
  PROVE  /\ StackShape'
         /\ Len(stack) \in Nat \ {0} /\ Len(stack) \in DOMAIN stack
         /\ DOMAIN stack' = DOMAIN stack \ {Len(stack)}
         /\ \A i \in DOMAIN stack' : stack'[i] = stack[i]
         /\ Top \in Frame
BY DEF StackShape, Pop, Top

LEMMA PushLemma ==
  ASSUME StackShape, NEW frame \in Frame, Push(frame)
  PROVE  /\ StackShape'
         /\ Len(stack) + 1 \notin DOMAIN stack
         /\ DOMAIN stack' = DOMAIN stack \cup {Len(stack) + 1}
         /\ stack'[Len(stack) + 1] = frame
         /\ \A i \in DOMAIN stack : stack'[i] = stack[i]
         /\ Len(stack) \in Nat
         /\ \A i \in DOMAIN stack : i \in Nat /\ i < Len(stack) + 1
BY DEF StackShape, Push

-----------------------------------------------------------------------------
(* Saved plans *)

SavedInv == Shape /\ NoneFreed /\ saved \subseteq Plans /\ SavedStays

LEMMA SavedInit == Init => SavedInv
BY DEF Init, SavedInv, Shape, PlanShape, CursorShape, StackShape, SavedStays,
       NoneFreed, NoPlan, NoCursor, Pointers, Session

LEMMA SavedNext == SavedInv /\ [Next]_vars => SavedInv'
<1> SUFFICES ASSUME SavedInv, [Next]_vars PROVE SavedInv'
  OBVIOUS
<1> USE DEF SavedInv, Shape
<1>0. \A i \in DOMAIN stack : i \in Nat
  BY DEF StackShape
<1>1. ASSUME NEW p \in Plans, NEW save \in BOOLEAN, NewPlan(p, save)
      PROVE  SavedInv'
  <2>1. PICK owner \in Connection :
          LET plan == [ptr |-> "live", home |-> owner] IN
          plans' = [plans EXCEPT ![p] =
                      IF SaveAsked(save) THEN Copied(plan) ELSE plan]
    BY <1>1 DEF NewPlan
  <2>2. owner \in Nat
    BY <1>0 DEF Connection
  <2>3. PlanShape' /\ SavedStays'
    BY <1>1, <2>1, <2>2 DEF NewPlan, PlanShape, SavedStays, SaveAsked, Copied,
                            Pointers, Session
  <2> QED
    BY <1>1, <2>3 DEF NewPlan, CursorShape, StackShape, NoneFreed
<1>2. ASSUME NEW p \in Plans, SavePlan(p)
      PROVE  SavedInv'
  <2>1. PlanShape' /\ SavedStays' /\ saved' \subseteq Plans
    BY <1>2 DEF SavePlan, PlanShape, SavedStays, Copied, Pointers, Session
  <2>2. StackShape'
    BY <1>2, FreedLemma DEF SavePlan
  <2> QED
    BY <1>2, <2>1, <2>2 DEF SavePlan, CursorShape, NoneFreed
<1>3. ASSUME NEW p \in Plans, SaveRefused(p)
      PROVE  SavedInv'
  <2>1. PlanShape' /\ SavedStays'
    BY <1>3 DEF SaveRefused, PlanShape, SavedStays, NoPlan, Pointers, Session
  <2>2. StackShape'
    BY <1>3, FreedLemma DEF SaveRefused
  <2> QED
    BY <1>3, <2>1, <2>2 DEF SaveRefused, CursorShape, NoneFreed
<1>4. ASSUME NEW p \in Plans, ReleasePlan(p)
      PROVE  SavedInv'
  <2>1. PlanShape' /\ SavedStays'
    BY <1>4 DEF ReleasePlan, PlanShape, SavedStays, Released, NoPlan,
                Pointers, Session
  <2>2. StackShape'
    BY <1>4, FreedLemma DEF ReleasePlan
  <2> QED
    BY <1>4, <2>1, <2>2 DEF ReleasePlan, CursorShape, NoneFreed
<1>5. ASSUME NEW p \in Plans, Exec(p) \/ Each(p)
      PROVE  SavedInv'
  <2>1. PICK frame \in Frame : Push(frame)
    BY <1>5 DEF Exec, Each, Frame
  <2> QED
    BY <1>5, <2>1, PushLemma
       DEF Exec, Each, PlanShape, CursorShape, SavedStays, NoneFreed
<1>6. ASSUME NEW c \in Cursors, NEW p \in Plans, OpenCursor(c, p)
      PROVE  SavedInv'
  BY <1>6 DEF OpenCursor, PlanShape, CursorShape, StackShape, SavedStays,
              NoneFreed, Pointers
<1>7. ASSUME NEW c \in Cursors, CloseCursor(c)
      PROVE  SavedInv'
  BY <1>7 DEF CloseCursor, Closed, PlanShape, CursorShape, StackShape,
              SavedStays, NoneFreed, Pointers
<1>8. CASE BeginCall \/ Transaction
  <2>1. PICK frame \in Frame : Push(frame)
    BY <1>8 DEF BeginCall, Transaction, Frame
  <2> QED
    BY <1>8, <2>1, PushLemma
       DEF BeginCall, Transaction, PlanShape, CursorShape, SavedStays, NoneFreed
<1>9. CASE ExecEnds \/ ExecFails \/ EachEnds
  <2>1. stack # <<>> /\ stack' = Pop(stack)
    BY <1>9 DEF ExecEnds, ExecFails, EachEnds
  <2>2. StackShape'
    BY <2>1, PopLemma
  <2> QED
    BY <1>9, <2>2 DEF ExecEnds, ExecFails, EachEnds, PlanShape, CursorShape,
                      SavedStays, NoneFreed
<1>10. CASE EndCall
  <2>1. /\ stack # <<>> /\ stack' = Pop(stack)
        /\ plans' = PlansAfter(Len(stack))
        /\ saved' = saved /\ refused' = refused
    BY <1>10 DEF EndCall
  <2>2. StackShape' /\ Len(stack) \in Nat \ {0}
    BY <2>1, PopLemma
  <2>3. PlanShape' /\ SavedStays'
    BY <2>1, <2>2, PlansAfterLemma DEF SavedStays
  <2>4. CursorShape' /\ NoneFreed'
    BY <1>10 DEF EndCall, ArgsAfter, CursorShape, NoneFreed, Pointers
  <2> QED
    BY <2>1, <2>2, <2>3, <2>4
<1>11. CASE EndBlock
  <2>1. PICK commit \in BOOLEAN :
          /\ stack # <<>> /\ stack' = Pop(stack)
          /\ plans' = plans \/ plans' = PlansAfter(Len(stack))
          /\ \/ cursors' = PortalsAfter(Len(stack), commit)
             \/ cursors' = [c \in Cursors |->
                  ArgsAfter(PortalsAfter(Len(stack), commit)[c], Len(stack))]
          /\ saved' = saved /\ refused' = refused
    BY <1>11 DEF EndBlock
  <2>2. StackShape' /\ Len(stack) \in Nat \ {0}
    BY <2>1, PopLemma
  <2>3. CursorShape' /\ NoneFreed'
    BY <2>1, PortalsAfterLemma
  <2>4. PlanShape' /\ SavedStays'
    <3>1. CASE plans' = plans
      BY <2>1, <3>1 DEF PlanShape, SavedStays
    <3>2. CASE plans' = PlansAfter(Len(stack))
      BY <2>1, <2>2, <3>2, PlansAfterLemma DEF SavedStays
    <3> QED
      BY <2>1, <3>1, <3>2
  <2> QED
    BY <2>1, <2>2, <2>3, <2>4
<1>12. CASE EndTransaction
  BY <1>12 DEF EndTransaction, PlanShape, CursorShape, StackShape, SavedStays,
               NoneFreed, Pointers
<1>13. ASSUME UNCHANGED <<plans, cursors, stack, saved, refused>>
       PROVE  SavedInv'
  BY <1>13 DEF PlanShape, CursorShape, StackShape, SavedStays, NoneFreed
<1> QED
  BY <1>1, <1>2, <1>3, <1>4, <1>5, <1>6, <1>7, <1>8, <1>9, <1>10, <1>11, <1>12,
     <1>13
     DEF Next, vars, PrepareFails, PlanIsDropped, ArgumentsFail, Collect,
         CursorIsClosed, UseCursor, ProgramRaises, Rescue

(* plplan.c:35-68: a plan that pl_plan_save copied belongs to the session, *)
(* whatever calls, blocks, exceptions and transactions end, until it is    *)
(* released; only a second save that the backend refuses loses it.         *)
THEOREM SavedPlansStay == Spec => []SavedStays
<1>1. SavedInv => SavedStays
  BY DEF SavedInv
<1> QED
  BY <1>1, SavedInit, SavedNext, PTL DEF Spec

-----------------------------------------------------------------------------
(* What is freed *)

(* A live plan belongs to the session, or to a connection that is there.   *)
Homes ==
  \A p \in Plans : plans[p].ptr = "live" =>
    \/ plans[p].home = Session
    \/ plans[p].home \in DOMAIN stack /\ Connected(plans[p].home)

(* A query runs on a plan that is there, and belongs to what is around it. *)
Executions ==
  \A i \in DOMAIN stack : stack[i].kind = "exec" /\ stack[i].sound =>
    /\ stack[i].plan \in Plans /\ plans[stack[i].plan].ptr = "live"
    /\ plans[stack[i].plan].home < i

PlansNotFreed == \A p \in Plans : plans[p].ptr # "freed"

FreedInv == Homes /\ Executions /\ PlansNotFreed /\ NothingFreedIsUsed

LEMMA FreedInit == Init => FreedInv
BY DEF Init, FreedInv, Homes, Executions, PlansNotFreed, NothingFreedIsUsed,
       NoPlan

(* The connections beneath are not touched by what is above them.          *)
LEMMA ConnectedBeneath ==
  ASSUME NEW h \in DOMAIN stack, h \in DOMAIN stack', Connected(h),
         \A i \in DOMAIN stack \cap DOMAIN stack' : stack'[i].kind = stack[i].kind,
         \A j \in DOMAIN stack' : j < h => j \in DOMAIN stack
  PROVE  Connected(h)'
BY DEF Connected

(* Steps that leave the plans alone, and push or pop what is no connection. *)
LEMMA PushKeeps ==
  ASSUME Shape, Homes, Executions, plans' = plans,
         NEW frame \in Frame, Push(frame),
         frame.kind = "exec" /\ frame.sound =>
           frame.plan \in Plans /\ plans[frame.plan].ptr = "live"
  PROVE  Homes' /\ Executions'
<1>0. StackShape /\ PlanShape
  BY DEF Shape
<1>1. /\ DOMAIN stack' = DOMAIN stack \cup {Len(stack) + 1}
      /\ stack'[Len(stack) + 1] = frame
      /\ \A i \in DOMAIN stack : stack'[i] = stack[i]
      /\ Len(stack) \in Nat
      /\ \A i \in DOMAIN stack : i \in Nat /\ i < Len(stack) + 1
  BY <1>0, PushLemma
<1>2. \A h \in DOMAIN stack : Connected(h) => Connected(h)'
  <2> TAKE h \in DOMAIN stack
  <2>1. \A j \in DOMAIN stack' : j < h => j \in DOMAIN stack
    BY <1>1
  <2> QED
    BY <1>1, <2>1, ConnectedBeneath
<1>3. Homes'
  BY <1>1, <1>2 DEF Homes
<1>4. frame.kind = "exec" /\ frame.sound =>
        plans[frame.plan].home < Len(stack) + 1
  BY <1>1 DEF Homes, Session
<1>5. Executions'
  BY <1>1, <1>4 DEF Executions
<1> QED
  BY <1>3, <1>5

LEMMA PopKeeps ==
  ASSUME Shape, Homes, Executions, stack # <<>>, stack' = Pop(stack),
         \/ plans' = plans /\ ~Connected(Len(stack))
         \/ plans' = PlansAfter(Len(stack))
  PROVE  Homes' /\ Executions'
<1>0. StackShape /\ PlanShape
  BY DEF Shape
<1> DEFINE n == Len(stack)
<1>1. /\ DOMAIN stack' = DOMAIN stack \ {n}
      /\ \A i \in DOMAIN stack' : stack'[i] = stack[i]
      /\ n \in Nat \ {0} /\ n \in DOMAIN stack
      /\ DOMAIN stack = 1..n
  BY <1>0, PopLemma DEF StackShape
<1>2. \A h \in DOMAIN stack' : Connected(h) => Connected(h)'
  BY <1>1, ConnectedBeneath
<1>3. ASSUME NEW p \in Plans, plans'[p].ptr = "live"
      PROVE  plans'[p] = plans[p] /\ plans[p].home # n
  <2>1. CASE plans' = plans /\ ~Connected(n)
    BY <1>1, <1>3, <2>1 DEF Homes, Session
  <2>2. CASE plans' = PlansAfter(n)
    BY <1>0, <1>1, <1>3, <2>2, PlansAfterLemma
  <2> QED
    BY <2>1, <2>2
<1>4. Homes'
  BY <1>1, <1>2, <1>3 DEF Homes
<1>5. ASSUME NEW i \in DOMAIN stack', stack'[i].kind = "exec", stack'[i].sound
      PROVE  /\ stack'[i].plan \in Plans /\ plans'[stack'[i].plan].ptr = "live"
             /\ plans'[stack'[i].plan].home < i
  <2>1. /\ stack[i].plan \in Plans /\ plans[stack[i].plan].ptr = "live"
        /\ plans[stack[i].plan].home < i /\ stack'[i] = stack[i] /\ i <= n
    BY <1>1, <1>5 DEF Executions
  <2>2. plans[stack[i].plan].home # n
    BY <1>0, <1>1, <2>1 DEF PlanShape
  <2>3. plans'[stack[i].plan] = plans[stack[i].plan]
    BY <1>0, <1>1, <2>1, <2>2, PlansAfterLemma
  <2> QED
    BY <2>1, <2>3
<1>6. Executions'
  BY <1>5 DEF Executions
<1> QED
  BY <1>4, <1>6

(* Steps that free plan p, or copy it.                                     *)
LEMMA FreeKeeps ==
  ASSUME Shape, Homes, Executions, NEW p \in Plans, stack' = Freed(p),
         \A q \in Plans \ {p} : plans'[q] = plans[q],
         plans'[p].ptr = "live" => plans'[p].home = Session
  PROVE  Homes' /\ Executions'
<1>0. StackShape /\ PlanShape
  BY DEF Shape
<1>1. /\ DOMAIN stack' = DOMAIN stack
      /\ \A i \in DOMAIN stack :
           /\ stack'[i].kind = stack[i].kind
           /\ stack[i].kind = "exec" => stack'[i].plan = stack[i].plan
           /\ stack[i].kind = "exec" /\ stack'[i].sound =>
                stack[i].plan # p /\ stack[i].sound
  BY <1>0, FreedLemma
<1>2. \A h \in DOMAIN stack : Connected(h) => Connected(h)'
  BY <1>1, ConnectedBeneath
<1>3. Homes'
  BY <1>1, <1>2 DEF Homes, Session
<1>4. Executions'
  BY <1>1 DEF Executions
<1> QED
  BY <1>3, <1>4

LEMMA FreedNext == SavedInv /\ FreedInv /\ [Next]_vars => FreedInv'
<1> SUFFICES ASSUME SavedInv, FreedInv, [Next]_vars PROVE FreedInv'
  OBVIOUS
<1> USE DEF FreedInv
<1>a. Shape /\ PlanShape /\ CursorShape /\ StackShape /\ NoneFreed
  BY DEF SavedInv, Shape
<1>1. ASSUME NEW p \in Plans, NEW save \in BOOLEAN, NewPlan(p, save)
      PROVE  FreedInv'
  <2>1. PICK owner \in Connection :
          LET plan == [ptr |-> "live", home |-> owner] IN
          plans' = [plans EXCEPT ![p] =
                      IF SaveAsked(save) THEN Copied(plan) ELSE plan]
    BY <1>1 DEF NewPlan
  <2>2. /\ \A q \in Plans \ {p} : plans'[q] = plans[q]
        /\ plans'[p].ptr = "live"
        /\ plans'[p].home = Session \/ plans'[p].home = owner
    BY <1>a, <2>1 DEF PlanShape, Copied
  <2>3. owner \in DOMAIN stack /\ Connected(owner)
    BY DEF Connection
  <2>4. Homes' /\ PlansNotFreed'
    BY <1>1, <2>2, <2>3
       DEF NewPlan, Homes, PlansNotFreed, Connected
  <2>5. Executions'
    BY <1>1, <2>2 DEF NewPlan, Executions, Executing, Frames
  <2> QED
    BY <1>1, <2>4, <2>5 DEF NewPlan, NothingFreedIsUsed
<1>2. ASSUME NEW p \in Plans, SavePlan(p) \/ SaveRefused(p) \/ ReleasePlan(p)
      PROVE  FreedInv'
  <2>1. /\ \A q \in Plans \ {p} : plans'[q] = plans[q]
        /\ plans'[p].ptr \in {plans[p].ptr, "null"}
        /\ plans'[p].ptr = "live" => plans'[p].home = Session
    BY <1>2, <1>a DEF SavePlan, SaveRefused, ReleasePlan, Released, Copied,
                      NoPlan, PlanShape
  <2>2. stack' = Freed(p) /\ touched' = plans[p].ptr
    BY <1>2 DEF SavePlan, SaveRefused, ReleasePlan, Use
  <2>3. Homes' /\ Executions'
    BY <1>a, <2>1, <2>2, FreeKeeps
  <2> QED
    BY <2>1, <2>2, <2>3 DEF PlansNotFreed, NothingFreedIsUsed
<1>3. ASSUME NEW p \in Plans, Exec(p)
      PROVE  FreedInv'
  <2> DEFINE frame == [kind |-> "exec", plan |-> p,
                       sound |-> plans[p].ptr = "live"]
  <2>1. /\ Push(frame) /\ plans' = plans /\ touched' = plans[p].ptr
        /\ frame \in Frame
    BY <1>3 DEF Exec, Use, Frame
  <2>2. Homes' /\ Executions'
    BY <1>a, <2>1, PushKeeps
  <2> QED
    BY <2>1, <2>2 DEF PlansNotFreed, NothingFreedIsUsed
<1>4. ASSUME NEW p \in Plans, Each(p)
      PROVE  FreedInv'
  <2> DEFINE frame == [kind |-> "each"]
  <2>1. /\ Push(frame) /\ plans' = plans /\ touched' = plans[p].ptr
        /\ frame \in Frame /\ frame.kind # "exec"
    BY <1>4 DEF Each, Use, Frame
  <2> HIDE DEF frame
  <2>2. Homes' /\ Executions'
    BY <1>a, <2>1, PushKeeps
  <2> QED
    BY <2>1, <2>2 DEF PlansNotFreed, NothingFreedIsUsed
<1>5. CASE BeginCall \/ Transaction
  <2>1. PICK frame \in Frame : Push(frame) /\ frame.kind # "exec"
    BY <1>5 DEF BeginCall, Transaction, Frame
  <2>2. plans' = plans /\ touched' = touched
    BY <1>5 DEF BeginCall, Transaction
  <2>3. Homes' /\ Executions'
    BY <1>a, <2>1, <2>2, PushKeeps
  <2> QED
    BY <2>2, <2>3 DEF PlansNotFreed, NothingFreedIsUsed
<1>6. CASE ExecEnds \/ ExecFails \/ EachEnds
  <2>1. /\ stack # <<>> /\ stack' = Pop(stack) /\ plans' = plans
        /\ Top.kind \in {"exec", "each"}
    BY <1>6 DEF ExecEnds, ExecFails, EachEnds
  <2>2. ~Connected(Len(stack))
    BY <2>1 DEF Connected, Top
  <2>3. Homes' /\ Executions'
    BY <1>a, <2>1, <2>2, PopKeeps
  <2>4. Len(stack) \in DOMAIN stack
    BY <1>a, <2>1, PopLemma
  <2>5. touched' # "freed"
    BY <1>6, <2>4 DEF ExecEnds, ExecFails, EachEnds, Top, Executions,
                      NothingFreedIsUsed
  <2> QED
    BY <2>1, <2>3, <2>5 DEF PlansNotFreed, NothingFreedIsUsed
<1>7. CASE EndCall
  <2>1. /\ stack # <<>> /\ stack' = Pop(stack)
        /\ plans' = PlansAfter(Len(stack)) /\ touched' = touched
    BY <1>7 DEF EndCall
  <2>2. Homes' /\ Executions'
    BY <1>a, <2>1, PopKeeps
  <2>3. PlansNotFreed'
    BY <1>a, <2>1, PlansAfterLemma, PopLemma DEF PlansNotFreed
  <2> QED
    BY <2>1, <2>2, <2>3 DEF NothingFreedIsUsed
<1>8. CASE EndBlock
  <2>1. /\ stack # <<>> /\ stack' = Pop(stack) /\ touched' = touched
        /\ \/ plans' = plans /\ ~Connected(Len(stack))
           \/ plans' = PlansAfter(Len(stack))
    BY <1>8 DEF EndBlock
  <2>2. Homes' /\ Executions'
    BY <1>a, <2>1, PopKeeps
  <2>3. PlansNotFreed'
    BY <1>a, <2>1, PlansAfterLemma, PopLemma DEF PlansNotFreed
  <2> QED
    BY <2>1, <2>2, <2>3 DEF NothingFreedIsUsed
<1>9. ASSUME plans' = plans, stack' = stack, touched' # "freed"
      PROVE  FreedInv'
  BY <1>9 DEF Homes, Executions, PlansNotFreed, NothingFreedIsUsed, Connected
<1>10. ASSUME NEW c \in Cursors,
              \/ UseCursor(c) \/ CloseCursor(c)
              \/ \E p \in Plans : OpenCursor(c, p)
       PROVE  FreedInv'
  BY <1>9, <1>10, <1>a DEF UseCursor, CloseCursor, OpenCursor, Use, NoneFreed,
                           PlansNotFreed
<1>11. CASE Collect
  BY <1>9, <1>11 DEF Collect, PortalFree, FreeArgs, NoArgs, NothingFreedIsUsed
<1>12. CASE UNCHANGED <<plans, stack, touched>>
  BY <1>9, <1>12 DEF NothingFreedIsUsed
<1> QED
  BY <1>1, <1>2, <1>3, <1>4, <1>5, <1>6, <1>7, <1>8, <1>10, <1>11, <1>12
     DEF Next, vars, PrepareFails, PlanIsDropped, ArgumentsFail,
         CursorIsClosed, ProgramRaises, Rescue, EndTransaction

(* plplan.c:350-382, 566-587, 705-720: in every program, in every nesting  *)
(* of calls, blocks, executions and exceptions, no plan and no portal is   *)
(* used after this code gave it back, no plan ends under a query that runs *)
(* on it, and no argument value is freed after its memory.                 *)
THEOREM FreedIsNotUsed == Spec => []NothingFreedIsUsed
<1>1. Init => SavedInv /\ FreedInv
  BY SavedInit, FreedInit
<1>2. SavedInv /\ FreedInv /\ [Next]_vars => (SavedInv /\ FreedInv)'
  BY SavedNext, FreedNext
<1>3. SavedInv /\ FreedInv => NothingFreedIsUsed
  BY DEF FreedInv
<1> QED
  BY <1>1, <1>2, <1>3, PTL DEF Spec

=============================================================================
