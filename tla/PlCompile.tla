----------------------------- MODULE PlCompile -----------------------------
(***************************************************************************)
(* The function cache of src/plruby.c: pl_compile, which defines           *)
(* PLtemp.proc_<oid> from the row of pg_proc and keeps a description of it *)
(* in PLruby_hash, while functions are replaced, transactions roll back    *)
(* and functions call each other.                                          *)
(*                                                                         *)
(* pl_compile runs no Ruby code of a program but the definition itself, so *)
(* a call up to the start of the body is one action.                       *)
(*                                                                         *)
(* Bounds: MaxBody definitions, MaxXid transactions, MaxDepth nested calls.*)
(***************************************************************************)
EXTENDS Integers, Sequences

CONSTANTS
  Fun,      \* oids of PL/Ruby functions
  Arg,      \* types of the arguments and the result of a polymorphic call
  BadArg,   \* those among them pl_compile refuses: pseudo types
  Late,     \* where pl_compile may raise for a reason of its own, such as
            \* "timeout": "before" it has the new method, "after" it; "never"
  Freeze,   \* VACUUM FREEZE may visit pg_proc
  MaxBody, MaxXid, MaxDepth

ASSUME ParametersAssumption ==
  /\ BadArg \subseteq Arg /\ Late \subseteq {"never", "before", "after"}
  /\ Freeze \in BOOLEAN
  /\ MaxBody \in Nat /\ MaxXid \in Nat /\ MaxDepth \in Nat

VARIABLES
  catalog,    \* the rows of pg_proc the transaction sees
  committed,  \* the rows it rolls back to
  xid, cid,   \* the transaction and its command counter
  bodies,     \* number of bodies written so far
  hash,       \* PLruby_hash
  method,     \* the body of PLtemp.proc_<oid>
  stack,      \* functions that run, innermost last
  odd         \* history: a call was "refused" for its types or raised "late",
              \* rows were "frozen"

vars == <<catalog, committed, xid, cid, bodies, hash, method, stack, odd>>

NoBody == 0

NoDesc == [xmin |-> 0, cmin |-> 0, arg |-> "none"]

FrozenXid == 0

-----------------------------------------------------------------------------
Desc_untyped(row, a) == [xmin |-> row.xmin, cmin |-> row.cmin]  \* mutant

(* pl_proc_desc *)
Desc(row, a) == [xmin |-> row.xmin, cmin |-> row.cmin, arg |-> a]

UpToDate_xmin(d, row, a) ==  \* mutant: cmin is not compared
  d.xmin = row.xmin /\ d.arg = a

UpToDate(d, row, a) == d = Desc(row, a)

Forget_none(h, f) == h  \* mutant: the failed function stays in PLruby_hash

Forget(h, f) == [h EXCEPT ![f] = NoDesc]

Compiled(h, m, ok) == [hash |-> h, method |-> m, ok |-> ok]

(* pl_compile of f for arguments of type a.  A method is removed before    *)
(* the new one is known to compile; removing one that is not there raises. *)
Compile(f, a, late) ==
  LET row     == catalog[f]
      known   == hash[f] # NoDesc
      removed == [method EXCEPT ![f] = NoBody]
  IN  IF known /\ UpToDate(hash[f], row, a)
      THEN Compiled(hash, method, TRUE)
      ELSE IF known /\ method[f] = NoBody
      THEN Compiled(hash, method, FALSE)
      ELSE IF late = "before" \/ a \in BadArg
      THEN Compiled(hash, removed, FALSE)
      ELSE IF ~row.ok
      THEN Compiled(Forget(hash, f), removed, FALSE)
      ELSE Compiled([hash EXCEPT ![f] = Desc(row, a)],
                    [method EXCEPT ![f] = row.body], late # "after")

(* The method is called when pl_compile has not raised. *)
Starts(r, f) == r.ok /\ r.method[f] # NoBody

Init ==
  /\ catalog \in [Fun -> [xmin : {1}, cmin : {0}, body : {1}, ok : BOOLEAN]]
  /\ committed = catalog
  /\ xid = 2 /\ cid = 0 /\ bodies = 1
  /\ hash = [f \in Fun |-> NoDesc]
  /\ method = [f \in Fun |-> NoBody]
  /\ stack = <<>> /\ odd = {}

Odd(a, late) == (IF a \in BadArg THEN {"refused"} ELSE {})
                \cup (IF late # "never" THEN {"late"} ELSE {})

(* A query calls f: pl_func_handler or pl_trigger_handler up to the call   *)
(* of the method.                                                          *)
Call(f, a, late) ==
  /\ Len(stack) < MaxDepth
  /\ LET r == Compile(f, a, late) IN
       /\ hash' = r.hash /\ method' = r.method
       /\ stack' = IF Starts(r, f)
                   THEN Append(stack, [fn |-> f, row |-> catalog[f], arg |-> a,
                                       body |-> r.method[f], desc |-> r.hash[f]])
                   ELSE stack
  /\ odd' = odd \cup Odd(a, late)
  /\ UNCHANGED <<catalog, committed, xid, cid, bodies>>

Return ==
  /\ stack # <<>>
  /\ stack' = SubSeq(stack, 1, Len(stack) - 1)
  /\ UNCHANGED <<catalog, committed, xid, cid, bodies, hash, method, odd>>

(* CREATE OR REPLACE FUNCTION, which a running function may execute.       *)
Replace ==
  /\ bodies < MaxBody
  /\ \E f \in Fun, ok \in BOOLEAN :
       catalog' = [catalog EXCEPT ![f] = [xmin |-> xid, cmin |-> cid,
                                          body |-> bodies + 1, ok |-> ok]]
  /\ bodies' = bodies + 1
  /\ cid' = cid + 1
  /\ UNCHANGED <<committed, xid, hash, method, stack, odd>>

(* The session's functions outlive the transaction. *)
EndTransaction ==
  /\ stack = <<>> /\ xid < MaxXid
  /\ \/ committed' = catalog /\ UNCHANGED catalog
     \/ catalog' = committed /\ UNCHANGED committed
  /\ xid' = xid + 1 /\ cid' = 0
  /\ UNCHANGED <<bodies, hash, method, stack, odd>>

VacuumFreeze ==
  /\ Freeze /\ stack = <<>> /\ catalog = committed
  /\ \E f \in Fun :
       catalog' = [catalog EXCEPT ![f].xmin = FrozenXid]
  /\ committed' = catalog' /\ odd' = odd \cup {"frozen"}
  /\ UNCHANGED <<xid, cid, bodies, hash, method, stack>>

Next ==
  \/ \E f \in Fun, a \in Arg, late \in Late : Call(f, a, late)
  \/ Return \/ Replace \/ EndTransaction \/ VacuumFreeze

Spec == Init /\ [][Next]_vars

-----------------------------------------------------------------------------
(* Properties *)

Row == [xmin : Nat, cmin : Nat, body : Nat, ok : BOOLEAN]

Descs == [xmin : Nat, cmin : Nat, arg : Arg \cup {"none"}]

Activation == [fn : Fun, row : Row, arg : Arg, body : Nat, desc : Descs]

(* Type invariant: rows, descriptions and activations keep their shape.    *)
TypeOK ==
  /\ catalog \in [Fun -> Row] /\ committed \in [Fun -> Row]
  /\ xid \in Nat /\ cid \in Nat /\ bodies \in Nat
  /\ hash \in [Fun -> Descs] /\ method \in [Fun -> Nat]
  /\ stack \in Seq(Activation)
  /\ odd \subseteq {"refused", "late", "frozen"}

StackIsCurrent ==
  \A i \in 1..Len(stack) :
    /\ stack[i].body = stack[i].row.body
    /\ stack[i].desc = Desc(stack[i].row, stack[i].arg)

(* A call runs the body the catalog has for it, with a description made    *)
(* for the types of its arguments, through replacements, rollbacks and     *)
(* failed compilations (uptodate in pl_compile), unless VACUUM FREEZE has  *)
(* given two rows the same xmin.                                           *)
RunsCurrent == "frozen" \notin odd => StackIsCurrent

(* Functions are defined as singleton methods of PLtemp: a call whose body *)
(* compiles and whose types are accepted starts, whatever failed before.   *)
EveryGoodCallStarts ==
  \A f \in Fun, a \in Arg \ BadArg :
    catalog[f].ok => Starts(Compile(f, a, "never"), f)

(* It does where nothing but bodies failed: a definition that does not     *)
(* compile is forgotten (rb_hash_delete) with its method.                  *)
GoodCallStarts == odd \subseteq {"frozen"} => EveryGoodCallStarts

=============================================================================
