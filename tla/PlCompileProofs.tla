-------------------------- MODULE PlCompileProofs --------------------------
(***************************************************************************)
(* Until VACUUM FREEZE visits pg_proc, fn_xmin and fn_cmin identify a      *)
(* definition, so a call runs the body the catalog has for it.             *)
(*                                                                         *)
(* The second part is about methods: as long as no type was refused and no *)
(* timeout came late, a function that is known has one.                    *)
(***************************************************************************)
EXTENDS PlCompile, TLAPS

(* The row was written before the command that comes next. *)
Written(x, c) == x < xid \/ (x = xid /\ c < cid)

(* Rows are written before now, and those of a committed transaction       *)
(* before this transaction.                                                *)
Past ==
  \A f \in Fun :
    /\ catalog[f].xmin \in Nat \ {FrozenXid}
    /\ committed[f].xmin \in Nat \ {FrozenXid}
    /\ Written(catalog[f].xmin, catalog[f].cmin)
    /\ committed[f].xmin < xid

(* Two definitions of a function do not share xmin and cmin.               *)
Distinct ==
  \A f \in Fun :
    catalog[f].xmin = committed[f].xmin /\ catalog[f].cmin = committed[f].cmin
      => catalog[f] = committed[f]

Matches(d, row) == d.xmin = row.xmin /\ d.cmin = row.cmin

(* A description is of a definition of the past, and if that is the        *)
(* current or the committed one, the method is its body.                   *)
Cached ==
  \A f \in Fun :
    hash[f] # NoDesc =>
      /\ Written(hash[f].xmin, hash[f].cmin)
      /\ method[f] # NoBody =>
           /\ Matches(hash[f], catalog[f]) => method[f] = catalog[f].body
           /\ Matches(hash[f], committed[f]) => method[f] = committed[f].body

IInv == TypeOK /\ Past /\ Distinct /\ Cached /\ StackIsCurrent

-----------------------------------------------------------------------------
(* What adding and removing the innermost activation does to a stack.      *)
LEMMA Pushed ==
  ASSUME NEW S, NEW s \in Seq(S), NEW x \in S
  PROVE  Append(s, x) \in Seq(S)
  OBVIOUS

LEMMA Popped ==
  ASSUME NEW S, NEW s \in Seq(S), Len(s) >= 1
  PROVE  LET t == SubSeq(s, 1, Len(s) - 1) IN
         /\ t \in Seq(S)
         /\ \A i \in 1..Len(t) : i \in 1..Len(s) /\ t[i] = s[i]
  OBVIOUS

(* The parts of the state the catalog and the cache are compared by.       *)
LEMMA Numbers ==
  ASSUME TypeOK
  PROVE  /\ xid \in Nat /\ cid \in Nat /\ bodies \in Nat
         /\ catalog \in [Fun -> Row] /\ committed \in [Fun -> Row]
         /\ \A f \in Fun :
              /\ catalog[f].xmin \in Nat /\ catalog[f].cmin \in Nat
              /\ committed[f].xmin \in Nat /\ committed[f].cmin \in Nat
              /\ hash[f].xmin \in Nat /\ hash[f].cmin \in Nat
  BY DEF TypeOK, Row, Descs

LEMMA InitHolds == Init => IInv
<1> SUFFICES ASSUME Init PROVE IInv
  OBVIOUS
<1>1. TypeOK
  BY DEF Init, TypeOK, Row, Descs, NoDesc, NoBody
<1>2. Past /\ Distinct
  BY DEF Init, Past, Distinct, Written, FrozenXid
<1>3. Cached /\ StackIsCurrent
  BY DEF Init, Cached, StackIsCurrent
<1> QED
  BY <1>1, <1>2, <1>3 DEF IInv

(* What pl_compile leaves in the two tables, and what it starts.           *)
LEMMA CompileKeeps ==
  ASSUME IInv, NEW f \in Fun, NEW a \in Arg, NEW late,
         NEW r, r = Compile(f, a, late)
  PROVE  /\ r.hash \in [Fun -> Descs] /\ r.method \in [Fun -> Nat]
         /\ \A g \in Fun \ {f} : r.hash[g] = hash[g] /\ r.method[g] = method[g]
         /\ \/ r.hash[f] = NoDesc
            \/ r.hash[f] = hash[f] /\ r.method[f] \in {method[f], NoBody}
            \/ r.hash[f] = Desc(catalog[f], a) /\ r.method[f] = catalog[f].body
         /\ Starts(r, f) => /\ r.method[f] = catalog[f].body
                            /\ r.hash[f] = Desc(catalog[f], a)
<1> DEFINE row == catalog[f]
           known == hash[f] # NoDesc
           removed == [method EXCEPT ![f] = NoBody]
<1>0. /\ row \in Row /\ hash[f] \in Descs /\ method[f] \in Nat
      /\ row.body \in Nat /\ Desc(row, a) \in Descs /\ NoDesc \in Descs
      /\ hash \in [Fun -> Descs] /\ method \in [Fun -> Nat]
      /\ removed \in [Fun -> Nat]
  BY DEF IInv, TypeOK, Row, Descs, Desc, NoDesc, NoBody
<1>1. CASE known /\ UpToDate(hash[f], row, a)
  <2>1. r = Compiled(hash, method, TRUE)
    BY <1>1 DEF Compile
  <2>2. Matches(hash[f], row)
    BY <1>1 DEF Matches, UpToDate, Desc
  <2>3. method[f] # NoBody => method[f] = row.body
    BY <1>1, <2>2 DEF IInv, Cached
  <2> QED
    BY <2>1, <2>3, <1>0, <1>1 DEF Compiled, Starts, UpToDate
<1>2. CASE known /\ ~UpToDate(hash[f], row, a) /\ method[f] = NoBody
  <2>1. r = Compiled(hash, method, FALSE)
    BY <1>2 DEF Compile
  <2> QED
    BY <2>1, <1>0 DEF Compiled, Starts
<1>3. CASE /\ ~(known /\ UpToDate(hash[f], row, a))
           /\ ~(known /\ ~UpToDate(hash[f], row, a) /\ method[f] = NoBody)
  <2>1. \/ r = Compiled(hash, removed, FALSE)
        \/ r = Compiled(Forget(hash, f), removed, FALSE)
        \/ \E ok \in BOOLEAN :
             r = Compiled([hash EXCEPT ![f] = Desc(row, a)],
                          [method EXCEPT ![f] = row.body], ok)
    BY <1>3 DEF Compile
  <2>2. CASE r = Compiled(hash, removed, FALSE)
    BY <2>2, <1>0 DEF Compiled, Starts
  <2>3. CASE r = Compiled(Forget(hash, f), removed, FALSE)
    BY <2>3, <1>0 DEF Compiled, Starts, Forget
  <2>4. CASE \E ok \in BOOLEAN :
               r = Compiled([hash EXCEPT ![f] = Desc(row, a)],
                            [method EXCEPT ![f] = row.body], ok)
    BY <2>4, <1>0 DEF Compiled, Starts
  <2> QED
    BY <2>1, <2>2, <2>3, <2>4
<1> QED
  BY <1>1, <1>2, <1>3

LEMMA CallKeeps ==
  ASSUME IInv, NEW f \in Fun, NEW a \in Arg, NEW late, Call(f, a, late)
  PROVE  IInv'
<1> DEFINE r == Compile(f, a, late)
           act == [fn |-> f, row |-> catalog[f], arg |-> a,
                   body |-> r.method[f], desc |-> r.hash[f]]
<1>1. /\ r.hash \in [Fun -> Descs] /\ r.method \in [Fun -> Nat]
      /\ \A g \in Fun \ {f} : r.hash[g] = hash[g] /\ r.method[g] = method[g]
      /\ \/ r.hash[f] = NoDesc
         \/ r.hash[f] = hash[f] /\ r.method[f] \in {method[f], NoBody}
         \/ r.hash[f] = Desc(catalog[f], a) /\ r.method[f] = catalog[f].body
      /\ Starts(r, f) => /\ r.method[f] = catalog[f].body
                         /\ r.hash[f] = Desc(catalog[f], a)
  BY CompileKeeps
<1>2. /\ hash' = r.hash /\ method' = r.method
      /\ stack' = IF Starts(r, f) THEN Append(stack, act) ELSE stack
      /\ UNCHANGED <<catalog, committed, xid, cid, bodies>>
      /\ odd' = odd \cup Odd(a, late)
  BY DEF Call
<1> HIDE DEF r
<1>3. TypeOK'
  <2>1. act \in Activation
    BY <1>1 DEF IInv, TypeOK, Activation
  <2> QED
    <3>1. stack' \in Seq(Activation)
      <4> HIDE DEF act
      <4>1. stack \in Seq(Activation)
        BY DEF IInv, TypeOK
      <4> QED
        BY <1>2, <2>1, <4>1, Pushed
    <3>2. /\ hash' \in [Fun -> Descs] /\ method' \in [Fun -> Nat]
          /\ UNCHANGED <<catalog, committed, xid, cid, bodies>>
      BY <1>1, <1>2
    <3>3. odd' \subseteq {"refused", "late", "frozen"}
      BY <1>2 DEF IInv, TypeOK, Odd
    <3> QED
      BY <3>1, <3>2, <3>3 DEF IInv, TypeOK
<1>4. Past' /\ Distinct'
  BY <1>2 DEF IInv, Past, Distinct, Written
<1>5. Cached'
  <2> SUFFICES ASSUME NEW g \in Fun, hash'[g] # NoDesc
               PROVE  /\ Written(hash'[g].xmin, hash'[g].cmin)
                      /\ method'[g] # NoBody =>
                           /\ Matches(hash'[g], catalog[g])
                                => method'[g] = catalog[g].body
                           /\ Matches(hash'[g], committed[g])
                                => method'[g] = committed[g].body
    BY <1>2 DEF Cached, Written
  <2>1. CASE hash'[g] = hash[g] /\ method'[g] \in {method[g], NoBody}
    BY <2>1 DEF IInv, Cached
  <2>2. CASE hash'[g] = Desc(catalog[g], a) /\ method'[g] = catalog[g].body
    BY <2>2 DEF IInv, Past, Distinct, Matches, Desc
  <2> QED
    BY <1>1, <1>2, <2>1, <2>2
<1>6. StackIsCurrent'
  <2>1. CASE ~Starts(r, f)
    BY <1>2, <2>1 DEF IInv, StackIsCurrent
  <2>2. CASE Starts(r, f)
    <3>1. stack' = Append(stack, act)
      BY <1>2, <2>2
    <3>2. act.body = act.row.body /\ act.desc = Desc(act.row, act.arg)
      BY <1>1, <2>2
    <3> HIDE DEF act
    <3>3. stack \in Seq(Activation)
      BY DEF IInv, TypeOK
    <3> SUFFICES ASSUME NEW i \in 1..Len(stack')
                 PROVE  /\ stack'[i].body = stack'[i].row.body
                        /\ stack'[i].desc = Desc(stack'[i].row, stack'[i].arg)
      BY DEF StackIsCurrent, Desc
    <3>4. CASE i = Len(stack) + 1
      <4>1. stack'[i] = act
        BY <3>1, <3>3, <3>4
      <4> QED
        BY <4>1, <3>2
    <3>5. CASE i \in 1..Len(stack)
      <4>1. stack'[i] = stack[i]
        BY <3>1, <3>3, <3>5
      <4> QED
        BY <4>1, <3>5 DEF IInv, StackIsCurrent
    <3> QED
      BY <3>1, <3>3, <3>4, <3>5
  <2> QED
    BY <2>1, <2>2
<1> QED
  BY <1>3, <1>4, <1>5, <1>6 DEF IInv

LEMMA ReturnKeeps == IInv /\ Return => IInv'
<1> SUFFICES ASSUME IInv, Return PROVE IInv'
  OBVIOUS
<1>0. /\ stack' \in Seq(Activation)
      /\ \A i \in 1..Len(stack') : i \in 1..Len(stack) /\ stack'[i] = stack[i]
  <2>1. stack \in Seq(Activation)
    BY DEF IInv, TypeOK
  <2>2. Len(stack) >= 1
    BY <2>1 DEF Return
  <2> QED
    BY <2>1, <2>2, Popped DEF Return
<1>1. TypeOK'
  BY <1>0 DEF IInv, TypeOK, Return
<1>2. Past' /\ Distinct' /\ Cached'
  BY DEF IInv, Past, Distinct, Cached, Written, Return
<1>3. StackIsCurrent'
  BY <1>0 DEF IInv, StackIsCurrent
<1> QED
  BY <1>1, <1>2, <1>3 DEF IInv

LEMMA ReplaceKeeps == IInv /\ Replace => IInv'
<1> SUFFICES ASSUME IInv, Replace PROVE IInv'
  OBVIOUS
<1> PICK g \in Fun, ok \in BOOLEAN :
      catalog' = [catalog EXCEPT ![g] = [xmin |-> xid, cmin |-> cid,
                                         body |-> bodies + 1, ok |-> ok]]
  BY DEF Replace
<1>0. bodies' = bodies + 1 /\ cid' = cid + 1
      /\ UNCHANGED <<committed, xid, hash, method, stack, odd>>
  BY DEF Replace
<1>n. /\ xid \in Nat /\ cid \in Nat /\ bodies \in Nat
      /\ catalog \in [Fun -> Row] /\ committed \in [Fun -> Row]
      /\ \A f \in Fun :
           /\ catalog[f].xmin \in Nat /\ catalog[f].cmin \in Nat
           /\ committed[f].xmin \in Nat /\ committed[f].cmin \in Nat
           /\ hash[f].xmin \in Nat /\ hash[f].cmin \in Nat
  BY Numbers DEF IInv
<1>1. TypeOK'
  BY <1>0 DEF IInv, TypeOK, Row
<1>c. /\ catalog'[g].xmin = xid /\ catalog'[g].cmin = cid
      /\ \A f \in Fun \ {g} : catalog'[f] = catalog[f]
  BY <1>n
<1>p. \A f \in Fun : /\ catalog[f].xmin # 0 /\ committed[f].xmin # 0
                     /\ Written(catalog[f].xmin, catalog[f].cmin)
                     /\ committed[f].xmin < xid
  BY DEF IInv, Past, FrozenXid
<1>2. Past'
  <2> SUFFICES ASSUME NEW f \in Fun
               PROVE  /\ catalog'[f].xmin \in Nat \ {FrozenXid}
                      /\ committed[f].xmin \in Nat \ {FrozenXid}
                      /\ Written(catalog[f].xmin, catalog[f].cmin)'
                      /\ committed[f].xmin < xid
    BY <1>0 DEF Past, Written
  <2>1. xid > 0
    BY <1>n, <1>p
  <2>2. CASE f = g
    <3>1. Written(catalog[f].xmin, catalog[f].cmin)'
      BY <1>0, <1>n, <1>c, <2>2 DEF Written
    <3> QED
      BY <1>n, <1>p, <1>c, <2>1, <2>2, <3>1 DEF FrozenXid
  <2>3. CASE f # g
    <3>1. catalog'[f] = catalog[f]
      BY <1>c, <2>3
    <3>2. Written(catalog[f].xmin, catalog[f].cmin)'
      BY <1>0, <1>n, <1>p, <3>1 DEF Written
    <3> QED
      BY <1>n, <1>p, <3>1, <3>2 DEF FrozenXid
  <2> QED
    BY <2>2, <2>3
<1>3. Distinct'
  BY <1>0, <1>n, <1>p, <1>c DEF IInv, Distinct
<1>4. Cached'
  <2> SUFFICES ASSUME NEW f \in Fun, hash[f] # NoDesc
               PROVE  /\ Written(hash[f].xmin, hash[f].cmin)'
                      /\ method[f] # NoBody =>
                           /\ Matches(hash[f], catalog'[f])
                                => method[f] = catalog'[f].body
                           /\ Matches(hash[f], committed[f])
                                => method[f] = committed[f].body
    BY <1>0 DEF Cached, Matches, Written
  <2>1. /\ Written(hash[f].xmin, hash[f].cmin)
        /\ method[f] # NoBody =>
             /\ Matches(hash[f], catalog[f]) => method[f] = catalog[f].body
             /\ Matches(hash[f], committed[f]) => method[f] = committed[f].body
    BY DEF IInv, Cached
  <2>2. Written(hash[f].xmin, hash[f].cmin)'
    BY <1>0, <1>n, <2>1 DEF Written
  <2>3. CASE f = g
    <3>1. ~Matches(hash[f], catalog'[f])
      BY <1>n, <1>c, <2>1, <2>3 DEF Matches, Written
    <3> QED
      BY <2>1, <2>2, <3>1
  <2>4. CASE f # g
    <3>1. catalog'[f] = catalog[f]
      BY <1>c, <2>4
    <3> QED
      BY <2>1, <2>2, <3>1
  <2> QED
    BY <2>3, <2>4
<1>5. StackIsCurrent'
  BY <1>0 DEF IInv, StackIsCurrent
<1> QED
  BY <1>1, <1>2, <1>3, <1>4, <1>5 DEF IInv

LEMMA EndTransactionKeeps == IInv /\ EndTransaction => IInv'
<1> SUFFICES ASSUME IInv, EndTransaction PROVE IInv'
  OBVIOUS
<1>0. /\ \/ committed' = catalog /\ catalog' = catalog
         \/ catalog' = committed /\ committed' = committed
      /\ xid' = xid + 1 /\ cid' = 0
      /\ UNCHANGED <<bodies, hash, method, stack, odd>>
  BY DEF EndTransaction
<1>n. /\ xid \in Nat /\ cid \in Nat /\ bodies \in Nat
      /\ catalog \in [Fun -> Row] /\ committed \in [Fun -> Row]
      /\ \A f \in Fun :
           /\ catalog[f].xmin \in Nat /\ catalog[f].cmin \in Nat
           /\ committed[f].xmin \in Nat /\ committed[f].cmin \in Nat
           /\ hash[f].xmin \in Nat /\ hash[f].cmin \in Nat
  BY Numbers DEF IInv
<1>1. TypeOK'
  BY <1>0 DEF IInv, TypeOK
<1>2. Past'
  <2>1. \A f \in Fun :
          /\ catalog[f].xmin # 0 /\ committed[f].xmin # 0
          /\ catalog[f].xmin < xid + 1 /\ committed[f].xmin < xid + 1
    <3> TAKE f \in Fun
    <3>1. /\ catalog[f].xmin \in Nat \ {FrozenXid}
          /\ committed[f].xmin \in Nat \ {FrozenXid}
          /\ Written(catalog[f].xmin, catalog[f].cmin)
          /\ committed[f].xmin < xid
      BY DEF IInv, Past
    <3> QED
      BY <1>n, <3>1 DEF Written, FrozenXid
  <2> QED
    BY <1>0, <1>n, <2>1 DEF Past, Written, FrozenXid
<1>3. Distinct'
  BY <1>0 DEF IInv, Distinct
<1>4. Cached'
  <2>1. \A f \in Fun : Written(hash[f].xmin, hash[f].cmin)
                         => Written(hash[f].xmin, hash[f].cmin)'
    BY <1>0, <1>n DEF Written
  <2> QED
    BY <1>0, <2>1 DEF IInv, Cached, Written
<1>5. StackIsCurrent'
  BY <1>0 DEF IInv, StackIsCurrent
<1> QED
  BY <1>1, <1>2, <1>3, <1>4, <1>5 DEF IInv

(* What has been frozen stays so. *)
LEMMA OddStays == [Next]_vars => odd \subseteq odd'
  BY DEF Next, Call, Return, Replace, EndTransaction, VacuumFreeze, vars

(* The inductive invariant: until rows are frozen, descriptions and        *)
(* methods belong to definitions of the past, which xmin and cmin name.    *)
THEOREM Inductive == Spec => [](("frozen" \notin odd) => IInv)
<1> DEFINE Inv == ("frozen" \notin odd) => IInv
<1>1. Inv /\ [Next]_vars => Inv'
  <2> SUFFICES ASSUME IInv, [Next]_vars, "frozen" \notin odd' PROVE IInv'
    BY OddStays
  <2>1. CASE \E f \in Fun, a \in Arg, late \in Late : Call(f, a, late)
    BY <2>1, CallKeeps
  <2>2. CASE Return
    BY <2>2, ReturnKeeps
  <2>3. CASE Replace
    BY <2>3, ReplaceKeeps
  <2>4. CASE EndTransaction
    BY <2>4, EndTransactionKeeps
  <2>5. CASE VacuumFreeze
    BY <2>5 DEF VacuumFreeze
  <2>6. CASE UNCHANGED vars
    BY <2>6 DEF vars, IInv, TypeOK, Past, Distinct, Cached, StackIsCurrent,
                Written
  <2> QED
    BY <2>1, <2>2, <2>3, <2>4, <2>5, <2>6 DEF Next
<1> QED
  BY InitHolds, <1>1, PTL DEF Spec

(* Every call runs the body the catalog has for it, with a description of  *)
(* the types of its arguments, unless VACUUM FREEZE has been at work.      *)
THEOREM CurrentBody == Spec => []RunsCurrent
<1>1. (("frozen" \notin odd) => IInv) => RunsCurrent
  BY DEF IInv, RunsCurrent
<1> QED
  BY Inductive, <1>1, PTL

-----------------------------------------------------------------------------
(* Frozen rows and failed calls included                                   *)

LEMMA CompileTypes ==
  ASSUME TypeOK, NEW f \in Fun, NEW a \in Arg, NEW late
  PROVE  /\ Compile(f, a, late).hash \in [Fun -> Descs]
         /\ Compile(f, a, late).method \in [Fun -> Nat]
<1> DEFINE row == catalog[f]
           removed == [method EXCEPT ![f] = NoBody]
           r == Compile(f, a, late)
<1>1. /\ row.body \in Nat /\ Desc(row, a) \in Descs /\ NoDesc \in Descs
      /\ hash \in [Fun -> Descs] /\ method \in [Fun -> Nat]
      /\ removed \in [Fun -> Nat] /\ Forget(hash, f) \in [Fun -> Descs]
  BY DEF TypeOK, Row, Descs, Desc, NoDesc, NoBody, Forget
<1>2. \/ r.hash = hash /\ r.method \in {method, removed}
      \/ r.hash = Forget(hash, f) /\ r.method = removed
      \/ /\ r.hash = [hash EXCEPT ![f] = Desc(row, a)]
         /\ r.method = [method EXCEPT ![f] = row.body]
  BY DEF Compile, Compiled
<1> HIDE DEF r
<1>3. /\ [hash EXCEPT ![f] = Desc(row, a)] \in [Fun -> Descs]
      /\ [method EXCEPT ![f] = row.body] \in [Fun -> Nat]
  BY <1>1
<1> HIDE DEF removed
<1> QED
  BY <1>1, <1>2, <1>3 DEF r

LEMMA TypesStep == TypeOK /\ [Next]_vars => TypeOK'
<1> SUFFICES ASSUME TypeOK, [Next]_vars PROVE TypeOK'
  OBVIOUS
<1>1. ASSUME NEW f \in Fun, NEW a \in Arg, NEW late \in Late, Call(f, a, late)
      PROVE  TypeOK'
  <2> DEFINE r == Compile(f, a, late)
             act == [fn |-> f, row |-> catalog[f], arg |-> a,
                     body |-> r.method[f], desc |-> r.hash[f]]
  <2>1. r.hash \in [Fun -> Descs] /\ r.method \in [Fun -> Nat]
    BY CompileTypes
  <2>2. /\ hash' = r.hash /\ method' = r.method
        /\ stack' \in {stack, Append(stack, act)}
        /\ UNCHANGED <<catalog, committed, xid, cid, bodies>>
        /\ odd' = odd \cup Odd(a, late)
    BY <1>1 DEF Call
  <2> HIDE DEF r
  <2>3. act \in Activation /\ stack \in Seq(Activation)
    BY <2>1 DEF TypeOK, Activation
  <2>4. stack' \in Seq(Activation)
    <3> HIDE DEF act
    <3> QED
      BY <2>2, <2>3, Pushed
  <2>5. odd' \subseteq {"refused", "late", "frozen"}
    BY <2>2 DEF TypeOK, Odd
  <2> QED
    BY <2>1, <2>2, <2>4, <2>5 DEF TypeOK
<1>2. CASE Return
  <2>1. stack \in Seq(Activation) /\ Len(stack) >= 1
    BY <1>2 DEF TypeOK, Return
  <2>2. stack' \in Seq(Activation)
    BY <1>2, <2>1, Popped DEF Return
  <2> QED
    BY <1>2, <2>2 DEF TypeOK, Return
<1>3. CASE Replace
  <2>1. PICK f \in Fun, ok \in BOOLEAN :
          catalog' = [catalog EXCEPT ![f] = [xmin |-> xid, cmin |-> cid,
                                             body |-> bodies + 1, ok |-> ok]]
    BY <1>3 DEF Replace
  <2>2. catalog' \in [Fun -> Row]
    BY <2>1 DEF TypeOK, Row
  <2> QED
    BY <1>3, <2>2 DEF TypeOK, Replace
<1>4. CASE EndTransaction
  BY <1>4 DEF TypeOK, EndTransaction
<1>5. CASE VacuumFreeze
  <2>1. PICK f \in Fun : catalog' = [catalog EXCEPT ![f].xmin = FrozenXid]
    BY <1>5 DEF VacuumFreeze
  <2>2. catalog' \in [Fun -> Row]
    BY <2>1 DEF TypeOK, Row, FrozenXid
  <2> QED
    BY <1>5, <2>2 DEF TypeOK, VacuumFreeze
<1>6. CASE UNCHANGED vars
  BY <1>6 DEF TypeOK, vars
<1> QED
  BY <1>1, <1>2, <1>3, <1>4, <1>5, <1>6 DEF Next

(* Rows of pg_proc, the entries of PLruby_hash and the activations are     *)
(* well typed whatever fails or is frozen (pl_compile).                    *)
THEOREM TypeCorrect == Spec => []TypeOK
<1>1. Init => TypeOK
  BY InitHolds DEF IInv
<1> QED
  BY <1>1, TypesStep, PTL DEF Spec

(* Nothing but a body failed to compile.                                   *)
Even == odd \subseteq {"frozen"}

(* A function that pl_compile knows has its method.                        *)
MethodsInv ==
  /\ TypeOK
  /\ \A f \in Fun : catalog[f].body # NoBody /\ committed[f].body # NoBody
  /\ Even => \A f \in Fun : hash[f] # NoDesc => method[f] # NoBody

LEMMA EvenBefore == [Next]_vars /\ Even' => Even
  BY OddStays DEF Even

LEMMA MethodsStep == MethodsInv /\ [Next]_vars => MethodsInv'
<1> SUFFICES ASSUME MethodsInv, [Next]_vars PROVE MethodsInv'
  OBVIOUS
<1>1. TypeOK /\ TypeOK'
  BY TypesStep DEF MethodsInv
<1>2. ASSUME NEW f \in Fun, NEW a \in Arg, NEW late \in Late, Call(f, a, late)
      PROVE  MethodsInv'
  <2>1. UNCHANGED <<catalog, committed>>
    BY <1>2 DEF Call
  <2>2. ASSUME Even', NEW g \in Fun, hash'[g] # NoDesc
        PROVE  method'[g] # NoBody
    <3> DEFINE r == Compile(f, a, late)
    <3>1. a \notin BadArg /\ late = "never"
      <4>1. Odd(a, late) \subseteq {"frozen"}
        BY <1>2, <2>2 DEF Call, Even
      <4> QED
        BY <4>1 DEF Odd
    <3>2. \A h \in Fun : hash[h] # NoDesc => method[h] # NoBody
      BY <2>2, EvenBefore DEF MethodsInv
    <3>3. hash' = r.hash /\ method' = r.method
      BY <1>2 DEF Call
    <3>4. \/ r = Compiled(hash, method, TRUE)
          \/ r = Compiled(Forget(hash, f), [method EXCEPT ![f] = NoBody], FALSE)
          \/ \E ok : r = Compiled([hash EXCEPT ![f] = Desc(catalog[f], a)],
                                  [method EXCEPT ![f] = catalog[f].body], ok)
      BY <3>1, <3>2 DEF Compile
    <3> HIDE DEF r
    <3>5. hash \in [Fun -> Descs] /\ method \in [Fun -> Nat]
      BY <1>1 DEF TypeOK
    <3>6. catalog[f].body # NoBody
      BY DEF MethodsInv
    <3> QED
      BY <2>2, <3>2, <3>3, <3>4, <3>5, <3>6 DEF Compiled, Forget
  <2> QED
    BY <1>1, <2>1, <2>2 DEF MethodsInv
<1>3. CASE Replace
  <2>1. bodies + 1 # NoBody
    BY <1>1 DEF TypeOK, NoBody
  <2>2. \A f \in Fun : catalog'[f].body # NoBody
    BY <1>1, <1>3, <2>1 DEF MethodsInv, Replace, TypeOK
  <2> QED
    BY <1>1, <1>3, <2>2 DEF MethodsInv, Replace, Even
<1>4. CASE VacuumFreeze
  <2>1. PICK f \in Fun : catalog' = [catalog EXCEPT ![f].xmin = FrozenXid]
    BY <1>4 DEF VacuumFreeze
  <2>2. \A g \in Fun : catalog'[g].body = catalog[g].body
    BY <1>1, <2>1 DEF TypeOK, Row
  <2>3. committed' = catalog' /\ UNCHANGED <<hash, method>>
    BY <1>4 DEF VacuumFreeze
  <2> QED
    BY <1>1, <2>2, <2>3, EvenBefore DEF MethodsInv
<1>5. CASE Return \/ EndTransaction
  BY <1>1, <1>5, EvenBefore DEF MethodsInv, Return, EndTransaction
<1>6. CASE UNCHANGED vars
  BY <1>1, <1>6 DEF MethodsInv, vars, Even
<1> QED
  BY <1>2, <1>3, <1>4, <1>5, <1>6 DEF Next

(* A body that does not compile does not keep a later good definition from *)
(* running: pl_compile forgets the function together with its method, in   *)
(* any sequence of replacements, rollbacks, calls and frozen rows in which *)
(* no types were refused and no timeout came into pl_compile.              *)
THEOREM GoodOneStarts == Spec => []GoodCallStarts
<1>1. Init => MethodsInv
  <2> SUFFICES ASSUME Init PROVE MethodsInv
    OBVIOUS
  <2>1. TypeOK
    BY InitHolds DEF IInv
  <2> QED
    BY <2>1 DEF Init, MethodsInv, NoBody
<1>2. MethodsInv => GoodCallStarts
  <2> SUFFICES ASSUME MethodsInv, Even, NEW f \in Fun, NEW a \in Arg \ BadArg,
                      catalog[f].ok
               PROVE  Starts(Compile(f, a, "never"), f)
    BY DEF GoodCallStarts, EveryGoodCallStarts, Even
  <2>1. method \in [Fun -> Nat] /\ catalog[f].body # NoBody
    BY DEF MethodsInv, TypeOK
  <2>2. hash[f] # NoDesc => method[f] # NoBody
    BY DEF MethodsInv
  <2>3. \/ /\ Compile(f, a, "never") = Compiled(hash, method, TRUE)
           /\ hash[f] # NoDesc
        \/ Compile(f, a, "never")
             = Compiled([hash EXCEPT ![f] = Desc(catalog[f], a)],
                        [method EXCEPT ![f] = catalog[f].body], TRUE)
    BY <2>2 DEF Compile
  <2> QED
    BY <2>1, <2>2, <2>3 DEF Compiled, Starts
<1> QED
  BY <1>1, <1>2, MethodsStep, PTL DEF Spec

=============================================================================
