---------------------------- MODULE PlTriggerProofs ----------------------------
(***************************************************************************)
(* Proofs about PlTrigger, for every relation, every domain of values and  *)
(* any number of triggers.                                                 *)
(*                                                                         *)
(* RowAsAsked speaks of the time between two triggers.  What makes it      *)
(* inductive is Meaning: while a method works on its hash, the hash and    *)
(* the row it stands for agree on every column, with nil for a key that is *)
(* not there, and dropped columns are NULL.                                *)
(***************************************************************************)
EXTENDS PlTrigger, TLAPS

Cell == Values \cup {Null}

(* The value of a key, nil without one.                                    *)
Lookup(col) == IF col \in DOMAIN hash THEN hash[col] ELSE Null

Meaning == phase = "body" => \A col \in Columns : meant[col] = Lookup(col)

Asked == phase \in {"next", "body"} => row = asked

IInv ==
  /\ TypeOK /\ Meaning /\ Asked
  /\ DOMAIN hash \subseteq Keys
  /\ ~SystemKeys => touched = "inside"

LEMMA RowShape ==
  /\ NoRow \in Rows
  /\ \A r \in Rows, col \in Columns, v \in Cell :
       [r EXCEPT ![col] = v] \in Rows
<1>1. NoRow \in Rows
  BY DEF NoRow, Rows, Attributes
<1>2. ASSUME NEW r \in Rows, NEW col \in Columns, NEW v \in Cell
      PROVE  [r EXCEPT ![col] = v] \in Rows
  BY <1>2, TriggerAssumption DEF TriggerAssumption, Rows, Attributes, Cell
<1> QED
  BY <1>1, <1>2

(* A hash made of a row has the row's values and no other keys.            *)
LEMMA HashOfRow ==
  ASSUME NEW r \in Rows
  PROVE  /\ DOMAIN HashOf(r) = Columns
         /\ \A col \in Columns : HashOf(r)[col] = r[col] /\ r[col] \in Cell
         /\ HashOf(r) # NoHash
BY TriggerAssumption DEF TriggerAssumption, HashOf, NoHash, Rows, Attributes,
                         Cell

LEMMA InitInv == Init => IInv
<1> SUFFICES ASSUME Init PROVE IInv
  OBVIOUS
<1>1. old \in Rows /\ row \in Rows
  BY RowShape DEF Init
<1> QED
  BY <1>1, RowShape, TriggerAssumption
     DEF TriggerAssumption, Init, IInv, TypeOK, Meaning, Asked, NoHash

(* The method starts with a hash that stands for a row, or with none.      *)
LEMMA FireInv == ASSUME IInv, Fire PROVE IInv'
<1> USE DEF IInv, TypeOK
<1>1. PICK choice \in {"new", "old", "own"} :
        /\ hash' = CASE choice = "new" -> New
                     [] choice = "old" -> Old
                     [] choice = "own" -> NoHash
        /\ meant' = IF hash' = NoHash THEN NoRow
                    ELSE IF choice = "new" THEN row ELSE old
  BY DEF Fire
<1>2. event.op \in {"INSERT", "UPDATE", "DELETE"} /\ event.level \in {"ROW", "STATEMENT"}
  BY DEF Events
<1>3. \/ hash' = NoHash /\ meant' = NoRow
      \/ hash' = HashOf(row) /\ meant' = row
      \/ hash' = HashOf(old) /\ meant' = old
  <2>1. CASE choice = "new"
    BY <1>1, <1>2, <2>1, HashOfRow DEF New, Trigtuple, Newtuple
  <2>2. CASE choice = "old"
    BY <1>1, <1>2, <2>2, HashOfRow DEF Old, Trigtuple
  <2>3. CASE choice = "own"
    BY <1>1, <2>3
  <2> QED
    BY <2>1, <2>2, <2>3
<1> DEFINE Started ==
             /\ meant' \in Rows /\ DOMAIN hash' \subseteq Columns
             /\ \A key \in DOMAIN hash' : hash'[key] \in Cell
             /\ \A col \in Columns :
                  meant'[col] = IF col \in DOMAIN hash' THEN hash'[col] ELSE Null
<1>4. Started
  <2>1. CASE hash' = NoHash /\ meant' = NoRow
    BY <2>1, RowShape DEF NoHash, NoRow, Attributes
  <2>2. ASSUME NEW r \in Rows, hash' = HashOf(r), meant' = r
        PROVE  Started
    BY <2>2, HashOfRow
  <2> QED
    BY <1>3, <2>1, <2>2
<1>5. TypeOK'
  BY <1>4, TriggerAssumption DEF TriggerAssumption, Fire, Cell
<1> QED
  BY <1>4, <1>5 DEF Fire, Meaning, Asked, Lookup, Keys

(* hash[key] = value sets the column of that name, if there is one.        *)
LEMMA AssignInv ==
  ASSUME IInv, NEW key \in Keys, NEW value \in Cell, Assign(key, value)
  PROVE  IInv'
<1> USE DEF IInv
<1>2. /\ DOMAIN hash' = DOMAIN hash \cup {key}
      /\ \A k \in DOMAIN hash' : hash'[k] = IF k = key THEN value ELSE hash[k]
  BY DEF Assign
<1>3. meant' \in Rows
  BY RowShape DEF TypeOK, Assign
<1>4. TypeOK'
  BY <1>2, <1>3 DEF TypeOK, Assign, Keys, Cell
<1>5. \A col \in Columns : meant'[col] = IF col = key THEN value ELSE meant[col]
  BY TriggerAssumption
     DEF TriggerAssumption, TypeOK, Rows, Attributes, Assign
<1>6. Meaning'
  BY <1>2, <1>5 DEF Meaning, Lookup, Assign
<1> QED
  BY <1>2, <1>4, <1>6 DEF Assign, Asked

(* hash.delete(key) sets it to NULL.                                       *)
LEMMA DeleteInv ==
  ASSUME IInv, NEW key \in Keys, Delete(key)
  PROVE  IInv'
<1> USE DEF IInv
<1>1. /\ DOMAIN hash' = DOMAIN hash \ {key}
      /\ \A k \in DOMAIN hash' : hash'[k] = hash[k]
  BY DEF Delete
<1>2. meant' \in Rows
  BY RowShape DEF TypeOK, Delete, Cell
<1>3. TypeOK'
  BY <1>1, <1>2 DEF TypeOK, Delete
<1>4. \A col \in Columns : meant'[col] = IF col = key THEN Null ELSE meant[col]
  BY DEF TypeOK, Rows, Attributes, Delete
<1>5. Meaning'
  BY <1>1, <1>4 DEF Meaning, Lookup, Delete
<1> QED
  BY <1>1, <1>3, <1>5 DEF Delete, Asked

(* What the executor gets after OK is the row that was to be written.      *)
LEMMA RettupIsRow ==
  ASSUME TypeOK, Writes
  PROVE  Rettup = row
BY DEF TypeOK, Events, Writes, Rettup, Newtuple, Trigtuple

(* The tuple SPI_modifytuple makes is the row the hash stands for.         *)
LEMMA ModifiedIsMeant ==
  ASSUME IInv, phase = "body", NEW tuple
  PROVE  Modified(tuple) = meant
<1>1. meant \in Rows
  BY DEF IInv, TypeOK
<1>2. ASSUME NEW col \in Attributes PROVE Modified(tuple)[col] = meant[col]
  <2>1. CASE col \in Columns
    BY <2>1, TriggerAssumption
       DEF TriggerAssumption, IInv, Meaning, Lookup, Modified, Missing,
           Ignored, Attributes
  <2>2. CASE col \in DroppedColumns
    BY <1>1, <2>2, TriggerAssumption
       DEF TriggerAssumption, IInv, TypeOK, Modified, Missing, Ignored,
           Attributes, Rows
  <2> QED
    BY <2>1, <2>2 DEF Attributes
<1> QED
  BY <1>1, <1>2 DEF Modified, Rows

LEMMA ReturnInv ==
  ASSUME IInv, ReturnOK \/ ReturnSkip \/ ReturnOther \/ ReturnHash
  PROVE  IInv'
<1> USE DEF IInv
<1>1. CASE ReturnOK
  <2>1. row' = row
    BY <1>1, RettupIsRow DEF ReturnOK, NextRow
  <2> QED
    BY <1>1, <2>1 DEF ReturnOK, NextRow, TypeOK, Meaning, Asked
<1>2. CASE ReturnSkip
  <2>1. TypeOK' /\ Meaning'
    BY <1>2 DEF ReturnSkip, TypeOK, Meaning
  <2> QED
    BY <1>2, <2>1 DEF ReturnSkip, Asked
<1>3. CASE ReturnOther
  <2>1. TypeOK' /\ Meaning'
    BY <1>3 DEF ReturnOther, TypeOK, Meaning
  <2> QED
    BY <1>3, <2>1 DEF ReturnOther, Asked
<1>4. CASE ReturnHash
  <2>1. CASE event.level = "STATEMENT" \/ Named("unknown")
    BY <1>4, <2>1 DEF ReturnHash, TypeOK, Meaning, Asked
  <2>2. CASE ~(event.level = "STATEMENT" \/ Named("unknown"))
    <3>1. /\ row' = IF Writes THEN meant ELSE row
          /\ asked' = IF Writes THEN meant ELSE asked
          /\ phase' = "next" /\ phase = "body"
      BY <1>4, <2>2, ModifiedIsMeant DEF ReturnHash, NextRow
    <3>2. TypeOK'
      BY <1>4, <2>2, <3>1 DEF ReturnHash, TypeOK
    <3>3. ~SystemKeys => touched' = "inside"
      BY <1>4, <2>2, TriggerAssumption
         DEF TriggerAssumption, ReturnHash, Named, Keys
    <3> QED
      BY <1>4, <3>1, <3>2, <3>3 DEF ReturnHash, Meaning, Asked
  <2> QED
    BY <2>1, <2>2
<1> QED
  BY <1>1, <1>2, <1>3, <1>4

LEMMA NextInv == IInv /\ [Next]_vars => IInv'
<1> SUFFICES ASSUME IInv, [Next]_vars PROVE IInv'
  OBVIOUS
<1>1. ASSUME UNCHANGED vars PROVE IInv'
  BY <1>1 DEF vars, IInv, TypeOK, Meaning, Lookup, Asked
<1> QED
  BY <1>1, FireInv, AssignInv, DeleteInv, ReturnInv DEF Next, Cell

-----------------------------------------------------------------------------
(* The handler's state is well typed: new and old have no key for a        *)
(* dropped column, and no dropped column of a row that is written has a    *)
(* value (plruby_build_tuple, SPI_modifytuple).                            *)
THEOREM TypeCorrect == Spec => []TypeOK
<1>1. IInv => TypeOK
  BY DEF IInv
<1> QED
  BY <1>1, InitInv, NextInv, PTL DEF Spec

(* plruby.rd:289-298: through any number of triggers the row that is       *)
(* written is the one the methods asked for, whatever they did to the keys *)
(* of their hashes, the names of system columns excepted.                  *)
THEOREM WritesWhatIsAsked == ~SystemKeys => (Spec => []RowAsAsked)
<1> SUFFICES ASSUME ~SystemKeys PROVE Spec => []RowAsAsked
  OBVIOUS
<1>1. IInv => RowAsAsked
  BY DEF IInv, Asked, RowAsAsked
<1> QED
  BY <1>1, InitInv, NextInv, PTL DEF Spec

=============================================================================
