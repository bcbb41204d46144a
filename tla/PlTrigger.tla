----------------------------- MODULE PlTrigger -----------------------------
(***************************************************************************)
(* One row on its way through the triggers of its table: what              *)
(* pl_trigger_handler (src/plruby.c) gives to the Ruby method, and what    *)
(* becomes of what the method returns.                                     *)
(*                                                                         *)
(* A row is a function from the columns of the relation, the dropped ones  *)
(* too, to values or Null; a Ruby hash is a function from the keys it has. *)
(* The method may change the hash it returns: new, old or one of its own.  *)
(* Bounds: MaxTriggers triggers.                                           *)
(***************************************************************************)
EXTENDS Integers, Sequences

CONSTANTS
  Columns, DroppedColumns,
  Values, Null,     \* of columns; Null is Ruby's nil too
  MaxTriggers,
  SystemKeys        \* programs use the names of system columns as keys

ASSUME TriggerAssumption ==
  /\ Columns \cap DroppedColumns = {} /\ Columns # {}
  /\ (Columns \cup DroppedColumns) \cap {".note", "unknown", "ctid"} = {}
  /\ Null \notin Values
  /\ MaxTriggers \in Nat \ {0} /\ SystemKeys \in BOOLEAN

VARIABLES
  event,    \* [op, when, level]
  old,      \* the row in the table
  row,      \* the row that is to be written, as the triggers so far left it
  phase,    \* "next" trigger, "body" of the method, "ended"
  fired,    \* triggers fired
  hash,     \* the hash the method works on
  meant,    \* history: the row this hash stands for
  asked,    \* history: the row the methods so far asked for
  touched   \* history: attrs[] was read "inside" or "outside"

vars == <<event, old, row, phase, fired, hash, meant, asked, touched>>

-----------------------------------------------------------------------------
Attributes == Columns \cup DroppedColumns

Rows == {r \in [Attributes -> Values \cup {Null}] :
           \A col \in DroppedColumns : r[col] = Null}

NoRow == [col \in Attributes |-> Null]

NoHash == [key \in {} |-> Null]

HashOf_all(tuple) == tuple

(* plruby_build_tuple with RET_HASH; dropped columns have no key.          *)
HashOf(tuple) == [col \in Columns |-> tuple[col]]

Events == [op : {"INSERT", "UPDATE", "DELETE"}, when : {"BEFORE", "AFTER"},
           level : {"ROW", "STATEMENT"}]

(* The executor: tg_trigtuple and tg_newtuple.                             *)
Trigtuple == IF event.op = "INSERT" THEN row ELSE old

Newtuple == IF event.op = "UPDATE" THEN row ELSE NoRow

(* It looks at what is returned before it writes the row.                  *)
Writes == /\ event.when = "BEFORE" /\ event.level = "ROW"
          /\ event.op # "DELETE"

Init ==
  /\ event \in Events
  /\ IF event.op = "INSERT" THEN old = NoRow ELSE old \in Rows
  /\ IF event.op = "DELETE" THEN row = NoRow ELSE row \in Rows
  /\ phase = "next" /\ fired = 0
  /\ hash = NoHash
  /\ meant = NoRow /\ asked = row /\ touched = "inside"

(* The hashes new and old of the method.                                   *)
New == CASE event.level # "ROW" -> NoHash
         [] event.op = "INSERT" -> HashOf(Trigtuple)
         [] event.op = "UPDATE" -> HashOf(Newtuple)
         [] event.op = "DELETE" -> NoHash

Old == CASE event.level # "ROW" -> NoHash
         [] event.op = "INSERT" -> NoHash
         [] OTHER -> HashOf(Trigtuple)

(* The executor fires the next trigger.  The method works on new, on old   *)
(* or on a hash of its own.                                                *)
Fire ==
  /\ phase = "next" /\ fired < MaxTriggers
  /\ phase' = "body" /\ fired' = fired + 1
  /\ \E choice \in {"new", "old", "own"} :
       /\ hash' = CASE choice = "new" -> New
                    [] choice = "old" -> Old
                    [] choice = "own" -> NoHash
       /\ meant' = IF hash' = NoHash THEN NoRow
                   ELSE IF choice = "new" THEN row ELSE old
  /\ UNCHANGED <<event, old, row, asked, touched>>

Keys == Columns \cup {".note", "unknown"} \cup
        (IF SystemKeys THEN {"ctid"} ELSE {})

(* hash[key] = value                                                       *)
Assign(key, value) ==
  /\ phase = "body"
  /\ key \in DOMAIN hash => hash[key] # value
  /\ hash' = [k \in DOMAIN hash \cup {key} |->
                IF k = key THEN value ELSE hash[k]]
  /\ meant' = IF key \in Columns THEN [meant EXCEPT ![key] = value] ELSE meant
  /\ UNCHANGED <<event, old, row, phase, fired, asked, touched>>

(* hash.delete(key)                                                        *)
Delete(key) ==
  /\ phase = "body" /\ key \in DOMAIN hash
  /\ hash' = [k \in DOMAIN hash \ {key} |-> hash[k]]
  /\ meant' = IF key \in Columns THEN [meant EXCEPT ![key] = Null] ELSE meant
  /\ UNCHANGED <<event, old, row, phase, fired, asked, touched>>

-----------------------------------------------------------------------------
(* What the method returned *)

(* rettup: the tuple of the event when no other is asked for.              *)
Rettup == IF event.op = "UPDATE" THEN Newtuple ELSE Trigtuple

(* The trigger manager goes on with what the handler returned.             *)
NextRow(tuple) ==
  /\ row' = IF Writes THEN tuple ELSE row
  /\ phase' = "next"

(* true, PL::OK or "OK"                                                    *)
ReturnOK ==
  /\ phase = "body"
  /\ NextRow(Rettup)
  /\ UNCHANGED <<event, old, fired, hash, meant, asked, touched>>

(* false, PL::SKIP or "SKIP"                                               *)
ReturnSkip ==
  /\ phase = "body"
  /\ phase' = IF event.when = "BEFORE" /\ event.level = "ROW"
              THEN "ended" ELSE "next"
  /\ UNCHANGED <<event, old, row, fired, hash, meant, asked, touched>>

(* Any other number or string, nil, an array; an exception; or a value     *)
(* that its column cannot take.                                            *)
ReturnOther ==
  /\ phase = "body"
  /\ phase' = "ended"
  /\ UNCHANGED <<event, old, row, fired, hash, meant, asked, touched>>

(* for_numvals leaves these alone; the names of dropped columns have the   *)
(* dot, too.                                                               *)
Ignored(key, value) == key = ".note" \/ value = Null

Missing_kept(tuple, col) == tuple[col]

(* modvalues and modnulls stand for NULL in every column at first.         *)
Missing(tuple, col) == Null

(* SPI_modifytuple over all columns.                                       *)
Modified(tuple) ==
  [col \in Attributes |->
    IF col \in DOMAIN hash /\ ~Ignored(col, hash[col])
    THEN hash[col] ELSE Missing(tuple, col)]

Named(key) == key \in DOMAIN hash /\ ~Ignored(key, hash[key])

(* SPI_fnumber gives the column of a live name, a number below zero for a  *)
(* system column, and an error else.                                       *)
ReturnHash ==
  /\ phase = "body"
  /\ IF event.level = "STATEMENT" \/ Named("unknown")
     THEN phase' = "ended" /\ UNCHANGED <<row, asked, touched>>
     ELSE /\ NextRow(Modified(Rettup))
          /\ asked' = IF Writes THEN meant ELSE asked
          /\ touched' = IF Named("ctid") THEN "outside" ELSE touched
  /\ UNCHANGED <<event, old, fired, hash, meant>>

Next ==
  \/ Fire
  \/ \E key \in Keys :
       (\E value \in Values \cup {Null} : Assign(key, value)) \/ Delete(key)
  \/ ReturnOK \/ ReturnSkip \/ ReturnOther \/ ReturnHash

Spec == Init /\ [][Next]_vars

-----------------------------------------------------------------------------
TypeOK ==
  /\ event \in Events /\ old \in Rows /\ row \in Rows
  /\ meant \in Rows /\ asked \in Rows
  /\ phase \in {"next", "body", "ended"} /\ fired \in 0..MaxTriggers
  /\ DOMAIN hash \subseteq Columns \cup {".note", "unknown", "ctid"}
  /\ \A key \in DOMAIN hash : hash[key] \in Values \cup {Null}
  /\ touched \in {"inside", "outside"}

(* plruby.rd:289-298: the row that is written is the one the methods asked *)
(* for, one after the other: after OK the row that was given, never the    *)
(* old one in an UPDATE; after a hash the row the hash stands for,         *)
(* whichever keys the method set, set to nil or deleted, without reading   *)
(* attrs[] outside its bounds.                                             *)
RowAsAsked == phase = "next" => row = asked /\ touched = "inside"

=============================================================================
