------------------------------ MODULE PlValues ------------------------------
(***************************************************************************)
(* A value on its way through a function: pl_convert_arg and               *)
(* plruby_create_args make a Ruby object of an argument, the method works  *)
(* on it, and plruby_to_datum makes a datum of the same type of it again   *)
(* (src/plpl.c with the packages of src/conversions).                      *)
(*                                                                         *)
(* meant is the value the object stands for by then.  The kinds of data    *)
(* and of operations for which the code loses it are the members of Odd;   *)
(* met has those the object has met so far.                                *)
(* Bounds: MaxChanges operations on the object; small sets of data.        *)
(***************************************************************************)
EXTENDS PlArrays, ConvBasic, ConvBits, ConvGeo

CONSTANTS
  Types,       \* of the arguments
  Odd,         \* of Kinds below
  Column,      \* n of a bit(n) or varbit(n)
  MaxChanges

OnWay == {"int2", "date", "time", "timestamp", "timestamptz", "interval",
          "tinterval", "inet", "bit", "varbit", "path", "box", "array",
          "row", "record"}

ASSUME ValuesAssumption ==
  Types \subseteq OnWay /\ Column \in Nat \ {0} /\ MaxChanges \in Nat

VARIABLES
  type, zone,  \* of the argument; of the session
  object,      \* the Ruby object, or what its C struct holds
  meant,       \* history
  phase,       \* "ruby"; "each", a block of each runs; "given" back
  changes,
  walk,        \* locals of pl_bit_each, and the bits the block got
  out,         \* the datum given back
  met,
  touched      \* history: memory was read "inside" or "outside" of objects

vars == <<type, zone, object, meant, phase, changes, walk, out, met, touched>>

-----------------------------------------------------------------------------
Kinds == {"wide", "early", "fraction", "zoned", "months",
          "bit_reference", "bit_assign", "bit_length", "each_change",
          "each_empty", "new_path", "concat", "null_item", "ragged", "empty",
          "deep", "bounds", "row_change", "dropped", "tinterval", "packed"}

MetIf(condition, kind) == IF condition THEN {kind} ELSE {}

Meets(kinds) == met' = met \cup kinds

BitStrings(length) == [1..length -> {0, 1}]

SomePaths == UNION {[1..n -> 1..2] : n \in 0..2}

SomeBoxes == {box \in [low : 1..3, high : 1..3] : box.low <= box.high}

Shapes == {<<>>, <<2>>, <<1, 2>>, <<2, 2>>, <<2, 1>>, [d \in 1..MAXDIM |-> 1]}

SomeItems == Elements \cup {Null}

SomeArrays ==
  UNION {[dims : {dims}, lbound : IF dims = <<>> THEN {1} ELSE 0..1,
          items : [1..NItems(dims) -> SomeItems]] : dims \in Shapes}

(* A row: its columns, dropped ones as Null.                               *)
SomeAddresses == [host : 1..2, masklen : 0..2]

SomeRows == [1..2 -> Elements] \cup {<<value, Null>> : value \in Elements}

(* The arguments of a type.                                                *)
Datums ==
  CASE type = "int2" -> {n \in -9..9 : FitsInt2(n)}
    [] type = "date" -> -1..1
    [] type \in {"time", "timestamp"} -> -Second..(Day * Second - 1)
    [] type = "timestamptz" -> 0..(Day * Second)
    [] type = "tinterval" -> [1..2 -> 0..1]
    [] type = "inet" -> SomeAddresses
    [] type = "interval" -> [month : 0..1, day : 0..1, time : 0..2]
    [] type = "bit" -> BitStrings(Column)
    [] type = "varbit" -> UNION {BitStrings(n) : n \in 0..Column}
    [] type = "path" -> {FromBackend(pts) : pts \in SomePaths}
    [] type = "box" -> SomeBoxes
    [] type = "array" -> SomeArrays
    [] type \in {"row", "record"} -> SomeRows

OddData(datum) ==
  CASE type \in {"time", "timestamp"} ->
         MetIf(zone # 0, "zoned") \cup MetIf(datum < 0, "early")
    [] type = "timestamptz" -> MetIf(Rem(datum, Second) # 0, "fraction")
    [] type = "interval" -> MetIf(datum.month + datum.day > 0, "months")
    [] type = "array" ->
         MetIf(NilIn(datum.items), "null_item")
         \cup MetIf(datum.dims = <<>>, "empty")
         \cup MetIf(Len(datum.dims) = MAXDIM, "deep")
         \cup MetIf(datum.lbound # 1, "bounds")
    [] type = "tinterval" -> {"tinterval"}
    [] type = "record" -> MetIf(Null \in {datum[1], datum[2]}, "dropped")
    [] OTHER -> {}

(* A row of an argument keeps the datum in @plruby_tuple; dropped columns  *)
(* have no place in it (plruby_build_tuple).                               *)
Live(row) == NotNull(row)

(* from_datum of the class plruby_classes has for the type.                *)
FromDatum(datum) ==
  CASE type \in {"date", "time", "timestamp", "timestamptz"} ->
         TimeFrom(type, datum, zone)
    [] type = "interval" -> Seconds(datum)
    [] type = "tinterval" -> TwoTimes(datum)
    [] type = "array" -> CreateArray(datum)
    [] type = "row" -> [cells |-> Live(datum), tuple |-> datum]
    [] type = "record" -> [cells |-> Live(datum), tuple |-> Null]
    [] OTHER -> datum

(* plruby_to_datum, with the modifier of the type: that of a column, or -1 *)
(* for the result of a function.                                           *)
ToDatum(typmod) ==
  CASE type = "int2" -> Int2(object)
    [] type \in {"date", "time", "timestamp", "timestamptz"} ->
         IF object = Error THEN Error ELSE TimeConv(type, object, zone)
    [] type = "interval" -> FromSeconds(object)
    [] type = "tinterval" -> Error   \* an Array has no to_datum
    [] type \in {"bit", "varbit"} -> Cast(object, typmod)
    [] type = "path" -> PathToDatum(object)
    [] type = "array" ->
         IF TooManyDims(Dims(object)) THEN Error ELSE ReturnArray(object)
    [] type \in {"row", "record"} ->
         IF object.tuple # Null THEN object.tuple
         ELSE IF Len(object.cells) # 2 THEN Error ELSE object.cells
    [] type \in {"box", "inet"} -> object

NoWalk == [i |-> 0, x |-> <<>>, got |-> <<>>, gone |-> FALSE]

OutsideIf(condition) ==
  touched' = IF condition THEN "outside" ELSE touched

(* A short datum in a row of a table, from 8.3 on, has a header of one     *)
(* byte; plruby_datum_get does not detoast it.                             *)
MayBePacked ==
  ~SizeFromHeader /\ type \in {"bit", "varbit", "path", "inet", "array"}

(* The data of an array ends before its last item if one is NULL.          *)
Init ==
  /\ type \in Types
  /\ zone \in 0..1
  /\ \E datum \in Datums, packed \in BOOLEAN :
       /\ packed => MayBePacked
       /\ met = OddData(datum) \cup MetIf(packed, "packed")
       /\ meant = datum
       /\ object = FromDatum(datum)
       /\ touched = IF packed \/ (type = "array" /\ NilIn(datum.items))
                    THEN "outside" ELSE "inside"
  /\ phase = "ruby" /\ changes = 0
  /\ walk = NoWalk
  /\ out = Null

-----------------------------------------------------------------------------
(* What the method does with the object *)

Changing ==
  /\ phase \in {"ruby", "each"}
  /\ changes < MaxChanges
  /\ changes' = changes + 1
  /\ UNCHANGED <<type, zone, phase, out>>

(* Arithmetic of Ruby.                                                     *)
Count ==
  /\ Changing
  /\ \/ /\ type = "int2"
        /\ object' = object + 1 /\ meant' = meant + 1
        /\ Meets(MetIf(~FitsInt2(object'), "wide"))
     \/ /\ type = "date"
        /\ object' = object + Day * Second /\ meant' = meant + 1
        /\ Meets({})
     \/ /\ type = "interval"
        /\ object' = object + 1 /\ meant' = [meant EXCEPT !.time = @ + 1]
        /\ Meets({})
  /\ UNCHANGED <<walk, touched>>

IsBits == type \in {"bit", "varbit"}

(* The string is a new one, the old one is freed.                          *)
Replaced(bits, kinds) ==
  /\ object' = bits
  /\ walk' = [walk EXCEPT !.gone = phase = "each"]
  /\ Meets(kinds \cup MetIf(phase = "each", "each_change"))

Push ==
  /\ Changing /\ IsBits
  /\ Len(object) < Column
  /\ \E bit \in 0..1 :
       /\ Replaced(Append(object, bit), {})
       /\ meant' = Append(meant, bit)
  /\ UNCHANGED touched

(* a = a[beg, len]                                                         *)
TakeSubstr ==
  /\ Changing /\ IsBits /\ phase = "ruby"
  /\ \E beg \in -Column..Column, len \in 1..Column :
       /\ Substr(object, beg, len) # Nil
       /\ object' = Substr(object, beg, len)
       /\ meant' = LET first == IF beg < 0 THEN Len(meant) + beg ELSE beg IN
                   SubSeq(meant, first + 1, first + Len(object'))
  /\ UNCHANGED <<walk, met, touched>>

(* a[idx], which does not change what a stands for.                        *)
Reference ==
  /\ Changing /\ IsBits
  /\ \E idx \in -Column..(Column - 1) :
       LET place == Place(object, idx) IN
       /\ place # Nil
       /\ Meets(MetIf(place % Byte # 0, "bit_reference"))
       /\ object' = AfterBit(object, place)
  /\ UNCHANGED <<meant, walk, touched>>

(* a[idx] = bit                                                            *)
Assign ==
  /\ Changing /\ IsBits
  /\ \E idx \in 0..(Column - 1), bit \in 0..1 :
       /\ idx < Len(object)
       /\ Replaced(Assigned(object, idx, <<bit>>),
                   MetIf(Len(object) # 1, "bit_assign"))
       /\ meant' = [meant EXCEPT ![idx + 1] = bit]
  /\ UNCHANGED touched

(* a.dup                                                                   *)
Dup ==
  /\ Changing /\ type = "path"
  /\ object' = CopyPath(object)
  /\ UNCHANGED <<meant, walk, met, touched>>

(* a = a.set_masklen(len)                                                  *)
SetMasklen ==
  /\ Changing /\ type = "inet"
  /\ \E len \in 0..2 :
       /\ object' = [object EXCEPT !.masklen = len]
       /\ meant' = [meant EXCEPT !.masklen = len]
  /\ UNCHANGED <<walk, met, touched>>

(* a = a + point                                                           *)
Move ==
  /\ Changing /\ type = "path"
  /\ object' = Moved(object) /\ meant' = Moved(meant)
  /\ UNCHANGED <<walk, met, touched>>

(* a.concat(other)                                                         *)
ConcatPath ==
  /\ Changing /\ type = "path"
  /\ Meets({"concat"})
  /\ \E pts \in SomePaths :
       /\ object' = Concat(object, pts)
       /\ meant' = FromBackend(meant.pts \o pts)
  /\ UNCHANGED <<walk, touched>>

(* a = Path.new(points)                                                    *)
MakePath ==
  /\ Changing /\ type = "path"
  /\ Meets({"new_path"})
  /\ \E pts \in SomePaths :
       object' = NewPath(pts) /\ meant' = FromBackend(pts)
  /\ UNCHANGED <<walk, touched>>

(* The box from one corner to the other, in any order.                     *)
BoxOf(a, b) == [low |-> IF a < b THEN a ELSE b, high |-> IF a < b THEN b ELSE a]

ChangeBox ==
  /\ Changing /\ type = "box"
  /\ \E a, b \in 1..3 :
       \/ object' = NewBox(a, b) /\ meant' = BoxOf(a, b)
       \/ object' = SetLow(object, a) /\ meant' = BoxOf(a, meant.high)
       \/ object' = SetHigh(object, b) /\ meant' = BoxOf(meant.low, b)
  /\ UNCHANGED <<walk, met, touched>>

(* array[i] = value, array[i][j] = value                                   *)
ChangeItem ==
  /\ Changing /\ type = "array" /\ meant # Error
  /\ \E value \in SomeItems :
    /\ Meets(MetIf(value = Null, "null_item"))
    /\ \/ /\ Len(meant.dims) = 1
          /\ \E i \in DOMAIN object :
               /\ object' = [object EXCEPT ![i] = value]
               /\ meant' = [meant EXCEPT !.items[i] = value]
       \/ /\ Len(meant.dims) = 2
          /\ \E i \in DOMAIN object : \E j \in DOMAIN object[i] :
               /\ object' = [object EXCEPT ![i][j] = value]
               /\ meant' = [meant EXCEPT
                    !.items[(i - 1) * meant.dims[2] + j] = value]
  /\ UNCHANGED <<walk, touched>>

(* The last row loses its last item; no array is like this.                *)
MakeRagged ==
  /\ phase = "ruby" /\ type = "array"
  /\ meant # Error /\ Len(meant.dims) = 2 /\ meant.dims[1] > 1
  /\ object' = [object EXCEPT ![Len(object)] = Front(@)]
  /\ meant' = Error
  /\ Meets({"ragged"})
  /\ UNCHANGED <<type, zone, phase, changes, walk, out, touched>>

(* hash[name] = value                                                      *)
ChangeCell ==
  /\ Changing /\ type \in {"row", "record"}
  /\ Meets(MetIf(type = "row", "row_change"))
  /\ \E i \in DOMAIN object.cells, value \in Elements :
       /\ object' = [object EXCEPT !.cells[i] = value]
       /\ meant' = [meant EXCEPT ![i] = value]
  /\ UNCHANGED <<walk, touched>>

-----------------------------------------------------------------------------
(* a.each, with a block for each bit.  Behind the loops over whole bytes   *)
(* a byte is read even if the string has none.                             *)
EachStart ==
  /\ phase = "ruby" /\ IsBits
  /\ phase' = "each"
  /\ walk' = NoWalk
  /\ OutsideIf(object = <<>>)
  /\ Meets(MetIf(object = <<>>, "each_empty"))
  /\ UNCHANGED <<type, zone, object, meant, changes, out>>

EachNext ==
  /\ phase = "each"
  /\ EachHas(walk.i, object)
  /\ LET x == EachByte(walk.i, walk.x, object) IN
     walk' = [walk EXCEPT !.i = @ + 1, !.x = ShiftLeft(x, 1),
                          !.got = Append(@, Head(x))]
  /\ OutsideIf(walk.gone /\ walk.i % Byte = 0)
  /\ UNCHANGED <<type, zone, object, meant, phase, changes, out, met>>

EachEnd ==
  /\ phase = "each"
  /\ ~EachHas(walk.i, object)
  /\ phase' = "ruby"
  /\ UNCHANGED <<type, zone, object, meant, changes, walk, out, met, touched>>

-----------------------------------------------------------------------------
(* The object is given back: as the result of the function, or to a column *)
(* of a row.                                                               *)
Give ==
  /\ phase = "ruby"
  /\ \E typmod \in {-1, Column} :
       /\ Meets(MetIf(IsBits /\ typmod # -1 /\ Len(object) # Column,
                      "bit_length"))
       /\ out' = ToDatum(typmod)
  /\ phase' = "given"
  /\ OutsideIf(type = "array" /\ out' # Error
               /\ (object = <<>> \/ \E i \in DOMAIN out'.items :
                                      out'.items[i] = Wild))
  /\ UNCHANGED <<type, zone, object, meant, changes, walk>>

Next ==
  \/ Count \/ Push \/ TakeSubstr \/ Reference \/ Assign
  \/ Dup \/ SetMasklen \/ Move \/ ConcatPath \/ MakePath \/ ChangeBox
  \/ ChangeItem \/ MakeRagged \/ ChangeCell
  \/ EachStart \/ EachNext \/ EachEnd
  \/ Give

Spec == Init /\ [][Next]_vars

-----------------------------------------------------------------------------
Ordinary == met \cap Odd = {}

(* docs/plruby.rb:596-616: the datum that comes back is the one the object *)
(* stands for, whatever the type and the operations of its class.          *)
GivenAsMeant == phase = "given" /\ Ordinary => out = meant

(* docs/plruby.rb:1096: each iterates over each bit of the string, those   *)
(* of a last byte that is only partly used too, and over no others.        *)
EachGivesBits ==
  /\ phase = "each" /\ Ordinary => IsPrefix(walk.got, meant)
  /\ phase = "ruby" /\ walk.i > 0 /\ changes = 0 => walk.got = meant

(* Nothing is read outside of the objects and of the data given.           *)
ReadsInside == Ordinary => touched = "inside"

=============================================================================
