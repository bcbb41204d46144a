------------------------------ MODULE PlArrays ------------------------------
(***************************************************************************)
(* Arrays between the backend and Ruby: create_array and                   *)
(* plruby_return_array of src/plpl.c.                                      *)
(*                                                                         *)
(* An array of the backend is a flat list of items with its dimensions and *)
(* the lower bound of each (lbound, the same for all); in Ruby it is an    *)
(* Array of Arrays, which has no bounds.                                   *)
(***************************************************************************)
EXTENDS Integers, Sequences, SequencesExt

CONSTANTS
  Elements,  \* values of the element type
  Blank,     \* the one among them whose text is empty
  Null,      \* NULL, nil
  Wild,      \* what is read where nothing was written
  MAXDIM     \* of the backend

ASSUME ArraysAssumption ==
  /\ Blank \in Elements /\ {Null, Wild} \cap Elements = {} /\ Null # Wild
  /\ MAXDIM \in Nat \ {0, 1}

Leaves == Elements \cup {Null, Wild}

(* No value of the element type is an Array.                               *)
ASSUME LeavesAssumption == Leaves \cap (Seq(Leaves) \cup Seq(Seq(Leaves))) = {}

IsArray(value) == value \notin Leaves

Product(dims) == FoldLeft(LAMBDA m, n : m * n, 1, dims)

(* ArrayGetNItems *)
NItems(dims) == IF dims = <<>> THEN 0 ELSE Product(dims)

NotNull(values) ==
  FoldLeft(LAMBDA list, value : IF value = Null THEN list
                                ELSE Append(list, value), <<>>, values)

NilIn(items) == \E i \in DOMAIN items : items[i] = Null

-----------------------------------------------------------------------------
(* From the backend *)

(* The data of an array: an item that is NULL has none.                    *)
Stored(items) == NotNull(items)

(* create_array takes as many items from the data as the dimensions say,   *)
(* also those behind the last.                                             *)
Taken(items) ==
  [i \in DOMAIN items |->
    IF i <= Len(Stored(items)) THEN Stored(items)[i] ELSE Wild]

Chunks(list, n) ==
  [i \in 1..(Len(list) \div n) |-> SubSeq(list, (i - 1) * n + 1, i * n)]

(* One Array for each place in the dimensions but the last.                *)
CreateArray(array) ==
  IF NItems(array.dims) = 0 THEN <<>>
  ELSE FoldRight(LAMBDA n, list : Chunks(list, n),
                 Tail(array.dims), Taken(array.items))

-----------------------------------------------------------------------------
(* To the backend *)

(* The first item of the first item ... is what plruby_return_array goes   *)
(* down to find the dimensions.  An empty Array has no first item, yet it  *)
(* is read.                                                                *)
First(value) == IF value = <<>> THEN Wild ELSE Head(value)

Down(ary) ==
  LET down[n \in 0..MAXDIM] ==
        IF n = 0 THEN ary
        ELSE IF IsArray(down[n - 1]) THEN First(down[n - 1]) ELSE Wild
  IN  down

(* The dimensions, MAXDIM of them at most.                                 *)
Dims(ary) ==
  LET levels == {n \in 0..(MAXDIM - 1) : \A k \in 0..n : IsArray(Down(ary)[k])}
  IN  [d \in {n + 1 : n \in levels} |-> Len(Down(ary)[d - 1])]

(* The error says that MAXDIM dimensions are the most.                     *)
TooManyDims(dims) == Len(dims) = MAXDIM

(* Array#flatten *)
FlattenOnce(list) ==
  FoldLeft(LAMBDA flat, value : flat \o (IF IsArray(value) THEN value
                                         ELSE <<value>>), <<>>, list)

Flatten_none(ary) == ary

Flatten(ary) ==
  LET flat[n \in 0..MAXDIM] ==
        IF n = 0 THEN ary ELSE FlattenOnce(flat[n - 1])
  IN  flat[MAXDIM]

(* plruby_to_datum of an item: nil is the empty string.                    *)
Item(value) == IF value = Null THEN Blank ELSE value

(* construct_md_array reads as many values as the dimensions say; that     *)
(* they are not as many as there are is a WARNING only; all bounds are 1.  *)
ReturnArray(ary) ==
  LET dims == Dims(ary)
      flat == Flatten(ary)
  IN  IF NItems(dims) = 0 THEN [dims |-> <<>>, lbound |-> 1, items |-> <<>>]
      ELSE [dims |-> dims, lbound |-> 1,
            items |-> [i \in 1..Product(dims) |->
                         IF i <= Len(flat) THEN Item(flat[i]) ELSE Wild]]

=============================================================================
