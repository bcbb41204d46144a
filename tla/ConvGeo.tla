------------------------------ MODULE ConvGeo ------------------------------
(***************************************************************************)
(* Geometric objects: src/conversions/geometry/plruby_geometry.c.          *)
(*                                                                         *)
(* A path (a polygon is the same, with its bounding box) has as many       *)
(* points as there is room for, so it begins with a size: the header the   *)
(* backend reads.  The code takes the size from the header, or from 8.3 on *)
(* computes it from npts.  A box is given by the coordinates of its        *)
(* corners, of which one stands for both.                                  *)
(***************************************************************************)
EXTENDS Integers, Sequences, SequencesExt

CONSTANTS
  Unset,          \* a coordinate nobody meant
  SizeFromHeader  \* a backend up to 8.2

ASSUME GeoAssumption == SizeFromHeader \in BOOLEAN /\ Unset \notin Int

SizeOf(npts) == 2 + npts   \* offsetof(PATH, p[0]) + npts * sizeof(Point)

(* GET_VARSIZE *)
Size(path) == IF SizeFromHeader THEN path.size ELSE SizeOf(Len(path.pts))

(* path_in, path_recv, and every function of the backend.                  *)
FromBackend(pts) == [size |-> SizeOf(Len(pts)), pts |-> pts]

(* pl_path_s_alloc sets the size to what GET_VARSIZE makes of zeros.       *)
Allocated ==
  LET zeros == [size |-> 0, pts |-> <<>>] IN [zeros EXCEPT !.size = Size(zeros)]

(* pl_path_init: MEMZERO, the points and npts; the size stays 0.           *)
NewPath(pts) == [size |-> 0, pts |-> pts]

Garbage(npts) == [i \in 1..npts |-> Unset]

(* memcpy of n bytes into a block that held another path.                  *)
Memcpy(into, path, n) ==
  IF n = 0 THEN into
  ELSE IF n >= SizeOf(Len(path.pts)) THEN path
  ELSE [size |-> path.size, pts |-> Garbage(Len(path.pts))]

(* pl_path_init_copy: a block of the right size, unless it has one.        *)
CopyPath(path) == Memcpy(Allocated, path, Size(path))

(* pl_path_to_datum: what a palloc of that size has in it is anybody's.    *)
PathToDatum(path) ==
  Memcpy([size |-> Unset, pts |-> <<>>], path, Size(path))

(* PATH_CALL: path_add_pt and its like copy the path, header and all.      *)
Moved(path) ==
  [path EXCEPT !.pts = [i \in DOMAIN @ |-> IF @[i] = Unset THEN Unset
                                           ELSE @[i] + 1]]

(* pl_path_concat gives the other path to path_add_pt, as if it were the   *)
(* Point to move this path by.                                             *)
Concat(path, other) == [path EXCEPT !.pts = Garbage(Len(@))]

-----------------------------------------------------------------------------
AdjustBox_none(box) == box

(* pl_box_adjust *)
AdjustBox(box) ==
  IF box.high < box.low THEN [low |-> box.high, high |-> box.low] ELSE box

NewBox(a, b) == AdjustBox([low |-> a, high |-> b])

SetLow(box, a) == AdjustBox([box EXCEPT !.low = a])

SetHigh(box, a) == AdjustBox([box EXCEPT !.high = a])

=============================================================================
