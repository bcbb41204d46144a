------------------------------ MODULE MCPlRows ------------------------------
(***************************************************************************)
(* PlRows for TLC.                                                         *)
(***************************************************************************)
EXTENDS PlRows

(* No count, and counts inside, at the end of and beyond a portion.        *)
Counts == {-1, 0, 1, 2, 3}

Steps == {-2, 1}

=============================================================================
