---------------------------- MODULE MCScreening ----------------------------
(***************************************************************************)
(* Screening with lengths and scores on both sides of every boundary.      *)
(***************************************************************************)
EXTENDS Screening

MCLength == {0, 25, 26, 35, 36, 41, 42, 43, 62, 63}
MCScore  == {-1, 0, 29, 30, 59, 60, 79, 80, 100}

=============================================================================
