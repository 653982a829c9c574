------------------------------ MODULE MCAofLog ------------------------------
(* Model values for the TLC runs of AofLog. *)
EXTENDS AofRefinement

CONSTANTS c1, c2, c3

ClientsTwo == {c1, c2}
ClientsThree == {c1, c2, c3}
=============================================================================
