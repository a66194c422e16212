------------------------------ MODULE MCQBuf ------------------------------
(***************************************************************************)
(* Two threads over a ring of three slots; sizes on both sides of the slot *)
(* size.                                                                   *)
(***************************************************************************)
EXTENDS QBuf

MCSizes == {0, 2, 3}
MCRoom == {1, 2}
=============================================================================
