------------------------------ MODULE MCIwlSta ------------------------------
(***************************************************************************)
(* Instances of IwlSta: two networks, the first of them configured, one    *)
(* or both of them connectable.                                            *)
(***************************************************************************)
EXTENDS IwlSta

MCConfig == <<"home">>
=============================================================================
