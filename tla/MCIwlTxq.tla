------------------------------ MODULE MCIwlTxq ------------------------------
(***************************************************************************)
(* Instances of IwlData: the IPC thread and the worker on a ring of four.  *)
(***************************************************************************)
EXTENDS IwlData
=============================================================================
