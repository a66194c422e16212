------------------------------- MODULE MCXhci -------------------------------
(***************************************************************************)
(* Instances of Xhci: a ring of three TRBs and a link, so that a control   *)
(* TD straddles the link and the cycle bits toggle within a few transfers. *)
(***************************************************************************)
EXTENDS Xhci, TLC

None == [k \in Kinds |-> 0]

\* Two reports or calls, an error, something that takes longer than the driver
\* waits, and the end of the device or of the controller.
Answering == "work" :> 2 @@ "error" :> 1
             @@ "late" :> 1 @@ "gone" :> 1 @@ None

\* A keyboard nobody touches for half a minute.
Untouched == "late" :> 1 @@ None
=============================================================================
