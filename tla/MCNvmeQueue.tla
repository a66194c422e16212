---------------------------- MODULE MCNvmeQueue ----------------------------
(* NvmeQueue with rings of a few entries and a namespace of a few blocks.  *)
EXTENDS NvmeQueue
=============================================================================
