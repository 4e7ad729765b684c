--------------------------- MODULE MCFlowTransfer ---------------------------
(***************************************************************************)
(* Small instances of FlowTransfer.  Segments have two bytes, so that a    *)
(* probe of one byte, or a chunk that is not a multiple of the segment,    *)
(* shifts the cuts of everything behind it.                                *)
(***************************************************************************)
EXTENDS FlowTransfer

TwoFlows == <<<<2, 2>>, <<3>>>>
LongChunk == <<<<6, 2>>>>
=============================================================================
