----------------------------- MODULE MCWsBridge -----------------------------
(***************************************************************************)
(* The relay with two sockets: enough for one browser that comes while     *)
(* another goes, and for a reload that opens its new socket before the old *)
(* one has closed.                                                         *)
(***************************************************************************)
EXTENDS WsBridge
=============================================================================
