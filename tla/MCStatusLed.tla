---------------------------- MODULE MCStatusLed ----------------------------
(***************************************************************************)
(* Enough events for a loss, an address and a loss again around the access *)
(* point.                                                                  *)
(***************************************************************************)
EXTENDS StatusLed
===============================================================================
