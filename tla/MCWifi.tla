-------------------------------- MODULE MCWifi --------------------------------
(***************************************************************************)
(* Two networks, Improv and the setup page asking for either at any time,  *)
(* and one restart.                                                        *)
(***************************************************************************)
EXTENDS Wifi
===============================================================================
