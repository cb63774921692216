------------------------------ MODULE MCFirmware ------------------------------
(***************************************************************************)
(* Two interfaces to serve, and the power going twice: once to leave an    *)
(* update half done, and once more while the bridge recovers from that.    *)
(***************************************************************************)
EXTENDS Firmware
===============================================================================
