-------------------------------- MODULE MCAuth --------------------------------
(***************************************************************************)
(* Two browsers that know two passwords and repeat one another's requests, *)
(* with a restart and enough salts for two of them to be in flash and   *)
(* in RAM while a third is offered.                                        *)
(***************************************************************************)
EXTENDS Auth, TLC

Symmetry == Permutations(Browsers) \cup Permutations(Words) \cup Permutations(Salts)
===============================================================================
