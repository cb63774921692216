---------------------------- MODULE MCBleCentral ----------------------------
(***************************************************************************)
(* The Bluetooth central on its own, called in any order: several storages *)
(* in range, one more than the stack has links for.                        *)
(***************************************************************************)
EXTENDS BleCentral, TLC

Symmetry == Permutations(Storages)
=============================================================================
