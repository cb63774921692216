----------------------------- MODULE MCRelayTasks -----------------------------
(***************************************************************************)
(* Two browsers, or one that reloads and gets the descriptor of the other. *)
(***************************************************************************)
EXTENDS RelayTasks, TLC

Symmetry == Permutations(Sockets)

\* Below zero the budget allows what it allows at zero: it is followed only until
\* those who have decided on an attempt have counted it.
MCBound == left < 0 => \E t \in Tasks : At(t, "spend")
===============================================================================
