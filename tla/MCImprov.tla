------------------------------- MODULE MCImprov -------------------------------
(***************************************************************************)
(* A byte has eight values, a header two bytes, a payload at most six: the *)
(* four bytes of settings in it hold a name of up to two and a password of *)
(* one, or a name or a password that leaves no room for its ending zero.   *)
(***************************************************************************)
EXTENDS Improv

MCHeader == <<6, 1>>

MCCommands == [settings |-> 1, identify |-> 2, state |-> 0, info |-> 7, networks |-> 4]

\* Only requests have payloads of more than three bytes.
MCBound == Len(packet) >= Start => TypeOf(packet) = TypeRpc \/ LengthOf(packet) <= 3
===============================================================================
