------------------------------- MODULE LinkHold -------------------------------
(***************************************************************************)
(* What the relay promises about the storage's only Bluetooth connection,  *)
(* as ws_bridge.c:19 and 567 put it: it may be held while a browser is     *)
(* watching, for a grace period after the last one left, and not beyond.   *)
(*                                                                         *)
(* "unnoticed" is the one way out of the promise: the last browser came    *)
(* off the books without anybody starting the grace period.                *)
(***************************************************************************)

VARIABLES
    audience,  \* who the link is held for
    link       \* "free", "taken", or "leaving": told to end, not gone yet

holdVars == <<audience, link>>

HoldTypeOK == /\ audience \in {"watching", "grace", "nobody", "unnoticed"}
              /\ link \in {"free", "taken", "leaving"}

HoldInit == audience = "nobody" /\ link = "free"

\* A browser arrives.  The link it finds may be cycled first.
Arrive == /\ audience' = "watching"
          /\ link' = link \/ (link = "taken" /\ link' = "leaving")

\* The last browser leaves.
Leave == audience' = "grace" /\ UNCHANGED link

\* Nobody came back: whatever link there is has to go.
Expire == /\ audience = "grace"
          /\ audience' = "nobody"
          /\ link' = IF link = "free" THEN "free" ELSE "leaving"

GoUnnoticed == audience' = "unnoticed" /\ link' \in {"free", "taken", "leaving"}

\* A link comes up only for somebody.
Take == link = "free" /\ audience # "nobody" /\ link' = "taken" /\ UNCHANGED audience

LetGo == link = "taken" /\ link' = "leaving" /\ UNCHANGED audience

End == link # "free" /\ link' = "free" /\ UNCHANGED audience

HoldNext == Arrive \/ Leave \/ Expire \/ GoUnnoticed \/ Take \/ LetGo \/ End

HoldSpec == /\ HoldInit
            /\ [][HoldNext]_holdVars
            /\ WF_holdVars(Expire)
            /\ WF_holdVars(link = "leaving" /\ End)

\* The storage is never held for nobody.
NeverHeldForNobody == audience = "nobody" => link # "taken"
===============================================================================
