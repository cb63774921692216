---------------------------- MODULE Firmware_proofs ----------------------------
(***************************************************************************)
(* Proofs about Firmware: types, that a firmware which can be reached      *)
(* survives, that it is not left without a reason, and that every step of  *)
(* a start gets nearer to a bridge that can be reached, for any number of  *)
(* interfaces and of power cuts.                                           *)
(***************************************************************************)
EXTENDS Firmware, TLAPS

\* The slot the bootloader would boot.
Chosen == IF image[boot] \in Bootable THEN boot ELSE Other(boot)

\* Only a good image serves an update, and only once app_main has got that far.
ReachedIsGood ==
    /\ net => phase \in {"up", "ready"} /\ image[running] = "good"
    /\ phase = "ready" => net
    /\ job # "none" => net

\* Until the bridge can be reached nothing has changed what is booted.
BootedAsTold == phase # "off" /\ ~net => running = Chosen

\* A flag that is set means what boot_guard_begin takes it to mean: the image
\* the bootloader chooses does not become reachable, or had no time to.
FlagHasReason ==
    /\ phase \in {"goback", "watch", "ready"} => ~flag
    /\ flag /\ ~hurried => phase \in {"starting", "up"} \/ image[Chosen] = "mute"
    /\ phase = "goback" /\ image[running] = "good" => hurried

FwInv == /\ FwTypeOK /\ ReachedIsGood /\ Lifeline /\ BootedAsTold /\ FlagHasReason
         /\ NameIsOfTheWeb

-----------------------------------------------------------------------------

LEMMA FwInitInv == FwInit => FwInv
<1> SUFFICES ASSUME FwInit
             PROVE  FwInv
  OBVIOUS
<1>1. FwTypeOK
  <2>1. image \in [Slots -> Images]
    BY DEF FwInit, Images
  <2>2. cuts \in 0 .. MaxCuts
    BY FirmwareAssumption DEF FwInit
  <2> QED BY <2>1, <2>2 DEF FwInit, FwTypeOK, Slots, Phases, Jobs
<1>2. Lifeline
  <2>1. 0 \in Slots /\ image[0] = "good"
    BY DEF FwInit, Slots
  <2> QED BY <2>1 DEF Lifeline
<1>3. ReachedIsGood /\ BootedAsTold /\ FlagHasReason /\ NameIsOfTheWeb
  BY FirmwareAssumption DEF FwInit, NameIsOfTheWeb, ReachedIsGood, BootedAsTold, FlagHasReason, Slots
<1> QED BY <1>1, <1>2, <1>3 DEF FwInv

LEMMA StartUpKeepsInv ==
  ASSUME FwInv, StartUp
  PROVE  FwInv'
<1> USE DEF FwInv, FwTypeOK, ReachedIsGood, Lifeline, BootedAsTold, FlagHasReason, Chosen,
            NameIsOfTheWeb, Slots, Images, Phases, Jobs, Bootable, Other, persistent
<1>1. CASE Boot
  BY <1>1 DEF Boot
<1>2. CASE MountStorage
  <2>1. /\ phase = "storage" /\ phase' \in {"guard", "aborted"}
        /\ UNCHANGED <<persistent, running, net, job, restart, cuts, unnamed, hurried>>
    BY <1>2 DEF MountStorage, Go
  <2> QED BY <2>1
<1>3. CASE Panic
  BY ZenonT(60), <1>3 DEF Panic, Stop
<1>4. CASE FlagFound
  BY ZenonT(60), <1>4 DEF FlagFound
<1>5. CASE GoBack
  <2>1. /\ phase = "goback" /\ image[Other(running)] \in Bootable /\ boot' = Other(running)
        /\ phase' = "off" /\ net' = FALSE /\ job' = "none" /\ restart' = FALSE
        /\ unnamed' = (unnamed \/ job = "name")
        /\ UNCHANGED <<image, flag, web, webVer, running, cuts, hurried>>
    BY <1>5 DEF GoBack, Stop
  <2>2. boot' \in Slots /\ phase' \in Phases /\ job' \in Jobs
    BY <2>1
  <2>3. FwTypeOK'
    BY <2>1, <2>2
  <2>4. (Lifeline /\ ReachedIsGood /\ BootedAsTold /\ NameIsOfTheWeb)'
    BY <2>1
  <2>5. FlagHasReason'
    <3>1. flag' = FALSE
      BY <2>1
    <3> QED BY <2>1, <3>1
  <2> QED BY <2>3, <2>4, <2>5
<1>6. CASE StayHere
  BY <1>6 DEF StayHere, Go
<1>7. CASE Watch
  BY ZenonT(60), <1>7 DEF Watch
<1>8. CASE Start
  BY <1>8 DEF Start, Go
<1>9. CASE Reached
  BY <1>9 DEF Reached
<1>10. CASE MarkHealthy
  BY ZenonT(60), <1>10 DEF MarkHealthy
<1> QED BY <1>1, <1>2, <1>3, <1>4, <1>5, <1>6, <1>7, <1>8, <1>9, <1>10 DEF StartUp

LEMMA UpdateKeepsInv ==
  ASSUME FwInv, Update
  PROVE  FwInv'
<1> USE DEF FwInv, FwTypeOK, ReachedIsGood, Lifeline, BootedAsTold, FlagHasReason, Chosen,
            NameIsOfTheWeb, Slots, Images, Phases, Jobs, Bootable, Other, persistent
<1>1. CASE UpdateBegin
  BY <1>1 DEF UpdateBegin
<1>2. CASE UpdateBroken
  BY <1>2 DEF UpdateBroken
<1>3. CASE UpdateReceived
  BY <1>3 DEF UpdateReceived
<1>4. CASE UpdateSwitch
  BY <1>4 DEF UpdateSwitch
<1>5. CASE WebBegin
  BY <1>5 DEF WebBegin
<1>6. CASE WebReceived
  BY <1>6 DEF WebReceived
<1>7. CASE WebRemember
  <2>1. webVer' = "custom" \/ (webVer' \in Releases /\ web \in {webVer', "torn"})
    BY <1>7 DEF WebRemember
  <2>2. "custom" \notin Releases
    BY FirmwareAssumption
  <2>3. NameIsOfTheWeb'
    BY <1>7, <2>1, <2>2 DEF WebRemember
  <2> QED BY <1>7, <2>1, <2>3 DEF WebRemember
<1>8. CASE RebootSoon
  BY <1>8 DEF RebootSoon, Stop
<1> QED BY <1>1, <1>2, <1>3, <1>4, <1>5, <1>6, <1>7, <1>8 DEF Update

LEMMA PowerKeepsInv ==
  ASSUME FwInv, Power
  PROVE  FwInv'
<1> USE DEF FwInv, FwTypeOK, ReachedIsGood, Lifeline, BootedAsTold, FlagHasReason, Chosen,
            NameIsOfTheWeb, Slots, Images, Phases, Jobs, Bootable, Other, persistent
<1>1. CASE PowerCut
  <2>1. hurried' \in BOOLEAN /\ (hurried => hurried')
    BY <1>1 DEF PowerCut
  <2>2. image[running] = "good" /\ phase \in {"starting", "up"} => hurried'
    BY <1>1 DEF PowerCut
  <2>3. /\ cuts' \in 0 .. MaxCuts
        /\ phase' = "off" /\ ~net' /\ job' = "none" /\ ~restart'
        /\ net' = FALSE /\ restart' = FALSE
        /\ unnamed' = (unnamed \/ job = "name")
        /\ UNCHANGED <<persistent, running>>
    BY <1>1, FirmwareAssumption DEF PowerCut, Stop
  <2> HIDE DEF FwTypeOK
  <2>4. FwTypeOK'
    BY <2>1, <2>3 DEF FwTypeOK
  <2> QED BY <2>2, <2>1, <2>3, <2>4 DEF FwTypeOK
<1>2. CASE PowerCycle
  BY <1>2 DEF PowerCycle, Stop
<1> QED BY <1>1, <1>2 DEF Power

LEMMA FwStepInv == FwInv /\ [FwNext]_vars => FwInv'
<1> SUFFICES ASSUME FwInv, [FwNext]_vars
             PROVE  FwInv'
  OBVIOUS
<1>1. CASE FwNext
  BY <1>1, StartUpKeepsInv, UpdateKeepsInv, PowerKeepsInv DEF FwNext
<1>2. CASE UNCHANGED vars
  BY <1>2 DEF vars, persistent, FwInv, FwTypeOK, ReachedIsGood, Lifeline, BootedAsTold,
              FlagHasReason, NameIsOfTheWeb, Chosen
<1> QED BY <1>1, <1>2

LEMMA FwAlwaysInv == FwSpec => []FwInv
<1> QED BY FwInitInv, FwStepInv, PTL DEF FwSpec

\* The types, with cuts within its bound.
THEOREM FwTypeCorrect == FwSpec => []FwTypeOK
<1>1. FwInv => FwTypeOK
  BY DEF FwInv
<1> QED BY <1>1, FwAlwaysInv, PTL

\* ota_update.c:101: a slot with a firmware that can be reached is left, however
\* updates and power cuts fall.
THEOREM LifelineCorrect == FwSpec => []Lifeline
<1>1. FwInv => Lifeline
  BY DEF FwInv
<1> QED BY <1>1, FwAlwaysInv, PTL

\* ota_update.c:244: the interface is not shown as another release than it is,
\* unless the bridge stopped before the name was written.
THEOREM NameIsOfTheWebCorrect == FwSpec => []NameIsOfTheWeb
<1>1. FwInv => NameIsOfTheWeb
  BY DEF FwInv
<1> QED BY <1>1, FwAlwaysInv, PTL

\* boot_guard.h:12: a firmware that can be reached is only left after a boot of
\* it that the power ended early.
THEOREM LeavesOnlyIfCutCorrect == FwSpec => LeavesOnlyIfCut
<1>1. FwInv => (phase = "goback" /\ image[running] = "good" => hurried)
  BY DEF FwInv, FlagHasReason
<1>2. FwInv /\ [FwNext]_vars =>
        [phase = "goback" /\ boot' # boot /\ image[running] = "good" => hurried]_vars
  BY <1>1
<1> QED BY <1>2, FwAlwaysInv, PTL DEF FwSpec, LeavesOnlyIfCut

-----------------------------------------------------------------------------
(* The way back to a bridge that can be reached *)

\* What a stopped or a running boot means while nothing is reached: only a web
\* partition that does not mount stops it early, and it is always watched.
BootIsWatched ==
    /\ phase = "aborted" => web = "torn"
    /\ phase \in {"starting", "up"} => flag

LEMMA WatchInit == FwInit => BootIsWatched
BY DEF FwInit, BootIsWatched

LEMMA WatchStep == FwInv /\ BootIsWatched /\ [FwNext]_vars => BootIsWatched'
<1> SUFFICES ASSUME FwInv, BootIsWatched, [FwNext]_vars
             PROVE  BootIsWatched'
  OBVIOUS
<1> USE DEF BootIsWatched, persistent
<1>1. CASE StartUp
  <2>1. CASE Boot
    BY <2>1 DEF Boot
  <2>2. CASE MountStorage
    BY <2>2 DEF MountStorage, Go
  <2>3. CASE Panic \/ GoBack
    BY <2>3 DEF Panic, GoBack, Stop
  <2>4. CASE FlagFound \/ Watch \/ MarkHealthy
    BY <2>4 DEF FlagFound, Watch, MarkHealthy
  <2>5. CASE StayHere \/ Start \/ Reached
    BY <2>5 DEF StayHere, Start, Reached, Go, FwInv, FwTypeOK
  <2> QED
    BY <1>1, <2>1, <2>2, <2>3, <2>4, <2>5 DEF StartUp
<1>2. CASE Update
  BY <1>2 DEF Update, UpdateBegin, UpdateBroken, UpdateReceived, UpdateSwitch, WebBegin,
              WebReceived, WebRemember, RebootSoon, Stop, FwInv, ReachedIsGood
<1>3. CASE Power
  BY <1>3 DEF Power, PowerCut, PowerCycle, Stop
<1>4. CASE UNCHANGED vars
  BY <1>4 DEF vars
<1> QED
  BY <1>1, <1>2, <1>3, <1>4 DEF FwNext

\* boot_guard_begin will find the flag of a boot that got nowhere, or has.
Condemned == phase = "goback" \/ (flag /\ phase \in {"off", "storage", "guard"})

\* How many boots are ahead at most.  0: the chosen image is good and stays.
\* 1: it is mute and is given up for a good one.  2: it is mute and is tried first.
\* 3: it is good and is given up, for a boot of it was cut short before.
Boots == IF net THEN 0
         ELSE IF image[Chosen] = "good" THEN IF Condemned THEN 3 ELSE 0
         ELSE IF Condemned THEN 1 ELSE 2

\* How far app_main is from the end of this one.
Stage == CASE phase = "off"      -> 8
           [] phase = "storage"  -> 7
           [] phase = "guard"    -> 6
           [] phase = "goback"   -> 5
           [] phase = "watch"    -> 4
           [] phase = "starting" -> 3
           [] phase = "up"       -> IF net THEN 1 ELSE 2
           [] OTHER              -> 0

Distance == 9 * Boots + Stage

Recovering == phase # "ready" /\ web # "torn"

\* One boot fewer outweighs any stage.
LEMMA Nearer ==
  ASSUME NEW b \in 0 .. 3, NEW s \in 0 .. 8, NEW c \in 0 .. 3, NEW t \in 0 .. 8,
         c < b \/ (c = b /\ t < s)
  PROVE  9 * c + t < 9 * b + s
OBVIOUS

LEMMA Far ==
  ASSUME NEW b \in 0 .. 3, NEW s \in 0 .. 8
  PROVE  9 * b + s \in 0 .. 35
OBVIOUS

LEMMA DistanceType == Boots \in 0 .. 3 /\ Stage \in 0 .. 8 /\ Distance \in 0 .. 35
<1>1. Boots \in 0 .. 3
  BY DEF Boots
<1>2. Stage \in 0 .. 8
  BY DEF Stage
<1> QED
  BY <1>1, <1>2, Far DEF Distance

LEMMA StartUpGetsNearer ==
  ASSUME FwInv, BootIsWatched, Recovering, StartUp \/ PowerCycle
  PROVE  Distance' < Distance
<1> SUFFICES Boots' < Boots \/ (Boots' = Boots /\ Stage' < Stage)
  <2>1. Boots \in 0 .. 3 /\ Stage \in 0 .. 8 /\ Boots' \in 0 .. 3 /\ Stage' \in 0 .. 8
    <3>1. (Boots \in 0 .. 3 /\ Stage \in 0 .. 8)'
      BY DEF Boots, Stage
    <3> QED
      BY <3>1, DistanceType
  <2> QED
    BY <2>1, Nearer DEF Distance
<1>1. /\ phase \in Phases /\ boot \in Slots /\ running \in Slots /\ flag \in BOOLEAN
      /\ net \in BOOLEAN /\ image \in [Slots -> Images] /\ image[0] \in Images /\ image[1] \in Images
      /\ image[0] = "good" \/ image[1] = "good"
      /\ net => phase \in {"up", "ready"} /\ image[running] = "good"
      /\ phase # "off" /\ ~net => running = Chosen
      /\ phase \in {"goback", "watch"} => ~flag
      /\ phase \in {"starting", "up"} => flag
      /\ phase # "aborted" /\ phase # "ready"
  BY DEF FwInv, FwTypeOK, ReachedIsGood, Lifeline, BootedAsTold, FlagHasReason, BootIsWatched,
         Recovering, Slots
<1> USE DEF Boots, Stage, Condemned, Chosen, Slots, Images, Bootable, Other, persistent
<1>2. CASE Boot
  BY <1>1, <1>2 DEF Boot
<1>3. CASE MountStorage
  <2>1. /\ phase = "storage" /\ phase' = "guard"
        /\ UNCHANGED <<persistent, running, net, job, restart, cuts, unnamed, hurried>>
    BY <1>3 DEF MountStorage, Go, Recovering
  <2> QED
    BY <1>1, <2>1
<1>4. CASE Panic \/ PowerCycle
  <2>1. /\ phase \in {"starting", "up"} /\ image[running] = "mute" /\ phase' = "off" /\ ~net'
        /\ UNCHANGED persistent
    BY <1>1, <1>4 DEF Panic, PowerCycle, Stop
  <2>2. ~net /\ running = Chosen /\ Boots = 2
    BY <1>1, <2>1
  <2>3. Boots' = 1
    BY <1>1, <2>1, <2>2
  <2> QED
    BY <2>2, <2>3
<1>5. CASE FlagFound
  BY <1>1, <1>5 DEF FlagFound
<1>6. CASE GoBack
  <2>1. /\ phase = "goback" /\ ~net /\ running = Chosen /\ ~flag
        /\ image[Other(running)] \in Bootable /\ boot' = Other(running)
        /\ phase' = "off" /\ ~net' /\ UNCHANGED <<image, flag>>
    BY <1>1, <1>6 DEF GoBack, Stop
  <2>2. Chosen' = Other(running) /\ ~Condemned' /\ Condemned
    BY <2>1
  <2>3. CASE image[running] = "good"
    <3>1. Boots = 3
      BY <2>1, <2>2, <2>3
    <3>2. Boots' \in {0, 2}
      BY <2>1, <2>2
    <3> QED
      BY <3>1, <3>2
  <2>4. CASE image[running] # "good"
    <3>1. Boots = 1
      BY <2>1, <2>2, <2>4
    <3>2. image[Other(running)] = "good"
      BY <1>1, <2>4
    <3>3. image'[Chosen'] = "good"
      BY <2>1, <2>2, <3>2
    <3>4. Boots' = 0
      BY <2>1, <2>2, <3>3
    <3> QED
      BY <3>1, <3>4
  <2> QED
    BY <2>3, <2>4
<1>7. CASE StayHere
  <2>1. /\ phase = "goback" /\ phase' = "watch" /\ ~net /\ running = Chosen /\ ~flag
        /\ image[Other(running)] \notin Bootable /\ UNCHANGED <<image, flag, boot, net>>
    BY <1>1, <1>7 DEF StayHere, Go
  <2>2. image[Chosen] = "good" /\ Chosen' = Chosen
    BY <1>1, <2>1
  <2>3. Boots = 3 /\ Boots' = 0
    BY <2>1, <2>2
  <2> QED
    BY <2>3
<1>8. CASE Watch
  BY <1>1, <1>8 DEF Watch
<1>9. CASE Start
  BY <1>1, <1>9 DEF Start, Go
<1>10. CASE Reached
  BY <1>1, <1>10 DEF Reached
<1>11. CASE MarkHealthy
  BY <1>1, <1>11 DEF MarkHealthy
<1> QED
  BY <1>2, <1>3, <1>4, <1>5, <1>6, <1>7, <1>8, <1>9, <1>10, <1>11 DEF StartUp

LEMMA UpdateLeavesDistance ==
  ASSUME FwInv, Recovering, Update \/ UNCHANGED vars
  PROVE  Distance' = Distance
<1>1. CASE Update
  <2>1. net /\ net' = net /\ phase' = phase
    BY <1>1 DEF Update, UpdateBegin, UpdateBroken, UpdateReceived, UpdateSwitch, WebBegin,
                WebReceived, WebRemember, RebootSoon, FwInv, ReachedIsGood, Recovering
  <2> QED
    BY <2>1 DEF Distance, Boots, Stage
<1>2. CASE UNCHANGED vars
  BY <1>2 DEF vars, persistent, Distance, Boots, Stage, Condemned, Chosen
<1> QED
  BY <1>1, <1>2

\* boot_guard.h:6: on the way to a bridge that can be reached every step of app_main, of
\* a panic and of the owner brings it nearer, by a distance that never exceeds 35, and
\* no update takes it back.  Only the power can, so that Recovers needs no more
\* than that app_main goes on.
RecoveryGetsNearer ==
    [][Recovering => /\ Distance \in 0 .. 35
                     /\ StartUp \/ PowerCycle => Distance' < Distance
                     /\ Distance' > Distance => PowerCut]_vars

THEOREM RecoveryCorrect == FwSpec => RecoveryGetsNearer
<1>1. FwInit => FwInv /\ BootIsWatched
  BY FwInitInv, WatchInit
<1>2. FwInv /\ BootIsWatched /\ [FwNext]_vars => (FwInv /\ BootIsWatched)'
  BY FwStepInv, WatchStep
<1>3. FwInv /\ BootIsWatched /\ [FwNext]_vars
        => [Recovering => /\ Distance \in 0 .. 35
                          /\ StartUp \/ PowerCycle => Distance' < Distance
                          /\ Distance' > Distance => PowerCut]_vars
  <2> SUFFICES ASSUME FwInv, BootIsWatched, [FwNext]_vars, Recovering
               PROVE  /\ Distance \in 0 .. 35
                      /\ StartUp \/ PowerCycle => Distance' < Distance
                      /\ Distance' > Distance => PowerCut
    OBVIOUS
  <2>1. Distance \in 0 .. 35
    BY DistanceType
  <2>2. Distance' \in 0 .. 35
    <3>1. Boots' \in 0 .. 3 /\ Stage' \in 0 .. 8
      BY DEF Boots, Stage
    <3> QED
      BY <3>1, Far DEF Distance
  <2>3. StartUp \/ PowerCycle => Distance' < Distance
    BY StartUpGetsNearer
  <2>4. Update \/ UNCHANGED vars => Distance' = Distance
    BY UpdateLeavesDistance
  <2>5. StartUp \/ PowerCycle \/ PowerCut \/ Update \/ UNCHANGED vars
    BY DEF FwNext, Power
  <2> QED
    BY <2>1, <2>2, <2>3, <2>4, <2>5
<1> QED
  BY <1>1, <1>2, <1>3, PTL DEF FwSpec, RecoveryGetsNearer
===============================================================================
