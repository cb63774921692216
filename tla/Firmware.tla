------------------------------- MODULE Firmware -------------------------------
(***************************************************************************)
(* What survives a restart: the two application slots, the web partition   *)
(* and the flag of main/boot_guard.c, with the ways main/ota_update.c      *)
(* replaces them, main/storage.c mounts them and main/main.c gets from     *)
(* power-on to a bridge that can be reached.                               *)
(*                                                                         *)
(* An action ends where something was written to flash, so that the power  *)
(* can go between any two writes.  External: the bootloader, which boots   *)
(* the other slot when the chosen one holds no valid image, the network,   *)
(* and the owner, who unplugs a bridge that stays silent.                  *)
(*                                                                         *)
(* Left out: progress reports, the Bluetooth link a download drops first,  *)
(* and an NVS that cannot be opened.                                       *)
(***************************************************************************)
EXTENDS Naturals, FiniteSets

CONSTANTS
    Releases,  \* web interfaces that can be served
    MaxCuts    \* how often the power goes for no reason

ASSUME FirmwareAssumption == /\ Releases \cap {"torn", "custom", "none"} = {}
                             /\ MaxCuts \in Nat

VARIABLES
    boot,      \* otadata: the slot the bootloader is to boot
    image,     \* per slot: a "good" image, a "mute" one that never becomes
               \* reachable, or "torn", which is no image at all
    flag,      \* NVS boot_pending
    web,       \* the web partition: a release, or "torn"
    webVer,    \* NVS web_ver: a release, "custom", or "none"
    running,   \* the slot that runs
    phase,     \* how far app_main has got
    net,       \* the bridge can be reached
    job,       \* the update the HTTP server's task is busy with
    restart,   \* the timer that calls reboot_soon is running
    cuts,      \* how often the power went
    unnamed,   \* history: the bridge stopped before the name of its interface was written
    hurried    \* history: the last boot of a good image was cut off too early

persistent == <<boot, image, flag, web, webVer>>
vars == <<persistent, running, phase, net, job, restart, cuts, unnamed, hurried>>

Slots    == {0, 1}
Other(s) == 1 - s       \* esp_ota_get_next_update_partition
Images   == {"good", "mute", "torn"}
Bootable == {"good", "mute"}

Phases == {"off", "storage", "guard", "goback", "watch", "starting", "up", "ready", "aborted"}
Jobs   == {"none", "image", "switch", "web", "name"}

FwTypeOK ==
    /\ boot \in Slots /\ running \in Slots
    /\ image \in [Slots -> Images]
    /\ flag \in BOOLEAN /\ net \in BOOLEAN /\ restart \in BOOLEAN /\ hurried \in BOOLEAN
    /\ web \in Releases \cup {"torn"}
    /\ webVer \in Releases \cup {"custom", "none"}
    /\ phase \in Phases /\ job \in Jobs
    /\ cuts \in 0 .. MaxCuts
    /\ unnamed \in BOOLEAN

\* Off the flasher: one image, an interface, no setting.
FwInit ==
    /\ boot = 0 /\ running = 0
    /\ image = [s \in Slots |-> IF s = 0 THEN "good" ELSE "torn"]
    /\ flag = FALSE
    /\ web \in Releases
    /\ webVer = "none"
    /\ phase = "off"
    /\ net = FALSE /\ job = "none" /\ restart = FALSE
    /\ cuts = 0
    /\ unnamed = FALSE /\ hurried = FALSE

\* app_main goes from one phase to another and touches nothing else.
Go(from, to) ==
    /\ phase = from
    /\ phase' = to
    /\ UNCHANGED <<persistent, running, net, job, restart, cuts, unnamed, hurried>>

\* Everything that is only in RAM is lost.
Stop == /\ phase' = "off" /\ net' = FALSE /\ job' = "none" /\ restart' = FALSE
        /\ unnamed' = (unnamed \/ job = "name")
        /\ UNCHANGED running

-----------------------------------------------------------------------------
(* From power-on to reachable *)

Boot ==
    /\ phase = "off"
    /\ phase' = "storage"
    /\ running' = IF image[boot] \in Bootable THEN boot ELSE Other(boot)
    /\ UNCHANGED <<persistent, net, job, restart, cuts, unnamed, hurried>>

\* A web partition that does not mount stops app_main before the boot guard.
MountStorage ==
    \/ web # "torn" /\ Go("storage", "guard")
    \/ web = "torn" /\ Go("storage", "aborted")

\* ESP_ERROR_CHECK restarts the board, and so does a crash of a bad image.
Panic ==
    /\ \/ phase = "aborted"
       \/ phase \in {"starting", "up"} /\ image[running] = "mute"
    /\ Stop
    /\ UNCHANGED <<persistent, cuts, hurried>>

\* boot_guard_begin finds the flag and takes it back first.
FlagFound ==
    /\ phase = "guard" /\ flag
    /\ phase' = "goback"
    /\ flag' = FALSE
    /\ UNCHANGED <<boot, image, web, webVer, running, net, job, restart, cuts, unnamed, hurried>>

GoBackOneTooFar ==  \* mutant: the slot after this one, whether there is one or not
    /\ phase = "goback"
    /\ image[Other(running)] \in Bootable
    /\ boot' = running + 1
    /\ Stop
    /\ UNCHANGED <<image, flag, web, webVer, cuts, hurried>>

\* The other slot is booted instead, if it holds an image.
GoBack ==
    /\ phase = "goback"
    /\ image[Other(running)] \in Bootable
    /\ boot' = Other(running)
    /\ Stop
    /\ UNCHANGED <<image, flag, web, webVer, cuts, hurried>>

StayHere == image[Other(running)] \notin Bootable /\ Go("goback", "watch")

WatchUnflagged ==  \* mutant: the flag is not set
    /\ phase = "watch" \/ (phase = "guard" /\ ~flag)
    /\ phase' = "starting"
    /\ hurried' = FALSE
    /\ UNCHANGED <<persistent, running, net, job, restart, cuts, unnamed>>

Watch ==
    /\ phase = "watch" \/ (phase = "guard" /\ ~flag)
    /\ phase' = "starting"
    /\ flag' = TRUE
    /\ hurried' = FALSE
    /\ UNCHANGED <<boot, image, web, webVer, running, net, job, restart, cuts, unnamed>>

\* Authentication, WiFi, Improv and the HTTP server are started.
Start == Go("starting", "up")

\* An address from a router or the fallback access point.
Reached ==
    /\ phase = "up" /\ ~net
    /\ image[running] = "good"
    /\ net' = TRUE
    /\ UNCHANGED <<persistent, running, phase, job, restart, cuts, unnamed, hurried>>

MarkHealthyInRam ==  \* mutant: s_healthy is set, the flag in NVS is not
    /\ phase = "up" /\ net
    /\ phase' = "ready"
    /\ UNCHANGED <<persistent, running, net, job, restart, cuts, unnamed, hurried>>

MarkHealthy ==
    /\ phase = "up" /\ net
    /\ phase' = "ready"
    /\ flag' = FALSE
    /\ UNCHANGED <<boot, image, web, webVer, running, net, job, restart, cuts, unnamed, hurried>>

-----------------------------------------------------------------------------
(* Updates, one at a time on the HTTP server's task *)

UpdateBootSlot ==  \* mutant: the slot that is not to be booted, not the one not running
    /\ net /\ job = "none"
    /\ job' = "image"
    /\ image' = [image EXCEPT ![Other(boot)] = "torn"]
    /\ UNCHANGED <<boot, flag, web, webVer, running, phase, net, restart, cuts, unnamed, hurried>>

\* esp_ota_begin, for a pushed image and for a fetched one, erases the slot.
UpdateBegin ==
    /\ net /\ job = "none"
    /\ job' = "image"
    /\ image' = [image EXCEPT ![Other(running)] = "torn"]
    /\ UNCHANGED <<boot, flag, web, webVer, running, phase, net, restart, cuts, unnamed, hurried>>

\* The transfer breaks off, a write fails, the image is rejected, or the slots
\* cannot be switched: the handler gives up where it is.
UpdateBroken ==
    /\ job \in {"image", "switch", "web"}
    /\ job' = "none"
    /\ UNCHANGED <<persistent, running, phase, net, restart, cuts, unnamed, hurried>>

\* esp_ota_end accepts what arrived.
UpdateReceived ==
    /\ job = "image"
    /\ job' = "switch"
    /\ \E k \in Bootable : image' = [image EXCEPT ![Other(running)] = k]
    /\ UNCHANGED <<boot, flag, web, webVer, running, phase, net, restart, cuts, unnamed, hurried>>

\* esp_ota_set_boot_partition, and a restart in half a second.
UpdateSwitch ==
    /\ job = "switch"
    /\ job' = "none"
    /\ boot' = Other(running)
    /\ restart' = TRUE
    /\ UNCHANGED <<image, flag, web, webVer, running, phase, net, cuts, unnamed, hurried>>

\* There is no spare web partition: it is unmounted and erased.
WebBegin ==
    /\ net /\ job = "none"
    /\ job' = "web"
    /\ web' = "torn"
    /\ UNCHANGED <<boot, image, flag, webVer, running, phase, net, restart, cuts, unnamed, hurried>>

\* All of it arrived.  Nobody looks at what it is.
WebReceived ==
    /\ job = "web"
    /\ job' = "name"
    /\ web' \in Releases \cup {"torn"}
    /\ UNCHANGED <<boot, image, flag, webVer, running, phase, net, restart, cuts, unnamed, hurried>>

WebRememberReleases ==  \* mutant: what was uploaded by hand gets no name
    /\ job = "name"
    /\ job' = "none"
    /\ webVer' \in {webVer} \cup {r \in Releases : web \in {r, "torn"}}
    /\ restart' = TRUE
    /\ unnamed' = FALSE
    /\ UNCHANGED <<boot, image, flag, web, running, phase, net, cuts, hurried>>

\* remember_web_version: the tag in the url, or "custom".
WebRemember ==
    /\ job = "name"
    /\ job' = "none"
    /\ webVer' \in {"custom"} \cup {r \in Releases : web \in {r, "torn"}}
    /\ restart' = TRUE
    /\ unnamed' = FALSE
    /\ UNCHANGED <<boot, image, flag, web, running, phase, net, cuts, hurried>>

\* reboot_soon, on the timer task, whatever the HTTP server's task is doing.
\* The loop of app_main looks every half second, so that the bridge has been
\* marked healthy by the time an update is through and the timer has run.
RebootSoon ==
    /\ restart /\ phase = "ready"
    /\ Stop
    /\ UNCHANGED <<persistent, cuts, hurried>>

-----------------------------------------------------------------------------
(* The power *)

PowerCut ==
    /\ phase # "off"
    /\ cuts < MaxCuts
    /\ cuts' = cuts + 1
    /\ Stop
    /\ hurried' = (hurried \/ (image[running] = "good" /\ phase \in {"starting", "up"}))
    /\ UNCHANGED persistent

\* The owner unplugs a bridge that cannot be reached.
PowerCycle ==
    /\ phase = "up" /\ image[running] = "mute"
    /\ Stop
    /\ UNCHANGED <<persistent, cuts, hurried>>

-----------------------------------------------------------------------------

StartUp == \/ Boot \/ MountStorage \/ Panic \/ FlagFound \/ GoBack \/ StayHere \/ Watch
           \/ Start \/ Reached \/ MarkHealthy

Update == \/ UpdateBegin \/ UpdateBroken \/ UpdateReceived \/ UpdateSwitch
          \/ WebBegin \/ WebReceived \/ WebRemember \/ RebootSoon

Power == PowerCut \/ PowerCycle

FwNext == StartUp \/ Update \/ Power

FwSpec == FwInit /\ [][FwNext]_vars

\* app_main runs on, timers go off, a network or the access point comes up, and
\* the owner does not leave a silent bridge alone for good.
FwFairSpec == FwSpec /\ WF_vars(StartUp) /\ WF_vars(RebootSoon) /\ WF_vars(PowerCycle)

-----------------------------------------------------------------------------
(* Properties *)

\* ota_update.c:101: no update, however often it is repeated or cut off,
\* destroys the last firmware that can be reached.
Lifeline == \E s \in Slots : image[s] = "good"

\* boot_guard.h:12: firmware that can be reached is only left for the other slot
\* when the power went before its last boot had got that far.
LeavesOnlyIfCut ==
    [][phase = "goback" /\ boot' # boot /\ image[running] = "good" => hurried]_vars

\* ota_update.c:244: the release that is shown for the interface is the one that
\* was written, unless the bridge stopped before the name was.
NameIsOfTheWeb ==
    webVer \in Releases => web \in {webVer, "torn"} \/ job = "name" \/ unnamed

\* boot_guard.h:6: whatever is installed, and wherever the power goes, the bridge
\* becomes reachable again, as long as the web partition can be mounted.
Recovers == []<>(phase = "ready" \/ web = "torn")

-----------------------------------------------------------------------------
(* What the source says of the program, and the code does not keep *)

\* ota_update.c:190: a web upload that broke off leaves a bridge that works and
\* takes another one.
RetryAlwaysPossible == phase # "aborted"
===============================================================================
