--------------------------------- MODULE Wifi ---------------------------------
(***************************************************************************)
(* main/wifi.c: joining the stored network and trying again when it is     *)
(* lost, the access point opened when that fails, and the trial of new     *)
(* credentials for Improv and for the setup page, which may overlap.       *)
(*                                                                         *)
(* Each action is one event handler, one timer callback, or one stretch of *)
(* wifi_provision between two of its waits.  External: the driver, which   *)
(* may refuse, accept and drop any network.  A network stands for a name   *)
(* and its password.                                                       *)
(*                                                                         *)
(* Left out: the hostname and mDNS, scans, signal strength, power saving,  *)
(* and an access point that cannot be brought up.                          *)
(***************************************************************************)
EXTENDS Naturals, Sequences, SequencesExt

CONSTANTS
    Networks,     \* what can be joined or asked for
    None,         \* no network
    BuiltIn,      \* CONFIG_BRIDGE_WIFI_SSID
    Callers,      \* who may call wifi_provision
    FastRetries,  \* WIFI_FAST_RETRIES
    MaxEvents,    \* how many events wait for the event loop at most
    MaxRestarts   \* how often the bridge restarts

ASSUME WifiAssumption == /\ None \notin Networks
                         /\ BuiltIn \in Networks \cup {None}
                         /\ FastRetries \in Nat /\ MaxEvents \in Nat /\ MaxRestarts \in Nat

VARIABLES
    stored,         \* NVS wifi_ssid and wifi_pass
    connected,      \* s_connected
    retries,        \* s_retries
    ap,             \* s_ap_active
    ssid,           \* s_ssid and s_password
    fromNvs,        \* s_from_nvs
    trying,         \* s_trying
    bits,           \* s_events
    retryTimer,     \* s_retry_timer runs
    fallbackTimer,  \* s_fallback_timer runs
    led,            \* what status_led_set was told last
    config,         \* the driver's station configuration
    sta,            \* the driver: "off", "idle", "joining", "joined" or "up"
    net,            \* the network sta is about
    events,         \* what the driver has posted and the event loop not handled
    pc,             \* per caller: where in wifi_provision it waits
    want,           \* per caller: what it tries
    worked,         \* history: networks that gave the bridge an address
    overlapped,     \* history: two trials ran at once
    lostInTrial,    \* history: a network was lost before its trial had returned
    refused,        \* history: the driver, still joining, did not take the old settings back
    restarts        \* how often the bridge restarted

driver  == <<config, sta, net>>
trial   == <<trying, pc, want, overlapped>>
timers  == <<retryTimer, fallbackTimer>>
history == <<worked, lostInTrial, refused, restarts>>
vars == <<stored, connected, retries, ap, ssid, fromNvs, bits, led, events,
          driver, trial, timers, history>>

Known == Networks \cup {None}

FlagsOK ==
    /\ connected \in BOOLEAN /\ ap \in BOOLEAN /\ fromNvs \in BOOLEAN /\ trying \in BOOLEAN
    /\ retryTimer \in BOOLEAN /\ fallbackTimer \in BOOLEAN
    /\ overlapped \in BOOLEAN /\ lostInTrial \in BOOLEAN /\ refused \in BOOLEAN

DataOK ==
    /\ stored \in Known /\ ssid \in Known /\ config \in Known /\ net \in Known
    /\ retries \in 0 .. FastRetries
    /\ bits \subseteq {"connected", "failed"}
    /\ led \in {"no_wifi", "online", "ap"}
    /\ sta \in {"off", "idle", "joining", "joined", "up"}
    /\ events \in Seq({"start", "lost", "ip"})
    /\ pc \in [Callers -> {"idle", "settle", "wait"}]
    /\ want \in [Callers -> Known]
    /\ worked \subseteq Networks
    /\ restarts \in 0 .. MaxRestarts

WfTypeOK == FlagsOK /\ DataOK

\* Everything a restart takes with it.
RamLost ==
    /\ connected' = FALSE /\ retries' = 0 /\ ap' = FALSE
    /\ ssid' = None /\ fromNvs' = FALSE /\ bits' = {} /\ led' = "no_wifi"
    /\ retryTimer' = FALSE /\ fallbackTimer' = FALSE
    /\ config' = None /\ sta' = "off" /\ net' = None /\ events' = <<>>
    /\ trying' = FALSE /\ lostInTrial' = FALSE /\ refused' = FALSE
    /\ pc' = [c \in Callers |-> "idle"] /\ want' = [c \in Callers |-> None]

Init ==
    /\ stored \in Known
    /\ connected = FALSE /\ retries = 0 /\ ap = FALSE
    /\ ssid = None /\ fromNvs = FALSE /\ bits = {} /\ led = "no_wifi"
    /\ retryTimer = FALSE /\ fallbackTimer = FALSE
    /\ config = None /\ sta = "off" /\ net = None /\ events = <<>>
    /\ trying = FALSE /\ overlapped = FALSE /\ lostInTrial = FALSE /\ refused = FALSE
    /\ pc = [c \in Callers |-> "idle"] /\ want = [c \in Callers |-> None]
    /\ worked = {stored} \ {None}
    /\ restarts = 0

-----------------------------------------------------------------------------
(* The driver *)

\* esp_wifi_connect, which only an idle station takes.
Connect == IF sta = "idle" THEN sta' = "joining" /\ net' = config
                           ELSE UNCHANGED <<sta, net>>

\* The network refuses, is out of range, or drops the bridge again.
Lose ==
    /\ sta \in {"joining", "joined", "up"}
    /\ Len(events) < MaxEvents
    /\ sta' = "idle"
    /\ events' = Append(events, "lost")
    /\ UNCHANGED <<stored, connected, retries, ap, ssid, fromNvs, bits, led,
                   config, net, trial, timers, history>>

Associate ==
    /\ sta = "joining"
    /\ sta' = "joined"
    /\ UNCHANGED <<stored, connected, retries, ap, ssid, fromNvs, bits, led, events,
                   config, net, trial, timers, history>>

GetAddress ==
    /\ sta = "joined"
    /\ Len(events) < MaxEvents
    /\ sta' = "up"
    /\ events' = Append(events, "ip")
    /\ worked' = worked \cup ({net} \ {None})
    /\ UNCHANGED <<stored, connected, retries, ap, ssid, fromNvs, bits, led,
                   config, net, trial, timers, lostInTrial, refused, restarts>>

-----------------------------------------------------------------------------
(* Start, and the event loop *)

StartNoFallback ==  \* mutant: no timer when there is a network to join
    /\ sta = "off"
    /\ ssid' = IF stored # None THEN stored ELSE BuiltIn
    /\ fromNvs' = (stored # None)
    /\ config' = ssid'
    /\ sta' = "idle"
    /\ events' = <<"start">>
    /\ ap' = (ssid' = None)
    /\ led' = IF ssid' = None THEN "ap" ELSE led
    /\ UNCHANGED <<stored, connected, retries, bits, net, trial, timers, history>>

\* wifi_start: the stored network or the one built in, and with neither the
\* access point at once.
Start ==
    /\ sta = "off"
    /\ ssid' = IF stored # None THEN stored ELSE BuiltIn
    /\ fromNvs' = (stored # None)
    /\ config' = ssid'
    /\ sta' = "idle"
    /\ events' = <<"start">>
    /\ fallbackTimer' = (ssid' # None)
    /\ ap' = (ssid' = None)
    /\ led' = IF ssid' = None THEN "ap" ELSE led
    /\ UNCHANGED <<stored, connected, retries, bits, net, retryTimer, trial, history>>

Handle(e) == events # <<>> /\ Head(events) = e /\ events' = Tail(events)

OnStart ==
    /\ Handle("start")
    /\ IF ssid # None THEN Connect ELSE UNCHANGED <<sta, net>>
    /\ UNCHANGED <<stored, connected, retries, ap, ssid, fromNvs, bits, led,
                   config, trial, timers, history>>

\* STA_DISCONNECTED while credentials are tried: only the trial is told.
LostInTrial ==
    /\ Handle("lost")
    /\ trying
    /\ connected' = FALSE
    /\ bits' = bits \cup {"failed"}
    /\ lostInTrial' = (lostInTrial \/ \E c \in Callers : pc[c] = "wait" /\ "connected" \in bits)
    /\ UNCHANGED <<stored, retries, ap, ssid, fromNvs, led, driver, trial, timers,
                   worked, refused, restarts>>

LostOneMore ==  \* mutant: one quick retry more than there are
    /\ Handle("lost")
    /\ ~trying
    /\ connected' = FALSE
    /\ led' = IF ap THEN led ELSE "no_wifi"
    /\ \/ retries <= FastRetries /\ retries' = retries + 1 /\ Connect /\ UNCHANGED retryTimer
       \/ retries > FastRetries /\ retryTimer' = TRUE /\ UNCHANGED <<retries, sta, net>>
    /\ UNCHANGED <<stored, ap, ssid, fromNvs, bits, config, trial, fallbackTimer, history>>

LostStaysConnected ==  \* mutant: s_connected is cleared in a trial only
    /\ Handle("lost")
    /\ ~trying
    /\ led' = IF ap THEN led ELSE "no_wifi"
    /\ \/ retries < FastRetries /\ retries' = retries + 1 /\ Connect /\ UNCHANGED retryTimer
       \/ retries >= FastRetries /\ retryTimer' = TRUE /\ UNCHANGED <<retries, sta, net>>
    /\ UNCHANGED <<stored, connected, ap, ssid, fromNvs, bits, config, trial, fallbackTimer, history>>

LostNoBackoff ==  \* mutant: the retry timer is stopped and not started
    /\ Handle("lost")
    /\ ~trying
    /\ connected' = FALSE
    /\ led' = IF ap THEN led ELSE "no_wifi"
    /\ \/ retries < FastRetries /\ retries' = retries + 1 /\ Connect /\ UNCHANGED retryTimer
       \/ retries >= FastRetries /\ retryTimer' = FALSE /\ UNCHANGED <<retries, sta, net>>
    /\ UNCHANGED <<stored, ap, ssid, fromNvs, bits, config, trial, fallbackTimer, history>>

LostOnce ==  \* mutant: the LED follows only a loss that was not noted before
    /\ Handle("lost")
    /\ ~trying
    /\ connected' = FALSE
    /\ led' = IF ap \/ ~connected THEN led ELSE "no_wifi"
    /\ \/ retries < FastRetries /\ retries' = retries + 1 /\ Connect /\ UNCHANGED retryTimer
       \/ retries >= FastRetries /\ retryTimer' = TRUE /\ UNCHANGED <<retries, sta, net>>
    /\ UNCHANGED <<stored, ap, ssid, fromNvs, bits, config, trial, fallbackTimer, history>>

\* STA_DISCONNECTED otherwise: a few retries at once, then one every ten seconds.
Lost ==
    /\ Handle("lost")
    /\ ~trying
    /\ connected' = FALSE
    /\ led' = IF ap THEN led ELSE "no_wifi"
    /\ \/ retries < FastRetries /\ retries' = retries + 1 /\ Connect /\ UNCHANGED retryTimer
       \/ retries >= FastRetries /\ retryTimer' = TRUE /\ UNCHANGED <<retries, sta, net>>
    /\ UNCHANGED <<stored, ap, ssid, fromNvs, bits, config, trial, fallbackTimer, history>>

\* on_got_ip.  Built-in credentials are written down, whichever network this is,
\* unless NVS refuses.
OnGotIp ==
    /\ Handle("ip")
    /\ connected' = TRUE
    /\ retries' = 0
    /\ fallbackTimer' = FALSE
    /\ led' = "online"
    /\ bits' = bits \cup {"connected"}
    /\ lostInTrial' = FALSE
    /\ \/ ~fromNvs /\ ssid # None /\ stored' = ssid /\ fromNvs' = TRUE
       \/ UNCHANGED <<stored, fromNvs>>
    /\ UNCHANGED <<ap, ssid, driver, trial, retryTimer, worked, refused, restarts>>

-----------------------------------------------------------------------------
(* Timers *)

RetryNow ==
    /\ retryTimer
    /\ retryTimer' = FALSE
    /\ Connect
    /\ UNCHANGED <<stored, connected, retries, ap, ssid, fromNvs, bits, led, events,
                   config, trial, fallbackTimer, history>>

\* start_fallback_ap.
FallbackExpired ==
    /\ fallbackTimer
    /\ fallbackTimer' = FALSE
    /\ ap' = (ap \/ ~connected)
    /\ led' = IF ap \/ connected THEN led ELSE "ap"
    /\ UNCHANGED <<stored, connected, retries, ssid, fromNvs, bits, events,
                   driver, trial, retryTimer, history>>

-----------------------------------------------------------------------------
(* wifi_provision *)

ProvisionSavesFirst(c, n) ==  \* mutant: stored before it has been tried
    /\ sta # "off" /\ pc[c] = "idle"
    /\ pc' = [pc EXCEPT ![c] = "settle"]
    /\ want' = [want EXCEPT ![c] = n]
    /\ trying' = TRUE
    /\ retryTimer' = FALSE
    /\ stored' = n
    /\ \/ sta = "idle" /\ UNCHANGED <<sta, events>>
       \/ /\ sta # "idle" /\ Len(events) < MaxEvents
          /\ sta' = "idle" /\ events' = Append(events, "lost")
    /\ overlapped' = (overlapped \/ \E d \in Callers : pc[d] # "idle")
    /\ UNCHANGED <<connected, retries, ap, ssid, fromNvs, bits, led,
                   config, net, fallbackTimer, history>>

\* The station is told to leave its network, and 300 ms pass.
Provision(c, n) ==
    /\ sta # "off" /\ pc[c] = "idle"
    /\ pc' = [pc EXCEPT ![c] = "settle"]
    /\ want' = [want EXCEPT ![c] = n]
    /\ trying' = TRUE
    /\ retryTimer' = FALSE
    /\ \/ sta = "idle" /\ UNCHANGED <<sta, events>>
       \/ /\ sta # "idle" /\ Len(events) < MaxEvents
          /\ sta' = "idle" /\ events' = Append(events, "lost")
    /\ overlapped' = (overlapped \/ \E d \in Callers : pc[d] # "idle")
    /\ UNCHANGED <<stored, connected, retries, ap, ssid, fromNvs, bits, led,
                   config, net, fallbackTimer, history>>

\* What follows a trial that failed, back at the old settings: esp_wifi_set_config
\* may refuse them while the station joins, and nobody looks at its result.
GiveUpOn(c) ==
    /\ pc' = [pc EXCEPT ![c] = "idle"]
    /\ trying' = FALSE
    /\ config' \in IF sta = "joining" THEN {config, ssid} ELSE {ssid}
    /\ refused' = (config' # ssid)
    /\ retries' = 0
    /\ IF ssid # None /\ sta = "idle" THEN sta' = "joining" /\ net' = ssid
                                      ELSE UNCHANGED <<sta, net>>
    /\ UNCHANGED <<stored, ssid, fromNvs>>

\* The 300 ms are enough for the event loop to have handled what was posted.
Settled(c) ==
    /\ pc[c] = "settle" /\ events = <<>>
    /\ bits' = {}
    /\ \/ /\ sta = "idle"
          /\ pc' = [pc EXCEPT ![c] = "wait"]
          /\ config' = want[c] /\ refused' = FALSE
          /\ sta' = "joining" /\ net' = want[c]
          /\ UNCHANGED <<stored, retries, ssid, fromNvs, trying>>
       \/ sta # "idle" /\ GiveUpOn(c)
    /\ UNCHANGED <<connected, ap, led, events, want, overlapped, timers,
                   worked, lostInTrial, restarts>>

\* The trial joined; storing what it joined with may fail.
Kept(c) ==
    /\ pc[c] = "wait" /\ "connected" \in bits
    /\ pc' = [pc EXCEPT ![c] = "idle"]
    /\ trying' = FALSE
    /\ ssid' = want[c]
    /\ fromNvs' = TRUE
    /\ stored' \in {stored, want[c]}
    /\ UNCHANGED <<connected, retries, ap, bits, led, events, driver, want, overlapped,
                   timers, history>>

GivenUpKeepsConfig(c) ==  \* mutant: the candidate stays configured
    /\ pc[c] = "wait" /\ "connected" \notin bits
    /\ pc' = [pc EXCEPT ![c] = "idle"]
    /\ trying' = FALSE
    /\ retries' = 0
    /\ IF ssid # None THEN Connect ELSE UNCHANGED <<sta, net>>
    /\ UNCHANGED <<stored, connected, ap, ssid, fromNvs, bits, led, events, config, want,
                   overlapped, timers, history>>

\* It did not, or 20 s are over.
GivenUp(c) ==
    /\ pc[c] = "wait" /\ "connected" \notin bits
    /\ GiveUpOn(c)
    /\ UNCHANGED <<connected, ap, bits, led, events, want, overlapped, timers,
                   worked, lostInTrial, restarts>>

\* wifi_forget.
Forget ==
    /\ sta # "off"
    /\ stored' = None
    /\ UNCHANGED <<connected, retries, ap, ssid, fromNvs, bits, led, events,
                   driver, trial, timers, history>>

\* A restart of the bridge, at any point.
Restart ==
    /\ sta # "off" /\ restarts < MaxRestarts
    /\ restarts' = restarts + 1
    /\ RamLost
    /\ UNCHANGED <<stored, worked, overlapped>>

-----------------------------------------------------------------------------

Driver == Lose \/ Associate \/ GetAddress
EventLoop == OnStart \/ LostInTrial \/ Lost \/ OnGotIp
Trial == \E c \in Callers : \/ \E n \in Networks : Provision(c, n)
                            \/ Settled(c) \/ Kept(c) \/ GivenUp(c)

Next == Start \/ Driver \/ EventLoop \/ RetryNow \/ FallbackExpired \/ Trial \/ Forget \/ Restart

Spec == Init /\ [][Next]_vars

\* The program starts, the event loop runs and timers go off.  Networks and
\* callers owe nothing.
FairSpec == /\ Spec
            /\ WF_vars(Start) /\ WF_vars(EventLoop)
            /\ WF_vars(RetryNow) /\ WF_vars(FallbackExpired)

\* Nor does the driver leave an attempt to join without an answer.
AnsweringSpec == FairSpec /\ WF_vars(Driver)

-----------------------------------------------------------------------------
(* Properties *)

\* wifi.h:30: an address that is gone is not reported for longer than the event
\* that takes it away needs to be handled.
ConnectedIsTrue == connected => sta = "up" \/ Contains(events, "lost")

\* Nothing is under way that would ever join the configured network.
Stuck == /\ sta = "idle" /\ ssid # None /\ events = <<>> /\ ~retryTimer
         /\ \A c \in Callers : pc[c] = "idle"

\* wifi.c:30: the network the driver is configured for is tried again and again,
\* however trials, retries and losses fall, but for one that is lost while its
\* trial returns.
KeepsTrying == Stuck => lostInTrial

\* wifi.h:49: what is stored was built in, or has given the bridge an address,
\* unless two trials took each other's result.
StoredWorked == stored \in worked \cup {None, BuiltIn} \/ overlapped

\* wifi.h:53: after a trial, whether it joined or not, the driver is configured
\* for the network that is shown, unless it was still joining when the trial was
\* given up and refused the old settings.
ConfigIsShown == sta # "off" /\ (\A c \in Callers : pc[c] = "idle")
                    => config = ssid \/ refused \/ overlapped

\* status_led.h:18: without an access point, the LED of a bridge that has come to
\* rest or waits to retry does not flash online when it is not.
LedIsTrue ==
    led = "online" /\ sta = "idle" /\ events = <<>> /\ (\A c \in Callers : pc[c] = "idle")
        => connected \/ ap \/ lostInTrial

\* main.c:49: after every start the bridge has an address or its access point.
ReachableAfterStart == sta = "off" ~> (connected \/ ap)

-----------------------------------------------------------------------------
(* What the source says of the program, and the code does not keep *)

\* Kconfig.projbuild:51: without WiFi the access point is opened in the end.
FallbackOpens == (sta # "off" /\ ~connected) ~> (connected \/ ap \/ sta = "off")
===============================================================================
