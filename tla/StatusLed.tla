------------------------------- MODULE StatusLed -------------------------------
(***************************************************************************)
(* main/status_led.c: the pattern the LED blinks, changed by the event     *)
(* loop, the timer task and the main task while the timer that plays it    *)
(* goes off, with no lock around what they share.                          *)
(*                                                                         *)
(* All three tasks are pinned to one core, so a task is interrupted only   *)
(* by one of a higher priority, but then between any two of its            *)
(* statements; and it lets the others run where it waits for the radio.    *)
(* The statements are in the order of the source.                          *)
(*                                                                         *)
(* Of wifi.c there is what decides what the LED is told: s_connected,      *)
(* s_ap_active and the fallback timer.  Left out: how long a step lasts,   *)
(* and which level means on.                                               *)
(***************************************************************************)
EXTENDS Naturals

CONSTANTS MaxEvents   \* how many losses and addresses the driver reports

ASSUME LedAssumption == MaxEvents \in Nat

VARIABLES
    pattern,   \* s_pattern
    len,       \* s_pattern_len
    step,      \* s_step
    armed,     \* s_timer is running
    lit,       \* the level last written
    connected, \* s_connected
    ap,        \* s_ap_active
    fallback,  \* s_fallback_timer is running
    pc,        \* per task, the statement it is at
    want,      \* per task, what it was told to show
    count,     \* per task, the value it is about to store in s_step
    heard,     \* how many events the driver has reported
    met        \* history: the last change of the pattern interrupted another one

shown   == <<pattern, len, step>>
wifi    == <<connected, ap, fallback, heard>>
locals  == <<want, count>>
vars    == <<shown, armed, lit, wifi, pc, locals, met>>

Tasks    == {"main", "event", "timer"}
Priority == [main |-> 1, event |-> 2, timer |-> 3]

\* How many durations PATTERN_NO_WIFI, PATTERN_ONLINE and PATTERN_AP hold.
Size   == [no_wifi |-> 2, online |-> 2, ap |-> 4]
States == DOMAIN Size

\* The pattern is written, its length and its first step are not both.
Writing == {"length", "rewind"}

\* From the first write of status_led_set, or the start of advance, to its end.
Changing == {"length", "rewind", "stop", "light", "read", "store", "start"}

LedTypeOK ==
    /\ pattern \in States /\ len \in {2, 4} /\ step \in 0 .. 3
    /\ armed \in BOOLEAN /\ lit \in BOOLEAN
    /\ connected \in BOOLEAN /\ ap \in BOOLEAN /\ fallback \in BOOLEAN
    /\ pc \in [Tasks -> {"idle", "fallback", "radio", "lost", "set"} \cup Changing]
    /\ want \in [Tasks -> States] /\ count \in [Tasks -> 0 .. 3]
    /\ heard \in 0 .. MaxEvents
    /\ met \in BOOLEAN

\* status_led_init has shown the first step; wifi_start has a network to join and
\* waits for it, or opens the access point at once.
Init ==
    /\ pattern = "no_wifi" /\ len = Size.no_wifi /\ step = 1
    /\ armed = TRUE /\ lit = TRUE
    /\ connected = FALSE /\ ap = FALSE
    /\ fallback \in BOOLEAN
    /\ pc = [t \in Tasks |-> IF t = "main" /\ ~fallback THEN "fallback" ELSE "idle"]
    /\ want = [t \in Tasks |-> "no_wifi"] /\ count = [t \in Tasks |-> 0]
    /\ heard = 0 /\ met = FALSE

Idle(t) == pc[t] = "idle"

\* Task t comes to run while those above it have nothing to do or wait for the radio.
Runs(t) == \A u \in Tasks : Priority[u] > Priority[t] => pc[u] \in {"idle", "radio"}

At(t, statement)   == Runs(t) /\ pc[t] = statement
Goto(t, statement) == pc' = [pc EXCEPT ![t] = statement]

-----------------------------------------------------------------------------
(* status_led_set *)

\* The pattern it shows already is left alone.
Set(t) ==
    /\ At(t, "set")
    /\ \/ want[t] = pattern /\ Goto(t, "idle") /\ UNCHANGED <<pattern, met>>
       \/ /\ want[t] # pattern /\ Goto(t, "length")
          /\ pattern' = want[t]
          /\ met' = (\E u \in Tasks \ {t} : pc[u] \in Changing)
    /\ UNCHANGED <<len, step, armed, lit, wifi, locals>>

LengthForgotten(t) ==  \* mutant: a new pattern keeps the length of the old one
    /\ At(t, "length") /\ Goto(t, "rewind")
    /\ UNCHANGED <<shown, armed, lit, wifi, locals, met>>

Length(t) ==
    /\ At(t, "length") /\ Goto(t, "rewind")
    /\ len' = Size[want[t]]
    /\ UNCHANGED <<pattern, step, armed, lit, wifi, locals, met>>

Rewind(t) ==
    /\ At(t, "rewind") /\ Goto(t, "stop")
    /\ step' = 0
    /\ UNCHANGED <<pattern, len, armed, lit, wifi, locals, met>>

StopOnly(t) ==  \* mutant: the new pattern is left to the timer
    /\ At(t, "stop") /\ Goto(t, "idle")
    /\ armed' = FALSE
    /\ UNCHANGED <<shown, lit, wifi, locals, met>>

\* Rather than wait out the step it is at, advance is called next.
Stop(t) ==
    /\ At(t, "stop") /\ Goto(t, "light")
    /\ armed' = FALSE
    /\ UNCHANGED <<shown, lit, wifi, locals, met>>

-----------------------------------------------------------------------------
(* advance, which the timer calls too *)

Expire ==
    /\ armed /\ Idle("timer")
    /\ Goto("timer", "light")
    /\ armed' = FALSE
    /\ UNCHANGED <<shown, lit, wifi, locals, met>>

Light(t) ==
    /\ At(t, "light") /\ Goto(t, "read")
    /\ lit' = (step % 2 = 0)
    /\ UNCHANGED <<shown, armed, wifi, locals, met>>

ReadOn(t) ==  \* mutant: a pattern does not begin again
    /\ At(t, "read") /\ Goto(t, "store")
    /\ count' = [count EXCEPT ![t] = step + 1]
    /\ UNCHANGED <<shown, armed, lit, wifi, want, met>>

\* How long to hold, and which step comes after.
Read(t) ==
    /\ At(t, "read") /\ Goto(t, "store")
    /\ count' = [count EXCEPT ![t] = (step + 1) % len]
    /\ UNCHANGED <<shown, armed, lit, wifi, want, met>>

Store(t) ==
    /\ At(t, "store") /\ Goto(t, "start")
    /\ step' = count[t]
    /\ UNCHANGED <<pattern, len, armed, lit, wifi, locals, met>>

\* A timer that runs already goes on as it was.
Start(t) ==
    /\ At(t, "start") /\ Goto(t, "idle")
    /\ armed' = TRUE
    /\ UNCHANGED <<shown, lit, wifi, locals, met>>

-----------------------------------------------------------------------------
(* What wifi.c has it show *)

Show(t, state) == want' = [want EXCEPT ![t] = state]

FallbackExpires ==
    /\ fallback /\ Idle("timer")
    /\ fallback' = FALSE
    /\ Goto("timer", "fallback")
    /\ UNCHANGED <<shown, armed, lit, connected, ap, heard, locals, met>>

\* start_fallback_ap, up to esp_wifi_set_mode.
Fallback(t) ==
    /\ At(t, "fallback")
    /\ Goto(t, IF connected \/ ap THEN "idle" ELSE "radio")
    /\ UNCHANGED <<shown, armed, lit, wifi, locals, met>>

\* The radio is an access point, or will not be one.
RadioReady(t) ==
    /\ At(t, "radio")
    /\ \/ Goto(t, "idle") /\ UNCHANGED <<ap, want>>
       \/ Goto(t, "set") /\ Show(t, "ap") /\ ap' = TRUE
    /\ UNCHANGED <<shown, armed, lit, connected, fallback, heard, count, met>>

\* The event loop has nothing of this to do before wifi_start is over.
Hear == /\ heard < MaxEvents /\ heard' = heard + 1
        /\ Idle("main") /\ Idle("event") /\ Runs("event")

\* WIFI_EVENT_STA_DISCONNECTED; a trial of credentials shows nothing.
Disconnected ==
    /\ Hear
    /\ connected' = FALSE
    /\ pc' \in {pc, [pc EXCEPT !["event"] = "lost"]}
    /\ UNCHANGED <<shown, armed, lit, ap, fallback, locals, met>>

Lost ==
    /\ At("event", "lost")
    /\ IF ap THEN Goto("event", "idle") /\ UNCHANGED want
             ELSE Goto("event", "set") /\ Show("event", "no_wifi")
    /\ UNCHANGED <<shown, armed, lit, wifi, count, met>>

\* on_got_ip
GotIp ==
    /\ Hear
    /\ connected' = TRUE /\ fallback' = FALSE
    /\ Goto("event", "set") /\ Show("event", "online")
    /\ UNCHANGED <<shown, armed, lit, ap, count, met>>

-----------------------------------------------------------------------------

Task(t) == \/ Set(t) \/ Length(t) \/ Rewind(t) \/ Stop(t)
           \/ Light(t) \/ Read(t) \/ Store(t) \/ Start(t)
           \/ Fallback(t) \/ RadioReady(t)

Next == (\E t \in Tasks : Task(t)) \/ Lost \/ Expire \/ FallbackExpires \/ Disconnected \/ GotIp

Spec == Init /\ [][Next]_vars

\* Tasks run on, and the timer goes off.
FairSpec == /\ Spec
            /\ \A t \in Tasks : WF_vars(Task(t))
            /\ WF_vars(Lost) /\ WF_vars(Expire)

-----------------------------------------------------------------------------
(* Properties *)

Settled == \A t \in Tasks : pc[t] \notin Changing

\* status_led.h:13: however a change of the pattern, its timer and the access
\* point interrupt one another, the timer that plays it is running after.
NeverDark == Settled => armed

\* status_led.c:16: only durations of the list are held: pattern, length and step
\* are of one and the same, but for the three writes of a change, and for what a
\* change that interrupted another one leaves.  The timer alone never mixes two.
OnePattern == (\A t \in Tasks : pc[t] \notin Writing) => (len = Size[pattern] /\ step < len) \/ met

\* status_led.h:13: it blinks for ever, whatever is left of an interrupted change.
KeepsBlinking == []<>lit /\ []<>~lit
===============================================================================
