# Verification of the Marstek BLE bridge

The program is ESP-IDF firmware in C (`src/main/`). It joins a WiFi network, serves a web
interface, and relays WebSocket traffic between browsers and one battery storage over Bluetooth LE.
This directory holds TLA+ models of it, the TLC configurations that check them on small instances,
and proofs checked by TLAPS for every value of the constants.

| module | models | checked by | proved in |
|---|---|---|---|
| `BleCentral` | `ble_central.c`: scan, dial, discovery, the link | `MCBleCentral` | `BleCentral_proofs` |
| `WsBridge` (extends `BleCentral`) | `ws_bridge.c`: browsers, grace period, refresh | `MCWsBridge` | `WsBridge_proofs` |
| `LinkHold` | what the relay promises about the storage's only connection | refined by `WsBridge` and `RelayTasks` | their `_proofs` |
| `RelayTasks` | `ws_bridge.c` and the link, with three tasks interrupting one another | `MCRelayTasks` | `RelayTasks_proofs` |
| `Firmware` | `boot_guard.c`, `ota_update.c`, `storage.c`, `main.c` | `MCFirmware` | `Firmware_proofs` |
| `Wifi` | `wifi.c`: joining, retries, fallback access point, trials | `MCWifi` | `Wifi_proofs` |
| `Auth` | `auth.c`: claim, challenge, login, change of password, session | `MCAuth` | `Auth_proofs` |
| `Improv` | `improv.c`: the serial reader and its requests | `MCImprov` | `Improv_proofs` |
| `StatusLed` | `status_led.c`: the pattern and its timer, with three tasks interrupting one another | `MCStatusLed` | `StatusLed_proofs` |

Run everything from this directory: `tlc -config MCWsBridge.cfg MCWsBridge`,
`tlapm WsBridge_proofs.tla`, and so on.

## 1. The system

### Tasks

| task | runs |
|---|---|
| main task | `app_main`: storage, boot guard, auth, WiFi, Improv, web server, relay; then a loop every 500 ms |
| NimBLE host task | GAP and GATT callbacks of `ble_central.c`, and through `s_on_state` and `s_on_notify` the relay |
| HTTP server task | every URI and WebSocket handler: relay control messages, auth, setup page, uploads |
| timer task | `linger_expired`, `refresh_link`, `retry_now`, `start_fallback_ap`, `reboot_soon`, LED |
| event loop task | `on_wifi_event`, `on_got_ip` |
| Improv task | the reader of the serial port, which handles a request, `wifi_provision` included, before it reads on |

No mutex protects the state these tasks share, apart from one lock around WebSocket sends.

### Components

**Bluetooth central** (`ble_central.c`). State: `s_host_ready`, the connection handle, three
attribute handles, `s_subscribed`, `s_connect_pending`, the scan callback, the device name.
Operations: scan, connect, disconnect, write, the GAP events, the discovery chain service -
characteristics - descriptors - subscribe - name. It reports `scanning`, `connecting`, `connected`,
`disconnected`, `error` or `idle` upwards. Hard: callbacks of a link that is gone, a scan that a
dial cancels, a link lost in the middle of discovery. Correct when what it remembers of a link
never outlives the link.

**Relay** (`ws_bridge.c`). State: the clients on the books, the linger and refresh timers,
`s_refresh_left`, `s_link_abandoned`, the bound storage. Operations: handshake, close frame,
session closed, the control messages `connect`, `disconnect`, `scan`, `bind`, notifications and
state changes from below. Hard: a reload is a close and an open in either order, failed sends
remove clients, and both timers race with both. Correct when the storage, which accepts one
connection, is not held for nobody, and a browser is never left with a link that no longer answers
or a status that no longer holds.

**Boot guard and updates** (`boot_guard.c`, `ota_update.c`, `storage.c`, `main.c`). State in flash:
the slot to boot, the two application images, the web partition, `boot_pending`, `web_ver`.
Operations: start-up, marking a boot healthy, pushing or fetching an image, replacing the web
partition. Hard: the power may go between any two writes. Correct when no update can destroy the
last firmware that can be reached, and the bridge becomes reachable again.

**WiFi** (`wifi.c`). State: `s_connected`, `s_retries`, `s_trying`, `s_ap_active`, the settings and
where they came from, the event bits, two timers; in flash the stored credentials. Operations:
start, station events, retry, fallback, `wifi_provision`, `wifi_forget`. Hard: a trial of new
credentials shares all of that with the ordinary retries, and with a second trial. Correct when the
configured network is tried again and again, only credentials that worked are stored, and the
bridge is reachable by one way or the other.

**Authentication** (`auth.c`). State: salt and key of the password, whether there is one, one nonce,
one session, the failed attempts and the lockout; in NVS salt, key and session. Operations: challenge,
claim, login, change of password, logout, and `auth_init`. Hard: three writes to NVS that belong
together, each of which may fail or be the last before the power goes, and one nonce for every
browser. Correct when the password in force always lets its owner in, no session outlives the
password it was opened under, a bridge once claimed stays claimed, and a restart changes nothing.

**Improv** (`improv.c`). State: the buffer `s_packet` and how much of it is filled. Operations: one
byte more, a complete request. Hard: the console shares the port, so that headers begin inside other
text, and three lengths nested in one another come off the wire. Correct when the buffer is never
overrun, no header is missed, and what is tried is what was sent. It ends in a call of
`wifi_provision`, as the caller `improv` of `Wifi`.

**Setup page** (`wifi_setup.c`): credentials over HTTP, as the caller `page` of `Wifi`.
**Web server** (`web_server.c`): files out of the web partition; no state.

**Status LED** (`status_led.c`). State: the pattern, its length, the step it is at, a timer. Operations:
`status_led_set`, from the event loop, the timer task and the main task; `advance`, from the timer and at
the end of a change. Hard: four writes that belong together and no lock. Correct when the LED never
stops blinking and shows one pattern, that of the state the bridge is in. What `wifi.c` tells it is
`led` in `Wifi`.

**Web installer, scripts, build** (`docs/`, `tools/`, `Kconfig.projbuild`, `partitions.csv`): not
part of the running program.

### How they interact

    browsers --WebSocket--> ws_bridge --API--> ble_central --GATT--> storage
                               ^----- s_on_state, s_on_notify ------'
    main --> storage, boot_guard, auth, wifi, improv, web_server, ws_bridge
    main <-- wifi_is_connected, wifi_ap_active   (then boot_guard_mark_healthy)
    improv, wifi_setup --wifi_provision--> wifi --> status_led
    ota_update --> flash; ws_bridge (drops the link before a download); restart

`WsBridge` composes the relay and the central through the calls and callbacks between them.
`Firmware` and `Wifi` share with the rest only the fact of being reachable: `net` in `Firmware`
stands for what `ReachableAfterStart` of `Wifi` establishes.

## 2. The models

### BleCentral

One action per GAP event (`DiscComplete`, `ConnectFailed`, `Connected`, `LinkLost`), per discovery
callback and outcome (`ServiceFound` .. `NameDone`, `DiscoveryError`), per API call (`Scan`,
`Connect`, `Disconnect`, `SetDeviceName`), and for the host coming and going. Variables carry the
names of the C statics without `s_`; `tx`, `rx`, `cccd` say whether the three attribute handles
have been found. `said` holds the states the last step passed to `s_on_state`, which is how the
relay hears of them.

External: `gap` (the procedure GAP runs), `proc` (per link, the GATT procedure it waits for) and
`closing` (links `ble_gap_terminate` was called on). When a link goes, the stack first fails the
procedure that still runs on it; two callbacks answer that with a state of their own, so `LinkLost`
can say two things. A storage stands for its address and for the handle of the link to it, as the
stack holds at most one link per peer.

### WsBridge

Each action is a whole handler on the task that runs it. A Bluetooth callback is a `BleCentral`
action in conjunction with what `on_ble_state` does with every state it reports (`Hosted`). Sockets
are external: `open` ones, and `jammed` ones on which the next send fails. `send_to` drops such a
client, so every broadcast leaves `Reached` on the books.

Two history variables, which no guard reads:
`orphaned` - the books became empty through a failed send, and nobody started the grace period;
`idled` - the link that is up was usable while nobody in good order was there to watch it.

`LinkHold` is the abstract promise: the link is held while somebody watches, for a grace period,
and not beyond. `WsBridge` implements it under the mapping `audience <- Audience`, `link <- Link`
(`KeepsPromise`, liveness included). The one way out, `unnoticed`, is the finding `held_for_nobody`.

### RelayTasks

`WsBridge` runs each handler to its end; nothing in the code does. Here a handler is cut into
sections wherever another task may read what it writes or write what it has read, and the HTTP, timer
and host tasks take turns in any order. Each has a place of its own: the section it is at (`pc`), the one
that follows if it is not the end (`after`), the status it tells and reacts to (`said`) and the clients
it is about to drop or to add (`who`). `LingerExpired` is the sections `nobody`
(`client_count`), `forget` (`s_link_abandoned`) and `hang up`; `ble_central_connect` is `look`, `tell`,
`claim` (`s_connect_pending`) and `dial`; `on_ble_state` is `tell`, `react` and `spend`. The refresh may fire while the old link is
still closing, and a socket's descriptor is reused as soon as it is closed. The central is brought
down to one storage and to how far the discovery of its link has come (`Progress`): up, with the handle
found that `ble_central_is_connected` asks for, subscribed, announced; or given up, or stalled, before or
after that handle was found. A handshake or a `connect` that comes in between is answered "connected", as
in the code, on a link that is not usable yet and may never be.

`RelayTasks` implements `LinkHold` too (`KeepsPromise`), without the fairness. What a handler is in
the middle of counts as what it has done: the grace period begins when the server's task sets out to drop
the last client, and holds on until it has started the clock (`Leaving`); it is not over when the timer goes off but
when the timer task has hung up (`Expired`). Once all three have finished the mapping is that of `WsBridge`.

The other properties are stated for moments when every task has finished (`Quiet`), since in between each
is briefly false. Three history variables beside those of `WsBridge` say what the code cannot help. `late` holds the
tasks that are still to tell what they read of the link while another task has changed the answer since,
and `overtaken` is set when such a task tells it and it is wrong, and only then. `crossed` is set for a
dial that met another one or the end of the last link, for which the stack may dial with `s_connect_pending`
unset until the dial ends. `StatusIsTrue` says two things of a moment at rest: browsers are not left with
"connected" for a link that is not there (or has no handle yet), and a link that was announced as usable is
shown. What is shown while a link is being discovered, or for as long as it is stuck, it leaves open, because
the code does. Two assumptions about time are named: `DialIsOver` (a dial begun before the grace period is over
when it ends) and `Expiring` (no browser comes *and leaves* during the few instructions of
`linger_expired`; if one did, its mark that the link is abandoned would be wiped).

### Firmware

An action ends where something was written to flash, and `PowerCut` may come between any two.
`phase` is how far `app_main` got: `storage` (mount), `guard` (`boot_guard_begin`), `goback` and
`watch` (its two outcomes), `starting`, `up`, `ready` (marked healthy), `aborted`
(`ESP_ERROR_CHECK`). `job` is the update the HTTP server's task is busy with. An image is `good`,
`mute` (starts but never becomes reachable, or crashes) or `torn` (no image). The bootloader boots
the other slot when the chosen one holds no image. History: `unnamed`, the bridge stopped between
the last byte of an interface and the name of it; `hurried`, the last boot of a good image was cut
short.

### Wifi

One action per event handler and timer callback; `wifi_provision` is cut where it waits: `Provision`
up to the 300 ms pause, `Settled` up to the wait for the event bits, then `Kept` or `GivenUp`. The
driver is external: the station's state `sta`, the network it is about, the configuration it was
given and the queue of events it posted. It may refuse or drop any network at any time. A network
stands for a name and its password. History: `worked` (networks that gave an address),
`overlapped` (two trials at once), `lostInTrial` (a network lost before its trial returned), `refused`
(the driver, still joining when a trial was given up, kept the configuration of the trial; the result of
`esp_wifi_set_config` is not looked at).

### Auth

The HTTP server runs one handler at a time, so a request is one action up to its first write to NVS
(`Claim`, `Login`, `ChangePassword`, `Logout`, with `at` naming the write that comes next), and every
write is one more (`WriteSalt`, `ClaimKey`, `NewKey`, `Persist`), or is refused (`WriteFails`).
`Restart` may come between any two and reads NVS as `auth_init` does. A key is the pair of salt and
password it is derived from, a nonce is named by the browser it was handed to, a session by the number
of its login; an expired nonce or session is one that is not valid. Browsers (external) may repeat a
request, answer an old challenge and lose a reply. History: `opened`, the key each session was opened
under; `early`, the nonce was handed out before there was a password; `lapses`, what a handler that
broke off in the middle of its writes left behind: `"pair"`, salt and key of two passwords, `"session"`,
a session whose begin or end NVS does not know.

### Improv

One action per byte: `HeaderByte` while the reader hunts, `PacketByte` after. `packet` is
`s_packet[0 .. have - 1]`; a complete packet is handled in the step of its last byte, which records the
answers (`sent`) and what `wifi_provision` was called with (`tried`). The indices, lengths and
comparisons are those of the C code, on the buffer itself; `Carried` says independently what
credentials a packet encodes.

### StatusLed

One action per statement of `status_led_set` (`Set`, `Length`, `Rewind`, `Stop`) and of `advance`
(`Light`, `Read`, `Store`, `Start`), which both the timer (`Expire`) and a change end in; `pc` says where
each of the three tasks is. The ESP-IDF pins them to core 0 with the priorities timer, event loop, main,
so one is only ever interrupted from above (`Runs`), but between any two statements; `start_fallback_ap`
lets the others run while it waits for the radio. What `wifi.c` tests before it tells the LED anything,
`s_connected` and `s_ap_active`, is part of it, since it can be out of date by the time it is acted on.
The statements are in the order of the source; a compiler that orders the writes differently adds
mixtures of the same kind.

## 3. Runs

| run | instance | states | shows |
|---|---|---|---|
| `ble_pass` | 3 storages, 2 links | 33 656 | `KnownLinkIsUp`, `NothingLeftOver` |
| `relay_pass` | 1 storage, 2 sockets, 2 retries | 163 823 | six invariants, `KeepsPromise`, `ConnectingEnds` |
| `tasks_pass` | 2 sockets, 1 retry | 3 707 112 | `KeepsPromise` and four invariants across the tasks; no deadlock |
| `firmware_pass` | 2 interfaces, 2 power cuts | 15 166 | `Lifeline`, `NameIsOfTheWeb`, `LeavesOnlyIfCut`, `Recovers` |
| `wifi_pass` | 2 networks, 2 callers, 1 restart | 878 258 | six invariants, `ReachableAfterStart` |
| `auth_pass` | 2 browsers, 2 passwords, 3 salts, 2 logins, 1 restart | 908 246 | three invariants, `ClaimedForGood`, `RestartKeepsLogin` |
| `improv_pass` | 7 bytes of 8, header of 2, payload up to 6 | 2 030 560 | `HuntsForHeader`, `TriesWhatWasSent` |
| `led_pass` | 4 events | 16 988 | `OnePattern`, `KeepsBlinking` |
| `held_for_nobody`, `rebind_under_link` | one socket | - | findings in the relay |
| `web_upload_cut` | one interface | - | a finding in the updates |
| `no_fallback` | one network, no callers | - | a finding in `wifi.c` |

Bounds, and why they are enough:

- **Storages.** Three with two links in `ble_pass`, so that a dial can be refused for want of room
  and a second link can come up beside the first. One in `relay_pass`: the relay's promises are
  about one bound storage. What rebinding does with two is the run `rebind_under_link`, and
  `BooksMatchStack` is stated for one storage because a second one breaks it (see hazards).
- **Sockets.** Two: one browser comes while another goes, and a reload opens its new socket before
  the old one has closed. With `MaxClients = 2` no handshake is refused; a client too many is
  turned away before any state changes. The proofs hold for any number of sockets and clients.
- **RefreshRetries.** Two of the three: both a retry that is followed by another and the last one
  happen, and so does one refused attempt that reports two errors.
- **MaxCuts.** One cut to leave an update half done, one more while the bridge recovers. The safety
  properties are proved for any number. `LingerSeconds` and `DialSeconds` are the values in the
  code; only their order matters: a dial is over before a grace period begun after it.
- **MaxEvents = 2, FastRetries = 1, MaxRestarts = 1.** A loss can queue behind an address, the
  quick retries can be used up, and what is stored can be read back. The invariants are proved for
  all values.

- **tasks_pass.** Two sockets: one browser reloads while another watches, and a closed descriptor is
  handed to the next. One retry: the last attempt is where two tasks can both decide on it; across
  tasks the budget can go to -2, which ends it just the same, and such states are followed only until nobody is
  about to count an attempt any more (`MCBound`). Every interleaving of the three tasks'
  sections is explored, with no bound on how many browsers come, dials fail or links go.
- **Auth.** Two browsers hold each other's challenges; three salts, so that one is in NVS and another
  in RAM while a third is offered. `MaxFailed = 2` instead of 5: one wrong answer that does not lock and
  one that does. Two logins: a session before and after a change of password. One restart leaves a
  second one only NVS as it already is. The properties are proved for any of these.
- **Improv.** A byte has eight values so that the checksum wraps and every length, command and type has
  a byte below, at and above it; the header is two bytes, of which the second never is the first, as in
  `"IMPROV"` (`HuntsForHeader` is proved for a header of any length). Seven of the eight
  values are sent; 5, which is no type, command or size, is not. Names of up to two bytes and passwords of one byte fit their buffers, and both are also sent one
  byte too long, so that each of the three length tests is the one that decides for some packet (without
  `ssidLen >= SsidMax`, or without `pwLen >= PasswordMax`, `TriesWhatWasSent` fails). Packets that ask for nothing
  are only followed up to three bytes (`MCBound`). All three invariants are proved for all sizes.
- **StatusLed.** Four losses or addresses: enough for the LED to go through every pattern around one
  opening of the access point, with a change cutting into another one and two more after it. The
  proofs hold for any number; `KeepsBlinking` would fail if they never ended, since each change starts
  its pattern over.

`CHECK_DEADLOCK FALSE` is set for `Wifi` only: a bridge whose networks never answer, with no caller
and no restarts left, really does come to rest with its access point open.

## 4. Fairness

- `WsBridge!Fairness`: a running timer goes off; the host starts; a dial ends within the time it is
  given, a terminated link and a scan end, and a GATT procedure is answered - all by the stack's
  own timeouts. Browsers and storages owe nothing: no connect, close, or message is assumed.
- `Firmware!FwFairSpec`: `app_main` runs on (and an image that works gets an address or opens its
  access point), the restart timer goes off, and the owner unplugs a bridge that stays silent,
  which is what `boot_guard.h` counts on. No update is assumed to arrive or to finish.
- `Wifi!FairSpec`: the event loop and the timers run. Networks and callers owe nothing. Only
  `FallbackOpens` is checked under `AnsweringSpec`, where the driver answers each attempt to join,
  so that its violation is not the driver's silence.
- `StatusLed!FairSpec`: each task runs on when those above it let it, and the timer goes off. No event is
  assumed to come.

## 5. Proofs

`BleCentral_proofs` - `BleInv` = types, `KnownLinkIsUp`, `NothingLeftOver`. None is inductive
alone: links told to close are links only because `ble_gap_terminate` is called on a handle that
names one. For any storages and any order of callbacks and calls.

`WsBridge_proofs` - `RelayInv` adds to the types that the books match the stack, that an unwatched
link *or dial* is on the clock (a dial that succeeds becomes a link), and that a link which idled is
known, subscribed, and either closing or marked abandoned. Assumes one storage (`OneStorage`, an
ASSUME/PROVE hypothesis); any sockets, clients and retries. The range of `s_refresh_left` is part
of `TypeOK`: the guard against decrementing it below zero is what keeps it there.

`Firmware_proofs` - `FwInv` adds to `Lifeline` that only a good image serves an update
(`ReachedIsGood`), that nothing changes what is booted before the bridge can be reached
(`BootedAsTold`), and what a set flag means (`FlagHasReason`): the image the bootloader chooses
does not become reachable, or had no time to. `LeavesOnlyIfCut` follows from the last. For any
number of power cuts.

`Wifi_proofs` - `WfInv` has three layers: the last reported event agrees with the station
(`AddressIsTrue`, `OffIsSilent`); a trial that runs alone owns the station (`TrialIsAlone`,
`TrialOwnsStation`, `TrialIsForNetwork`, `SettingsAreBack`, `BuiltInUntilStored`); and something is
always under way unless a network was lost while its trial returned (`SomebodyTries`, `StartIsOver`,
`TrialLeavesTrack`, `NotGivenUp`). A last section strengthens `LedIsTrue` in the same way. For any
networks, callers, retries and bounds.

`WsBridge_proofs` ends in the refinement: every step of the relay is a step of `LinkHold` or a stutter
(`RelayImplementsLinkHold`). Who the link is held for changes by a broadcast only through losing the
last client (`BroadcastAudience`), how the link is only in four ways (`LinkMoves`), and a link can come
up only out of a dial, which `HeldOnPurpose` keeps from running for nobody.

`Auth_proofs` - `AuthInv` = types and `Links`, which ties what is stored, in force, offered and handed
out together: nothing is set before the claim, NVS agrees with RAM up to what `lapses` records and
what the running handler is about to write, the handler knows whether it claims or changes, and the
holder of the nonce was handed the salt in force unless it was handed out early. `KeyFitsSalt` alone is
not inductive: a restart makes it depend on what NVS holds, and that on how far a handler got. For any
browsers, passwords, salts and bounds.

`Improv_proofs` - `ImprovInv` = types and `Kept`: once the length byte is in the buffer it is at most
`MAX_PAYLOAD` and the packet is not yet complete, which is why one more byte always fits. `HuntInv`
says that the packet is the longest run of the last bytes that begins a header; when a run breaks off,
no shorter one but the byte itself can begin another, because the first byte of the header does not
come a second time in it. `HuntsForHeader` follows. For any header without a second first byte, any
byte width and payload limit.

The network tried takes no invariant, only one step and how a payload is laid out: `EncodesIs` says byte
by byte what the protocol encodes, and `TakesWhatIsEncoded` that the three length tests of
`handle_wifi_settings` refuse exactly the bytes that encode no name and password fitting into their
buffers, and that the places it copies from are theirs. For any sizes and any request numbers that differ.

`RelayTasks_proofs` - `TasksInv`, the inductive invariant of all its theorems, has five layers. `Places`: what each task can come to, and go on with
there. `Budget`: `s_refresh_left` is not below zero but for the other two tasks having decided on the same
attempt. `Central`: no dial runs beside a link, and what `ble_central.c` believes is what the stack does but
for a dial that crossed another one or the end of the last link. `AudienceInv` follows one hand-over through the sections: a link or dial has somebody to watch
it, or a clock running, or a handler on its way to starting the clock, or the timer task on its way to hanging
up (`Books`, `Held`, `ExpiredInTime`); with nobody there `s_link_abandoned` is set or about to be
(`AbandonedIsNoted`), so that a link that idled meets a handshake which hangs it up (`Mute`). `StatusInv` follows what each task has read
of the link (`Reads`): what it is about to tell is so, or another task has changed it and the task is `late`; and
whenever the last status is wrong of the link, and not by being overtaken, some task still owes a status that
puts it right (`Shown`, `Owed`). The
properties hold when every task has finished; each needs what its writer still has to do while one has
not. For any number of sockets and retries and every interleaving of the sections.

From the same invariant `TasksImplementLinkHold` proves the refinement, one lemma for each task's sections. `Drop`
or `Close` is the step `Leave`, the timer task's `HangUp` is `Expire`, `Add` is `Arrive` and the link's coming up
`Take`; losing the last client to a failed send, or cancelling the clock for a client already lost, is `GoUnnoticed`.
Most sections are stutters because they lie `Aside`: none of them is on the way to a grace period or to
its end (`GraceKept`). The invariant is needed in three places: nobody hangs up but on the way it names
(`Places`), the link that is up when the clock ends is one the central knows and so can hang up (`Central`), and a
dial that succeeds does so for somebody (`Held`). That no link is up with nobody there and no clock running once the
tasks have finished follows (`NoneHeldForNobodyCorrect`, from the invariant itself).

`StatusLed_proofs` - `LedInv` adds to the types and `NeverDark` (the timer runs whenever no
change is under way, which `KeepsBlinking` rests on) what a change that cut into no other one
leaves behind (`PatternInv`): nobody of a lower priority is in the middle of a change (`Alone`), whoever
has the length still to write has written the pattern (`LengthFollows`), the length fits else
(`LengthFits`), and so do the step and every step about to be stored (`StepFits`). For any number of events.

Below four of the liveness properties lies a theorem that says what a step may never do, and leaves to
fairness only that steps are taken. The second is checked by `relay_pass`; no run checks the other three, to which
TLC has found no counterexample on the instances of the runs.

- `RecoveryCorrect`, for `Recovers`: on the way to a bridge that can be reached every step of `app_main`, of a panic
  and of the owner lowers `Distance`, a number in `0 .. 35`, updates leave it as it is, and only a power cut
  raises it. `Boots` counts the boots ahead, at most three: a good image whose flag was left by a cut is given up,
  the other one is tried, found mute and given up in turn, and the good one stays. It rests on `FwInv` and on
  `BootIsWatched`, that app_main starts anything else only with the flag set. Excepted is a torn
  web partition (the finding `web_upload_cut`).
- `ConnectingIsUnderWayCorrect`, for `ConnectingEnds`: browsers are shown "connecting" only while a dial runs or a
  link is up that is not usable yet: whatever ends the one or makes the other says so last (`ConnectingIsUnderWay`, an invariant of the run). With one
  storage, which `BooksMatchStack` needs.
- `FallbackIsKeptCorrect`, for `ReachableAfterStart`: from a start on the fallback timer runs until an address or the
  access point is there; no loss, retry or trial stops it.
- `ReadyToBlinkCorrect`, for `KeepsBlinking`: once a change that cut into no other one is over the timer runs, and the
  light is that of the step before the one to come, so that it changes each time the timer goes off. Its
  invariant says that between the stop of the timer and its start nobody else is (`OneAdvances`, `TimerWaits`).

Assumptions on constants are `BleAssumption`, `RelayAssumption`, `FirmwareAssumption`,
`WifiAssumption`, `NoneAssumption` and `BoundAssumption` (Auth), `HeaderAssumption`,
`SizeAssumption`, `StringAssumption` and `CommandAssumption` (Improv), `TasksAssumption` (RelayTasks)
and `LedAssumption`, next to the constants; TLC evaluates them on every run. Every invariant and every
action property that a passing run checks is also a theorem.

**Only model-checked:** liveness itself (`ConnectingEnds`, `Recovers`, `ReachableAfterStart`,
`KeepsBlinking`, and the fairness part of `KeepsPromise` in `WsBridge`), which TLAPS cannot do under fairness: that a
step which is due can be taken, and is. Then that `RelayTasks` and the other systems checked for it never
deadlock, which would take ENABLED.

## 6. Where the code and its words disagree

| run | what happens | where |
|---|---|---|
| `held_for_nobody` | A send that fails drops the last client and starts no grace period; the storage stays taken | `ws_bridge.c:258` |
| `rebind_under_link` | Binding renames the device the bridge is still connected to | `ws_bridge.c:467` |
| `web_upload_cut` | A half-written web partition stops every boot before the server is up | `storage.c:37` |
| `no_fallback` | A network lost for good after a first address leaves no access point | `wifi.c:346` |

Each is the counterexample of a property that states what the quoted line says. Behaviours seen while
modelling that the source promises nothing definite about: a refresh that fires between a reload's close
and open gives up, and the browser has to ask for the link (`ws_bridge.c:149`); the timer may hold one step
read beyond the end of a new, shorter pattern, when it cuts in before `s_step` is reset
(`status_led.c:113`, the exception in `OnePattern`), and an access point opened between the test of
`s_ap_active` and the change of the LED is shown as no WiFi (`wifi.c:312`); a dial or a second scan ends
a running scan without its results (`ble_central.c:601`, `542`); the slot gone back to may hold an image that was
uploaded and never booted (`boot_guard.c:59`); with the access point up the LED keeps flashing online
after a loss (`wifi.c:312`, the exception in `LedIsTrue`); a link whose discovery ends in an ATT error
stays up in silence (`ble_central.c:275`, `Stalled`), and a browser that comes or presses connect once its
handle was found is told "connected" (`ws_bridge.c:520`, `ble_central.c:579`); a network lost while the trial
that joined it returns is reported to the trial alone, and nobody tries again until a restart or another trial
(`wifi.c:307`, the exception `lostInTrial` in `KeepsTrying` and `LedIsTrue`); settings that the driver refuses
because it still joins when a trial is given up are not put back, and the network tried is tried on
(`wifi.c:509`, the exception `refused` in `ConfigIsShown`); a rebind during discovery leaves a link nobody can
terminate (`ble_central.c:382`); across tasks `s_refresh_left` can go below zero, harmlessly.

## 7. What is abstracted, and what is not modelled

- In `WsBridge`, `Firmware` and `Wifi` a handler runs to its end, or to where it writes or waits. What
  that leaves out of the relay is in `RelayTasks`, which in turn leaves out the messages `scan` and
  `bind`, a host that is not ready and a table of clients that is full.
- The composition of `WsBridge` with two storages: the link a rebind leaves behind breaks
  `BooksMatchStack`, on which everything else rests; `BleCentral` alone is checked with three.
- Payloads, the statistics, the MTU exchange, pairing, the second subscription, scan results with their
  address types, progress reports, signal strength; loading and storing the binding in NVS.
- An NVS that cannot be opened or written, except in `Auth` and where `Kept` and `OnGotIp` fail to
  store; an access point or a radio that does not start.
- In `Wifi` the 300 ms pause is assumed to be enough for the event loop to handle what the driver
  had posted, and `esp_wifi_set_config` to succeed unless the station is joining, when it may be refused;
  the `esp_wifi_connect` after it succeeds on an idle station. The two writes of `credentials_save` are one. The hostname and mDNS are left out.
- In `Auth`, requests nobody can read, cookies and hexadecimal digits, and random values that repeat.
- In `StatusLed`, how long a step is held and which level means on.
- The setup page's parsing (it calls what `Wifi` models), the web server (files, no state), the web
  installer and the build.

## 8. Order of work

`BleCentral`, `WsBridge` with `LinkHold`, `Firmware` and `Wifi` came first, then `Auth`, `RelayTasks`,
`Improv` and `StatusLed`, each with its run and its proof. The steps below the liveness
properties were proved last. `RelayTasks` was then shown to keep the same promise as `WsBridge`. What would come next: that with
its sections run through it does what `WsBridge` does, handler by handler; the two writes of
`credentials_save`; NVS failures in the boot guard.
