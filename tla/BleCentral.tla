------------------------------ MODULE BleCentral ------------------------------
(***************************************************************************)
(* The Bluetooth side of the bridge, main/ble_central.c: one storage is    *)
(* dialled, its Marstek service discovered step by step in GATT callbacks, *)
(* and every change of the link reported upwards through s_on_state.       *)
(*                                                                         *)
(* A callback runs on the NimBLE host task and is one action; an API call  *)
(* runs on whatever task makes it and is one action.  The NimBLE host and  *)
(* the radio are external: the procedure GAP is running, the links that    *)
(* are up with the GATT procedure each one waits for, and the links        *)
(* ble_gap_terminate has been asked to end.  A connection handle is named  *)
(* by the storage at its other end, since the stack never holds two links  *)
(* to one peer.                                                            *)
(*                                                                         *)
(* Left out: the MTU exchange, pairing, the second subscription on the     *)
(* write characteristic and the counters, which only the diagnostics read; *)
(* the scan results with the address types they carry; the payloads.       *)
(***************************************************************************)
EXTENDS Naturals, Sequences, FiniteSets

CONSTANTS
    Storages,   \* the storages in range, a device's address standing for it
    None,       \* BLE_HS_CONN_HANDLE_NONE; the empty name
    MaxLinks    \* CONFIG_BT_NIMBLE_MAX_CONNECTIONS

ASSUME BleAssumption == /\ None \notin Storages
                        /\ Storages \cap {"idle", "disc"} = {}
                        /\ MaxLinks \in Nat \ {0}

VARIABLES
    hostReady,   \* s_host_ready
    connHandle,  \* s_conn_handle
    tx,          \* s_tx_handle # 0: the write characteristic has been found
    rx,          \* s_rx_handle # 0: the notify characteristic has been found
    cccd,        \* s_rx_cccd_handle # 0: its configuration descriptor too
    subscribed,  \* s_subscribed
    pending,     \* s_connect_pending
    onScan,      \* s_on_scan is set: somebody waits for scan results
    name,        \* s_device_name, None when empty
    gap,         \* the stack: "idle", "disc" (scanning), or the peer it dials
    proc,        \* the stack: per storage, what its link waits for
    closing,     \* the stack: links ble_gap_terminate was called on
    said         \* the states the last step passed to s_on_state, in order

api     == <<hostReady, pending, onScan>>
handles == <<tx, rx, cccd>>
stack   == <<gap, proc, closing>>
bleVars == <<hostReady, connHandle, tx, rx, cccd, subscribed, pending, onScan,
             name, gap, proc, closing, said>>

States == {"idle", "scanning", "connecting", "connected", "disconnected", "error"}

\* The GATT procedure a link waits for: service, characteristics, descriptors,
\* the subscribing write, the name; "none" when there is no link and "done"
\* when the link waits for nothing any more.
Procs == {"none", "svc", "chr", "dsc", "sub", "name", "done"}

Links == {s \in Storages : proc[s] # "none"}

IsConnected == connHandle # None /\ tx

BleTypeOK ==
    /\ hostReady \in BOOLEAN /\ pending \in BOOLEAN /\ onScan \in BOOLEAN
    /\ tx \in BOOLEAN /\ rx \in BOOLEAN /\ cccd \in BOOLEAN /\ subscribed \in BOOLEAN
    /\ connHandle \in Storages \cup {None} /\ name \in Storages \cup {None}
    /\ gap \in Storages \cup {"idle", "disc"}
    /\ proc \in [Storages -> Procs]
    /\ closing \subseteq Links
    /\ \/ said = <<>>
       \/ \E a \in States : said = <<a>>
       \/ \E a, b \in States : said = <<a, b>>

\* Nothing runs yet.  ws_bridge_start has set the name of the storage the
\* bridge was bound to before it starts the host.
BleInit ==
    /\ hostReady = FALSE
    /\ connHandle = None
    /\ tx = FALSE /\ rx = FALSE /\ cccd = FALSE
    /\ subscribed = FALSE
    /\ pending = FALSE
    /\ onScan = FALSE
    /\ name \in Storages \cup {None}
    /\ gap = "idle"
    /\ proc = [s \in Storages |-> "none"]
    /\ closing = {}
    /\ said = <<>>

-----------------------------------------------------------------------------
(* Host plumbing *)

HostSync ==
    /\ ~hostReady
    /\ hostReady' = TRUE
    /\ said' = <<>>
    /\ UNCHANGED <<connHandle, handles, subscribed, pending, onScan, name, stack>>

\* The stack ends every link and procedure, each with its own event, before it
\* calls reset_cb.
HostReset ==
    /\ hostReady
    /\ Links = {} /\ gap = "idle"
    /\ hostReady' = FALSE
    /\ said' = <<>>
    /\ UNCHANGED <<connHandle, handles, subscribed, pending, onScan, name, stack>>

-----------------------------------------------------------------------------
(* GAP events *)

DiscCompleteAlwaysConnected ==  \* mutant: does not ask whether there is a link
    /\ gap = "disc"
    /\ gap' = "idle"
    /\ onScan' = FALSE
    /\ said' = <<"connected">>
    /\ UNCHANGED <<hostReady, connHandle, handles, subscribed, pending, name, proc, closing>>

DiscComplete ==
    /\ gap = "disc"
    /\ gap' = "idle"
    /\ onScan' = FALSE
    /\ said' = <<IF IsConnected THEN "connected" ELSE "idle">>
    /\ UNCHANGED <<hostReady, connHandle, handles, subscribed, pending, name, proc, closing>>

ConnectFailedSilently ==  \* mutant: does not report the failure
    /\ gap \in Storages
    /\ gap' = "idle"
    /\ pending' = FALSE
    /\ connHandle' = None
    /\ said' = <<>>
    /\ UNCHANGED <<hostReady, handles, subscribed, onScan, name, proc, closing>>

ConnectFailedStaysPending ==  \* mutant: s_connect_pending is left set
    /\ gap \in Storages
    /\ gap' = "idle"
    /\ connHandle' = None
    /\ said' = <<"error">>
    /\ UNCHANGED <<hostReady, handles, subscribed, pending, onScan, name, proc, closing>>

ConnectFailed ==
    /\ gap \in Storages
    /\ gap' = "idle"
    /\ pending' = FALSE
    /\ connHandle' = None
    /\ said' = <<"error">>
    /\ UNCHANGED <<hostReady, handles, subscribed, onScan, name, proc, closing>>

Connected ==
    /\ gap \in Storages
    /\ gap' = "idle"
    /\ pending' = FALSE
    /\ connHandle' = gap
    /\ tx' = FALSE /\ rx' = FALSE /\ cccd' = FALSE
    /\ proc' = [proc EXCEPT ![gap] = "svc"]
    /\ said' = <<>>
    /\ UNCHANGED <<hostReady, subscribed, onScan, name, closing>>

LinkLostKeepsHandle(s) ==  \* mutant: s_conn_handle is left as it was
    /\ s \in Links
    /\ proc' = [proc EXCEPT ![s] = "none"]
    /\ closing' = closing \ {s}
    /\ pending' = FALSE
    /\ tx' = FALSE /\ rx' = FALSE /\ cccd' = FALSE
    /\ subscribed' = FALSE
    /\ name' = None
    /\ said' = <<"disconnected">>
    /\ UNCHANGED <<hostReady, connHandle, onScan, gap>>

LinkLostKeepsSubscription(s) ==  \* mutant: s_subscribed is left as it was
    /\ s \in Links
    /\ proc' = [proc EXCEPT ![s] = "none"]
    /\ closing' = closing \ {s}
    /\ pending' = FALSE
    /\ connHandle' = None
    /\ tx' = FALSE /\ rx' = FALSE /\ cccd' = FALSE
    /\ name' = None
    /\ said' = <<IF subscribed THEN "disconnected" ELSE "error">>
    /\ UNCHANGED <<hostReady, subscribed, onScan, gap>>

LinkLostInSilence(s) ==  \* mutant: the end of a link nobody could use is not reported
    /\ s \in Links
    /\ proc' = [proc EXCEPT ![s] = "none"]
    /\ closing' = closing \ {s}
    /\ pending' = FALSE
    /\ connHandle' = None
    /\ tx' = FALSE /\ rx' = FALSE /\ cccd' = FALSE
    /\ subscribed' = FALSE
    /\ name' = None
    /\ said' = IF subscribed THEN <<"disconnected">> ELSE <<>>
    /\ UNCHANGED <<hostReady, onScan, gap>>

\* The link to s is gone.  The stack first fails the GATT procedure still
\* running on it, and two callbacks answer that with a state of their own.
LinkLost(s) ==
    /\ s \in Links
    /\ proc' = [proc EXCEPT ![s] = "none"]
    /\ closing' = closing \ {s}
    /\ pending' = FALSE
    /\ connHandle' = None
    /\ tx' = FALSE /\ rx' = FALSE /\ cccd' = FALSE
    /\ subscribed' = FALSE
    /\ name' = None
    /\ LET last == IF subscribed THEN "disconnected" ELSE "error"
       IN  said' = CASE proc[s] = "sub"  -> <<"error", last>>
                     [] proc[s] = "name" -> <<"connected", last>>
                     [] OTHER            -> <<last>>
    /\ UNCHANGED <<hostReady, onScan, gap>>

-----------------------------------------------------------------------------
(* Discovery, one callback after the other *)

\* A callback that lets go of a link it cannot use.
GiveUp(s) ==
    /\ proc' = [proc EXCEPT ![s] = "done"]
    /\ closing' = closing \cup {s}
    /\ said' = <<"error">>
    /\ UNCHANGED <<api, connHandle, handles, subscribed, name, gap>>

\* A callback that starts the next procedure, or none, and says nothing.
Proceed(s, from, to) ==
    /\ proc[s] = from
    /\ proc' = [proc EXCEPT ![s] = to]
    /\ said' = <<>>
    /\ UNCHANGED <<api, connHandle, subscribed, name, gap, closing>>

ServiceFound(s) == Proceed(s, "svc", "chr") /\ UNCHANGED handles

\* The service procedure ends.  That can also come once the characteristics are
\* being read: on_service then looks at s_tx_handle all the same.
ServiceMissing(s) ==
    \/ proc[s] \in {"svc", "chr"} /\ ~tx /\ GiveUp(s)
    \/ tx /\ Proceed(s, "svc", "done") /\ UNCHANGED handles

CharacteristicFound(s) ==
    /\ Proceed(s, "chr", "chr")
    /\ \/ tx' = TRUE /\ UNCHANGED rx
       \/ rx' = TRUE /\ UNCHANGED tx
    /\ UNCHANGED cccd

CharacteristicsDone(s) ==
    \/ proc[s] = "chr" /\ ~(tx /\ rx) /\ GiveUp(s)
    \/ tx /\ rx /\ Proceed(s, "chr", "dsc") /\ UNCHANGED handles

DescriptorFound(s) ==
    /\ Proceed(s, "dsc", "dsc")
    /\ cccd' = TRUE
    /\ UNCHANGED <<tx, rx>>

DescriptorsDone(s) ==
    \/ proc[s] = "dsc" /\ ~cccd /\ GiveUp(s)
    \/ cccd /\ Proceed(s, "dsc", "sub") /\ UNCHANGED handles

\* An ATT error other than "no more": the three callbacks return without a word.
DiscoveryError(s) ==
    \E from \in {"svc", "chr", "dsc"} : Proceed(s, from, "done") /\ UNCHANGED handles

SubscribeRefused(s) == proc[s] = "sub" /\ GiveUp(s)

\* Subscribed; the name is read next, or the link announced at once when that
\* request cannot be queued.
SubscribeDone(s) ==
    /\ proc[s] = "sub"
    /\ subscribed' = TRUE
    /\ \/ proc' = [proc EXCEPT ![s] = "name"] /\ said' = <<>>
       \/ proc' = [proc EXCEPT ![s] = "done"] /\ said' = <<"connected">>
    /\ UNCHANGED <<api, connHandle, handles, name, gap, closing>>

NameRead(s) ==
    /\ proc[s] = "name"
    /\ name' = s
    /\ said' = <<>>
    /\ UNCHANGED <<api, connHandle, handles, subscribed, stack>>

NameDone(s) ==
    /\ proc[s] = "name"
    /\ proc' = [proc EXCEPT ![s] = "done"]
    /\ said' = <<"connected">>
    /\ UNCHANGED <<api, connHandle, handles, subscribed, name, gap, closing>>

-----------------------------------------------------------------------------
(* The API, called by the relay *)

\* ble_central_scan.  A scan does not start beside another one or beside a
\* dial, and then nobody waits for results any more.
Scan ==
    /\ hostReady
    /\ \/ /\ gap = "idle"
          /\ gap' = "disc"
          /\ onScan' = TRUE
          /\ said' = <<"scanning">>
       \/ /\ gap # "idle"
          /\ onScan' = FALSE
          /\ said' = <<"scanning", "error">>
          /\ UNCHANGED gap
    /\ UNCHANGED <<hostReady, connHandle, handles, subscribed, pending, name, proc, closing>>

\* Why ble_gap_connect turns a down: a dial outstanding, a link to a already,
\* no room for another link.
DialRefused(a) == gap \in Storages \/ a \in Links \/ Cardinality(Links) >= MaxLinks

\* ble_central_connect, past the check that the host is ready.  The dial
\* cancels a scan, which ends it without an event.
Connect(a) ==
    /\ hostReady
    /\ \/ /\ pending
          /\ said' = <<"connecting">>
          /\ UNCHANGED <<gap, pending>>
       \/ /\ ~pending /\ IsConnected
          /\ said' = <<"connected">>
          /\ UNCHANGED <<gap, pending>>
       \/ /\ ~pending /\ ~IsConnected /\ ~DialRefused(a)
          /\ gap' = a
          /\ pending' = TRUE
          /\ said' = <<"connecting">>
       \/ /\ ~pending /\ ~IsConnected /\ DialRefused(a)
          /\ gap' = IF gap = "disc" THEN "idle" ELSE gap
          /\ said' = <<"connecting", "error">>
          /\ UNCHANGED pending
    /\ UNCHANGED <<hostReady, connHandle, handles, subscribed, onScan, name, proc, closing>>

\* What ble_central_disconnect adds to the links being closed.
Released == IF connHandle = None THEN {} ELSE {connHandle}

DisconnectUnchecked ==  \* mutant: terminates whatever s_conn_handle says
    /\ closing' = closing \cup {connHandle}
    /\ said' = <<>>
    /\ UNCHANGED <<api, connHandle, handles, subscribed, name, gap, proc>>

Disconnect ==
    /\ closing' = closing \cup Released
    /\ said' = <<>>
    /\ UNCHANGED <<api, connHandle, handles, subscribed, name, gap, proc>>

SetDeviceName(s) ==
    /\ name' = s
    /\ said' = <<>>
    /\ UNCHANGED <<api, connHandle, handles, subscribed, stack>>

-----------------------------------------------------------------------------

Discovery(s) ==
    \/ ServiceFound(s) \/ ServiceMissing(s)
    \/ CharacteristicFound(s) \/ CharacteristicsDone(s)
    \/ DescriptorFound(s) \/ DescriptorsDone(s)
    \/ DiscoveryError(s)
    \/ SubscribeRefused(s) \/ SubscribeDone(s)
    \/ NameRead(s) \/ NameDone(s)

\* The callback that ends the procedure the link to s waits for.
Answered(s) ==
    \/ ServiceFound(s) \/ ServiceMissing(s) \/ CharacteristicsDone(s)
    \/ DescriptorsDone(s) \/ SubscribeRefused(s) \/ SubscribeDone(s) \/ NameDone(s)

\* What the host task runs of its own accord.
HostTask ==
    \/ HostSync \/ HostReset
    \/ DiscComplete \/ ConnectFailed \/ Connected
    \/ \E s \in Storages : LinkLost(s) \/ Discovery(s)

Api == Scan \/ Disconnect \/ \E s \in Storages : Connect(s) \/ SetDeviceName(s)

BleNext == HostTask \/ Api

BleSpec == BleInit /\ [][BleNext]_bleVars

-----------------------------------------------------------------------------
(* Properties *)

\* ble_gap_terminate, ble_gap_conn_rssi and every write go to s_conn_handle: it
\* never names a link that is gone, whatever else was dialled meanwhile and
\* whichever link DISCONNECT was about.
KnownLinkIsUp == connHandle # None => connHandle \in Links

\* Once no link is up nothing of the last one is left: no handle a write could
\* go to, and no subscription that would make DISCONNECT report a link that
\* was never usable as one that ended.
NothingLeftOver == Links = {} => connHandle = None /\ ~(tx \/ rx \/ cccd \/ subscribed)

\* With one storage the link the bridge knows is the only one there is,
\* s_connect_pending is set exactly while the stack dials, and what s_subscribed
\* says is so.  The early returns of ble_central_connect and the reading of
\* was_usable in DISCONNECT rest on this.
BooksMatchStack ==
    /\ Links = Released
    /\ pending <=> gap \in Storages
    /\ pending => Links = {}
    /\ subscribed => tx /\ \E s \in Links : proc[s] \in {"name", "done"}
===============================================================================
